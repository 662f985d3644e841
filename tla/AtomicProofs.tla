---------------------------- MODULE AtomicProofs ----------------------------
(***************************************************************************)
(* Proofs about kn-code-atomic: the transaction journal, for any set of    *)
(* transactions and any number of loads, purges and crashes, and the       *)
(* staging area, for any set of targets and file names, any number of      *)
(* changes from outside and a commit that fails or is interrupted          *)
(* anywhere.                                                               *)
(*                                                                         *)
(* A load and the tasks that mark share no lock.  What keeps a load from   *)
(* taking a committed transaction for an incomplete one is that the marker *)
(* of a resolved transaction is on disk until a purge removes it, and that *)
(* no marker is written twice; what keeps it from overlooking an           *)
(* incomplete one is that only resolved transactions have markers.         *)
(*                                                                         *)
(* A commit walks the same changes three times: it backs them up, installs *)
(* them, and removes the backups or, after a failure, restores them.  What *)
(* its properties need is how far each walk has come: LoopInv.  OriginalInv*)
(* says where the content of a target is at each point of the walks, and   *)
(* StagedInv where the content that was staged for it is.                  *)
(***************************************************************************)
EXTENDS Journal, StagingArea, TLAPS

-----------------------------------------------------------------------------
(* The journal                                                             *)

\* A purge has removed the marker of t.
Unmarked(t) == \E x \in Markers : <<t, x>> \in old \ files

MarkersInv ==
  /\ \A t \in resolved : \E x \in Markers : <<t, x>> \in files \cup old
  /\ \A t \in Transactions, x \in Markers :
       /\ <<t, x>> \in marking => t \notin resolved
       /\ <<t, x>> \in files => t \in resolved
  /\ \A t \in Transactions : \A x, y \in Markers :
       <<t, x>> \in marking /\ <<t, y>> \in marking => x = y

LoadInv ==
  /\ before.resolved \subseteq resolved
  /\ \A t \in before.written : Entry(t) \in files \cup old
  /\ loadPc = "idle" => unseen = {} /\ found = {}
  /\ \A t \in before.resolved : t \in found \/ loadPc = t => Unmarked(t)
  /\ loadPc # "idle" =>
       \A t \in before.written \ resolved :
         Entry(t) \in files \ old => t \in unseen \/ loadPc = t \/ t \in found

TypeInv ==
  /\ files \subseteq Files /\ old \subseteq Files
  /\ marking \subseteq Transactions \X Markers
  /\ resolved \subseteq Transactions
  /\ before \in [written : SUBSET Transactions, resolved : SUBSET Transactions]
  /\ loadPc \in {"idle", "scan"} \cup Transactions
  /\ unseen \subseteq Transactions /\ found \subseteq Transactions

JournalInv == TypeInv /\ MarkersInv /\ LoadInv

-----------------------------------------------------------------------------
(* Each operation keeps the invariant                                      *)

LEMMA JournalInvInit == JournalInit => JournalInv
  BY DEF JournalInit, JournalInv, TypeInv, MarkersInv, LoadInv, NoLoad, Files

LEMMA WriteKeepsInv ==
  ASSUME JournalInv, NEW t \in Transactions, Write(t)
  PROVE  JournalInv'
<1>. USE DEF JournalInv
<1>1. /\ Entry(t) \notin files \cup old /\ files' = files \cup {Entry(t)}
      /\ unseen' \in (IF loadPc = "idle" THEN {unseen} ELSE {unseen, unseen \cup {t}})
      /\ UNCHANGED <<old, marking, resolved, loadPc, found, before>>
  BY DEF Write
<1>2. TypeInv'
  BY <1>1 DEF TypeInv, Entry, Files
<1>3. \A u \in Transactions, x \in Markers : <<u, x>> # Entry(t)
  BY DEF Entry, Markers
<1>4. MarkersInv'
  BY <1>1, <1>3 DEF MarkersInv, TypeInv
<1>5. \A u \in Transactions : Unmarked(u)' <=> Unmarked(u)
  BY <1>1, <1>3 DEF Unmarked
<1>6. t \notin before.written
  BY <1>1 DEF LoadInv
<1>7. \A u \in Transactions \ {t} : Entry(u) # Entry(t)
  BY DEF Entry
<1>8. unseen \subseteq unseen' /\ (loadPc = "idle" => unseen' = unseen)
  BY <1>1
<1>9. LoadInv'
  BY <1>1, <1>5, <1>6, <1>7, <1>8 DEF LoadInv, TypeInv
<1>. QED  BY <1>2, <1>4, <1>9

LEMMA MarkKeepsInv ==
  ASSUME JournalInv, NEW t \in Transactions, NEW x \in Markers, BeginMark(t, x) \/ EndMark(t, x)
  PROVE  JournalInv'
<1>. USE DEF JournalInv
<1>1. CASE BeginMark(t, x)
  <2>1. t \notin resolved /\ (\A y \in Markers : <<t, y>> \notin marking) /\ marking' = marking \cup {<<t, x>>}
        /\ UNCHANGED <<files, old, resolved, loadPc, unseen, found, before>>
    BY <1>1 DEF BeginMark, loadVars
  <2>. QED  BY <2>1 DEF TypeInv, MarkersInv, LoadInv, Unmarked
<1>2. CASE EndMark(t, x)
  <2>1. /\ <<t, x>> \in marking /\ files' = files \cup {<<t, x>>}
        /\ marking' = marking \ {<<t, x>>} /\ resolved' = resolved \cup {t}
        /\ UNCHANGED <<old, loadPc, unseen, found, before>>
    BY <1>2 DEF EndMark, loadVars
  <2>2. t \notin resolved
    BY <2>1 DEF MarkersInv
  <2>3. TypeInv'
    BY <2>1 DEF TypeInv, Files
  <2>4. MarkersInv'
    <3>1. ASSUME NEW u \in Transactions, NEW y \in Markers
          PROVE  /\ <<u, y>> \in marking' => u \notin resolved'
                 /\ <<u, y>> \in files' => u \in resolved'
      BY <2>1 DEF MarkersInv
    <3>2. \A u \in Transactions : \A y, z \in Markers :
            <<u, y>> \in marking' /\ <<u, z>> \in marking' => y = z
      BY <2>1 DEF MarkersInv
    <3>3. \A u \in resolved' : \E y \in Markers : <<u, y>> \in files' \cup old'
      BY <2>1 DEF MarkersInv
    <3>. QED  BY <3>1, <3>2, <3>3 DEF MarkersInv
  <2>5. \A u \in before.resolved : Unmarked(u) => Unmarked(u)'
    <3>1. t \notin before.resolved
      BY <2>2 DEF LoadInv
    <3>. QED  BY <2>1, <3>1 DEF Unmarked
  <2>6. \A u \in Transactions : Entry(u) # <<t, x>>
    BY DEF Entry, Markers
  <2>7. LoadInv'
    BY <2>1, <2>5, <2>6 DEF LoadInv, TypeInv
  <2>. QED  BY <2>3, <2>4, <2>7
<1>. QED  BY <1>1, <1>2

\* The reads of load_incomplete change nothing but what the load knows.
LEMMA LoadStepKeepsInv ==
  ASSUME JournalInv, NEW t \in Transactions,
         SkipMarked(t) \/ SeeUnmarked(t) \/ ReadEntry(t)
  PROVE  JournalInv'
<1>. USE DEF JournalInv
<1>1. UNCHANGED <<files, old, marking, resolved, before>>
  BY DEF SkipMarked, SeeUnmarked, ReadEntry
<1>2. MarkersInv'
  BY <1>1 DEF MarkersInv
<1>3. CASE SkipMarked(t)
  <2>1. loadPc = "scan" /\ unseen' = unseen \ {t} /\ loadPc' = loadPc /\ found' = found
    BY <1>3 DEF SkipMarked
  <2>2. t \in resolved
    BY <1>3 DEF SkipMarked, Marked, MarkersInv
  <2>. QED  BY <1>1, <1>2, <2>1, <2>2 DEF TypeInv, LoadInv, Unmarked
<1>4. CASE SeeUnmarked(t)
  <2>1. /\ loadPc = "scan" /\ unseen' = unseen \ {t} /\ loadPc' = t /\ found' = found
        /\ ~Marked(t)
    BY <1>4 DEF SeeUnmarked
  <2>2. t # "idle" /\ t # "scan"
    BY JournalAssumption
  <2>3. t \in before.resolved => Unmarked(t)
    BY <2>1 DEF Marked, Unmarked, MarkersInv, LoadInv
  <2>4. TypeInv'
    BY <1>1, <2>1 DEF TypeInv
  <2>5. LoadInv'
    BY <1>1, <2>1, <2>2, <2>3, JournalAssumption DEF TypeInv, LoadInv, Unmarked
  <2>. QED  BY <1>2, <2>4, <2>5
<1>5. CASE ReadEntry(t)
  <2>1. loadPc = t /\ loadPc' = "scan" /\ found' = found \cup {t} /\ unseen' = unseen
    BY <1>5 DEF ReadEntry
  <2>2. t # "idle" /\ t # "scan"
    BY JournalAssumption
  <2>3. TypeInv'
    BY <1>1, <2>1 DEF TypeInv
  <2>4. LoadInv'
    BY <1>1, <2>1, <2>2, JournalAssumption DEF TypeInv, LoadInv, Unmarked
  <2>. QED  BY <1>2, <2>3, <2>4
<1>. QED  BY <1>3, <1>4, <1>5

\* The end of a load, by return, by an error or by a crash.
LEMMA LoadEndKeepsInv ==
  ASSUME JournalInv, EndLoad \/ (\E t \in Transactions : ReadFails(t)) \/ Crash
  PROVE  JournalInv'
<1>. USE DEF JournalInv
<1>1. /\ UNCHANGED <<files, old, resolved>> /\ marking' \in {marking, {}}
      /\ before' = NoLoad /\ loadPc' = "idle" /\ unseen' = {} /\ found' = {}
  BY DEF EndLoad, ReadFails, Crash
<1>2. TypeInv'
  BY <1>1 DEF TypeInv, NoLoad
<1>3. MarkersInv'
  BY <1>1 DEF MarkersInv
<1>4. LoadInv'
  BY <1>1 DEF LoadInv, NoLoad
<1>. QED  BY <1>2, <1>3, <1>4

LEMMA BeginLoadKeepsInv ==
  ASSUME JournalInv, BeginLoad
  PROVE  JournalInv'
<1>. USE DEF JournalInv
<1>1. /\ UNCHANGED <<files, old, marking, resolved>>
      /\ loadPc = "idle" /\ loadPc' = "scan" /\ unseen' = Written /\ found' = {}
      /\ before' = [written |-> Written, resolved |-> resolved]
  BY DEF BeginLoad
<1>2. TypeInv' /\ MarkersInv'
  BY <1>1 DEF TypeInv, MarkersInv, Written
<1>3. LoadInv'
  BY <1>1, JournalAssumption DEF LoadInv, TypeInv, Written
<1>. QED  BY <1>2, <1>3

LEMMA PurgeKeepsInv ==
  ASSUME JournalInv, NEW f \in Files, Age(f) \/ Sweep(f) \/ BeginPurge \/ EndPurge
  PROVE  JournalInv'
<1>. USE DEF JournalInv
<1>1. /\ UNCHANGED <<marking, resolved, loadPc, found, before>>
      /\ files' \subseteq files /\ old \subseteq old' /\ old' \subseteq Files
      /\ files \cup old \subseteq files' \cup old'
      /\ files' \ old' \subseteq files \ old
      /\ unseen' \subseteq unseen
      /\ \A t \in unseen \ unseen' : Entry(t) \in old
  BY DEF Age, Sweep, BeginPurge, EndPurge, TypeInv, loadVars
<1>2. TypeInv'
  BY <1>1 DEF TypeInv
<1>3. MarkersInv'
  BY <1>1 DEF MarkersInv
<1>4. \A t \in Transactions : Unmarked(t) => Unmarked(t)'
  BY <1>1 DEF Unmarked
<1>5. LoadInv'
  BY <1>1, <1>4 DEF LoadInv, TypeInv
<1>. QED  BY <1>2, <1>3, <1>5

LEMMA JournalInvStep == JournalInv /\ [JournalNext]_journalVars => JournalInv'
<1>. SUFFICES ASSUME JournalInv, [JournalNext]_journalVars PROVE JournalInv'
  OBVIOUS
<1>1. ASSUME NEW t \in Transactions, Write(t) PROVE JournalInv'
  BY <1>1, WriteKeepsInv
<1>2. ASSUME NEW t \in Transactions, SkipMarked(t) \/ SeeUnmarked(t) \/ ReadEntry(t) PROVE JournalInv'
  BY <1>2, LoadStepKeepsInv
<1>3. ASSUME NEW t \in Transactions, ReadFails(t) PROVE JournalInv'
  BY <1>3, LoadEndKeepsInv
<1>4. ASSUME NEW t \in Transactions, NEW x \in Markers, BeginMark(t, x) \/ EndMark(t, x) PROVE JournalInv'
  BY <1>4, MarkKeepsInv
<1>5. CASE BeginLoad
  BY <1>5, BeginLoadKeepsInv
<1>6. CASE EndLoad \/ Crash
  BY <1>6, LoadEndKeepsInv
<1>7. ASSUME NEW f \in Files, Age(f) \/ Sweep(f) PROVE JournalInv'
  BY <1>7, PurgeKeepsInv
<1>8. CASE BeginPurge \/ EndPurge
  <2>1. UNCHANGED <<files, old, marking, resolved, loadVars>>
    BY <1>8 DEF BeginPurge, EndPurge
  <2>. QED  BY <2>1 DEF loadVars, JournalInv, TypeInv, MarkersInv, LoadInv, Unmarked
<1>9. CASE UNCHANGED journalVars
  BY <1>9 DEF journalVars, JournalInv, TypeInv, MarkersInv, LoadInv, Unmarked
<1>. QED  BY <1>1, <1>2, <1>3, <1>4, <1>5, <1>6, <1>7, <1>8, <1>9 DEF JournalNext

-----------------------------------------------------------------------------
(* Theorems                                                                *)

\* A load and the tasks beside it keep the invariant.
THEOREM JournalInvariant == JournalSpec => []JournalInv
  BY JournalInvInit, JournalInvStep, PTL DEF JournalSpec

\* A load takes a resolved transaction for an incomplete one only if a purge
\* has removed its marker.
THEOREM MarkersAreSeen == JournalSpec => []ResolvedStaysResolved
<1>1. JournalInv => ResolvedStaysResolved
  BY DEF JournalInv, LoadInv, Unmarked, ResolvedStaysResolved
<1>. QED  BY <1>1, JournalInvariant, PTL

\* A load that returns has found every incomplete transaction of the journal.
THEOREM IncompleteAreFound == JournalSpec => LoadIsComplete
<1>1. JournalInv =>
        [EndLoad => \A t \in before.written \ resolved :
                      Entry(t) \in files \ old => t \in found]_journalVars
  <2>. SUFFICES ASSUME JournalInv, EndLoad, NEW t \in before.written \ resolved,
                       Entry(t) \in files \ old
                PROVE  t \in found
    OBVIOUS
  <2>1. loadPc = "scan" /\ unseen = {}
    BY DEF EndLoad
  <2>2. t \in Transactions /\ t # "scan"
    BY JournalAssumption DEF JournalInv, TypeInv
  <2>. QED  BY <2>1, <2>2 DEF JournalInv, LoadInv
<1>. QED  BY <1>1, JournalInvariant, PTL DEF JournalSpec, LoadIsComplete

\* A load has passed each entry once: what it saw stays on the list of the
\* directory's files, present or swept, and is not written a second time.
ListedInv ==
  /\ unseen \cap found = {} /\ loadPc \notin unseen
  /\ \A t \in Transactions :
       t \in unseen \cup found \/ loadPc = t => Entry(t) \in files \cup old

CallsAreCounted ==
  /\ purging \in BOOLEAN /\ unswept \subseteq Files
  /\ counts \in [loads : 0..MaxLoads, purges : 0..MaxPurges, crashes : 0..MaxCrashes]

LEMMA CountsStay ==
  ASSUME JournalInv, CallsAreCounted, [JournalNext]_journalVars
  PROVE  CallsAreCounted'
<1>. DEFINE Counts == [loads : 0..MaxLoads, purges : 0..MaxPurges, crashes : 0..MaxCrashes]
<1>1. /\ purging \in BOOLEAN /\ unswept \subseteq Files /\ files \subseteq Files
      /\ counts \in Counts
  BY DEF CallsAreCounted, JournalInv, TypeInv
<1>2. purging' \in BOOLEAN /\ unswept' \subseteq Files
  BY <1>1 DEF JournalNext, journalVars, Write, SkipMarked, SeeUnmarked, ReadEntry, ReadFails,
     BeginMark, EndMark, BeginLoad, EndLoad, Age, Sweep, BeginPurge, EndPurge, Crash, purgeVars
<1>3. \/ counts' = counts
      \/ counts.loads < MaxLoads /\ counts' = [counts EXCEPT !.loads = @ + 1]
      \/ counts.purges < MaxPurges /\ counts' = [counts EXCEPT !.purges = @ + 1]
      \/ counts.crashes < MaxCrashes /\ counts' = [counts EXCEPT !.crashes = @ + 1]
  BY DEF JournalNext, journalVars, Write, SkipMarked, SeeUnmarked, ReadEntry, ReadFails,
     BeginMark, EndMark, BeginLoad, EndLoad, Age, Sweep, BeginPurge, EndPurge, Crash
<1>4. counts' \in Counts
  <2>1. MaxLoads \in Nat /\ MaxPurges \in Nat /\ MaxCrashes \in Nat
    BY JournalAssumption
  <2>. QED
    BY ONLY <1>1, <1>3, <2>1
<1>. QED
  BY <1>2, <1>4 DEF CallsAreCounted

LEMMA ListedStay ==
  ASSUME JournalInv, ListedInv, [JournalNext]_journalVars
  PROVE  ListedInv'
<1>0. /\ unseen \subseteq Transactions /\ found \subseteq Transactions
      /\ "idle" \notin Transactions /\ "scan" \notin Transactions
      /\ loadPc = "idle" => unseen = {} /\ found = {}
  BY JournalAssumption DEF JournalInv, TypeInv, LoadInv
<1>1. \A t, u \in Transactions : Entry(t) = Entry(u) => t = u
  BY DEF Entry
<1>2. ASSUME NEW t \in Transactions, Write(t) PROVE ListedInv'
  <2>1. /\ Entry(t) \notin files \cup old /\ files' = files \cup {Entry(t)}
        /\ unseen' \in (IF loadPc = "idle" THEN {unseen} ELSE {unseen, unseen \cup {t}})
        /\ UNCHANGED <<old, loadPc, found>>
    BY <1>2 DEF Write
  <2>2. t \notin found /\ loadPc # t
    BY <2>1 DEF ListedInv
  <2>3. unseen' \subseteq unseen \cup {t}
    BY <2>1
  <2>. QED
    BY <1>0, <2>1, <2>2, <2>3 DEF ListedInv
<1>3. ASSUME NEW t \in Transactions, SkipMarked(t) \/ SeeUnmarked(t) \/ ReadEntry(t)
      PROVE  ListedInv'
  BY <1>0, <1>3 DEF ListedInv, SkipMarked, SeeUnmarked, ReadEntry
<1>4. CASE EndLoad \/ Crash \/ \E t \in Transactions : ReadFails(t)
  BY <1>0, <1>4 DEF ListedInv, EndLoad, Crash, ReadFails
<1>5. ASSUME NEW t \in Transactions, NEW x \in Markers, BeginMark(t, x) \/ EndMark(t, x)
      PROVE  ListedInv'
  BY <1>5 DEF ListedInv, BeginMark, EndMark, loadVars
<1>6. CASE BeginLoad
  BY <1>0, <1>6 DEF ListedInv, BeginLoad, Written
<1>7. ASSUME NEW f \in Files, Age(f) \/ Sweep(f) \/ BeginPurge \/ EndPurge
      PROVE  ListedInv'
  <2>1. /\ UNCHANGED <<loadPc, found>> /\ unseen' \subseteq unseen
        /\ files \cup old \subseteq files' \cup old'
    BY <1>7 DEF Age, Sweep, BeginPurge, EndPurge, loadVars
  <2>. QED
    BY <2>1 DEF ListedInv
<1>8. CASE BeginPurge \/ EndPurge \/ UNCHANGED journalVars
  BY <1>8 DEF ListedInv, BeginPurge, EndPurge, journalVars, loadVars
<1>. QED
  BY <1>2, <1>3, <1>4, <1>5, <1>6, <1>7, <1>8 DEF JournalNext

\* The journal's state stays in its types; no transaction is both found and
\* still to be seen.
THEOREM JournalStaysTyped == JournalSpec => []JournalTypeOK
<1>. DEFINE Inv == JournalInv /\ ListedInv /\ CallsAreCounted
<1>1. JournalInit => Inv
  <2>1. JournalInit => ListedInv
    BY JournalAssumption DEF JournalInit, ListedInv
  <2>2. JournalInit => purging \in BOOLEAN
    BY DEF JournalInit
  <2>3. JournalInit =>
          counts \in [loads : 0..MaxLoads, purges : 0..MaxPurges, crashes : 0..MaxCrashes]
    <3>1. 0 \in 0..MaxLoads /\ 0 \in 0..MaxPurges /\ 0 \in 0..MaxCrashes
      BY JournalAssumption
    <3>. QED
      BY <3>1 DEF JournalInit
  <2>4. JournalInit => unswept \subseteq Files
    BY DEF JournalInit
  <2>. QED
    BY <2>1, <2>2, <2>3, <2>4, JournalInvInit DEF CallsAreCounted
<1>2. Inv /\ [JournalNext]_journalVars => Inv'
  BY JournalInvStep, CountsStay, ListedStay
<1>3. Inv => JournalTypeOK
  BY DEF JournalInv, TypeInv, ListedInv, CallsAreCounted, JournalTypeOK
<1>. HIDE DEF Inv
<1>4. JournalSpec => []Inv
  BY <1>1, <1>2, PTL DEF JournalSpec
<1>. QED
  BY <1>3, <1>4, PTL

-----------------------------------------------------------------------------
(* The staging area: the state of a commit                                 *)

\* The targets the loop of the commit has been at, and those it has yet to come to.
Walked == {order[i] : i \in 1..(next - 1)}
Ahead == {order[i] : i \in next..Len(order)}

LoopInv ==
  /\ order \in Seq(Paths)
  /\ pc = "backup" => next = 1
  /\ pc = "apply" => Range(order) = DOMAIN batch
  /\ pc \in {"backup", "restore", "apply", "undo"} => result = "none"
  /\ pc = "cleanup" => result = "ok"
  /\ IF pc = "idle" THEN DOMAIN batch = {} ELSE DOMAIN changes = {}
  /\ pc \in {"backup", "apply", "cleanup"} => lost = {}

\* Where the original of p is, by the loop the commit is in.
OriginalInv(p) ==
  /\ pc \in {"backup", "restore"} => disk[p] = start[p]
  /\ pc \in {"backup", "apply"} /\ p \in Range(order) => backup[p] = start[p]
  /\ pc \in {"restore", "undo"} /\ p \in Ahead => backup[p] = start[p]
  /\ pc = "apply" /\ p \notin Walked => disk[p] = start[p]
  /\ pc = "undo" /\ p \notin Ahead => disk[p] = start[p]
  /\ pc = "cleanup" /\ p \notin DOMAIN batch => disk[p] = start[p]
  /\ result # "ok" => Survives(p)

OriginalsInv == \A p \in Paths \ lost : OriginalInv(p)

CommitInv == StagingTypeOK /\ LoopInv /\ OriginalsInv

LEMMA CommitInvInit == StagingInit => CommitInv
  BY StagingAssumption DEF StagingInit, CommitInv, StagingTypeOK, LoopInv, OriginalsInv, OriginalInv,
     Survives, File, NoChanges, Range, IsInjective, Limit

\* A step outside commit moves no target and no backup.
LEMMA IdleStepKeepsInv ==
  ASSUME CommitInv,
         \/ \E p \in Paths, kind \in Kinds, c \in Contents : Stage(p, kind, c)
         \/ \E p \in Paths : StageFails(p)
         \/ Rollback
  PROVE  CommitInv'
<1>. USE StagingAssumption DEF CommitInv, commitVars
<1>1. /\ pc = "idle" /\ pc' = "idle"
      /\ UNCHANGED <<disk, batch, backup, order, next, start, lost, result>>
  BY DEF Stage, StageFails, Rollback
<1>2. /\ area' \in [Names -> File]
      /\ DOMAIN changes' \subseteq Paths /\ Range(changes') \subseteq StagedChange
      /\ faults' \in [{"stage", "copy", "interrupt"} -> Nat]
  <2>1. CASE \E p \in Paths, kind \in Kinds, c \in Contents : Stage(p, kind, c)
    <3>1. PICK p \in Paths, kind \in Kinds, c \in Contents : Stage(p, kind, c)
      BY <2>1
    <3>2. [kind |-> kind, content |-> c] \in StagedChange
      BY DEF StagedChange
    <3>. QED  BY <3>1, <3>2 DEF Stage, StageFile, StagingTypeOK, File, Range
  <2>2. CASE \E p \in Paths : StageFails(p)
    BY <2>2 DEF StageFails, Trouble, StagingTypeOK, File
  <2>3. CASE Rollback
    BY <2>3 DEF Rollback, Unstage, NoChanges, StagingTypeOK, File, Range
  <2>. QED  BY <2>1, <2>2, <2>3
<1>5. StagingTypeOK'
  BY <1>1, <1>2 DEF StagingTypeOK, IsInjective, Range
<1>6. LoopInv' /\ OriginalsInv'
  BY <1>1 DEF LoopInv, OriginalsInv, OriginalInv, Survives, Walked, Ahead, Range
<1>. QED  BY <1>5, <1>6

LEMMA BeginKeepsInv ==
  ASSUME CommitInv, Commit
  PROVE  CommitInv'
<1>. USE StagingAssumption DEF CommitInv
<1>1. /\ pc' = "backup" /\ order' = <<>> /\ next' = 1 /\ lost' = {} /\ result' = "none"
      /\ batch' = changes /\ DOMAIN changes' = {} /\ Range(changes') = {}
      /\ start' = disk /\ backup' = [p \in Paths |-> NoFile]
      /\ UNCHANGED <<disk, area, faults>>
  BY DEF Commit, NoChanges, Range
<1>2. Range(<<>>) = {} /\ IsInjective(<<>>) /\ Len(<<>>) = 0 /\ <<>> \in Seq(Paths)
  BY DEF Range, IsInjective
<1>3. StagingTypeOK'
  BY <1>1, <1>2 DEF StagingTypeOK, File
<1>4. LoopInv' /\ OriginalsInv'
  BY <1>1, <1>2 DEF LoopInv, OriginalsInv, OriginalInv, Survives, StagingTypeOK
<1>. QED  BY <1>3, <1>4

\* One more change is backed up, or its copy fails.
LEMMA BackupKeepsInv ==
  ASSUME CommitInv, NEW p \in Paths, Backup(p) \/ BackupFails(p)
  PROVE  CommitInv'
<1>. USE StagingAssumption DEF CommitInv
<1>1. /\ pc = "backup" /\ next = 1 /\ p \in DOMAIN batch \ Range(order)
      /\ order \in Seq(Paths) /\ DOMAIN order = 1..Len(order) /\ Len(order) \in Nat
      /\ UNCHANGED <<disk, area, changes, batch, next, start, lost, result>>
  BY DEF Backup, BackupFails, LoopInv
<1>2. \A q \in Paths \ lost : disk[q] = start[q] /\ (q \in Range(order) => backup[q] = start[q])
  BY <1>1 DEF OriginalsInv, OriginalInv
<1>3. CASE Backup(p)
  <2>1. /\ pc' = "backup" /\ order' = Append(order, p) /\ faults' = faults
        /\ backup' = [backup EXCEPT ![p] = disk[p]]
    BY <1>3, <1>1 DEF Backup
  <2>2. /\ order' \in Seq(Paths) /\ Len(order') = Len(order) + 1 /\ DOMAIN order' = 1..Len(order')
        /\ \A i \in 1..Len(order) : order'[i] = order[i]
        /\ order'[Len(order) + 1] = p
    BY <1>1, <2>1
  <2>3. Range(order') = Range(order) \cup {p}
    BY <1>1, <2>2 DEF Range
  <2>4. IsInjective(order')
    <3>1. \A i, j \in 1..Len(order) : order[i] = order[j] => i = j
      BY <1>1 DEF StagingTypeOK, IsInjective
    <3>2. \A i \in 1..Len(order) : order[i] # p
      BY <1>1 DEF Range
    <3>. QED  BY <1>1, <2>2, <3>1, <3>2 DEF IsInjective
  <2>5. StagingTypeOK'
    BY <1>1, <2>1, <2>2, <2>3, <2>4 DEF StagingTypeOK, File
  <2>6. LoopInv'
    BY <1>1, <2>1, <2>2 DEF LoopInv
  <2>7. OriginalsInv'
    BY <1>1, <1>2, <2>1, <2>3 DEF OriginalsInv, OriginalInv, Survives, StagingTypeOK
  <2>. QED  BY <2>5, <2>6, <2>7
<1>4. CASE BackupFails(p)
  <2>1. PICK left \in {NoFile, Torn} : backup' = [backup EXCEPT ![p] = left]
    BY <1>4 DEF BackupFails
  <2>2. pc' = "restore" /\ order' = order /\ faults' \in [{"stage", "copy", "interrupt"} -> Nat]
    BY <1>4 DEF BackupFails, Trouble, StagingTypeOK
  <2>3. StagingTypeOK'
    BY <1>1, <2>1, <2>2 DEF StagingTypeOK, File
  <2>4. LoopInv'
    BY <1>1, <2>2 DEF LoopInv
  <2>5. \A q \in Ahead' : q \in Range(order)
    BY <1>1, <2>2 DEF Ahead, Range
  <2>6. OriginalsInv'
    BY <1>1, <1>2, <2>1, <2>2, <2>5 DEF OriginalsInv, OriginalInv, Survives, StagingTypeOK
  <2>. QED  BY <2>3, <2>4, <2>6
<1>. QED  BY <1>3, <1>4

LEMMA BackupsMadeKeepsInv ==
  ASSUME CommitInv, BackupsMade
  PROVE  CommitInv'
<1>. USE DEF CommitInv, BackupsMade
<1>1. pc = "backup" /\ next = 1 /\ pc' = "apply"
  BY DEF LoopInv
<1>2. StagingTypeOK' /\ LoopInv'
  BY <1>1 DEF StagingTypeOK, LoopInv
<1>3. OriginalsInv'
  BY <1>1 DEF OriginalsInv, OriginalInv, Survives
<1>. QED  BY <1>2, <1>3

\* What the index says of the walk: the next change is none of those walked.
LEMMA WalkFacts ==
  ASSUME StagingTypeOK, LoopInv, next <= Len(order)
  PROVE  /\ order[next] \in Paths /\ order[next] \in DOMAIN batch
         /\ Ahead = {order[next]} \cup {order[i] : i \in (next + 1)..Len(order)}
         /\ order[next] \notin {order[i] : i \in (next + 1)..Len(order)}
         /\ {order[i] : i \in 1..next} = Walked \cup {order[next]}
         /\ order[next] \notin Walked
         /\ next + 1 \in 1..(Len(order) + 1)
<1>1. /\ order \in Seq(Paths) /\ Len(order) \in Nat /\ DOMAIN order = 1..Len(order)
      /\ next \in 1..Len(order)
  BY DEF StagingTypeOK, LoopInv
<1>2. \A i, j \in 1..Len(order) : order[i] = order[j] => i = j
  BY <1>1 DEF StagingTypeOK, IsInjective
<1>3. order[next] \in DOMAIN batch
  BY <1>1 DEF StagingTypeOK, Range
<1>4. next..Len(order) = {next} \cup (next + 1)..Len(order) /\ 1..next = (1..(next - 1)) \cup {next}
  BY <1>1
<1>. QED  BY <1>1, <1>2, <1>3, <1>4 DEF Ahead, Walked

LEMMA ApplyKeepsInv ==
  ASSUME CommitInv, Apply
  PROVE  CommitInv'
<1>. USE StagingAssumption DEF CommitInv, Apply
<1>1. /\ order[next] \in Paths /\ order[next] \notin Walked /\ next + 1 \in 1..(Len(order) + 1)
      /\ Walked' = Walked \cup {order[next]} /\ area[NameOf[order[next]]] \in File
  <2>1. next \in Nat /\ {order[i] : i \in 1..next} = Walked \cup {order[next]}
    BY WalkFacts DEF StagingTypeOK
  <2>2. Walked' = {order[i] : i \in 1..next}
    BY <2>1 DEF Walked
  <2>. QED  BY <2>1, <2>2, WalkFacts DEF StagingTypeOK
<1>2. StagingTypeOK' /\ LoopInv'
  BY <1>1 DEF StagingTypeOK, LoopInv
<1>3. order[next] \in Range(order)
  BY DEF StagingTypeOK, LoopInv, Range
<1>4. OriginalsInv'
  BY <1>1, <1>3 DEF OriginalsInv, OriginalInv, Survives, StagingTypeOK
<1>. QED  BY <1>2, <1>4

\* The failed change and the ones before it are rolled back.
LEMMA ApplyFailsKeepsInv ==
  ASSUME CommitInv, ApplyFails
  PROVE  CommitInv'
<1>. USE StagingAssumption DEF CommitInv
<1>1. /\ pc = "apply" /\ next <= Len(order) /\ order' = SubSeq(order, 1, next) /\ next' = 1 /\ pc' = "undo"
      /\ UNCHANGED <<area, changes, batch, backup, start, lost, result>>
  BY DEF ApplyFails, UndoUpTo
<1>2. /\ order \in Seq(Paths) /\ Len(order) \in Nat /\ DOMAIN order = 1..Len(order) /\ next \in 1..Len(order)
  BY <1>1 DEF StagingTypeOK, LoopInv
<1>3. /\ order' \in Seq(Paths) /\ Len(order') = next /\ DOMAIN order' = 1..next
      /\ \A i \in 1..next : order'[i] = order[i]
  BY <1>1, <1>2
<1>4. IsInjective(order') /\ Range(order') \subseteq DOMAIN batch
  BY <1>1, <1>2, <1>3 DEF StagingTypeOK, IsInjective, Range
<1>5. /\ disk' \in [Paths -> File] /\ faults' \in [{"stage", "copy", "interrupt"} -> Nat]
      /\ \A q \in Paths \ {order[next]} : disk'[q] = disk[q]
  BY <1>2 DEF ApplyFails, Trouble, StagingTypeOK, File
<1>6. StagingTypeOK' /\ LoopInv'
  BY <1>1, <1>3, <1>4, <1>5 DEF StagingTypeOK, LoopInv
<1>7. Ahead' = Walked \cup {order[next]}
  <2>1. Ahead' = {order[i] : i \in 1..next}
    BY <1>1, <1>3 DEF Ahead
  <2>. QED  BY <2>1, <1>1, WalkFacts
<1>8. Walked \cup {order[next]} \subseteq Range(order)
  BY <1>2 DEF Walked, Range
<1>9. OriginalsInv'
  <2>. SUFFICES ASSUME NEW q \in Paths \ lost PROVE OriginalInv(q)'
    BY <1>1 DEF OriginalsInv
  <2>1. OriginalInv(q)
    BY DEF OriginalsInv
  <2>. QED  BY <1>1, <1>5, <1>7, <1>8, <2>1 DEF OriginalInv, Survives
<1>. QED  BY <1>6, <1>9

LEMMA UndoKeepsInv ==
  ASSUME CommitInv, UndoOne \/ UndoOneFails
  PROVE  CommitInv'
<1>. USE StagingAssumption DEF CommitInv
<1>0. PICK p : p = order[next]
  OBVIOUS
<1>1. /\ pc \in {"restore", "undo"} /\ next <= Len(order) /\ next' = next + 1
      /\ backup' = [backup EXCEPT ![p] = NoFile]
      /\ UNCHANGED <<area, changes, batch, order, pc, start, result>>
  BY <1>0 DEF UndoOne, UndoOneFails
<1>2. p \in Paths /\ p \in Ahead /\ p \notin Ahead' /\ Ahead = Ahead' \cup {p} /\ next' \in 1..(Len(order) + 1)
  BY <1>0, <1>1, WalkFacts DEF Ahead
<1>3. /\ disk' \in [Paths -> File] /\ lost' \subseteq Paths /\ lost \subseteq lost'
      /\ faults' \in [{"stage", "copy", "interrupt"} -> Nat]
      /\ \A q \in Paths \ {p} : disk'[q] = disk[q]
  BY <1>0, <1>2 DEF UndoOne, UndoOneFails, Trouble, StagingTypeOK, File
<1>4. StagingTypeOK' /\ LoopInv'
  BY <1>1, <1>2, <1>3 DEF StagingTypeOK, LoopInv, File
<1>5. \A q \in Paths \ lost' : q # p => OriginalInv(q)'
  BY <1>1, <1>2, <1>3 DEF OriginalsInv, OriginalInv, Survives, StagingTypeOK
<1>6. p \notin lost' => OriginalInv(p)'
  <2>. SUFFICES ASSUME p \notin lost' PROVE OriginalInv(p)'
    OBVIOUS
  <2>1. UndoOne
    BY <1>0 DEF UndoOneFails
  <2>2. backup[p] = start[p] /\ (pc = "restore" => disk[p] = start[p])
    BY <1>0, <1>1, <1>2, <2>1 DEF UndoOne, OriginalsInv, OriginalInv
  <2>3. disk'[p] = start'[p]
    <3>1. disk' = disk \/ disk' = [disk EXCEPT ![p] = start[p]]
      BY <1>0, <2>1, <2>2 DEF UndoOne
    <3>2. disk' = disk => disk[p] = start[p]
      BY <1>0, <1>2, <2>1, <2>2 DEF UndoOne, StagingTypeOK
    <3>. QED  BY <1>1, <1>2, <3>1, <3>2 DEF StagingTypeOK
  <2>. QED  BY <1>1, <1>2, <2>3 DEF OriginalInv, Survives
<1>. QED  BY <1>3, <1>4, <1>5, <1>6 DEF OriginalsInv

\* The end of a commit, with success or not.
LEMMA EndKeepsInv ==
  ASSUME CommitInv, Fail \/ DropBackups \/ Succeed
  PROVE  CommitInv'
<1>. USE StagingAssumption DEF CommitInv
<1>1. CASE Fail
  <2>1. /\ pc \in {"restore", "undo"} /\ next > Len(order) /\ pc' = "idle" /\ result' = "err"
        /\ DOMAIN batch' = {} /\ Range(batch') = {} /\ order' = <<>> /\ next' = 1
        /\ UNCHANGED <<disk, area, changes, backup, start, lost, faults>>
    BY <1>1 DEF Fail, EndCommit, NoChanges, Range
  <2>2. Range(<<>>) = {} /\ IsInjective(<<>>) /\ Len(<<>>) = 0 /\ <<>> \in Seq(Paths)
    BY DEF Range, IsInjective
  <2>3. StagingTypeOK' /\ LoopInv'
    BY <2>1, <2>2 DEF StagingTypeOK, LoopInv
  <2>4. OriginalsInv'
    BY <2>1 DEF OriginalsInv, OriginalInv, Survives, LoopInv
  <2>. QED  BY <2>3, <2>4
<1>2. CASE DropBackups
  <2>1. /\ pc = "apply" /\ next > Len(order) /\ pc' = "cleanup" /\ result' = "ok"
        /\ backup' = [p \in Paths |-> NoFile]
        /\ UNCHANGED <<disk, area, changes, batch, order, next, start, lost, faults>>
    BY <1>2 DEF DropBackups
  <2>2. Walked = DOMAIN batch
    <3>1. next = Len(order) + 1 /\ DOMAIN order = 1..Len(order) /\ Len(order) \in Nat
      BY <2>1 DEF StagingTypeOK, LoopInv
    <3>2. Range(order) = DOMAIN batch
      BY <2>1 DEF LoopInv
    <3>3. 1..(next - 1) = 1..Len(order)
      BY <3>1
    <3>. QED  BY <3>1, <3>2, <3>3 DEF Walked, Range
  <2>3. StagingTypeOK' /\ LoopInv'
    BY <2>1 DEF StagingTypeOK, LoopInv, File
  <2>4. OriginalsInv'
    BY <2>1, <2>2 DEF OriginalsInv, OriginalInv
  <2>. QED  BY <2>3, <2>4
<1>3. CASE Succeed
  <2>1. /\ pc = "cleanup" /\ pc' = "idle" /\ result = "ok" /\ DOMAIN changes = {}
        /\ DOMAIN batch' = {} /\ Range(batch') = {} /\ order' = <<>> /\ next' = 1
        /\ area' \in [Names -> File]
        /\ UNCHANGED <<disk, changes, backup, start, lost, result, faults>>
    BY <1>3 DEF Succeed, EndCommit, NoChanges, Range, Unstage, StagingTypeOK, LoopInv, File
  <2>2. Range(<<>>) = {} /\ IsInjective(<<>>) /\ Len(<<>>) = 0 /\ <<>> \in Seq(Paths)
    BY DEF Range, IsInjective
  <2>. QED  BY <2>1, <2>2 DEF StagingTypeOK, LoopInv, OriginalsInv, OriginalInv
<1>. QED  BY <1>1, <1>2, <1>3

\* An interruption tears at most the target a copy is going on to, and that
\* one has its backup.
LEMMA InterruptKeepsInv ==
  ASSUME CommitInv, Interrupt
  PROVE  CommitInv'
<1>. USE StagingAssumption DEF CommitInv
<1>1. PICK torn \in SUBSET Copying : disk' = [p \in Paths |-> IF p \in torn THEN Torn ELSE disk[p]]
  BY DEF Interrupt
<1>2. /\ pc' = "idle" /\ DOMAIN batch' = {} /\ Range(batch') = {} /\ order' = <<>> /\ next' = 1
      /\ DOMAIN changes' = {} /\ Range(changes') = {}
      /\ faults' \in [{"stage", "copy", "interrupt"} -> Nat]
      /\ UNCHANGED <<area, backup, start, lost, result>>
  BY DEF Interrupt, EndCommit, NoChanges, Range, Trouble, StagingTypeOK
<1>3. Range(<<>>) = {} /\ IsInjective(<<>>) /\ Len(<<>>) = 0 /\ <<>> \in Seq(Paths)
  BY DEF Range, IsInjective
<1>4. StagingTypeOK' /\ LoopInv'
  BY <1>1, <1>2, <1>3 DEF StagingTypeOK, LoopInv, File
<1>5. ASSUME NEW p \in Paths \ lost, result # "ok"  PROVE Survives(p)'
  <2>1. CASE p \notin torn
    BY <1>1, <1>2, <1>5, <2>1 DEF OriginalsInv, OriginalInv, Survives
  <2>2. CASE p \in torn
    <3>1. pc \in {"apply", "restore", "undo"} /\ next <= Len(order) /\ p = order[next]
      BY <2>2 DEF Copying
    <3>2. p \in Ahead /\ p \in Range(order)
      BY <3>1, WalkFacts DEF Ahead, Range, StagingTypeOK, LoopInv
    <3>. QED  BY <1>2, <3>1, <3>2 DEF OriginalsInv, OriginalInv, Survives
  <2>. QED  BY <2>1, <2>2
<1>6. OriginalsInv'
  BY <1>2, <1>5 DEF OriginalsInv, OriginalInv
<1>. QED  BY <1>4, <1>6

LEMMA CommitInvStep ==
  ASSUME CommitInv, [StagingNext]_areaVars
  PROVE  CommitInv'
<1>1. CASE UNCHANGED areaVars
  BY <1>1 DEF areaVars, CommitInv, StagingTypeOK, LoopInv, OriginalsInv, OriginalInv, Survives, Ahead, Walked,
     Range, IsInjective
<1>2. CASE \E p \in Paths : Backup(p) \/ BackupFails(p)
  BY <1>2, BackupKeepsInv
<1>. QED  BY <1>1, <1>2, IdleStepKeepsInv, BeginKeepsInv, BackupsMadeKeepsInv, ApplyKeepsInv,
              ApplyFailsKeepsInv, UndoKeepsInv, EndKeepsInv, InterruptKeepsInv
          DEF StagingNext, CommitStep

\* A commit interrupted anywhere, and one that fails however late, leave what
\* every target held at the target or in its backup, unless a copy back failed
\* for that target: the loops of commit never drop the only copy.
THEOREM OriginalsAreKept == StagingSpec => [](StagingTypeOK /\ OnlyFailedRestoresLose)
<1>1. CommitInv => StagingTypeOK /\ OnlyFailedRestoresLose
  BY DEF CommitInv, OriginalsInv, OriginalInv, OnlyFailedRestoresLose
<1>. QED  BY CommitInvInit, CommitInvStep, <1>1, PTL DEF StagingSpec

\* A commit that returns an error has put back every target it had touched,
\* except those whose copy back failed: the two rollback loops of commit cover
\* each loop that can fail.
THEOREM FailedCommitRestores == StagingSpec => FailureRestores
<1>1. CommitInv /\ [StagingNext]_areaVars
        => [Returns("err") => \A p \in Paths \ lost' : disk'[p] = start[p]]_areaVars
  <2>. SUFFICES ASSUME CommitInv, StagingNext, Returns("err")
                PROVE  \A p \in Paths \ lost' : disk'[p] = start[p]
    BY DEF Returns, areaVars
  <2>1. Fail
    <3>1. pc # "idle" /\ pc' = "idle" /\ result' = "err"
      BY DEF Returns
    <3>2. result # "err"
      BY <3>1 DEF CommitInv, LoopInv, StagingTypeOK
    <3>3. \A p \in Paths : ~Backup(p) /\ ~BackupFails(p) /\ ~StageFails(p)
      BY <3>1 DEF Backup, BackupFails, StageFails
    <3>4. \A p \in Paths, kind \in Kinds, c \in Contents : ~Stage(p, kind, c)
      BY <3>1 DEF Stage
    <3>5. ~Rollback /\ ~Commit /\ ~BackupsMade /\ ~Apply /\ ~ApplyFails /\ ~DropBackups
      BY <3>1 DEF Rollback, Commit, BackupsMade, Apply, ApplyFails, DropBackups
    <3>6. ~UndoOne /\ ~UndoOneFails /\ ~Succeed /\ ~Interrupt
      BY <3>1, <3>2 DEF UndoOne, UndoOneFails, Succeed, Interrupt
    <3>. QED  BY <3>3, <3>4, <3>5, <3>6 DEF StagingNext, CommitStep
  <2>2. pc \in {"restore", "undo"} /\ next > Len(order) /\ disk' = disk /\ lost' = lost
    BY <2>1 DEF Fail
  <2>3. Ahead = {}
    <3>1. next \in Nat /\ Len(order) \in Nat
      BY DEF CommitInv, StagingTypeOK, LoopInv
    <3>. QED  BY <2>2, <3>1 DEF Ahead
  <2>. QED  BY <2>2, <2>3 DEF CommitInv, OriginalsInv, OriginalInv
<1>. QED  BY CommitInvInit, CommitInvStep, <1>1, PTL DEF StagingSpec, FailureRestores

-----------------------------------------------------------------------------
(* A commit that succeeds                                                  *)

\* No staging has failed, and what was staged lies in base_dir until it has
\* been applied.
StagedInv ==
  faults.stage = 0 =>
    /\ \A p \in DOMAIN changes : area[NameOf[p]] = changes[p].content
    /\ \A p \in DOMAIN batch : area[NameOf[p]] = batch[p].content
    /\ pc = "apply" => \A p \in Walked : disk[p] = batch[p].content
    /\ pc = "cleanup" => \A p \in DOMAIN batch : disk[p] = batch[p].content

InstallInv == CommitInv /\ StagedInv

LEMMA StageKeepsStaged ==
  ASSUME IsInjective(NameOf), InstallInv,
         \/ \E p \in Paths, kind \in Kinds, c \in Contents : Stage(p, kind, c)
         \/ \E p \in Paths : StageFails(p)
         \/ Rollback
         \/ Commit
  PROVE  StagedInv'
<1>. USE StagingAssumption DEF InstallInv, CommitInv
<1>1. CASE \E p \in Paths, kind \in Kinds, c \in Contents : Stage(p, kind, c)
  <2>1. PICK p \in Paths, kind \in Kinds, c \in Contents : Stage(p, kind, c)
    BY <1>1
  <2>2. /\ pc = "idle" /\ pc' = "idle" /\ DOMAIN batch' = {} /\ faults' = faults
        /\ area' = [area EXCEPT ![NameOf[p]] = c]
        /\ changes' = [q \in DOMAIN changes \cup {p} |->
                         IF q = p THEN [kind |-> kind, content |-> c] ELSE changes[q]]
    BY <2>1 DEF Stage, StageFile, commitVars, LoopInv
  <2>3. \A q \in Paths : NameOf[q] \in Names /\ (NameOf[q] = NameOf[p] => q = p)
    BY DEF IsInjective
  <2>4. faults.stage = 0 => \A q \in DOMAIN changes' : area'[NameOf[q]] = changes'[q].content
    BY <2>2, <2>3 DEF StagedInv, StagingTypeOK
  <2>. QED  BY <2>2, <2>4 DEF StagedInv
<1>2. CASE \E p \in Paths : StageFails(p)
  BY <1>2 DEF StageFails, Trouble, StagingTypeOK, StagedInv
<1>3. CASE Rollback
  BY <1>3 DEF Rollback, Unstage, NoChanges, commitVars, LoopInv, StagedInv
<1>4. CASE Commit
  BY <1>4 DEF Commit, NoChanges, StagedInv
<1>. QED  BY <1>1, <1>2, <1>3, <1>4

LEMMA CommitStepKeepsStaged ==
  ASSUME InstallInv, CommitStep \/ Interrupt
  PROVE  StagedInv'
<1>. USE StagingAssumption DEF InstallInv, CommitInv
<1>1. faults \in [{"stage", "copy", "interrupt"} -> Nat]
  BY DEF StagingTypeOK
<1>2. CASE \E p \in Paths : Backup(p) \/ BackupFails(p)
  BY <1>1, <1>2 DEF Backup, BackupFails, Trouble, StagedInv
<1>3. CASE BackupsMade
  <2>1. next = 1 /\ UNCHANGED <<area, changes, batch, order, next, faults>> /\ pc' = "apply"
    BY <1>3 DEF BackupsMade, LoopInv
  <2>2. Walked' = {}
    BY <2>1 DEF Walked
  <2>. QED  BY <2>1, <2>2 DEF StagedInv
<1>4. CASE Apply
  <2>1. /\ pc = "apply" /\ pc' = "apply" /\ UNCHANGED <<area, changes, batch, order, faults>>
        /\ disk' = [disk EXCEPT ![order[next]] = area[NameOf[order[next]]]]
    BY <1>4 DEF Apply
  <2>2. order[next] \in DOMAIN batch /\ order[next] \in Paths
    BY <1>4, WalkFacts DEF Apply
  <2>3. Walked' = Walked \cup {order[next]}
    <3>1. next \in Nat /\ next' = next + 1 /\ order' = order
      BY <1>4 DEF Apply, StagingTypeOK
    <3>2. Walked' = {order[i] : i \in 1..next}
      BY <3>1 DEF Walked
    <3>. QED  BY <1>4, <3>2, WalkFacts DEF Apply
  <2>4. \A p \in Walked' : p \in Paths
    <3>1. \A i \in 1..(next - 1) : order[i] \in Paths
      BY DEF StagingTypeOK, LoopInv
    <3>. QED  BY <2>2, <2>3, <3>1 DEF Walked
  <2>. QED  BY <2>1, <2>2, <2>3, <2>4 DEF StagedInv, StagingTypeOK
<1>5. CASE ApplyFails
  BY <1>1, <1>5 DEF ApplyFails, Trouble, StagedInv
<1>6. CASE UndoOne \/ UndoOneFails
  BY <1>1, <1>6 DEF UndoOne, UndoOneFails, Trouble, StagedInv
<1>7. CASE Fail
  BY <1>7 DEF Fail, EndCommit, NoChanges, StagedInv
<1>8. CASE DropBackups
  <2>1. pc = "apply" /\ next > Len(order) /\ pc' = "cleanup" /\ UNCHANGED <<disk, area, changes, batch, faults>>
    BY <1>8 DEF DropBackups
  <2>2. Walked = DOMAIN batch
    <3>1. next = Len(order) + 1 /\ DOMAIN order = 1..Len(order) /\ Len(order) \in Nat
      BY <2>1 DEF StagingTypeOK, LoopInv
    <3>2. Range(order) = DOMAIN batch
      BY <2>1 DEF LoopInv
    <3>3. 1..(next - 1) = 1..Len(order)
      BY <3>1
    <3>. QED  BY <3>1, <3>2, <3>3 DEF Walked, Range
  <2>. QED  BY <2>1, <2>2 DEF StagedInv
<1>9. CASE Succeed
  BY <1>9 DEF Succeed, EndCommit, NoChanges, StagedInv, LoopInv
<1>10. CASE Interrupt
  BY <1>1, <1>10 DEF Interrupt, EndCommit, NoChanges, Trouble, StagedInv
<1>. QED  BY <1>2, <1>3, <1>4, <1>5, <1>6, <1>7, <1>8, <1>9, <1>10 DEF CommitStep

\* If no two targets have the same file name, a commit that returns Ok has
\* installed everything that was staged and has touched nothing else: the walks
\* of the backup loop and of the apply loop are over the same changes.
THEOREM SuccessfulCommitInstalls ==
  ASSUME IsInjective(NameOf)
  PROVE  StagingSpec => CommitInstallsStaged
<1>1. StagingInit => InstallInv
  BY CommitInvInit DEF InstallInv, StagedInv, StagingInit, NoChanges
<1>2. InstallInv /\ [StagingNext]_areaVars => InstallInv'
  <2>. SUFFICES ASSUME InstallInv, [StagingNext]_areaVars PROVE InstallInv'
    OBVIOUS
  <2>1. CASE UNCHANGED areaVars
    BY <2>1, CommitInvStep DEF InstallInv, StagedInv, areaVars, Walked
  <2>. QED  BY <2>1, CommitInvStep, StageKeepsStaged, CommitStepKeepsStaged DEF InstallInv, StagingNext
<1>3. InstallInv /\ [StagingNext]_areaVars
        => [Returns("ok") =>
              \A p \in Paths :
                /\ p \notin DOMAIN batch => disk'[p] = start[p]
                /\ p \in DOMAIN batch /\ batch[p].kind = "write" /\ faults.stage = 0
                     => disk'[p] = batch[p].content]_areaVars
  <2>. SUFFICES ASSUME InstallInv, StagingNext, Returns("ok"), NEW p \in Paths
                PROVE  /\ p \notin DOMAIN batch => disk'[p] = start[p]
                       /\ p \in DOMAIN batch /\ batch[p].kind = "write" /\ faults.stage = 0
                            => disk'[p] = batch[p].content
    BY DEF Returns, areaVars
  <2>1. pc = "cleanup" /\ disk'[p] = disk[p]
    <3>1. pc # "idle" /\ pc' = "idle" /\ result' = "ok"
      BY DEF Returns
    <3>2. Succeed \/ Interrupt
      <4>1. \A q \in Paths : ~Backup(q) /\ ~BackupFails(q) /\ ~StageFails(q)
        BY <3>1 DEF Backup, BackupFails, StageFails
      <4>2. \A q \in Paths, kind \in Kinds, c \in Contents : ~Stage(q, kind, c)
        BY <3>1 DEF Stage
      <4>3. ~Rollback /\ ~Commit /\ ~BackupsMade /\ ~Apply /\ ~ApplyFails /\ ~DropBackups
        BY <3>1 DEF Rollback, Commit, BackupsMade, Apply, ApplyFails, DropBackups
      <4>4. ~UndoOne /\ ~UndoOneFails /\ ~Fail
        BY <3>1 DEF UndoOne, UndoOneFails, Fail
      <4>. QED  BY <4>1, <4>2, <4>3, <4>4 DEF StagingNext, CommitStep
    <3>3. result = "ok"
      BY <3>1, <3>2 DEF Succeed, Interrupt
    <3>4. pc = "cleanup"
      BY <3>1, <3>3 DEF InstallInv, CommitInv, LoopInv, StagingTypeOK
    <3>. QED  BY <3>2, <3>4 DEF Succeed, Interrupt, Copying
  <2>2. lost = {} /\ (p \notin DOMAIN batch => disk[p] = start[p])
    BY <2>1 DEF InstallInv, CommitInv, LoopInv, OriginalsInv, OriginalInv
  <2>. QED  BY <2>1, <2>2 DEF InstallInv, StagedInv
<1>. QED  BY <1>1, <1>2, <1>3, PTL DEF StagingSpec, CommitInstallsStaged
=============================================================================
