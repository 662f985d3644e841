-------------------------- MODULE TranscriptProofs --------------------------
(***************************************************************************)
(* Proofs about messages.jsonl, for any number of tasks and sessions, any  *)
(* sizes of lines and any number of dropped futures, crashes and failed    *)
(* writes.                                                                 *)
(*                                                                         *)
(* LossIsBounded is not inductive: a loss shows long after the interrupted *)
(* append it is due to.  LossAt therefore keeps accounts: what cannot be   *)
(* read back, the orphaned writes that may still fall into somebody's      *)
(* line, and an unfinished last line each cost one of the cuts that were   *)
(* counted.  A body between its write and its newline belongs to the one   *)
(* task that holds the session's guard, so it is not yet at risk from      *)
(* other appends, only from orphans.                                       *)
(***************************************************************************)
EXTENDS Transcript, SessionLocksProofs, SequenceTheorems

Holding == {"checking", "writing", "newline", "reading"}

\* What is true of one task at each of its awaits.
TaskInv(t) ==
  /\ awaiting[t] = "idle" <=> arc[t] = NoLock
  /\ awaiting[t] \in Holding <=> HoldsGuard(t)
  /\ awaiting[t] # "idle" => target[t] \in Sessions
  /\ awaiting[t] \in {"checking", "writing", "newline"} => message[t] \in Messages
  /\ awaiting[t] = "idle" => message[t] = NoMessage

TaskTypeInv ==
  /\ LocksInv
  /\ awaiting \in [Tasks -> {"idle", "locking", "checking", "writing", "newline", "reading"}]
  /\ message \in [Tasks -> Messages \cup {NoMessage}]
  /\ \A t \in Tasks : TaskInv(t)

FileTypeInv ==
  /\ created \subseteq Sessions
  /\ log \in [Sessions -> Seq(Chunk)]
  /\ orphans \subseteq Orphan
  /\ acked \in [Sessions -> SUBSET Messages]
  /\ cuts \in [Sessions -> Nat]
  /\ diskFaults \in Nat

-----------------------------------------------------------------------------
(* The tasks                                                               *)

LEMMA TranscriptStepIsLocksStep == [TranscriptNext]_transcriptVars => [LocksNext]_lockVars
<1>. SUFFICES ASSUME [TranscriptNext]_transcriptVars PROVE [LocksNext]_lockVars
  OBVIOUS
<1>1. ASSUME NEW s \in Sessions, CreateSession(s) PROVE UNCHANGED lockVars
  BY <1>1 DEF CreateSession
<1>2. ASSUME NEW t \in Tasks, NEW s \in Sessions, NEW m \in Messages \cup {NoMessage}, Begin(t, s, m)
      PROVE  GetSessionLock(t, s)
  BY <1>2 DEF Begin
<1>3. ASSUME NEW t \in Tasks, Enter(t) PROVE AcquireGuard(t)
  BY <1>3 DEF Enter
<1>4. ASSUME NEW t \in Tasks,
             RefuseAppend(t) \/ WriteLine(t) \/ WriteNewline(t) \/ ReadLog(t) \/ Drop(t) \/ WriteFails(t)
      PROVE  DropFuture(t)
  BY <1>4 DEF RefuseAppend, WriteLine, WriteNewline, ReadLog, Drop, WriteFails, Leave
<1>5. ASSUME NEW t \in Tasks, OpenForAppend(t) \/ WriteBody(t) PROVE UNCHANGED lockVars
  BY <1>5 DEF OpenForAppend, WriteBody
<1>6. ASSUME NEW o \in orphans, RunOrphan(o) PROVE UNCHANGED lockVars
  BY <1>6 DEF RunOrphan
<1>7. CASE ServerCrash
  BY <1>7 DEF ServerCrash, LocksNext
<1>8. CASE UNCHANGED transcriptVars
  BY <1>8 DEF transcriptVars, lockVars
<1>. QED
  BY <1>1, <1>2, <1>3, <1>4, <1>5, <1>6, <1>7, <1>8 DEF TranscriptNext, LocksNext

\* The end of an operation, by return or by drop.
LEMMA LeaveKeepsTasks ==
  ASSUME TaskTypeInv, NEW t \in Tasks, Leave(t)
  PROVE  TaskTypeInv'
<1>1. LocksInv'
  BY DropFutureKeepsInv DEF Leave, TaskTypeInv
<1>2. arc'[t] = NoLock /\ ~HoldsGuard(t)' /\ OthersKeepLocks(t)
  BY DroppedGuardIsFree DEF Leave, TaskTypeInv
<1>3. awaiting' = [awaiting EXCEPT ![t] = "idle"] /\ message' = [message EXCEPT ![t] = NoMessage]
  BY DEF Leave
<1>4. ASSUME NEW u \in Tasks PROVE TaskInv(u)'
  <2>1. CASE u = t
    BY <2>1, <1>2, <1>3 DEF TaskInv, Holding, TaskTypeInv
  <2>2. CASE u # t
    <3>1. awaiting'[u] = awaiting[u] /\ message'[u] = message[u]
      BY <2>2, <1>3 DEF TaskTypeInv
    <3>. QED  BY <2>2, <3>1, <1>2 DEF TaskInv, OthersKeepLocks, TaskTypeInv
  <2>. QED  BY <2>1, <2>2
<1>. QED  BY <1>1, <1>3, <1>4 DEF TaskTypeInv

\* The start of an operation, and the lock it then gets.
LEMMA BeginKeepsTasks ==
  ASSUME TaskTypeInv, NEW t \in Tasks, NEW s \in Sessions, NEW m \in Messages \cup {NoMessage}, Begin(t, s, m)
  PROVE  TaskTypeInv'
<1>1. LocksInv'
  BY GetSessionLockKeepsInv DEF Begin, TaskTypeInv
<1>2. arc'[t] # NoLock /\ target'[t] = s /\ ~HoldsGuard(t)' /\ OthersKeepLocks(t)
  BY FetchedLockIsNotHeld DEF Begin, TaskTypeInv
<1>3. awaiting' = [awaiting EXCEPT ![t] = "locking"] /\ message' = [message EXCEPT ![t] = m]
  BY DEF Begin
<1>4. ASSUME NEW u \in Tasks PROVE TaskInv(u)'
  <2>1. CASE u = t
    BY <2>1, <1>2, <1>3 DEF TaskInv, Holding, TaskTypeInv
  <2>2. CASE u # t
    <3>1. awaiting'[u] = awaiting[u] /\ message'[u] = message[u]
      BY <2>2, <1>3 DEF TaskTypeInv
    <3>. QED  BY <2>2, <3>1, <1>2 DEF TaskInv, OthersKeepLocks, TaskTypeInv
  <2>. QED  BY <2>1, <2>2
<1>. QED  BY <1>1, <1>3, <1>4 DEF TaskTypeInv

LEMMA EnterKeepsTasks ==
  ASSUME TaskTypeInv, NEW t \in Tasks, Enter(t)
  PROVE  TaskTypeInv'
<1>1. LocksInv'
  BY AcquireGuardKeepsInv DEF Enter, TaskTypeInv
<1>2. arc'[t] # NoLock /\ target' = target /\ HoldsGuard(t)' /\ OthersKeepLocks(t)
  BY AcquiredGuardIsHeld DEF Enter, TaskTypeInv
<1>3. awaiting[t] = "locking" /\ awaiting' = [awaiting EXCEPT ![t] = Inside(t)] /\ message' = message
  BY DEF Enter
<1>4. ASSUME NEW u \in Tasks PROVE TaskInv(u)'
  <2>1. CASE u = t
    BY <2>1, <1>2, <1>3 DEF TaskInv, Holding, TaskTypeInv, Inside
  <2>2. CASE u # t
    <3>1. awaiting'[u] = awaiting[u] /\ message'[u] = message[u]
      BY <2>2, <1>3 DEF TaskTypeInv
    <3>. QED  BY <2>2, <3>1, <1>2 DEF TaskInv, OthersKeepLocks, TaskTypeInv
  <2>. QED  BY <2>1, <2>2
<1>. QED  BY <1>1, <1>3, <1>4 DEF TaskTypeInv, Inside

\* A task that goes on to its next await keeps its guard.
LEMMA AdvanceKeepsTasks ==
  ASSUME TaskTypeInv, NEW t \in Tasks, OpenForAppend(t) \/ WriteBody(t)
  PROVE  TaskTypeInv'
<1>1. UNCHANGED lockVars /\ message' = message
  BY DEF OpenForAppend, WriteBody
<1>2. LocksInv'
  BY <1>1 DEF TaskTypeInv, lockVars, LocksInv, LocksTypeOK, ClonesAreMapped, LocksAreDistinct, GuardsAreAlive
<1>3. PICK a \in {"writing", "newline"} : awaiting' = [awaiting EXCEPT ![t] = a]
  BY DEF OpenForAppend, WriteBody
<1>4. awaiting[t] \in {"checking", "writing"}
  BY DEF OpenForAppend, WriteBody
<1>5. ASSUME NEW u \in Tasks PROVE TaskInv(u)'
  BY <1>1, <1>3, <1>4 DEF TaskInv, TaskTypeInv, Holding, HoldsGuard, lockVars
<1>. QED  BY <1>1, <1>2, <1>3, <1>5 DEF TaskTypeInv

LEMMA CrashKeepsTasks ==
  ASSUME TaskTypeInv, ServerCrash
  PROVE  TaskTypeInv'
<1>1. LocksReset /\ awaiting' = [t \in Tasks |-> "idle"] /\ message' = [t \in Tasks |-> NoMessage]
  BY DEF ServerCrash
<1>2. LocksInv'
  BY <1>1, LocksInvStep DEF LocksNext, TaskTypeInv
<1>3. \A t \in Tasks : arc'[t] = NoLock
  BY <1>1 DEF LocksReset
<1>. QED  BY <1>1, <1>2, <1>3 DEF TaskTypeInv, TaskInv, Holding, HoldsGuard

LEMMA TasksInvStep ==
  ASSUME TaskTypeInv, [TranscriptNext]_transcriptVars
  PROVE  TaskTypeInv'
<1>1. CASE UNCHANGED transcriptVars \/ (\E s \in Sessions : CreateSession(s)) \/ (\E o \in orphans : RunOrphan(o))
  <2>1. UNCHANGED <<lockVars, awaiting, message>>
    BY <1>1 DEF transcriptVars, lockVars, CreateSession, RunOrphan
  <2>. QED  BY <2>1 DEF TaskTypeInv, lockVars, LocksInv, LocksTypeOK, ClonesAreMapped, LocksAreDistinct,
                        GuardsAreAlive, TaskInv, HoldsGuard
<1>2. ASSUME NEW t \in Tasks,
             RefuseAppend(t) \/ WriteLine(t) \/ WriteNewline(t) \/ ReadLog(t) \/ Drop(t) \/ WriteFails(t)
      PROVE  TaskTypeInv'
  BY <1>2, LeaveKeepsTasks DEF RefuseAppend, WriteLine, WriteNewline, ReadLog, Drop, WriteFails
<1>. QED  BY <1>1, <1>2, BeginKeepsTasks, EnterKeepsTasks, AdvanceKeepsTasks, CrashKeepsTasks DEF TranscriptNext

\* Only one task of a session is past the lock.
LEMMA OneTaskHolds ==
  ASSUME TaskTypeInv, NEW t \in Tasks, NEW u \in Tasks, target[t] = target[u],
         awaiting[t] \in Holding, awaiting[u] \in Holding
  PROVE  t = u
  BY LocksInvExcludes DEF TaskTypeInv, TaskInv, MutualExclusion

-----------------------------------------------------------------------------
(* What one write does to the lines of the file                            *)

Final(file) == file[Len(file)]

\* The file ends with a complete line.
Whole(file) == file = <<>> \/ Final(file) = NL

\* A chunk that goes on to the end can only spoil the line before it.
LEMMA ChunkSpoilsTheLast ==
  ASSUME NEW file \in Seq(Chunk), NEW c \in Chunk
  PROVE  /\ Append(file, c) \in Seq(Chunk) /\ Len(Append(file, c)) = Len(file) + 1
         /\ Final(Append(file, c)) = c /\ Append(file, c) # <<>>
         /\ c = NL => Readable(file) \subseteq Readable(Append(file, c))
         /\ file # <<>> => Readable(file) \subseteq Readable(Append(file, c)) \cup {Final(file)}
         /\ Whole(file) => Readable(file) \subseteq Readable(Append(file, c))
         /\ Whole(file) /\ c \in Messages => c \in Readable(Append(file, c))
<1>. DEFINE longer == Append(file, c)
<1>1. /\ longer \in Seq(Chunk) /\ Len(longer) = Len(file) + 1 /\ Len(file) \in Nat
      /\ DOMAIN file = 1..Len(file) /\ DOMAIN longer = 1..(Len(file) + 1)
      /\ \A i \in 1..Len(file) : longer[i] = file[i]
      /\ longer[Len(file) + 1] = c
  OBVIOUS
<1>. HIDE DEF longer
<1>8. longer # <<>>
  BY AppendProperties DEF longer
<1>2. ASSUME NEW j \in 1..Len(file), file[j] \in Messages, j > 1 => file[j - 1] = NL,
             j < Len(file) => file[j + 1] = NL,
             j = Len(file) => c = NL
      PROVE  file[j] \in Readable(longer)
  <2>1. longer[j] = file[j] /\ j \in DOMAIN longer
    BY <1>1
  <2>2. j > 1 => longer[j - 1] = NL
    <3>. SUFFICES ASSUME j > 1 PROVE longer[j - 1] = NL
      OBVIOUS
    <3>1. j - 1 \in 1..Len(file)
      BY <1>1
    <3>. QED  BY <1>1, <1>2, <3>1
  <2>3. j < Len(longer) => longer[j + 1] = NL
    <3>1. CASE j = Len(file)
      BY <1>1, <1>2, <3>1
    <3>2. CASE j < Len(file)
      <4>1. j + 1 \in 1..Len(file)
        BY <1>1, <3>2
      <4>. QED  BY <1>1, <1>2, <3>2, <4>1
    <3>3. j = Len(file) \/ j < Len(file)
      OBVIOUS
    <3>. QED  BY <3>1, <3>2, <3>3
  <2>. QED  BY <1>2, <2>1, <2>2, <2>3 DEF Readable
<1>3. \A m \in Readable(file) :
        \E j \in 1..Len(file) :
          /\ m = file[j] /\ file[j] \in Messages /\ (j > 1 => file[j - 1] = NL)
          /\ (j < Len(file) => file[j + 1] = NL)
  BY <1>1 DEF Readable
<1>4. c = NL => Readable(file) \subseteq Readable(longer)
  BY <1>2, <1>3
<1>5. file # <<>> => Readable(file) \subseteq Readable(longer) \cup {Final(file)}
  BY <1>2, <1>3 DEF Final
<1>6. Whole(file) => Readable(file) \subseteq Readable(longer)
  <2>1. CASE file = <<>>
    BY <2>1, <1>1, <1>3
  <2>2. CASE Final(file) = NL
    BY <2>2, <1>2, <1>3, TranscriptAssumption DEF Final
  <2>. QED  BY <2>1, <2>2 DEF Whole
<1>7. Whole(file) /\ c \in Messages => c \in Readable(longer)
  <2>. SUFFICES ASSUME Whole(file), c \in Messages PROVE c \in Readable(longer)
    OBVIOUS
  <2>. DEFINE j == Len(file) + 1
  <2>1. j > 1 => longer[j - 1] = NL
    BY <1>1 DEF Whole, Final
  <2>. QED  BY <1>1, <2>1 DEF Readable
<1>. QED  BY <1>1, <1>4, <1>5, <1>6, <1>7, <1>8 DEF longer, Final

\* The writes of the store, chunk by chunk.
LEMMA WritesAreAppends ==
  ASSUME NEW file \in Seq(Chunk), NEW c \in Chunk
  PROVE  /\ file \o <<c>> = Append(file, c)
         /\ file \o <<c, NL>> = Append(Append(file, c), NL)
         /\ file \o <<>> = file
<1>1. NL \in Chunk
  BY DEF Chunk
<1>2. Append(file, c) \in Seq(Chunk) /\ Append(Append(file, c), NL) \in Seq(Chunk)
  BY <1>1
<1>3. file \o <<c, NL>> \in Seq(Chunk) /\ file \o <<c>> \in Seq(Chunk)
  BY <1>1
<1>4. file \o <<c>> = Append(file, c)
  BY <1>2, <1>3, SeqEqual
<1>5. file \o <<c, NL>> = Append(Append(file, c), NL)
  BY <1>1, <1>2, <1>3, SeqEqual
<1>. QED  BY <1>4, <1>5

\* A write that begins with a body, whole line or not.
LEMMA BodySpoilsTheLast ==
  ASSUME NEW file \in Seq(Chunk), NEW m \in Messages \cup {Piece},
         NEW longer, longer = file \o <<m>> \/ longer = file \o <<m, NL>>
  PROVE  /\ longer \in Seq(Chunk)
         /\ longer # <<>> /\ Final(longer) \in {m, NL}
         /\ longer = file \o <<m, NL>> => Whole(longer) /\ Len(longer) = Len(file) + 2
         /\ longer = file \o <<m>> => Len(longer) = Len(file) + 1
         /\ file # <<>> => Readable(file) \subseteq Readable(longer) \cup {Final(file)}
         /\ Whole(file) => Readable(file) \subseteq Readable(longer)
         /\ Whole(file) /\ m \in Messages => m \in Readable(longer)
<1>. DEFINE body == Append(file, m)
<1>1. m \in Chunk /\ NL \in Chunk
  BY DEF Chunk
<1>2. longer = body \/ longer = Append(body, NL)
  BY <1>1, WritesAreAppends
<1>3. body \in Seq(Chunk) /\ Len(body) = Len(file) + 1
  BY <1>1, ChunkSpoilsTheLast
<1>4. /\ Append(body, NL) \in Seq(Chunk) /\ Len(Append(body, NL)) = Len(body) + 1
      /\ Readable(body) \subseteq Readable(Append(body, NL))
      /\ Final(Append(body, NL)) = NL /\ Append(body, NL) # <<>>
  BY <1>1, <1>3, ChunkSpoilsTheLast
<1>5. /\ Final(body) = m /\ body # <<>>
      /\ file # <<>> => Readable(file) \subseteq Readable(body) \cup {Final(file)}
      /\ Whole(file) => Readable(file) \subseteq Readable(body)
      /\ Whole(file) /\ m \in Messages => m \in Readable(body)
  BY <1>1, ChunkSpoilsTheLast
<1>6. file \o <<m>> = body /\ file \o <<m, NL>> = Append(body, NL)
  BY <1>1, WritesAreAppends
<1>7. Len(file) \in Nat
  OBVIOUS
<1>. DEFINE line == Append(body, NL)
<1>8. body # line
  BY <1>3, <1>4
<1>. HIDE DEF body, line
<1>9. CASE longer = body
  BY <1>9, <1>3, <1>5, <1>6, <1>7, <1>8 DEF line
<1>10. CASE longer = line
  BY <1>10, <1>3, <1>4, <1>5, <1>6, <1>7, <1>8 DEF line, Whole
<1>. QED  BY <1>2, <1>9, <1>10 DEF line

-----------------------------------------------------------------------------
(* The invariant of the file                                               *)

\* The tasks of a session whose body is in the file and whose newline is not.
Completing(s) == {t \in Tasks : target[t] = s /\ awaiting[t] = "newline"}

\* Orphaned writes that can still spoil a line; a newline spoils none.
Loose(s) == {o \in orphans : o.session = s /\ o.bytes # <<NL>>}

\* Messages that are acknowledged, or will be when their newline is written,
\* and cannot be read back.
Lost(s) == (acked[s] \cup {message[t] : t \in Completing(s)}) \ Readable(log[s])

\* The next line will be glued to what an interrupted append left.
Dirty(s) == IF Whole(log[s]) \/ Completing(s) # {} THEN 0 ELSE 1

\* Every loss, and everything that may still cause one, is paid for by a cut.
LossAt(s) ==
  /\ IsFiniteSet(acked[s]) /\ IsFiniteSet(Loose(s))
  /\ Cardinality(Lost(s)) + Cardinality(Loose(s)) + Dirty(s) <= cuts[s]

IsWriteOf(o, m) == o.bytes = <<m>> \/ o.bytes = <<m, NL>>

OrphansInv == \A o \in orphans : o.bytes = <<NL>> \/ \E m \in Messages : IsWriteOf(o, m)

\* A message is appended by one task or left to one orphan, and what an
\* interrupted append left at the end of a file is not acknowledged.
UniqueInv ==
  /\ \A t, u \in Tasks : message[t] = message[u] /\ message[t] # NoMessage => t = u
  /\ \A t \in Tasks, s \in Sessions : message[t] \notin acked[s]
  /\ \A o \in orphans, m \in Messages :
       IsWriteOf(o, m) => (\A s \in Sessions : m \notin acked[s]) /\ (\A t \in Tasks : message[t] # m)
  /\ \A s \in Sessions : log[s] # <<>> => Final(log[s]) \notin acked[s]

\* As long as nothing is cut, a writer's size check still holds when it writes.
SizeAt(s) ==
  cuts[s] = 0 =>
    /\ \A o \in orphans : o.session # s
    /\ Len(log[s]) <= TranscriptLimit + 1
    /\ \A t \in Tasks : target[t] = s =>
         /\ awaiting[t] = "writing" => Len(log[s]) < TranscriptLimit
         /\ awaiting[t] = "newline" => Len(log[s]) <= TranscriptLimit

FileInv ==
  /\ FileTypeInv /\ OrphansInv /\ UniqueInv
  /\ \A s \in Sessions : SizeAt(s) /\ LossAt(s)

TranscriptInv == TaskTypeInv /\ FileInv

-----------------------------------------------------------------------------
(* Counting                                                                *)

LEMMA OneMore ==
  ASSUME NEW A, IsFiniteSet(A), NEW B, NEW x, B \subseteq A \cup {x}
  PROVE  /\ IsFiniteSet(B) /\ Cardinality(A) \in Nat /\ Cardinality(B) \in Nat
         /\ Cardinality(B) <= Cardinality(A) + 1
<1>1. Cardinality(A) \in Nat
  BY FS_CardinalityType
<1>2. IsFiniteSet(A \cup {x}) /\ Cardinality(A \cup {x}) \in {Cardinality(A), Cardinality(A) + 1}
  BY FS_AddElement
<1>3. IsFiniteSet(B) /\ Cardinality(B) <= Cardinality(A \cup {x})
  BY <1>2, FS_Subset
<1>4. Cardinality(B) \in Nat
  BY <1>3, FS_CardinalityType
<1>. QED  BY <1>1, <1>2, <1>3, <1>4

LEMMA NoMore ==
  ASSUME NEW A, IsFiniteSet(A), NEW B, B \subseteq A
  PROVE  /\ IsFiniteSet(B) /\ Cardinality(A) \in Nat /\ Cardinality(B) \in Nat
         /\ Cardinality(B) <= Cardinality(A)
  BY FS_Subset, FS_CardinalityType

LEMMA LossIsCounted ==
  ASSUME TaskTypeInv, NEW s \in Sessions, IsFiniteSet(acked[s])
  PROVE  IsFiniteSet(Lost(s)) /\ Cardinality(Lost(s)) \in Nat
<1>. DEFINE owed == {message[t] : t \in Completing(s)}
<1>1. \E x : owed \subseteq {x}
  <2>1. \A t, u \in Completing(s) : t = u
    BY OneTaskHolds DEF Completing, Holding
  <2>. QED  BY <2>1
<1>2. PICK x : owed \subseteq {x}
  BY <1>1
<1>3. Lost(s) \subseteq acked[s] \cup {x}
  BY <1>2 DEF Lost
<1>. QED  BY <1>3, OneMore

\* The accounts of one step: what it loses, leaves loose and leaves dirty is
\* covered by what it cuts.
LEMMA LossIsPaid ==
  ASSUME TaskTypeInv, NEW s \in Sessions, LossAt(s), cuts[s] \in Nat, cuts'[s] \in Nat,
         IsFiniteSet(acked'[s]), IsFiniteSet(Loose(s)'),
         \/ /\ Lost(s)' \subseteq Lost(s)
            /\ Cardinality(Loose(s)') + Dirty(s)' + cuts[s] <= Cardinality(Loose(s)) + Dirty(s) + cuts'[s]
         \/ /\ \E m : Lost(s)' \subseteq Lost(s) \cup {m}
            /\ Cardinality(Loose(s)') + Dirty(s)' + cuts[s] + 1 <= Cardinality(Loose(s)) + Dirty(s) + cuts'[s]
  PROVE  LossAt(s)'
<1>1. /\ IsFiniteSet(Lost(s)) /\ Cardinality(Lost(s)) \in Nat
      /\ Cardinality(Loose(s)) \in Nat /\ Cardinality(Loose(s)') \in Nat
  BY LossIsCounted, FS_CardinalityType DEF LossAt
<1>2. Cardinality(Lost(s)) + Cardinality(Loose(s)) + Dirty(s) <= cuts[s]
  BY DEF LossAt
<1>3. Dirty(s) \in Nat /\ Dirty(s)' \in Nat
  BY DEF Dirty
<1>4. CASE Lost(s)' \subseteq Lost(s)
           /\ Cardinality(Loose(s)') + Dirty(s)' + cuts[s] <= Cardinality(Loose(s)) + Dirty(s) + cuts'[s]
  <2>1. Cardinality(Lost(s)') \in Nat /\ Cardinality(Lost(s)') <= Cardinality(Lost(s))
    BY <1>1, <1>4, NoMore
  <2>. QED  BY <1>1, <1>2, <1>3, <1>4, <2>1 DEF LossAt
<1>5. ASSUME NEW m, Lost(s)' \subseteq Lost(s) \cup {m},
             Cardinality(Loose(s)') + Dirty(s)' + cuts[s] + 1 <= Cardinality(Loose(s)) + Dirty(s) + cuts'[s]
      PROVE  LossAt(s)'
  <2>1. Cardinality(Lost(s)') \in Nat /\ Cardinality(Lost(s)') <= Cardinality(Lost(s)) + 1
    BY <1>1, <1>5, OneMore
  <2>. QED  BY <1>1, <1>2, <1>3, <1>5, <2>1 DEF LossAt
<1>. QED  BY <1>4, <1>5

\* A session whose file and appending tasks a step leaves alone.
LEMMA SessionIsKept ==
  ASSUME NEW s \in Sessions, SizeAt(s), LossAt(s),
         log'[s] = log[s], acked'[s] = acked[s], cuts'[s] = cuts[s],
         {o \in orphans' : o.session = s} = {o \in orphans : o.session = s},
         \A t \in Tasks : (target'[t] = s /\ awaiting'[t] \in {"writing", "newline"}
                             => target[t] = s /\ awaiting'[t] = awaiting[t]),
         \A t \in Completing(s) : target'[t] = s /\ awaiting'[t] = "newline" /\ message'[t] = message[t]
  PROVE  SizeAt(s)' /\ LossAt(s)'
<1>1. Completing(s)' = Completing(s)
  BY DEF Completing
<1>2. {message'[t] : t \in Completing(s)'} = {message[t] : t \in Completing(s)}
  BY <1>1
<1>3. Lost(s)' = Lost(s) /\ Dirty(s)' = Dirty(s)
  BY <1>1, <1>2 DEF Lost, Dirty
<1>4. Loose(s)' = Loose(s)
  BY DEF Loose
<1>5. SizeAt(s)'
  <2>1. \A o \in orphans' : o.session = s => o \in orphans
    OBVIOUS
  <2>. QED  BY <2>1 DEF SizeAt
<1>. QED  BY <1>3, <1>4, <1>5 DEF LossAt

\* What the end of an operation changes for the others.
LEMMA LeaveEffect ==
  ASSUME TaskTypeInv, NEW t \in Tasks, Leave(t)
  PROVE  /\ awaiting'[t] = "idle" /\ message'[t] = NoMessage
         /\ \A u \in Tasks \ {t} :
              awaiting'[u] = awaiting[u] /\ message'[u] = message[u] /\ target'[u] = target[u]
         /\ \A r \in Sessions : Completing(r)' = Completing(r) \ {t}
<1>1. /\ awaiting'[t] = "idle" /\ message'[t] = NoMessage
      /\ \A u \in Tasks \ {t} : awaiting'[u] = awaiting[u] /\ message'[u] = message[u]
  BY DEF Leave, TaskTypeInv
<1>2. \A u \in Tasks \ {t} : target'[u] = target[u]
  BY DroppedGuardIsFree DEF Leave, TaskTypeInv, OthersKeepLocks
<1>. QED  BY <1>1, <1>2 DEF Completing

-----------------------------------------------------------------------------
(* Steps that leave the files and the orphans alone                        *)

LEMMA QuietKeepsFiles ==
  ASSUME TranscriptInv, UNCHANGED <<log, orphans, acked, cuts>>,
         created' \subseteq Sessions, diskFaults' \in Nat,
         \A t \in Tasks :
           /\ message'[t] \in {message[t], NoMessage} \/ Fresh(message'[t])
           /\ awaiting'[t] = "writing" /\ awaiting[t] # "writing"
                => awaiting[t] = "checking" /\ Len(log[target[t]]) < TranscriptLimit
           /\ awaiting'[t] = "newline" <=> awaiting[t] = "newline"
           /\ awaiting'[t] \in {"writing", "newline"} => target'[t] = target[t] /\ message'[t] = message[t],
         \A t, u \in Tasks : message'[t] = message'[u] /\ message'[t] # NoMessage => t = u
  PROVE  FileInv'
<1>. USE DEF TranscriptInv, FileInv
<1>1. FileTypeInv' /\ OrphansInv'
  BY DEF FileTypeInv, OrphansInv, IsWriteOf
<1>2. UniqueInv'
  <2>1. ASSUME NEW t \in Tasks, NEW s \in Sessions PROVE message'[t] \notin acked[s]
    <3>1. NoMessage \notin acked[s]
      BY TranscriptAssumption DEF FileTypeInv
    <3>2. message[t] \notin acked[s]
      BY DEF UniqueInv
    <3>. QED  BY <3>1, <3>2 DEF Fresh
  <2>2. ASSUME NEW o \in orphans, NEW m \in Messages, IsWriteOf(o, m), NEW t \in Tasks
        PROVE  message'[t] # m
    <3>1. message[t] # m
      BY <2>2 DEF UniqueInv
    <3>2. 1 \in DOMAIN o.bytes /\ o.bytes[1] = m
      BY <2>2 DEF IsWriteOf
    <3>3. Fresh(message'[t]) => message'[t] # m
      BY <3>2 DEF Fresh
    <3>. QED  BY <3>1, <3>3, TranscriptAssumption
  <2>. QED  BY <2>1, <2>2 DEF UniqueInv, IsWriteOf
<1>3. ASSUME NEW s \in Sessions PROVE SizeAt(s)' /\ LossAt(s)'
  <2>1. Completing(s)' = Completing(s)
    <3>1. \A t \in Tasks : awaiting[t] = "newline" => awaiting'[t] = "newline" /\ target'[t] = target[t]
      OBVIOUS
    <3>. QED  BY <3>1 DEF Completing
  <2>2. {message'[t] : t \in Completing(s)'} = {message[t] : t \in Completing(s)}
    BY <2>1 DEF Completing
  <2>3. LossAt(s)'
    BY <2>1, <2>2 DEF LossAt, Lost, Loose, Dirty
  <2>4. SizeAt(s)'
    BY DEF SizeAt
  <2>. QED  BY <2>3, <2>4
<1>. QED  BY <1>1, <1>2, <1>3

LEMMA QuietSteps ==
  ASSUME TranscriptInv,
         \/ \E s \in Sessions : CreateSession(s)
         \/ \E t \in Tasks :
              \/ \E s \in Sessions, m \in Messages \cup {NoMessage} : Begin(t, s, m)
              \/ Enter(t) \/ RefuseAppend(t) \/ OpenForAppend(t) \/ ReadLog(t)
  PROVE  FileInv'
<1>. USE DEF TranscriptInv, TaskTypeInv, FileInv, FileTypeInv
<1>0. \A t, u \in Tasks : message[t] = message[u] /\ message[t] # NoMessage => t = u
  BY DEF UniqueInv
<1>1. CASE \E s \in Sessions : CreateSession(s)
  BY <1>0, <1>1, QuietKeepsFiles DEF CreateSession, lockVars
<1>2. ASSUME NEW t \in Tasks, NEW s \in Sessions, NEW m \in Messages \cup {NoMessage}, Begin(t, s, m)
      PROVE  FileInv'
  <2>1. /\ awaiting[t] = "idle" /\ (m # NoMessage => Fresh(m))
        /\ awaiting' = [awaiting EXCEPT ![t] = "locking"] /\ message' = [message EXCEPT ![t] = m]
        /\ UNCHANGED <<created, log, orphans, acked, cuts, diskFaults>>
    BY <1>2 DEF Begin
  <2>2. \A u \in Tasks \ {t} : target'[u] = target[u]
    BY <1>2, FetchedLockIsNotHeld DEF Begin, OthersKeepLocks
  <2>3. \A u \in Tasks \ {t} : m # NoMessage => message[u] # m
    BY <2>1 DEF Fresh
  <2>. QED  BY <1>0, <2>1, <2>2, <2>3, QuietKeepsFiles
<1>3. ASSUME NEW t \in Tasks, Enter(t) PROVE FileInv'
  <2>1. /\ awaiting[t] = "locking" /\ awaiting' = [awaiting EXCEPT ![t] = Inside(t)]
        /\ Inside(t) \in {"reading", "checking"}
        /\ UNCHANGED <<target, message, created, log, orphans, acked, cuts, diskFaults>>
    BY <1>3 DEF Enter, AcquireGuard, Inside
  <2>. QED  BY <1>0, <2>1, QuietKeepsFiles
<1>4. ASSUME NEW t \in Tasks, RefuseAppend(t) \/ ReadLog(t) PROVE FileInv'
  <2>1. /\ Leave(t) /\ awaiting[t] \in {"checking", "reading"}
        /\ UNCHANGED <<created, log, orphans, acked, cuts, diskFaults>>
    BY <1>4 DEF RefuseAppend, ReadLog
  <2>2. /\ awaiting'[t] = "idle" /\ message'[t] = NoMessage
        /\ \A u \in Tasks \ {t} :
             awaiting'[u] = awaiting[u] /\ message'[u] = message[u] /\ target'[u] = target[u]
    BY <2>1, LeaveEffect
  <2>. QED  BY <1>0, <2>1, <2>2, QuietKeepsFiles
<1>5. ASSUME NEW t \in Tasks, OpenForAppend(t) PROVE FileInv'
  <2>1. /\ awaiting[t] = "checking" /\ Len(log[target[t]]) < TranscriptLimit
        /\ awaiting' = [awaiting EXCEPT ![t] = "writing"]
        /\ UNCHANGED <<target, message, created, log, orphans, acked, cuts, diskFaults>>
    BY <1>5 DEF OpenForAppend, lockVars
  <2>. QED  BY <1>0, <2>1, QuietKeepsFiles
<1>. QED  BY <1>1, <1>2, <1>3, <1>4, <1>5

-----------------------------------------------------------------------------
(* Steps of an append                                                      *)

LEMMA UniqueIsKept ==
  ASSUME FileTypeInv, FileTypeInv', UniqueInv, NEW t \in Tasks,
         \A u \in Tasks \ {t} : message'[u] = message[u],
         message'[t] \in {message[t], NoMessage},
         acked' = acked \/ (message'[t] = NoMessage /\ orphans' = orphans),
         \A s \in Sessions : acked'[s] \subseteq acked[s] \cup {message[t]},
         \A o \in orphans' \ orphans :
           o.bytes = <<NL>> \/ (message'[t] = NoMessage /\ IsWriteOf(o, message[t])),
         \A s \in Sessions : log'[s] # <<>> =>
           \/ log'[s] = log[s] /\ acked'[s] = acked[s]
           \/ Final(log'[s]) \in {NL, Piece}
           \/ Final(log'[s]) = message[t] /\ acked' = acked
  PROVE  UniqueInv'
<1>1. \A s \in Sessions : acked'[s] \subseteq Messages /\ acked[s] \subseteq Messages
  BY DEF FileTypeInv
<1>2. \A u, v \in Tasks : message'[u] = message'[v] /\ message'[u] # NoMessage => u = v
  BY DEF UniqueInv
<1>3. ASSUME NEW u \in Tasks, NEW s \in Sessions PROVE message'[u] \notin acked'[s]
  <2>1. message[u] \notin acked[s] /\ NoMessage \notin acked'[s]
    BY <1>1, TranscriptAssumption DEF UniqueInv
  <2>2. CASE acked' = acked
    BY <2>1, <2>2
  <2>3. CASE message'[t] = NoMessage
    <3>1. u # t => message[u] = message'[u] /\ (message[u] = message[t] => message[u] = NoMessage)
      BY DEF UniqueInv
    <3>. QED  BY <2>1, <2>3, <3>1
  <2>. QED  BY <2>2, <2>3
<1>4. ASSUME NEW o \in orphans', NEW m \in Messages, IsWriteOf(o, m)
      PROVE  (\A s \in Sessions : m \notin acked'[s]) /\ (\A u \in Tasks : message'[u] # m)
  <2>1. o.bytes # <<NL>> /\ m # NoMessage
    BY <1>4, TranscriptAssumption DEF IsWriteOf
  <2>2. CASE o \in orphans
    <3>1. (\A s \in Sessions : m \notin acked[s]) /\ (\A u \in Tasks : message[u] # m)
      BY <1>4, <2>2 DEF UniqueInv
    <3>. QED  BY <2>1, <3>1
  <2>3. CASE o \notin orphans
    <3>1. message'[t] = NoMessage /\ IsWriteOf(o, message[t]) /\ acked' = acked
      BY <2>1, <2>3
    <3>2. m = message[t]
      BY <1>4, <3>1 DEF IsWriteOf
    <3>. QED  BY <2>1, <3>1, <3>2 DEF UniqueInv
  <2>. QED  BY <2>2, <2>3
<1>5. ASSUME NEW s \in Sessions, log'[s] # <<>> PROVE Final(log'[s]) \notin acked'[s]
  <2>1. NL \notin acked'[s] /\ Piece \notin acked'[s]
    BY <1>1, TranscriptAssumption
  <2>2. CASE log'[s] = log[s] /\ acked'[s] = acked[s]
    BY <1>5, <2>2 DEF UniqueInv
  <2>3. CASE Final(log'[s]) = message[t] /\ acked' = acked
    BY <2>3 DEF UniqueInv
  <2>. QED  BY <1>5, <2>1, <2>2, <2>3
<1>. QED  BY <1>2, <1>3, <1>4, <1>5, Zenon DEF UniqueInv, IsWriteOf

\* Two appends of different sessions do not meet.
LEMMA OtherSessionsAreKept ==
  ASSUME TranscriptInv, NEW t \in Tasks, NEW r \in Sessions, r # target[t],
         log'[r] = log[r], acked'[r] = acked[r], cuts'[r] = cuts[r],
         {o \in orphans' : o.session = r} = {o \in orphans : o.session = r},
         \A u \in Tasks \ {t} :
           awaiting'[u] = awaiting[u] /\ message'[u] = message[u] /\ target'[u] = target[u],
         target'[t] = target[t] \/ awaiting'[t] = "idle"
  PROVE  SizeAt(r)' /\ LossAt(r)'
<1>1. SizeAt(r) /\ LossAt(r)
  BY DEF TranscriptInv, FileInv
<1>2. \A u \in Tasks : (target'[u] = r /\ awaiting'[u] \in {"writing", "newline"}
                           => target[u] = r /\ awaiting'[u] = awaiting[u])
  OBVIOUS
<1>3. \A u \in Completing(r) : target'[u] = r /\ awaiting'[u] = "newline" /\ message'[u] = message[u]
  BY DEF Completing
<1>. QED  BY <1>1, <1>2, <1>3, SessionIsKept

LEMMA WriteLineKeepsFiles ==
  ASSUME TranscriptInv, NEW t \in Tasks, WriteLine(t)
  PROVE  FileInv'
<1>. USE DEF TranscriptInv, FileInv
<1>0. PICK s, m : s = target[t] /\ m = message[t]
  OBVIOUS
<1>1. s \in Sessions /\ m \in Messages /\ awaiting[t] = "writing"
  BY <1>0 DEF WriteLine, TaskTypeInv, TaskInv
<1>2. /\ log' = [log EXCEPT ![s] = @ \o <<m, NL>>] /\ acked' = [acked EXCEPT ![s] = @ \cup {m}]
      /\ Leave(t) /\ UNCHANGED <<created, orphans, cuts, diskFaults>>
  BY <1>0 DEF WriteLine
<1>3. log[s] \in Seq(Chunk) /\ log'[s] = log[s] \o <<m, NL>> /\ acked'[s] = acked[s] \cup {m}
  BY <1>1, <1>2 DEF FileTypeInv
<1>4. /\ log'[s] \in Seq(Chunk) /\ log'[s] # <<>> /\ Whole(log'[s]) /\ Len(log'[s]) = Len(log[s]) + 2
      /\ log[s] # <<>> => Readable(log[s]) \subseteq Readable(log'[s]) \cup {Final(log[s])}
      /\ Whole(log[s]) => Readable(log[s]) \subseteq Readable(log'[s]) /\ m \in Readable(log'[s])
  BY <1>1, <1>3, BodySpoilsTheLast
<1>5. \A u \in Tasks : target[u] = s /\ awaiting[u] \in {"writing", "newline"} => u = t
  BY <1>0, <1>1, OneTaskHolds DEF Holding
<1>6. Completing(s) = {} /\ Completing(s)' = {}
  BY <1>1, <1>2, <1>5, LeaveEffect DEF Completing
<1>7. FileTypeInv'
  BY <1>1, <1>2, <1>4 DEF FileTypeInv
<1>8. OrphansInv' /\ UniqueInv'
  <2>1. message'[t] = NoMessage /\ \A u \in Tasks \ {t} : message'[u] = message[u]
    BY <1>2, LeaveEffect
  <2>2. \A r \in Sessions : acked'[r] \subseteq acked[r] \cup {m}
    BY <1>1, <1>2 DEF FileTypeInv
  <2>3. \A r \in Sessions : r # s => log'[r] = log[r] /\ acked'[r] = acked[r]
    BY <1>2 DEF FileTypeInv
  <2>4. Final(log'[s]) = NL
    BY <1>4 DEF Whole
  <2>. QED  BY <1>0, <1>2, <1>7, <2>1, <2>2, <2>3, <2>4, UniqueIsKept DEF OrphansInv, IsWriteOf
<1>9. LossAt(s)'
  <2>0. IsFiniteSet(acked[s]) /\ IsFiniteSet(Loose(s)) /\ Loose(s)' = Loose(s)
    BY <1>1, <1>2 DEF LossAt, Loose
  <2>1. Cardinality(Loose(s)) \in Nat /\ Cardinality(Loose(s)') = Cardinality(Loose(s))
    BY <2>0, FS_CardinalityType
  <2>6. IsFiniteSet(acked'[s])
    BY <1>3, <2>0, FS_AddElement
  <2>2. Lost(s) = acked[s] \ Readable(log[s]) /\ Lost(s)' = (acked[s] \cup {m}) \ Readable(log'[s])
    BY <1>3, <1>6 DEF Lost
  <2>3. cuts[s] \in Nat /\ cuts' = cuts /\ Dirty(s)' = 0 /\ LossAt(s)
    BY <1>1, <1>2, <1>4 DEF Dirty, FileTypeInv
  <2>4. CASE Whole(log[s])
    <3>1. Lost(s)' \subseteq Lost(s) /\ Dirty(s) = 0
      BY <1>4, <2>2, <2>4 DEF Dirty
    <3>. QED  BY <1>1, <2>0, <2>1, <2>6, <2>3, <3>1, LossIsPaid
  <2>5. CASE ~Whole(log[s])
    <3>1. log[s] # <<>> /\ Final(log[s]) \notin acked[s] /\ Dirty(s) = 1
      BY <1>1, <1>6, <2>5 DEF Whole, UniqueInv, Dirty
    <3>2. Lost(s)' \subseteq Lost(s) \cup {m}
      BY <1>4, <2>2, <3>1
    <3>3. Cardinality(Loose(s)') + Dirty(s)' + cuts[s] + 1 <= Cardinality(Loose(s)) + Dirty(s) + cuts'[s]
      BY <2>1, <2>3, <3>1
    <3>. QED  BY <1>1, <2>0, <2>6, <2>3, <3>2, <3>3, LossIsPaid
  <2>. QED  BY <2>4, <2>5
<1>10. SizeAt(s)'
  <2>1. \A u \in Tasks : ~(target'[u] = s /\ awaiting'[u] \in {"writing", "newline"})
    BY <1>2, <1>5, LeaveEffect
  <2>2. SizeAt(s) /\ TranscriptLimit \in Nat /\ Len(log[s]) \in Nat
    BY <1>1, <1>3, TranscriptAssumption
  <2>. QED  BY <1>0, <1>1, <1>2, <1>4, <2>1, <2>2 DEF SizeAt
<1>11. ASSUME NEW r \in Sessions, r # s PROVE SizeAt(r)' /\ LossAt(r)'
  <2>1. log'[r] = log[r] /\ acked'[r] = acked[r] /\ cuts'[r] = cuts[r] /\ orphans' = orphans
    BY <1>2, <1>11 DEF FileTypeInv
  <2>. QED  BY <1>0, <1>2, <1>11, <2>1, LeaveEffect, OtherSessionsAreKept
<1>. QED  BY <1>7, <1>8, <1>9, <1>10, <1>11

LEMMA WriteBodyKeepsFiles ==
  ASSUME TranscriptInv, NEW t \in Tasks, WriteBody(t)
  PROVE  FileInv'
<1>. USE DEF TranscriptInv, FileInv
<1>0. PICK s, m : s = target[t] /\ m = message[t]
  OBVIOUS
<1>1. s \in Sessions /\ m \in Messages /\ awaiting[t] = "writing"
  BY <1>0 DEF WriteBody, TaskTypeInv, TaskInv
<1>2. /\ log' = [log EXCEPT ![s] = @ \o <<m>>] /\ awaiting' = [awaiting EXCEPT ![t] = "newline"]
      /\ UNCHANGED <<target, message, created, orphans, acked, cuts, diskFaults>>
  BY <1>0 DEF WriteBody, lockVars
<1>3. log[s] \in Seq(Chunk) /\ log'[s] = log[s] \o <<m>>
  BY <1>1, <1>2 DEF FileTypeInv
<1>4. /\ log'[s] \in Seq(Chunk) /\ log'[s] # <<>> /\ Len(log'[s]) = Len(log[s]) + 1
      /\ log[s] # <<>> => Readable(log[s]) \subseteq Readable(log'[s]) \cup {Final(log[s])}
      /\ Whole(log[s]) => Readable(log[s]) \subseteq Readable(log'[s]) /\ m \in Readable(log'[s])
      /\ Final(log'[s]) \in {m, NL}
  BY <1>1, <1>3, BodySpoilsTheLast
<1>5. \A u \in Tasks : target[u] = s /\ awaiting[u] \in {"writing", "newline"} => u = t
  BY <1>0, <1>1, OneTaskHolds DEF Holding
<1>6. Completing(s) = {} /\ Completing(s)' = {t}
  <2>1. \A u \in Tasks : awaiting'[u] = IF u = t THEN "newline" ELSE awaiting[u]
    BY <1>2 DEF TaskTypeInv
  <2>. QED  BY <1>0, <1>1, <1>2, <1>5, <2>1 DEF Completing
<1>7. FileTypeInv'
  BY <1>1, <1>2, <1>4 DEF FileTypeInv
<1>8. OrphansInv' /\ UniqueInv'
  <2>1. \A r \in Sessions : r # s => log'[r] = log[r]
    BY <1>2 DEF FileTypeInv
  <2>2. Final(log'[s]) \in {m, NL}
    BY <1>4
  <2>. QED  BY <1>0, <1>2, <1>7, <2>1, <2>2, UniqueIsKept DEF OrphansInv, IsWriteOf
<1>9. LossAt(s)'
  <2>0. IsFiniteSet(acked[s]) /\ IsFiniteSet(Loose(s)) /\ Loose(s)' = Loose(s)
    BY <1>1, <1>2 DEF LossAt, Loose
  <2>1. IsFiniteSet(acked'[s]) /\ Cardinality(Loose(s)) \in Nat /\ Cardinality(Loose(s)') = Cardinality(Loose(s))
    BY <1>2, <2>0, FS_CardinalityType
  <2>2. Lost(s) = acked[s] \ Readable(log[s]) /\ Lost(s)' = (acked[s] \cup {m}) \ Readable(log'[s])
    BY <1>0, <1>2, <1>6 DEF Lost
  <2>3. cuts[s] \in Nat /\ cuts' = cuts /\ Dirty(s)' = 0 /\ LossAt(s)
    BY <1>1, <1>2, <1>6 DEF Dirty, FileTypeInv
  <2>4. CASE Whole(log[s])
    <3>1. Lost(s)' \subseteq Lost(s) /\ Dirty(s) = 0
      BY <1>4, <2>2, <2>4 DEF Dirty
    <3>. QED  BY <1>1, <2>0, <2>1, <2>3, <3>1, LossIsPaid
  <2>5. CASE ~Whole(log[s])
    <3>1. log[s] # <<>> /\ Final(log[s]) \notin acked[s] /\ Dirty(s) = 1
      BY <1>1, <1>6, <2>5 DEF Whole, UniqueInv, Dirty
    <3>2. Lost(s)' \subseteq Lost(s) \cup {m}
      BY <1>4, <2>2, <3>1
    <3>3. Cardinality(Loose(s)') + Dirty(s)' + cuts[s] + 1 <= Cardinality(Loose(s)) + Dirty(s) + cuts'[s]
      BY <2>1, <2>3, <3>1
    <3>. QED  BY <1>1, <2>0, <2>1, <2>3, <3>2, <3>3, LossIsPaid
  <2>. QED  BY <2>4, <2>5
<1>10. SizeAt(s)'
  <2>1. \A u \in Tasks : target'[u] = s => awaiting'[u] # "writing"
    BY <1>2, <1>5 DEF TaskTypeInv
  <2>2. SizeAt(s) /\ TranscriptLimit \in Nat /\ Len(log[s]) \in Nat
    BY <1>1, <1>3, TranscriptAssumption
  <2>3. cuts[s] = 0 => Len(log[s]) < TranscriptLimit
    BY <1>0, <1>1, <2>2 DEF SizeAt
  <2>. QED  BY <1>2, <1>4, <2>1, <2>2, <2>3 DEF SizeAt
<1>11. ASSUME NEW r \in Sessions, r # s PROVE SizeAt(r)' /\ LossAt(r)'
  <2>1. log'[r] = log[r] /\ acked'[r] = acked[r] /\ cuts'[r] = cuts[r] /\ orphans' = orphans
    BY <1>2, <1>11 DEF FileTypeInv
  <2>2. \A u \in Tasks \ {t} :
          awaiting'[u] = awaiting[u] /\ message'[u] = message[u] /\ target'[u] = target[u]
    BY <1>2 DEF TaskTypeInv
  <2>. QED  BY <1>0, <1>2, <1>11, <2>1, <2>2, OtherSessionsAreKept
<1>. QED  BY <1>7, <1>8, <1>9, <1>10, <1>11

LEMMA WriteNewlineKeepsFiles ==
  ASSUME TranscriptInv, NEW t \in Tasks, WriteNewline(t)
  PROVE  FileInv'
<1>. USE DEF TranscriptInv, FileInv
<1>0. PICK s, m : s = target[t] /\ m = message[t]
  OBVIOUS
<1>1. s \in Sessions /\ m \in Messages /\ awaiting[t] = "newline"
  BY <1>0 DEF WriteNewline, TaskTypeInv, TaskInv
<1>2. /\ log' = [log EXCEPT ![s] = Append(@, NL)] /\ acked' = [acked EXCEPT ![s] = @ \cup {m}]
      /\ Leave(t) /\ UNCHANGED <<created, orphans, cuts, diskFaults>>
  BY <1>0 DEF WriteNewline
<1>3. log[s] \in Seq(Chunk) /\ log'[s] = Append(log[s], NL) /\ acked'[s] = acked[s] \cup {m} /\ NL \in Chunk
  BY <1>1, <1>2 DEF FileTypeInv, Chunk
<1>4. /\ log'[s] \in Seq(Chunk) /\ log'[s] # <<>> /\ Final(log'[s]) = NL /\ Len(log'[s]) = Len(log[s]) + 1
      /\ Readable(log[s]) \subseteq Readable(log'[s])
  BY <1>3, ChunkSpoilsTheLast
<1>5. \A u \in Tasks : target[u] = s /\ awaiting[u] \in {"writing", "newline"} => u = t
  BY <1>0, <1>1, OneTaskHolds DEF Holding
<1>6. Completing(s) = {t} /\ Completing(s)' = {}
  BY <1>0, <1>1, <1>2, <1>5, LeaveEffect DEF Completing
<1>7. FileTypeInv'
  BY <1>1, <1>2, <1>4 DEF FileTypeInv
<1>8. OrphansInv' /\ UniqueInv'
  <2>1. message'[t] = NoMessage /\ \A u \in Tasks \ {t} : message'[u] = message[u]
    BY <1>2, LeaveEffect
  <2>2. \A r \in Sessions : acked'[r] \subseteq acked[r] \cup {m}
    BY <1>1, <1>2 DEF FileTypeInv
  <2>3. \A r \in Sessions : r # s => log'[r] = log[r] /\ acked'[r] = acked[r]
    BY <1>2 DEF FileTypeInv
  <2>. QED  BY <1>0, <1>2, <1>4, <1>7, <2>1, <2>2, <2>3, UniqueIsKept DEF OrphansInv, IsWriteOf
<1>9. LossAt(s)'
  <2>0. IsFiniteSet(acked[s]) /\ IsFiniteSet(Loose(s)) /\ Loose(s)' = Loose(s)
    BY <1>1, <1>2 DEF LossAt, Loose
  <2>1. Cardinality(Loose(s)) \in Nat /\ Cardinality(Loose(s)') = Cardinality(Loose(s))
    BY <2>0, FS_CardinalityType
  <2>6. IsFiniteSet(acked'[s])
    BY <1>3, <2>0, FS_AddElement
  <2>2. Lost(s) = (acked[s] \cup {m}) \ Readable(log[s]) /\ Lost(s)' = (acked[s] \cup {m}) \ Readable(log'[s])
    BY <1>0, <1>3, <1>6 DEF Lost
  <2>3. cuts[s] \in Nat /\ cuts' = cuts /\ Dirty(s) = 0 /\ Dirty(s)' = 0 /\ LossAt(s)
    BY <1>1, <1>2, <1>4, <1>6 DEF Dirty, Whole, FileTypeInv
  <2>4. Lost(s)' \subseteq Lost(s)
    BY <1>4, <2>2
  <2>. QED  BY <1>1, <2>0, <2>1, <2>6, <2>3, <2>4, LossIsPaid
<1>10. SizeAt(s)'
  <2>1. \A u \in Tasks : ~(target'[u] = s /\ awaiting'[u] \in {"writing", "newline"})
    BY <1>2, <1>5, LeaveEffect
  <2>2. SizeAt(s) /\ TranscriptLimit \in Nat /\ Len(log[s]) \in Nat
    BY <1>1, <1>3, TranscriptAssumption
  <2>. QED  BY <1>0, <1>1, <1>2, <1>4, <2>1, <2>2 DEF SizeAt
<1>11. ASSUME NEW r \in Sessions, r # s PROVE SizeAt(r)' /\ LossAt(r)'
  <2>1. log'[r] = log[r] /\ acked'[r] = acked[r] /\ cuts'[r] = cuts[r] /\ orphans' = orphans
    BY <1>2, <1>11 DEF FileTypeInv
  <2>. QED  BY <1>0, <1>2, <1>11, <2>1, LeaveEffect, OtherSessionsAreKept
<1>. QED  BY <1>7, <1>8, <1>9, <1>10, <1>11

-----------------------------------------------------------------------------
(* Faults                                                                  *)

\* What is left behind when a future is dropped.
LEMMA DropLeaves ==
  ASSUME TranscriptInv, NEW t \in Tasks, Drop(t), NEW s, s = target[t], NEW m, m = message[t]
  PROVE  /\ s \in Sessions /\ Leave(t) /\ UNCHANGED <<created, log, acked>> /\ diskFaults' = diskFaults + 1
         /\ \/ awaiting[t] # "newline" /\ UNCHANGED <<orphans, cuts>>
            \/ /\ awaiting[t] = "writing" /\ m \in Messages
               /\ \E o \in Orphan : o.session = s /\ IsWriteOf(o, m) /\ orphans' = orphans \cup {o}
               /\ cuts' = [cuts EXCEPT ![s] = @ + 1]
            \/ /\ awaiting[t] = "newline" /\ m \in Messages
               /\ \/ orphans' = orphans
                  \/ \E o \in Orphan : o.session = s /\ o.bytes = <<NL>> /\ orphans' = orphans \cup {o}
               /\ cuts' = [cuts EXCEPT ![s] = @ + 1]
<1>1. /\ s \in Sessions /\ Leave(t) /\ UNCHANGED <<created, log, acked>> /\ diskFaults' = diskFaults + 1
      /\ awaiting[t] \in {"writing", "newline"} => m \in Messages
  BY DEF Drop, Fault, TranscriptInv, TaskTypeInv, TaskInv
<1>2. PICK bytes \in {<<>>, NextWrite(t)} :
        /\ orphans' = IF bytes = <<>> THEN orphans ELSE orphans \cup {[session |-> s, bytes |-> bytes]}
        /\ cuts' = IF bytes = <<>> /\ awaiting[t] # "newline" THEN cuts ELSE [cuts EXCEPT ![s] = @ + 1]
  BY DEF Drop
<1>. DEFINE o == [session |-> s, bytes |-> bytes]
<1>3. ASSUME bytes # <<>>, awaiting[t] = "writing"
      PROVE  o \in Orphan /\ o.session = s /\ IsWriteOf(o, m)
  <2>1. bytes = <<m>> \/ bytes = <<m, NL>>
    BY <1>3 DEF NextWrite, FirstWrite
  <2>2. <<m>> \in Seq(Chunk) /\ <<m, NL>> \in Seq(Chunk)
    BY <1>1, <1>3 DEF Chunk
  <2>. QED  BY <1>1, <2>1, <2>2 DEF Orphan, IsWriteOf
<1>4. ASSUME bytes # <<>>, awaiting[t] = "newline"
      PROVE  o \in Orphan /\ o.session = s /\ o.bytes = <<NL>>
  <2>1. bytes = <<NL>> /\ <<NL>> \in Seq(Chunk)
    BY <1>4 DEF NextWrite, Chunk
  <2>. QED  BY <1>1, <2>1 DEF Orphan
<1>5. awaiting[t] \notin {"writing", "newline"} => bytes = <<>>
  BY DEF NextWrite
<1>. HIDE DEF o
<1>6. orphans' = IF bytes = <<>> THEN orphans ELSE orphans \cup {o}
  BY <1>2 DEF o
<1>7. CASE awaiting[t] = "writing"
  BY <1>1, <1>2, <1>3, <1>6, <1>7
<1>8. CASE awaiting[t] = "newline"
  BY <1>1, <1>2, <1>4, <1>6, <1>8
<1>9. CASE awaiting[t] \notin {"writing", "newline"}
  BY <1>1, <1>2, <1>5, <1>6, <1>9
<1>. QED  BY <1>7, <1>8, <1>9

LEMMA DropKeepsFiles ==
  ASSUME TranscriptInv, NEW t \in Tasks, Drop(t)
  PROVE  FileInv'
<1>. USE DEF TranscriptInv, FileInv
<1>0. PICK s, m : s = target[t] /\ m = message[t]
  OBVIOUS
<1>1. s \in Sessions /\ Leave(t) /\ UNCHANGED <<created, log, acked>> /\ diskFaults' = diskFaults + 1
  BY <1>0, DropLeaves
<1>2. /\ awaiting'[t] = "idle" /\ message'[t] = NoMessage
      /\ \A u \in Tasks \ {t} :
           awaiting'[u] = awaiting[u] /\ message'[u] = message[u] /\ target'[u] = target[u]
      /\ \A r \in Sessions : Completing(r)' = Completing(r) \ {t}
  BY <1>1, LeaveEffect
<1>3. CASE awaiting[t] # "newline" /\ UNCHANGED <<orphans, cuts>>
  <2>1. \A u, v \in Tasks : message[u] = message[v] /\ message[u] # NoMessage => u = v
    BY DEF UniqueInv
  <2>2. created' \subseteq Sessions /\ diskFaults' \in Nat
    BY <1>1 DEF FileTypeInv
  <2>. QED  BY <1>1, <1>2, <1>3, <2>1, <2>2, QuietKeepsFiles
<1>4. ASSUME NEW o \in Orphan, o.session = s, orphans' = orphans \/ orphans' = orphans \cup {o},
             cuts' = [cuts EXCEPT ![s] = @ + 1], m \in Messages,
             \/ awaiting[t] = "writing" /\ IsWriteOf(o, m)
             \/ awaiting[t] = "newline" /\ o.bytes = <<NL>>
      PROVE  FileInv'
  <2>1. FileTypeInv'
    BY <1>1, <1>4 DEF FileTypeInv
  <2>2. OrphansInv' /\ UniqueInv'
    <3>1. OrphansInv'
      BY <1>4 DEF OrphansInv, IsWriteOf
    <3>2. \A r \in Sessions : log'[r] = log[r] /\ acked'[r] = acked[r]
      BY <1>1
    <3>3. \A x \in orphans' \ orphans : x.bytes = <<NL>> \/ IsWriteOf(x, message[t])
      BY <1>0, <1>4
    <3>. QED  BY <1>1, <1>2, <2>1, <3>1, <3>2, <3>3, UniqueIsKept
  <2>3. cuts[s] \in Nat /\ cuts'[s] = cuts[s] + 1 /\ LossAt(s)
    BY <1>1, <1>4 DEF FileTypeInv
  <2>4. SizeAt(s)'
    BY <2>3 DEF SizeAt
  <2>5. LossAt(s)'
    <3>1. IsFiniteSet(acked[s]) /\ acked' = acked /\ IsFiniteSet(Loose(s)) /\ Cardinality(Loose(s)) \in Nat
      BY <1>1, <2>3, FS_CardinalityType DEF LossAt
    <3>2. Lost(s)' \subseteq Lost(s)
      <4>1. \A u \in Completing(s)' : u \in Completing(s) /\ message'[u] = message[u]
        BY <1>1, <1>2 DEF Completing
      <4>. QED  BY <1>1, <4>1 DEF Lost
    <3>3. CASE awaiting[t] = "writing"
      <4>1. Completing(s)' = Completing(s)
        BY <1>1, <1>2, <3>3 DEF Completing
      <4>2. Dirty(s)' = Dirty(s) /\ Dirty(s) \in Nat
        BY <1>1, <4>1 DEF Dirty
      <4>3. Loose(s)' \subseteq Loose(s) \cup {o}
        BY <1>4 DEF Loose
      <4>4. IsFiniteSet(Loose(s)') /\ Cardinality(Loose(s)') \in Nat /\ Cardinality(Loose(s)') <= Cardinality(Loose(s)) + 1
        BY <3>1, <4>3, OneMore
      <4>5. Cardinality(Loose(s)') + Dirty(s)' + cuts[s] <= Cardinality(Loose(s)) + Dirty(s) + cuts'[s]
        BY <2>3, <3>1, <4>2, <4>4
      <4>. QED  BY <1>1, <2>3, <3>1, <3>2, <4>4, <4>5, LossIsPaid
    <3>4. CASE awaiting[t] = "newline"
      <4>1. Loose(s)' \subseteq Loose(s)
        BY <1>4, <3>4 DEF Loose
      <4>2. IsFiniteSet(Loose(s)') /\ Cardinality(Loose(s)') \in Nat /\ Cardinality(Loose(s)') <= Cardinality(Loose(s))
        BY <3>1, <4>1, NoMore
      <4>3. Dirty(s) \in Nat /\ Dirty(s)' \in {0, 1}
        BY DEF Dirty
      <4>4. Cardinality(Loose(s)') + Dirty(s)' + cuts[s] <= Cardinality(Loose(s)) + Dirty(s) + cuts'[s]
        BY <2>3, <3>1, <4>2, <4>3
      <4>. QED  BY <1>1, <2>3, <3>1, <3>2, <4>2, <4>4, LossIsPaid
    <3>. QED  BY <1>4, <3>3, <3>4
  <2>6. ASSUME NEW r \in Sessions, r # s PROVE SizeAt(r)' /\ LossAt(r)'
    <3>1. /\ log'[r] = log[r] /\ acked'[r] = acked[r] /\ cuts'[r] = cuts[r]
          /\ {x \in orphans' : x.session = r} = {x \in orphans : x.session = r}
      BY <1>1, <1>4, <2>6 DEF FileTypeInv
    <3>. QED  BY <1>0, <1>2, <2>6, <3>1, OtherSessionsAreKept
  <2>. QED  BY <2>1, <2>2, <2>4, <2>5, <2>6
<1>5. CASE awaiting[t] = "newline" /\ orphans' = orphans
  <2>1. m \in Messages /\ cuts' = [cuts EXCEPT ![s] = @ + 1]
    BY <1>0, <1>5, DropLeaves
  <2>2. [session |-> s, bytes |-> <<NL>>] \in Orphan
    BY <1>1 DEF Orphan, Chunk
  <2>. QED  BY <1>4, <1>5, <2>1, <2>2
<1>. QED  BY <1>0, <1>3, <1>4, <1>5, DropLeaves

LEMMA WriteFailsKeepsFiles ==
  ASSUME TranscriptInv, NEW t \in Tasks, WriteFails(t)
  PROVE  FileInv'
<1>. USE DEF TranscriptInv, FileInv
<1>0. PICK s, m : s = target[t] /\ m = message[t]
  OBVIOUS
<1>1. /\ s \in Sessions /\ m \in Messages /\ awaiting[t] \in {"writing", "newline"}
      /\ Leave(t) /\ UNCHANGED <<created, orphans, acked>> /\ diskFaults' = diskFaults + 1
      /\ cuts' = [cuts EXCEPT ![s] = @ + 1]
  BY <1>0 DEF WriteFails, Fault, TaskTypeInv, TaskInv
<1>2. PICK part \in {<<>>, <<Piece>>, <<m>>} :
        log' = [log EXCEPT ![s] = IF awaiting[t] = "writing" THEN @ \o part ELSE @]
  BY <1>0 DEF WriteFails
<1>3. /\ awaiting'[t] = "idle" /\ message'[t] = NoMessage
      /\ \A u \in Tasks \ {t} :
           awaiting'[u] = awaiting[u] /\ message'[u] = message[u] /\ target'[u] = target[u]
      /\ \A r \in Sessions : Completing(r)' = Completing(r) \ {t}
  BY <1>1, LeaveEffect
<1>4. \A u \in Tasks : target[u] = s /\ awaiting[u] \in {"writing", "newline"} => u = t
  BY <1>0, <1>1, OneTaskHolds DEF Holding
<1>5. log[s] \in Seq(Chunk)
  BY <1>1 DEF FileTypeInv
<1>6. \/ log'[s] = log[s]
      \/ awaiting[t] = "writing" /\ \E c \in {Piece, m} : log'[s] = log[s] \o <<c>>
  BY <1>1, <1>2, <1>5, WritesAreAppends DEF FileTypeInv, Chunk
<1>7. /\ log'[s] \in Seq(Chunk)
      /\ \/ log'[s] = log[s]
         \/ /\ awaiting[t] = "writing" /\ log'[s] # <<>> /\ Final(log'[s]) \in {m, Piece, NL}
            /\ log[s] # <<>> => Readable(log[s]) \subseteq Readable(log'[s]) \cup {Final(log[s])}
            /\ Whole(log[s]) => Readable(log[s]) \subseteq Readable(log'[s])
  <2>1. ASSUME NEW c \in {Piece, m}, log'[s] = log[s] \o <<c>>
        PROVE  /\ log'[s] \in Seq(Chunk) /\ log'[s] # <<>> /\ Final(log'[s]) \in {m, Piece, NL}
               /\ log[s] # <<>> => Readable(log[s]) \subseteq Readable(log'[s]) \cup {Final(log[s])}
               /\ Whole(log[s]) => Readable(log[s]) \subseteq Readable(log'[s])
    <3>1. c \in Messages \cup {Piece}
      BY <1>1
    <3>2. /\ log'[s] \in Seq(Chunk) /\ log'[s] # <<>> /\ Final(log'[s]) \in {c, NL}
          /\ log[s] # <<>> => Readable(log[s]) \subseteq Readable(log'[s]) \cup {Final(log[s])}
          /\ Whole(log[s]) => Readable(log[s]) \subseteq Readable(log'[s])
      BY <1>5, <2>1, <3>1, BodySpoilsTheLast
    <3>. QED  BY <3>2
  <2>. QED  BY <1>5, <1>6, <2>1
<1>8. FileTypeInv'
  BY <1>1, <1>2, <1>7 DEF FileTypeInv
<1>9. OrphansInv' /\ UniqueInv'
  <2>1. \A r \in Sessions : r # s => log'[r] = log[r]
    BY <1>2 DEF FileTypeInv
  <2>2. log'[s] = log[s] \/ Final(log'[s]) \in {m, Piece, NL}
    BY <1>7
  <2>3. OrphansInv'
    BY <1>1 DEF OrphansInv, IsWriteOf
  <2>. QED  BY <1>0, <1>1, <1>3, <1>8, <2>1, <2>2, <2>3, UniqueIsKept
<1>10. cuts[s] \in Nat /\ cuts'[s] = cuts[s] + 1 /\ LossAt(s)
  BY <1>1 DEF FileTypeInv
<1>11. SizeAt(s)'
  BY <1>10 DEF SizeAt
<1>12. LossAt(s)'
  <2>1. /\ IsFiniteSet(acked[s]) /\ acked' = acked /\ IsFiniteSet(Loose(s)) /\ Cardinality(Loose(s)) \in Nat
        /\ Loose(s)' = Loose(s)
    BY <1>1, <1>10, FS_CardinalityType DEF LossAt, Loose
  <2>2. Cardinality(Loose(s)') = Cardinality(Loose(s)) /\ Dirty(s) \in {0, 1} /\ Dirty(s)' \in {0, 1}
    BY <2>1 DEF Dirty
  <2>3. Completing(s)' = {} /\ (awaiting[t] = "writing" => Completing(s) = {})
    BY <1>3, <1>4 DEF Completing
  <2>4. CASE log'[s] = log[s]
    <3>1. Lost(s)' \subseteq Lost(s)
      BY <2>1, <2>3, <2>4 DEF Lost
    <3>2. Cardinality(Loose(s)') + Dirty(s)' + cuts[s] <= Cardinality(Loose(s)) + Dirty(s) + cuts'[s]
      BY <1>10, <2>1, <2>2
    <3>. QED  BY <1>1, <1>10, <2>1, <3>1, <3>2, LossIsPaid
  <2>5. CASE /\ awaiting[t] = "writing"
             /\ log[s] # <<>> => Readable(log[s]) \subseteq Readable(log'[s]) \cup {Final(log[s])}
             /\ Whole(log[s]) => Readable(log[s]) \subseteq Readable(log'[s])
    <3>1. log[s] # <<>> => Final(log[s]) \notin acked[s]
      BY <1>1 DEF UniqueInv
    <3>2. Lost(s)' \subseteq Lost(s)
      BY <2>1, <2>3, <2>5, <3>1 DEF Lost, Whole
    <3>3. Cardinality(Loose(s)') + Dirty(s)' + cuts[s] <= Cardinality(Loose(s)) + Dirty(s) + cuts'[s]
      BY <1>10, <2>1, <2>2
    <3>. QED  BY <1>1, <1>10, <2>1, <3>2, <3>3, LossIsPaid
  <2>. QED  BY <1>7, <2>4, <2>5
<1>13. ASSUME NEW r \in Sessions, r # s PROVE SizeAt(r)' /\ LossAt(r)'
  <2>1. log'[r] = log[r] /\ acked'[r] = acked[r] /\ cuts'[r] = cuts[r] /\ orphans' = orphans
    BY <1>1, <1>2, <1>13 DEF FileTypeInv
  <2>. QED  BY <1>0, <1>3, <1>13, <2>1, OtherSessionsAreKept
<1>. QED  BY <1>8, <1>9, <1>11, <1>12, <1>13

\* An orphan's write may fall into any append, and costs the line it spoils.
LEMMA RunOrphanKeepsFiles ==
  ASSUME TranscriptInv, NEW o \in orphans, RunOrphan(o)
  PROVE  FileInv'
<1>. USE DEF TranscriptInv, FileInv
<1>0. PICK s : s = o.session
  OBVIOUS
<1>1. /\ s \in Sessions /\ orphans' = orphans \ {o} /\ log' = [log EXCEPT ![s] = @ \o o.bytes]
      /\ UNCHANGED <<target, created, awaiting, message, acked, cuts, diskFaults>>
  BY <1>0 DEF RunOrphan, lockVars, FileTypeInv, Orphan
<1>2. log[s] \in Seq(Chunk) /\ log'[s] = log[s] \o o.bytes /\ cuts[s] \in Nat
  BY <1>1 DEF FileTypeInv
<1>3. o.bytes = <<NL>> \/ \E m \in Messages : IsWriteOf(o, m)
  BY DEF OrphansInv
<1>4. ASSUME o.bytes = <<NL>>
      PROVE  /\ log'[s] \in Seq(Chunk) /\ log'[s] # <<>> /\ Final(log'[s]) = NL
             /\ Readable(log[s]) \subseteq Readable(log'[s])
  <2>1. NL \in Chunk /\ log'[s] = Append(log[s], NL)
    BY <1>2, <1>4, WritesAreAppends DEF Chunk
  <2>. QED  BY <1>2, <2>1, ChunkSpoilsTheLast
<1>5. ASSUME NEW m \in Messages, IsWriteOf(o, m)
      PROVE  /\ log'[s] \in Seq(Chunk) /\ log'[s] # <<>> /\ Final(log'[s]) \in {m, NL}
             /\ log[s] # <<>> => Readable(log[s]) \subseteq Readable(log'[s]) \cup {Final(log[s])}
             /\ Whole(log[s]) => Readable(log[s]) \subseteq Readable(log'[s])
  <2>1. log'[s] = log[s] \o <<m>> \/ log'[s] = log[s] \o <<m, NL>>
    BY <1>2, <1>5 DEF IsWriteOf
  <2>. QED  BY <1>2, <2>1, BodySpoilsTheLast
<1>6. FileTypeInv'
  <2>1. log'[s] \in Seq(Chunk)
    BY <1>3, <1>4, <1>5
  <2>. QED  BY <1>1, <2>1 DEF FileTypeInv
<1>7. OrphansInv' /\ UniqueInv'
  <2>1. OrphansInv'
    BY <1>1 DEF OrphansInv, IsWriteOf
  <2>2. Final(log'[s]) \notin acked[s]
    <3>1. NL \notin acked[s]
      BY <1>1, TranscriptAssumption DEF FileTypeInv
    <3>2. ASSUME NEW m \in Messages, IsWriteOf(o, m) PROVE m \notin acked[s]
      BY <1>1, <3>2 DEF UniqueInv
    <3>. QED  BY <1>3, <1>4, <1>5, <3>1, <3>2
  <2>3. \A r \in Sessions : r # s => log'[r] = log[r]
    BY <1>1 DEF FileTypeInv
  <2>. QED  BY <1>1, <2>1, <2>2, <2>3 DEF UniqueInv, IsWriteOf
<1>8. cuts[s] # 0
  BY <1>0, <1>1 DEF SizeAt
<1>9. SizeAt(s)'
  BY <1>1, <1>8 DEF SizeAt
<1>10. LossAt(s)'
  <2>1. IsFiniteSet(acked[s]) /\ IsFiniteSet(Loose(s)) /\ Cardinality(Loose(s)) \in Nat /\ LossAt(s)
    BY <1>1, FS_CardinalityType DEF LossAt
  <2>2. Completing(s)' = Completing(s)
    BY <1>1 DEF Completing
  <2>3. {message'[t] : t \in Completing(s)'} = {message[t] : t \in Completing(s)}
    BY <1>1, <2>2
  <2>4. Dirty(s) \in {0, 1} /\ Dirty(s)' \in {0, 1}
    BY DEF Dirty
  <2>5. CASE o.bytes = <<NL>>
    <3>1. Lost(s)' \subseteq Lost(s)
      BY <1>1, <1>4, <2>3, <2>5 DEF Lost
    <3>2. Dirty(s)' = 0
      BY <1>4, <2>5 DEF Dirty, Whole
    <3>3. Loose(s)' = Loose(s)
      BY <1>1, <2>5 DEF Loose
    <3>4. IsFiniteSet(Loose(s)') /\ Cardinality(Loose(s)') = Cardinality(Loose(s))
      BY <2>1, <3>3
    <3>5. Cardinality(Loose(s)') + Dirty(s)' + cuts[s] <= Cardinality(Loose(s)) + Dirty(s) + cuts'[s]
      BY <1>1, <1>2, <2>1, <2>4, <3>2, <3>4
    <3>. QED  BY <1>1, <1>2, <2>1, <3>1, <3>4, <3>5, LossIsPaid
  <2>6. ASSUME NEW m \in Messages, IsWriteOf(o, m) PROVE LossAt(s)'
    <3>1. o \in Loose(s) /\ Loose(s)' = Loose(s) \ {o}
      <4>1. o.bytes # <<NL>>
        BY <2>6, TranscriptAssumption DEF IsWriteOf
      <4>. QED  BY <1>0, <1>1, <4>1 DEF Loose
    <3>2. IsFiniteSet(Loose(s)') /\ Cardinality(Loose(s)') = Cardinality(Loose(s)) - 1
      BY <2>1, <3>1, FS_RemoveElement
    <3>3. CASE Completing(s) = {}
      <4>1. log[s] # <<>> => Final(log[s]) \notin acked[s]
        BY <1>1 DEF UniqueInv
      <4>2. Lost(s)' \subseteq Lost(s)
        BY <1>1, <1>5, <2>2, <2>6, <3>3, <4>1 DEF Lost, Whole
      <4>3. Cardinality(Loose(s)') + Dirty(s)' + cuts[s] <= Cardinality(Loose(s)) + Dirty(s) + cuts'[s]
        BY <1>1, <1>2, <2>1, <2>4, <3>2
      <4>. QED  BY <1>1, <1>2, <2>1, <3>2, <4>2, <4>3, LossIsPaid
    <3>4. CASE Completing(s) # {}
      <4>1. \E x : Lost(s)' \subseteq Lost(s) \cup {x}
        <5>1. \E x : Readable(log[s]) \subseteq Readable(log'[s]) \cup {x}
          BY <1>5, <2>6 DEF Whole
        <5>. QED  BY <1>1, <2>3, <5>1 DEF Lost
      <4>2. Dirty(s) = 0 /\ Dirty(s)' = 0
        BY <2>2, <3>4 DEF Dirty
      <4>3. Cardinality(Loose(s)') + Dirty(s)' + cuts[s] + 1 <= Cardinality(Loose(s)) + Dirty(s) + cuts'[s]
        BY <1>1, <1>2, <2>1, <3>2, <4>2
      <4>. QED  BY <1>1, <1>2, <2>1, <3>2, <4>1, <4>3, LossIsPaid
    <3>. QED  BY <3>3, <3>4
  <2>. QED  BY <1>3, <2>5, <2>6
<1>11. ASSUME NEW r \in Sessions, r # s PROVE SizeAt(r)' /\ LossAt(r)'
  <2>1. /\ log'[r] = log[r] /\ acked'[r] = acked[r] /\ cuts'[r] = cuts[r]
        /\ {x \in orphans' : x.session = r} = {x \in orphans : x.session = r}
    BY <1>0, <1>1, <1>11 DEF FileTypeInv
  <2>2. /\ \A u \in Tasks : (target'[u] = r /\ awaiting'[u] \in {"writing", "newline"}
                              => target[u] = r /\ awaiting'[u] = awaiting[u])
        /\ \A u \in Completing(r) : target'[u] = r /\ awaiting'[u] = "newline" /\ message'[u] = message[u]
    BY <1>1 DEF Completing
  <2>. QED  BY <2>1, <2>2, SessionIsKept
<1>. QED  BY <1>6, <1>7, <1>9, <1>10, <1>11

LEMMA CrashKeepsFiles ==
  ASSUME TranscriptInv, ServerCrash
  PROVE  FileInv'
<1>. USE DEF TranscriptInv, FileInv
<1>1. PICK torn \in SUBSET {t \in Tasks : awaiting[t] = "writing"} :
        log' = [s \in Sessions |->
                  IF \E t \in torn : target[t] = s THEN Append(log[s], Piece) ELSE log[s]]
  BY DEF ServerCrash
<1>2. /\ cuts' = [s \in Sessions |-> cuts[s] + Cardinality(Appending(s))]
      /\ awaiting' = [t \in Tasks |-> "idle"] /\ message' = [t \in Tasks |-> NoMessage] /\ orphans' = {}
      /\ UNCHANGED <<created, acked>> /\ diskFaults' = diskFaults + 1
  BY DEF ServerCrash, Fault
<1>3. ASSUME NEW s \in Sessions
      PROVE  /\ IsFiniteSet(Appending(s)) /\ Cardinality(Appending(s)) \in Nat
             /\ Cardinality(Appending(s)) = 0 <=> Appending(s) = {}
  <2>1. IsFiniteSet(Appending(s))
    BY TasksAssumption, FS_Subset DEF Appending
  <2>. QED  BY <2>1, FS_CardinalityType, FS_EmptySet
<1>4. ASSUME NEW s \in Sessions
      PROVE  /\ log'[s] \in Seq(Chunk) /\ cuts'[s] \in Nat
             /\ \/ log'[s] = log[s]
                \/ /\ Completing(s) = {} /\ Appending(s) # {}
                   /\ log'[s] # <<>> /\ Final(log'[s]) = Piece
                   /\ log[s] # <<>> => Readable(log[s]) \subseteq Readable(log'[s]) \cup {Final(log[s])}
                   /\ Whole(log[s]) => Readable(log[s]) \subseteq Readable(log'[s])
  <2>1. log[s] \in Seq(Chunk) /\ Piece \in Chunk /\ cuts'[s] \in Nat
    BY <1>2, <1>3 DEF FileTypeInv, Chunk
  <2>2. CASE \E t \in torn : target[t] = s
    <3>1. PICK t \in torn : target[t] = s
      BY <2>2
    <3>2. t \in Tasks /\ awaiting[t] = "writing" /\ t \in Appending(s)
      BY <3>1 DEF Appending
    <3>3. Completing(s) = {}
      BY <3>1, <3>2, OneTaskHolds DEF Completing, Holding
    <3>4. log'[s] = Append(log[s], Piece)
      BY <1>1, <2>2
    <3>. QED  BY <2>1, <3>2, <3>3, <3>4, ChunkSpoilsTheLast
  <2>3. CASE ~\E t \in torn : target[t] = s
    BY <1>1, <2>1, <2>3
  <2>. QED  BY <2>2, <2>3
<1>5. FileTypeInv'
  <2>1. log' \in [Sessions -> Seq(Chunk)]
    BY <1>1, <1>4
  <2>2. cuts' \in [Sessions -> Nat]
    BY <1>2, <1>4
  <2>. QED  BY <1>2, <2>1, <2>2 DEF FileTypeInv
<1>6. OrphansInv' /\ UniqueInv'
  <2>1. \A s \in Sessions : NoMessage \notin acked[s] /\ Piece \notin acked[s]
    BY TranscriptAssumption DEF FileTypeInv
  <2>2. \A s \in Sessions : log'[s] # <<>> => Final(log'[s]) \notin acked[s]
    BY <1>4, <2>1 DEF UniqueInv
  <2>. QED  BY <1>2, <2>1, <2>2 DEF OrphansInv, UniqueInv
<1>7. ASSUME NEW s \in Sessions PROVE SizeAt(s)' /\ LossAt(s)'
  <2>1. /\ cuts[s] \in Nat /\ cuts'[s] = cuts[s] + Cardinality(Appending(s))
        /\ Cardinality(Appending(s)) \in Nat /\ SizeAt(s) /\ LossAt(s)
    BY <1>2, <1>3 DEF FileTypeInv
  <2>2. Appending(s) = {} => log'[s] = log[s] /\ Completing(s) = {}
    BY <1>4 DEF Appending, Completing
  <2>3. SizeAt(s)'
    <3>1. cuts'[s] = 0 => cuts[s] = 0 /\ Appending(s) = {}
      BY <1>3, <2>1
    <3>. QED  BY <1>2, <2>1, <2>2, <3>1 DEF SizeAt
  <2>4. Loose(s)' = {} /\ Completing(s)' = {}
    BY <1>2 DEF Loose, Completing
  <2>5. /\ IsFiniteSet(acked[s]) /\ acked' = acked /\ Cardinality(Loose(s)) \in Nat
        /\ IsFiniteSet(Loose(s)') /\ Cardinality(Loose(s)') = 0
    BY <1>2, <2>1, <2>4, FS_EmptySet, FS_CardinalityType DEF LossAt
  <2>6. Lost(s)' \subseteq Lost(s)
    <3>1. log[s] # <<>> => Final(log[s]) \notin acked[s]
      BY DEF UniqueInv
    <3>. QED  BY <1>4, <2>4, <2>5, <3>1 DEF Lost, Whole
  <2>7. Dirty(s)' + cuts[s] <= Dirty(s) + cuts'[s]
    <3>1. CASE Appending(s) = {}
      BY <2>1, <2>2, <2>4, <3>1 DEF Dirty
    <3>2. CASE Appending(s) # {}
      <4>1. cuts[s] + 1 <= cuts'[s]
        BY <1>3, <2>1, <3>2
      <4>. QED  BY <2>1, <4>1 DEF Dirty
    <3>. QED  BY <3>1, <3>2
  <2>8. Dirty(s) \in {0, 1} /\ Dirty(s)' \in {0, 1}
    BY DEF Dirty
  <2>9. Cardinality(Loose(s)') + Dirty(s)' + cuts[s] <= Cardinality(Loose(s)) + Dirty(s) + cuts'[s]
    BY <2>1, <2>5, <2>7, <2>8
  <2>. QED  BY <1>4, <2>1, <2>3, <2>5, <2>6, <2>9, LossIsPaid
<1>. QED  BY <1>5, <1>6, <1>7

-----------------------------------------------------------------------------
(* The theorems                                                            *)

LEMMA TranscriptInvInit == TranscriptInit => TranscriptInv
<1>. SUFFICES ASSUME TranscriptInit PROVE TranscriptInv
  OBVIOUS
<1>1. TaskTypeInv
  BY LocksInvInit, TranscriptAssumption DEF TranscriptInit, LocksInit, TaskTypeInv, TaskInv, Holding, HoldsGuard
<1>2. FileTypeInv /\ OrphansInv
  BY DEF TranscriptInit, FileTypeInv, OrphansInv
<1>3. UniqueInv
  BY DEF TranscriptInit, UniqueInv
<1>4. ASSUME NEW s \in Sessions PROVE SizeAt(s) /\ LossAt(s)
  <2>1. SizeAt(s)
    BY TranscriptAssumption DEF TranscriptInit, SizeAt
  <2>2. acked[s] = {} /\ Loose(s) = {} /\ Lost(s) = {} /\ Dirty(s) = 0 /\ cuts[s] = 0
    BY DEF TranscriptInit, Loose, Lost, Dirty, Whole, Completing
  <2>. QED  BY <2>1, <2>2, FS_EmptySet DEF LossAt
<1>. QED  BY <1>1, <1>2, <1>3, <1>4 DEF TranscriptInv, FileInv

LEMMA TranscriptInvStep == TranscriptInv /\ [TranscriptNext]_transcriptVars => TranscriptInv'
<1>. SUFFICES ASSUME TranscriptInv, [TranscriptNext]_transcriptVars PROVE TranscriptInv'
  OBVIOUS
<1>1. TaskTypeInv'
  BY TasksInvStep DEF TranscriptInv
<1>2. ASSUME NEW t \in Tasks,
             WriteLine(t) \/ WriteBody(t) \/ WriteNewline(t) \/ Drop(t) \/ WriteFails(t)
      PROVE  FileInv'
  BY <1>2, WriteLineKeepsFiles, WriteBodyKeepsFiles, WriteNewlineKeepsFiles, DropKeepsFiles,
     WriteFailsKeepsFiles
<1>3. ASSUME NEW o \in orphans, RunOrphan(o) PROVE FileInv'
  BY <1>3, RunOrphanKeepsFiles
<1>4. ServerCrash => FileInv'
  BY CrashKeepsFiles
<1>5. CASE UNCHANGED transcriptVars
  <2>. USE <1>5 DEF transcriptVars
  <2>1. FileTypeInv' /\ OrphansInv' /\ UniqueInv'
    BY DEF TranscriptInv, FileInv, FileTypeInv, OrphansInv, UniqueInv, IsWriteOf
  <2>2. ASSUME NEW s \in Sessions PROVE SizeAt(s)' /\ LossAt(s)'
    <3>1. SizeAt(s)'
      BY DEF TranscriptInv, FileInv, SizeAt
    <3>2. Loose(s)' = Loose(s) /\ Lost(s)' = Lost(s) /\ Dirty(s)' = Dirty(s)
      BY DEF Loose, Lost, Dirty, Completing
    <3>. QED  BY <3>1, <3>2 DEF TranscriptInv, FileInv, LossAt
  <2>. QED  BY <1>1, <2>1, <2>2 DEF TranscriptInv, FileInv
<1>6. ASSUME NEW t \in Tasks,
             \/ \E s \in Sessions, m \in Messages \cup {NoMessage} : Begin(t, s, m)
             \/ Enter(t) \/ RefuseAppend(t) \/ OpenForAppend(t) \/ ReadLog(t)
      PROVE  FileInv'
  BY <1>6, QuietSteps
<1>7. (\E s \in Sessions : CreateSession(s)) => FileInv'
  BY QuietSteps
<1>. QED  BY <1>1, <1>2, <1>3, <1>4, <1>5, <1>6, <1>7 DEF TranscriptInv, TranscriptNext

LEMMA TranscriptInvHolds == TranscriptSpec => []TranscriptInv
  BY TranscriptInvInit, TranscriptInvStep, PTL DEF TranscriptSpec

\* The values of the store's table, tasks, files and orphaned writes stay in
\* their types, whatever is dropped, crashes or fails (store.rs).
THEOREM TranscriptStaysTyped == TranscriptSpec => []TranscriptTypeOK
<1>1. TranscriptInv => TranscriptTypeOK
  BY DEF TranscriptInv, TaskTypeInv, FileInv, FileTypeInv, LocksInv, TranscriptTypeOK
<1>. QED  BY <1>1, TranscriptInvHolds, PTL

\* append_message and load_messages: the acknowledged messages that cannot be
\* read back are never more than the appends that were interrupted.
THEOREM EveryLossIsPaid == TranscriptSpec => []LossIsBounded
<1>1. ASSUME TranscriptInv, NEW s \in Sessions
      PROVE  Cardinality(acked[s] \ Readable(log[s])) <= cuts[s]
  <2>1. LossAt(s) /\ cuts[s] \in Nat /\ IsFiniteSet(acked[s])
    BY <1>1 DEF TranscriptInv, FileInv, FileTypeInv, LossAt
  <2>2. IsFiniteSet(Lost(s))
    BY <1>1, <2>1, LossIsCounted DEF TranscriptInv
  <2>3. Cardinality(acked[s] \ Readable(log[s])) <= Cardinality(Lost(s)) /\ Cardinality(acked[s] \ Readable(log[s])) \in Nat
    <3>1. acked[s] \ Readable(log[s]) \subseteq Lost(s)
      BY DEF Lost
    <3>. QED  BY <2>2, <3>1, NoMore
  <2>4. Cardinality(Lost(s)) \in Nat /\ Cardinality(Loose(s)) \in Nat
    BY <2>1, <2>2, FS_CardinalityType DEF LossAt
  <2>5. Dirty(s) \in {0, 1}
    BY DEF Dirty
  <2>. QED  BY <2>1, <2>3, <2>4, <2>5 DEF LossAt
<1>2. TranscriptInv => LossIsBounded
  BY <1>1 DEF LossIsBounded
<1>. QED  BY <1>2, TranscriptInvHolds, PTL

\* load_messages waits for the session's lock, so as long as no append of the
\* session was interrupted it reads a file that ends with a complete line.
THEOREM ReadersOnlySeeWholeLines == TranscriptSpec => []ReadersSeeWholeLines
<1>1. ASSUME TranscriptInv, NEW t \in Tasks, awaiting[t] = "reading", cuts[target[t]] = 0
      PROVE  Whole(log[target[t]])
  <2>1. PICK s : s = target[t]
    OBVIOUS
  <2>2. s \in Sessions
    BY <1>1, <2>1 DEF TranscriptInv, TaskTypeInv, TaskInv
  <2>3. LossAt(s) /\ cuts[s] = 0 /\ IsFiniteSet(acked[s])
    BY <1>1, <2>1, <2>2 DEF TranscriptInv, FileInv, LossAt
  <2>4. Completing(s) = {}
    BY <1>1, <2>1, <2>2, OneTaskHolds DEF TranscriptInv, Completing, Holding
  <2>5. Cardinality(Lost(s)) \in Nat /\ Cardinality(Loose(s)) \in Nat
    BY <1>1, <2>2, <2>3, LossIsCounted, FS_CardinalityType DEF TranscriptInv, LossAt
  <2>6. Dirty(s) = 0
    <3>1. Dirty(s) \in {0, 1}
      BY DEF Dirty
    <3>. QED  BY <2>3, <2>5, <3>1 DEF LossAt
  <2>. QED  BY <2>1, <2>4, <2>6 DEF Dirty
<1>2. TranscriptInv => ReadersSeeWholeLines
  BY <1>1 DEF ReadersSeeWholeLines, Whole, Final
<1>. QED  BY <1>2, TranscriptInvHolds, PTL

\* append_message checks the size under the lock it writes under: without
\* interruptions the file exceeds the limit by less than a line.
THEOREM TranscriptsStayInTheirLimit == TranscriptSpec => []SizeLimitHolds
<1>1. TranscriptInv => SizeLimitHolds
  BY DEF TranscriptInv, FileInv, SizeAt, SizeLimitHolds
<1>. QED  BY <1>1, TranscriptInvHolds, PTL
=============================================================================
