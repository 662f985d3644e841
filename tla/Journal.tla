------------------------------- MODULE Journal -------------------------------
(***************************************************************************)
(* Journal of kn-code-atomic/src/journal.rs: one file per transaction, and *)
(* a marker file beside it once it is committed or rolled back.            *)
(* Several tasks write and mark, one recovery loads and one housekeeper    *)
(* purges, all on one directory and without a lock; each await is a step.  *)
(* The process may die; the directory survives.                            *)
(***************************************************************************)
EXTENDS Naturals, FiniteSets

CONSTANTS
  Transactions,
  MaxLoads, MaxPurges, MaxCrashes   \* bounds on the calls and crashes

ASSUME JournalAssumption ==
  /\ "idle" \notin Transactions /\ "scan" \notin Transactions
  /\ MaxLoads \in Nat /\ MaxPurges \in Nat /\ MaxCrashes \in Nat

VARIABLES
  files,      \* the directory: files <<transaction, extension>>
  old,        \* the files last modified before a purge's cutoff, swept ones included
  marking,    \* mark_* calls that have seen the entry and not yet written
  resolved,   \* transactions for which a mark_* call has returned
  loadPc,     \* load_incomplete: "idle", "scan", or the entry it awaits
  unseen,     \* load_incomplete: directory entries still to come
  found,      \* load_incomplete: its result so far
  before,     \* what was written and resolved when the load began, for the properties
  purging,    \* purge_old is running
  unswept,    \* purge_old: directory entries still to come
  counts

journalVars == <<files, old, marking, resolved, loadPc, unseen, found, before,
                 purging, unswept, counts>>

Markers == {"committed", "rolled_back"}
Files == Transactions \X ({"journal"} \cup Markers)

Entry(t) == <<t, "journal">>
Written == {t \in Transactions : Entry(t) \in files}
Marked(t) == \E x \in Markers : <<t, x>> \in files

JournalTypeOK ==
  /\ files \subseteq Files /\ old \subseteq Files
  /\ marking \subseteq Transactions \X Markers
  /\ resolved \subseteq Transactions
  /\ before \in [written : SUBSET Transactions, resolved : SUBSET Transactions]
  /\ loadPc \in {"idle", "scan"} \cup Transactions
  /\ unseen \subseteq Transactions /\ found \subseteq Transactions /\ unseen \cap found = {}
  /\ purging \in BOOLEAN /\ unswept \subseteq Files
  /\ counts \in [loads : 0..MaxLoads, purges : 0..MaxPurges, crashes : 0..MaxCrashes]

NoLoad == [written |-> {}, resolved |-> {}]

JournalInit ==
  /\ files = {} /\ old = {} /\ marking = {} /\ resolved = {}
  /\ loadPc = "idle" /\ unseen = {} /\ found = {} /\ before = NoLoad
  /\ purging = FALSE /\ unswept = {}
  /\ counts = [loads |-> 0, purges |-> 0, crashes |-> 0]

loadVars == <<loadPc, unseen, found, before>>
purgeVars == <<purging, unswept>>

-----------------------------------------------------------------------------
(* The owner of a transaction                                              *)

\* write: the temporary file bears the transaction's fresh id, so nobody
\* sees it before the rename, and the write is one step.  A directory that is
\* being read may or may not return an entry made or removed meanwhile.
Write(t) ==
  /\ Entry(t) \notin files \cup old
  /\ files' = files \cup {Entry(t)}
  /\ unseen' \in IF loadPc = "idle" THEN {unseen} ELSE {unseen, unseen \cup {t}}
  /\ UNCHANGED <<old, marking, resolved, loadPc, found, before, purgeVars, counts>>

\* mark_committed or mark_rolled_back finds the entry
BeginMark(t, x) ==
  /\ t \in Written /\ t \notin resolved
  /\ \A y \in Markers : <<t, y>> \notin marking
  /\ marking' = marking \cup {<<t, x>>}
  /\ UNCHANGED <<files, old, resolved, loadVars, purgeVars, counts>>

\* Mutant: the marker is written under another name than load looks for.
EndMark_OtherName(t, x) ==
  /\ <<t, x>> \in marking
  /\ marking' = marking \ {<<t, x>>}
  /\ resolved' = resolved \cup {t}
  /\ UNCHANGED <<files, old, loadVars, purgeVars, counts>>

\* and writes the marker
EndMark(t, x) ==
  /\ <<t, x>> \in marking
  /\ files' = files \cup {<<t, x>>}
  /\ marking' = marking \ {<<t, x>>}
  /\ resolved' = resolved \cup {t}
  /\ UNCHANGED <<old, loadVars, purgeVars, counts>>

-----------------------------------------------------------------------------
(* load_incomplete                                                         *)

BeginLoad ==
  /\ loadPc = "idle" /\ counts.loads < MaxLoads
  /\ counts' = [counts EXCEPT !.loads = @ + 1]
  /\ loadPc' = "scan" /\ unseen' = Written /\ found' = {}
  /\ before' = [written |-> Written, resolved |-> resolved]
  /\ UNCHANGED <<files, old, marking, resolved, purgeVars>>

\* Mutant: break where the loop goes on.
SkipMarked_Breaks(t) ==
  /\ loadPc = "scan" /\ t \in unseen /\ Marked(t)
  /\ unseen' = {}
  /\ UNCHANGED <<files, old, marking, resolved, loadPc, found, before, purgeVars, counts>>

\* A marker of either kind beside the entry: it is passed over.
SkipMarked(t) ==
  /\ loadPc = "scan" /\ t \in unseen /\ Marked(t)
  /\ unseen' = unseen \ {t}
  /\ UNCHANGED <<files, old, marking, resolved, loadPc, found, before, purgeVars, counts>>

\* No marker: tokio::fs::read of the entry is awaited.
SeeUnmarked(t) ==
  /\ loadPc = "scan" /\ t \in unseen /\ ~Marked(t)
  /\ unseen' = unseen \ {t}
  /\ loadPc' = t
  /\ UNCHANGED <<files, old, marking, resolved, found, before, purgeVars, counts>>

ReadEntry(t) ==
  /\ loadPc = t /\ t \in Written
  /\ found' = found \cup {t}
  /\ loadPc' = "scan"
  /\ UNCHANGED <<files, old, marking, resolved, unseen, before, purgeVars, counts>>

\* The entry has been purged meanwhile: the error ends the whole load.
ReadFails(t) ==
  /\ loadPc = t /\ t \notin Written
  /\ loadPc' = "idle" /\ unseen' = {} /\ found' = {} /\ before' = NoLoad
  /\ UNCHANGED <<files, old, marking, resolved, purgeVars, counts>>

EndLoad ==
  /\ loadPc = "scan" /\ unseen = {}
  /\ loadPc' = "idle" /\ found' = {} /\ before' = NoLoad
  /\ UNCHANGED <<files, old, marking, resolved, unseen, purgeVars, counts>>

-----------------------------------------------------------------------------
(* purge_old                                                               *)

\* Files age; a marker is never older than its entry, and the cutoff is fixed
\* when a purge begins.
Age(f) ==
  /\ MaxPurges > 0 /\ ~purging
  /\ f \in files \ old
  /\ f[2] \in Markers => Entry(f[1]) \in old
  /\ old' = old \cup {f}
  /\ UNCHANGED <<files, marking, resolved, loadVars, purgeVars, counts>>

BeginPurge ==
  /\ ~purging /\ counts.purges < MaxPurges
  /\ counts' = [counts EXCEPT !.purges = @ + 1]
  /\ purging' = TRUE /\ unswept' = files
  /\ UNCHANGED <<files, old, marking, resolved, loadVars>>

\* The next directory entry, in any order, goes if it is old.
Sweep(f) ==
  /\ purging /\ f \in unswept
  /\ files' = files \ ({f} \cap old)
  /\ unswept' = unswept \ {f}
  /\ unseen' \in {unseen, unseen \ {t \in Transactions : Entry(t) = f /\ f \in old}}
  /\ UNCHANGED <<old, marking, resolved, loadPc, found, before, purging, counts>>

EndPurge ==
  /\ purging /\ unswept = {}
  /\ purging' = FALSE
  /\ UNCHANGED <<files, old, marking, resolved, loadVars, unswept, counts>>

-----------------------------------------------------------------------------
Crash ==
  /\ counts.crashes < MaxCrashes
  /\ counts' = [counts EXCEPT !.crashes = @ + 1]
  /\ marking' = {}
  /\ loadPc' = "idle" /\ unseen' = {} /\ found' = {} /\ before' = NoLoad
  /\ purging' = FALSE /\ unswept' = {}
  /\ UNCHANGED <<files, old, resolved>>

JournalNext ==
  \/ \E t \in Transactions : Write(t) \/ SkipMarked(t) \/ SeeUnmarked(t) \/ ReadEntry(t) \/ ReadFails(t)
  \/ \E t \in Transactions, x \in Markers : BeginMark(t, x) \/ EndMark(t, x)
  \/ BeginLoad \/ EndLoad
  \/ \E f \in Files : Age(f) \/ Sweep(f)
  \/ BeginPurge \/ EndPurge
  \/ Crash

JournalSpec == JournalInit /\ [][JournalNext]_journalVars

-----------------------------------------------------------------------------
(* Properties                                                              *)

\* A load that returns has found every transaction that was in the journal
\* when it began and is neither resolved nor old enough to be purged, whatever
\* is written, marked or swept while it walks the directory (75-98).
LoadIsComplete ==
  [][EndLoad =>
       \A t \in before.written \ resolved : Entry(t) \in files \ old => t \in found]_journalVars

\* A load returns no transaction that was resolved before it began, for
\* recovery would replay or roll back work that was committed; unless a purge
\* has taken its marker away, which it may do before it takes the entry.
ResolvedStaysResolved ==
  \A t \in found \cap before.resolved : \E x \in Markers : <<t, x>> \in old \ files
==============================================================================
