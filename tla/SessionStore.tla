---------------------------- MODULE SessionStore ----------------------------
(***************************************************************************)
(* The operations of kn-code-session/src/store.rs on session.json:         *)
(* create_session, update_session_state and update_session_stats, one      *)
(* action per await.  An update reads the record, changes a field, writes  *)
(* session.json.tmp and renames it over session.json, all under the        *)
(* session's lock (SessionLocks).                                          *)
(*                                                                         *)
(* The tasks in Droppable are futures the server may drop at an await (an  *)
(* HTTP handler whose client disconnected or whose TimeoutLayer fired).    *)
(* tokio::fs hands each file operation to a blocking thread, which carries *)
(* on after the future that awaits it is dropped: such a job is an orphan. *)
(* The process may crash; the disk survives.                               *)
(***************************************************************************)
EXTENDS SessionLocks

CONSTANTS
  States, Turns, NoRecord,   \* as in SessionRecords
  NoOp,                      \* a task outside the store
  Torn,                      \* a file whose write the crash cut short
  Droppable,                 \* tasks whose future may be dropped
  MaxDrops, MaxCrashes       \* bounds on drops and crashes in one behaviour

ASSUME StoreAssumption ==
  /\ "active" \in States /\ 0 \in Turns
  /\ NoRecord \notin [state : States, turns : Turns]
  /\ Torn \notin [state : States, turns : Turns] /\ Torn # NoRecord
  /\ Droppable \subseteq Tasks

VARIABLES
  file,      \* <session>/session.json
  tmp,       \* <session>/session.json.tmp
  pc,        \* the await a task is at
  op,        \* the update a task performs
  loaded,    \* the record a task has read and changed
  orphans,   \* file jobs whose future is gone
  drops, crashes

storeVars == <<locks, arc, target, owner, file, tmp, pc, op, loaded, orphans, drops, crashes>>

Record == [state : States, turns : Turns]

\* Mutant: a state string outside the known ones.
NewRecord_Unknown == [state |-> "created", turns |-> 0]

NewRecord == [state |-> "active", turns |-> 0]

Op == [field : {"state"}, value : States] \cup [field : {"turns"}, value : Turns]

Apply(o, r) ==
  IF o.field = "state" THEN [r EXCEPT !.state = o.value] ELSE [r EXCEPT !.turns = o.value]

Orphan == [job : {"write", "rename"}, session : Sessions, record : Record]

StoreTypeOK ==
  /\ LocksTypeOK
  /\ file \in [Sessions -> Record \cup {NoRecord, Torn}]
  /\ tmp \in [Sessions -> Record \cup {NoRecord, Torn}]
  /\ pc \in [Tasks -> {"idle", "locking", "reading", "writing", "renaming"}]
  /\ op \in [Tasks -> Op \cup {NoOp}]
  /\ loaded \in [Tasks -> Record \cup {NoRecord}]
  /\ orphans \subseteq Orphan
  /\ drops \in Nat /\ crashes \in Nat

StoreInit ==
  /\ LocksInit
  /\ file = [s \in Sessions |-> NoRecord]
  /\ tmp = [s \in Sessions |-> NoRecord]
  /\ pc = [t \in Tasks |-> "idle"]
  /\ op = [t \in Tasks |-> NoOp]
  /\ loaded = [t \in Tasks |-> NoRecord]
  /\ orphans = {}
  /\ drops = 0 /\ crashes = 0

-----------------------------------------------------------------------------
(* Operations                                                              *)

\* create_session: the id is a fresh UUID nobody else can name before the
\* call returns, so its write and rename are seen as one step.
CreateSession(s) ==
  /\ file[s] = NoRecord
  /\ file' = [file EXCEPT ![s] = NewRecord]
  /\ UNCHANGED <<lockVars, tmp, pc, op, loaded, orphans, drops, crashes>>

\* update_session_state or update_session_stats is called.
Begin(t, s, o) ==
  /\ pc[t] = "idle"
  /\ GetSessionLock(t, s)
  /\ pc' = [pc EXCEPT ![t] = "locking"]
  /\ op' = [op EXCEPT ![t] = o]
  /\ UNCHANGED <<file, tmp, loaded, orphans, drops, crashes>>

\* Mutant: lock().await forgotten.
Enter_Unlocked(t) ==
  /\ pc[t] = "locking"
  /\ pc' = [pc EXCEPT ![t] = "reading"]
  /\ UNCHANGED <<lockVars, file, tmp, op, loaded, orphans, drops, crashes>>

\* lock.lock().await
Enter(t) ==
  /\ pc[t] = "locking"
  /\ AcquireGuard(t)
  /\ pc' = [pc EXCEPT ![t] = "reading"]
  /\ UNCHANGED <<file, tmp, op, loaded, orphans, drops, crashes>>

\* The operation's future ends and drops its guard and its Arc.
Leave(t) ==
  /\ DropFuture(t)
  /\ pc' = [pc EXCEPT ![t] = "idle"]
  /\ op' = [op EXCEPT ![t] = NoOp]
  /\ loaded' = [loaded EXCEPT ![t] = NoRecord]

\* No session.json: "Session not found" for the state, Ok for the stats.
RecordMissing(t) ==
  /\ pc[t] = "reading"
  /\ file[target[t]] = NoRecord
  /\ Leave(t)
  /\ UNCHANGED <<file, tmp, orphans, drops, crashes>>

ReadRecord(t) ==
  /\ pc[t] = "reading"
  /\ file[target[t]] \in Record
  /\ loaded' = [loaded EXCEPT ![t] = Apply(op[t], file[target[t]])]
  /\ pc' = [pc EXCEPT ![t] = "writing"]
  /\ UNCHANGED <<lockVars, file, tmp, op, orphans, drops, crashes>>

\* Mutant: writing session.json itself instead of the temporary file.
WriteTmp_InPlace(t) ==
  /\ pc[t] = "writing"
  /\ \E content \in {loaded[t], Torn} : file' = [file EXCEPT ![target[t]] = content]
  /\ pc' = [pc EXCEPT ![t] = "renaming"]
  /\ UNCHANGED <<lockVars, tmp, op, loaded, orphans, drops, crashes>>

\* tokio::fs::write(session.json.tmp)
WriteTmp(t) ==
  /\ pc[t] = "writing"
  /\ tmp' = [tmp EXCEPT ![target[t]] = loaded[t]]
  /\ pc' = [pc EXCEPT ![t] = "renaming"]
  /\ UNCHANGED <<lockVars, file, op, loaded, orphans, drops, crashes>>

\* rename(2): the temporary file replaces session.json, or there is none.
Rename(s) ==
  IF tmp[s] = NoRecord
  THEN UNCHANGED <<file, tmp>>
  ELSE /\ file' = [file EXCEPT ![s] = tmp[s]]
       /\ tmp' = [tmp EXCEPT ![s] = NoRecord]

RenameTmp(t) ==
  /\ pc[t] = "renaming"
  /\ Rename(target[t])
  /\ Leave(t)
  /\ UNCHANGED <<orphans, drops, crashes>>

-----------------------------------------------------------------------------
(* Dropped futures and crashes                                             *)

\* The job a task has handed to a blocking thread, if it has.
JobsOf(t) ==
  CASE pc[t] = "writing"  -> {[job |-> "write", session |-> target[t], record |-> loaded[t]]}
    [] pc[t] = "renaming" -> {[job |-> "rename", session |-> target[t], record |-> loaded[t]]}
    [] OTHER              -> {}

\* The future is dropped before or after it handed over its next job.
Drop(t) ==
  /\ t \in Droppable /\ drops < MaxDrops
  /\ pc[t] # "idle"
  /\ \E jobs \in {{}, JobsOf(t)} : orphans' = orphans \cup jobs
  /\ Leave(t)
  /\ drops' = drops + 1
  /\ UNCHANGED <<file, tmp, crashes>>

RunOrphan(o) ==
  /\ o \in orphans
  /\ orphans' = orphans \ {o}
  /\ IF o.job = "write"
     THEN tmp' = [tmp EXCEPT ![o.session] = o.record] /\ UNCHANGED file
     ELSE Rename(o.session)
  /\ UNCHANGED <<lockVars, pc, op, loaded, drops, crashes>>

\* Sessions whose temporary file is being written.
Writing ==
  {target[t] : t \in {u \in Tasks : pc[u] = "writing"}}
    \cup {o.session : o \in {q \in orphans : q.job = "write"}}

Crash ==
  /\ crashes < MaxCrashes
  /\ crashes' = crashes + 1
  /\ \E cut \in SUBSET Writing :
       tmp' = [s \in Sessions |-> IF s \in cut THEN Torn ELSE tmp[s]]
  /\ LocksReset
  /\ pc' = [t \in Tasks |-> "idle"]
  /\ op' = [t \in Tasks |-> NoOp]
  /\ loaded' = [t \in Tasks |-> NoRecord]
  /\ orphans' = {}
  /\ UNCHANGED <<file, drops>>

-----------------------------------------------------------------------------
Advance(t) == RecordMissing(t) \/ ReadRecord(t) \/ WriteTmp(t) \/ RenameTmp(t)

StoreNext ==
  \/ \E s \in Sessions : CreateSession(s)
  \/ \E t \in Tasks :
       \/ \E s \in Sessions, o \in Op : Begin(t, s, o)
       \/ Enter(t)
       \/ RecordMissing(t)
       \/ ReadRecord(t)
       \/ WriteTmp(t)
       \/ RenameTmp(t)
       \/ Drop(t)
  \/ \E o \in orphans : RunOrphan(o)
  \/ Crash

StoreSpec == StoreInit /\ [][StoreNext]_storeVars

\* A task in the store is polled until it returns, and Tokio's Mutex serves
\* its waiters in the order they came.
StoreFairness ==
  \A t \in Tasks : SF_storeVars(Enter(t)) /\ WF_storeVars(Advance(t))

StoreFairSpec == StoreSpec /\ StoreFairness

-----------------------------------------------------------------------------
(* Properties                                                              *)

\* session.json always holds a whole record: no crash, no dropped future and
\* no interleaving leaves a half-written file behind the name.
RecordFileIsWhole == \A s \in Sessions : file[s] # Torn

\* When an update returns Ok, session.json is the record that was there before
\* the call's rename with exactly the call's field changed: nothing another
\* operation wrote is overwritten and nothing the call promised is missing.
UpdatesTakeEffect ==
  [][\A t \in Tasks :
       RenameTmp(t) /\ tmp[target[t]] # NoRecord
         => file'[target[t]] = Apply(op[t], file[target[t]])]_storeVars

\* The store implements the atomic record operations.
Records == INSTANCE SessionRecords WITH record <- file
ImplementsRecords == Records!RecordsSpec

\* Every operation that was called returns.
OperationsReturn == \A t \in Tasks : pc[t] # "idle" ~> pc[t] = "idle"
=============================================================================
