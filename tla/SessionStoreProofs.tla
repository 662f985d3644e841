------------------------- MODULE SessionStoreProofs -------------------------
(***************************************************************************)
(* Proofs about the operations on session.json, for any number of tasks    *)
(* and sessions, any records and any prune limit.                          *)
(*                                                                         *)
(* Every step of the store is a step of the lock table or leaves it alone, *)
(* so the store inherits mutual exclusion from SessionLocks.  With it, and *)
(* as long as no future is dropped, what an update has read is still in    *)
(* session.json when it renames, and what it wrote is still in             *)
(* session.json.tmp: the update is atomic, and the store implements        *)
(* SessionRecords.                                                         *)
(***************************************************************************)
EXTENDS SessionStore, SessionLocksProofs

Inside == {"reading", "writing", "renaming"}

\* What is true of one task at each of its awaits.
TaskInv(t) ==
  /\ pc[t] = "idle" <=> arc[t] = NoLock
  /\ pc[t] \in Inside <=> HoldsGuard(t)
  /\ pc[t] # "idle" => target[t] \in Sessions /\ op[t] \in Op
  /\ pc[t] \in {"writing", "renaming"} => loaded[t] \in Record

StoreInv ==
  /\ StoreTypeOK
  /\ LocksInv
  /\ \A t \in Tasks : TaskInv(t)

-----------------------------------------------------------------------------
(* The locks under the store                                               *)

LEMMA StoreStepIsLocksStep == [StoreNext]_storeVars => [LocksNext]_lockVars
<1>. SUFFICES ASSUME [StoreNext]_storeVars PROVE [LocksNext]_lockVars
  OBVIOUS
<1>1. ASSUME NEW s \in Sessions, CreateSession(s) PROVE UNCHANGED lockVars
  BY <1>1 DEF CreateSession
<1>2. ASSUME NEW t \in Tasks, NEW s \in Sessions, NEW o \in Op, Begin(t, s, o)
      PROVE  GetSessionLock(t, s)
  BY <1>2 DEF Begin
<1>3. ASSUME NEW t \in Tasks, Enter(t) PROVE AcquireGuard(t)
  BY <1>3 DEF Enter
<1>4. ASSUME NEW t \in Tasks, RecordMissing(t) \/ RenameTmp(t) \/ Drop(t) PROVE DropFuture(t)
  BY <1>4 DEF RecordMissing, RenameTmp, Drop, Leave
<1>5. ASSUME NEW t \in Tasks, ReadRecord(t) \/ WriteTmp(t) PROVE UNCHANGED lockVars
  BY <1>5 DEF ReadRecord, WriteTmp
<1>6. ASSUME NEW o \in orphans, RunOrphan(o) PROVE UNCHANGED lockVars
  BY <1>6 DEF RunOrphan
<1>7. CASE Crash
  BY <1>7 DEF Crash, LocksNext
<1>8. CASE UNCHANGED storeVars
  BY <1>8 DEF storeVars, lockVars
<1>. QED
  BY <1>1, <1>2, <1>3, <1>4, <1>5, <1>6, <1>7, <1>8 DEF StoreNext, LocksNext

-----------------------------------------------------------------------------
(* The inductive invariant of the tasks                                    *)

LEMMA StoreInvInit == StoreInit => StoreInv
<1>. SUFFICES ASSUME StoreInit PROVE StoreInv
  OBVIOUS
<1>1. LocksInv
  BY LocksInvInit DEF StoreInit
<1>2. StoreTypeOK
  BY <1>1, Zenon DEF StoreInit, StoreTypeOK, LocksInv
<1>3. ASSUME NEW t \in Tasks PROVE TaskInv(t)
  BY <1>3 DEF StoreInit, LocksInit, TaskInv, Inside, HoldsGuard
<1>. QED  BY <1>1, <1>2, <1>3 DEF StoreInv

LEMMA ApplyGivesRecord ==
  ASSUME NEW o \in Op, NEW r \in Record
  PROVE  Apply(o, r) \in Record
  BY DEF Op, Record, Apply

\* A session.json.tmp that is renamed, or was not there, leaves both files
\* with contents they may have.
LEMMA RenameKeepsTypes ==
  ASSUME StoreTypeOK, NEW s \in Sessions, Rename(s)
  PROVE  /\ file' \in [Sessions -> Record \cup {NoRecord, Torn}]
         /\ tmp' \in [Sessions -> Record \cup {NoRecord, Torn}]
  BY DEF StoreTypeOK, Rename

\* The end of an operation, by return or by drop.
LEMMA LeaveKeepsTasks ==
  ASSUME StoreInv, NEW t \in Tasks, Leave(t)
  PROVE  /\ pc' \in [Tasks -> {"idle", "locking", "reading", "writing", "renaming"}]
         /\ op' \in [Tasks -> Op \cup {NoOp}]
         /\ loaded' \in [Tasks -> Record \cup {NoRecord}]
         /\ \A u \in Tasks : TaskInv(u)'
<1>1. arc'[t] = NoLock /\ ~HoldsGuard(t)' /\ OthersKeepLocks(t)
  BY DroppedGuardIsFree DEF Leave, StoreInv
<1>2. /\ pc' = [pc EXCEPT ![t] = "idle"] /\ op' = [op EXCEPT ![t] = NoOp]
      /\ loaded' = [loaded EXCEPT ![t] = NoRecord]
  BY DEF Leave
<1>3. /\ pc' \in [Tasks -> {"idle", "locking", "reading", "writing", "renaming"}]
      /\ op' \in [Tasks -> Op \cup {NoOp}]
      /\ loaded' \in [Tasks -> Record \cup {NoRecord}]
  BY <1>2 DEF StoreInv, StoreTypeOK
<1>4. ASSUME NEW u \in Tasks PROVE TaskInv(u)'
  <2>1. CASE u = t
    BY <2>1, <1>1, <1>2 DEF TaskInv, Inside, StoreInv, StoreTypeOK
  <2>2. CASE u # t
    <3>1. pc'[u] = pc[u] /\ op'[u] = op[u] /\ loaded'[u] = loaded[u]
      BY <2>2, <1>2 DEF StoreInv, StoreTypeOK
    <3>2. TaskInv(u) /\ arc'[u] = arc[u] /\ target'[u] = target[u] /\ (HoldsGuard(u)' <=> HoldsGuard(u))
      BY <2>2, <1>1 DEF StoreInv, OthersKeepLocks
    <3>. QED  BY <3>1, <3>2 DEF TaskInv
  <2>. QED  BY <2>1, <2>2
<1>. QED  BY <1>3, <1>4

\* An action of t that changes neither locks nor op nor another task.
LEMMA StepKeepsOthers ==
  ASSUME StoreInv, NEW t \in Tasks, NEW u \in Tasks \ {t}, OthersKeepLocks(t),
         pc'[u] = pc[u], op'[u] = op[u], loaded'[u] = loaded[u]
  PROVE  TaskInv(u)'
<1>1. TaskInv(u) /\ arc'[u] = arc[u] /\ target'[u] = target[u] /\ (HoldsGuard(u)' <=> HoldsGuard(u))
  BY DEF StoreInv, OthersKeepLocks
<1>. QED  BY <1>1 DEF TaskInv

LEMMA LocksUnchangedKeepOthers ==
  ASSUME UNCHANGED lockVars, NEW t \in Tasks
  PROVE  OthersKeepLocks(t) /\ (HoldsGuard(t)' <=> HoldsGuard(t))
  BY DEF lockVars, OthersKeepLocks, HoldsGuard

LEMMA BeginKeepsInv ==
  ASSUME StoreInv, NEW t \in Tasks, NEW s \in Sessions, NEW o \in Op, Begin(t, s, o), LocksInv'
  PROVE  StoreInv'
<1>1. arc'[t] # NoLock /\ target'[t] = s /\ ~HoldsGuard(t)' /\ OthersKeepLocks(t)
  BY FetchedLockIsNotHeld DEF Begin, StoreInv
<1>2. /\ pc' = [pc EXCEPT ![t] = "locking"] /\ op' = [op EXCEPT ![t] = o]
      /\ UNCHANGED <<file, tmp, loaded, orphans, drops, crashes>>
  BY DEF Begin
<1>3. StoreTypeOK'
  BY <1>2 DEF StoreInv, StoreTypeOK, LocksInv
<1>4. TaskInv(t)'
  BY <1>1, <1>2 DEF TaskInv, Inside, StoreInv, StoreTypeOK
<1>5. ASSUME NEW u \in Tasks \ {t} PROVE TaskInv(u)'
  BY <1>1, <1>2, StepKeepsOthers DEF StoreInv, StoreTypeOK
<1>. QED  BY <1>3, <1>4, <1>5 DEF StoreInv

LEMMA EnterKeepsInv ==
  ASSUME StoreInv, NEW t \in Tasks, Enter(t), LocksInv'
  PROVE  StoreInv'
<1>1. arc'[t] # NoLock /\ target' = target /\ HoldsGuard(t)' /\ OthersKeepLocks(t)
  BY AcquiredGuardIsHeld DEF Enter, StoreInv
<1>2. /\ pc[t] = "locking" /\ pc' = [pc EXCEPT ![t] = "reading"]
      /\ UNCHANGED <<file, tmp, op, loaded, orphans, drops, crashes>>
  BY DEF Enter
<1>3. StoreTypeOK'
  BY <1>2 DEF StoreInv, StoreTypeOK, LocksInv
<1>4. TaskInv(t)'
  BY <1>1, <1>2 DEF TaskInv, Inside, StoreInv, StoreTypeOK
<1>5. ASSUME NEW u \in Tasks \ {t} PROVE TaskInv(u)'
  BY <1>1, <1>2, StepKeepsOthers DEF StoreInv, StoreTypeOK
<1>. QED  BY <1>3, <1>4, <1>5 DEF StoreInv

LEMMA ReadRecordKeepsInv ==
  ASSUME StoreInv, NEW t \in Tasks, ReadRecord(t), LocksInv'
  PROVE  StoreInv'
<1>1. OthersKeepLocks(t) /\ (HoldsGuard(t)' <=> HoldsGuard(t)) /\ arc' = arc /\ target' = target
  BY LocksUnchangedKeepOthers DEF ReadRecord, lockVars
<1>2. /\ pc[t] = "reading" /\ pc' = [pc EXCEPT ![t] = "writing"]
      /\ file[target[t]] \in Record
      /\ loaded' = [loaded EXCEPT ![t] = Apply(op[t], file[target[t]])]
      /\ UNCHANGED <<file, tmp, op, orphans, drops, crashes>>
  BY DEF ReadRecord
<1>3. TaskInv(t)
  BY DEF StoreInv
<1>4. Apply(op[t], file[target[t]]) \in Record
  BY <1>2, <1>3, ApplyGivesRecord DEF TaskInv
<1>5. StoreTypeOK'
  BY <1>2, <1>4 DEF StoreInv, StoreTypeOK, LocksInv
<1>6. TaskInv(t)'
  BY <1>1, <1>2, <1>3, <1>4 DEF TaskInv, Inside, StoreInv, StoreTypeOK
<1>7. ASSUME NEW u \in Tasks \ {t} PROVE TaskInv(u)'
  BY <1>1, <1>2, StepKeepsOthers DEF StoreInv, StoreTypeOK
<1>. QED  BY <1>5, <1>6, <1>7 DEF StoreInv

LEMMA WriteTmpKeepsInv ==
  ASSUME StoreInv, NEW t \in Tasks, WriteTmp(t), LocksInv'
  PROVE  StoreInv'
<1>1. OthersKeepLocks(t) /\ (HoldsGuard(t)' <=> HoldsGuard(t)) /\ arc' = arc /\ target' = target
  BY LocksUnchangedKeepOthers DEF WriteTmp, lockVars
<1>2. /\ pc[t] = "writing" /\ pc' = [pc EXCEPT ![t] = "renaming"]
      /\ tmp' = [tmp EXCEPT ![target[t]] = loaded[t]]
      /\ UNCHANGED <<file, op, loaded, orphans, drops, crashes>>
  BY DEF WriteTmp
<1>3. TaskInv(t)
  BY DEF StoreInv
<1>4. StoreTypeOK'
  BY <1>2, <1>3 DEF StoreInv, StoreTypeOK, LocksInv, TaskInv
<1>5. TaskInv(t)'
  BY <1>1, <1>2, <1>3 DEF TaskInv, Inside, StoreInv, StoreTypeOK
<1>6. ASSUME NEW u \in Tasks \ {t} PROVE TaskInv(u)'
  BY <1>1, <1>2, StepKeepsOthers DEF StoreInv, StoreTypeOK
<1>. QED  BY <1>4, <1>5, <1>6 DEF StoreInv

LEMMA LeavingKeepsInv ==
  ASSUME StoreInv, NEW t \in Tasks, RecordMissing(t) \/ RenameTmp(t) \/ Drop(t), LocksInv'
  PROVE  StoreInv'
<1>1. Leave(t)
  BY DEF RecordMissing, RenameTmp, Drop
<1>2. /\ pc' \in [Tasks -> {"idle", "locking", "reading", "writing", "renaming"}]
      /\ op' \in [Tasks -> Op \cup {NoOp}]
      /\ loaded' \in [Tasks -> Record \cup {NoRecord}]
      /\ \A u \in Tasks : TaskInv(u)'
  BY <1>1, LeaveKeepsTasks
<1>3. file' \in [Sessions -> Record \cup {NoRecord, Torn}] /\ tmp' \in [Sessions -> Record \cup {NoRecord, Torn}]
  <2>1. CASE RenameTmp(t)
    <3>1. target[t] \in Sessions /\ Rename(target[t])
      BY <2>1 DEF RenameTmp, StoreInv, TaskInv
    <3>. QED  BY <3>1, RenameKeepsTypes DEF StoreInv
  <2>2. CASE RecordMissing(t) \/ Drop(t)
    BY <2>2 DEF RecordMissing, Drop, StoreInv, StoreTypeOK
  <2>. QED  BY <2>1, <2>2
<1>4. orphans' \subseteq Orphan
  <2>1. JobsOf(t) \subseteq Orphan
    BY DEF JobsOf, Orphan, StoreInv, TaskInv
  <2>. QED
    BY <2>1 DEF RecordMissing, RenameTmp, Drop, StoreInv, StoreTypeOK
<1>5. drops' \in Nat /\ crashes' \in Nat
  BY DEF RecordMissing, RenameTmp, Drop, StoreInv, StoreTypeOK
<1>. QED  BY <1>2, <1>3, <1>4, <1>5 DEF StoreInv, StoreTypeOK, LocksInv

\* A step that leaves the tasks and their locks alone.
LEMMA FilesOnlyKeepsTasks ==
  ASSUME StoreInv, UNCHANGED <<lockVars, pc, op, loaded>>, NEW u \in Tasks
  PROVE  TaskInv(u)'
<1>1. TaskInv(u)
  BY DEF StoreInv
<1>. QED  BY <1>1 DEF TaskInv, HoldsGuard, lockVars

LEMMA CrashKeepsInv ==
  ASSUME StoreInv, Crash, LocksInv'
  PROVE  StoreInv'
<1>1. /\ LocksReset
      /\ pc' = [t \in Tasks |-> "idle"] /\ op' = [t \in Tasks |-> NoOp]
      /\ loaded' = [t \in Tasks |-> NoRecord] /\ orphans' = {}
      /\ crashes' = crashes + 1 /\ UNCHANGED <<file, drops>>
  BY DEF Crash
<1>2. tmp' \in [Sessions -> Record \cup {NoRecord, Torn}]
  BY DEF Crash, StoreInv, StoreTypeOK
<1>3. StoreTypeOK'
  BY <1>1, <1>2 DEF StoreInv, StoreTypeOK, LocksInv
<1>4. ASSUME NEW u \in Tasks PROVE TaskInv(u)'
  BY <1>1 DEF TaskInv, Inside, HoldsGuard, LocksReset
<1>. QED  BY <1>3, <1>4 DEF StoreInv

LEMMA StoreInvStep == StoreInv /\ [StoreNext]_storeVars => StoreInv'
<1>. SUFFICES ASSUME StoreInv, [StoreNext]_storeVars PROVE StoreInv'
  OBVIOUS
<1>1. LocksInv'
  BY StoreStepIsLocksStep, LocksInvStep DEF StoreInv
<1>2. ASSUME NEW s \in Sessions, CreateSession(s) PROVE StoreInv'
  <2>1. NewRecord \in Record
    BY StoreAssumption DEF NewRecord, Record
  <2>2. StoreTypeOK'
    BY <1>1, <1>2, <2>1 DEF CreateSession, StoreInv, StoreTypeOK, LocksInv
  <2>. QED  BY <1>1, <1>2, <2>2, FilesOnlyKeepsTasks DEF CreateSession, StoreInv
<1>3. ASSUME NEW t \in Tasks, NEW s \in Sessions, NEW o \in Op, Begin(t, s, o) PROVE StoreInv'
  BY <1>1, <1>3, BeginKeepsInv
<1>4. ASSUME NEW t \in Tasks, Enter(t) PROVE StoreInv'
  BY <1>1, <1>4, EnterKeepsInv
<1>5. ASSUME NEW t \in Tasks, RecordMissing(t) \/ RenameTmp(t) \/ Drop(t) PROVE StoreInv'
  BY <1>1, <1>5, LeavingKeepsInv
<1>6. ASSUME NEW t \in Tasks, ReadRecord(t) PROVE StoreInv'
  BY <1>1, <1>6, ReadRecordKeepsInv
<1>7. ASSUME NEW t \in Tasks, WriteTmp(t) PROVE StoreInv'
  BY <1>1, <1>7, WriteTmpKeepsInv
<1>8. ASSUME NEW o \in orphans, RunOrphan(o) PROVE StoreInv'
  <2>1. o.session \in Sessions /\ o.record \in Record
    BY DEF StoreInv, StoreTypeOK, Orphan
  <2>2. file' \in [Sessions -> Record \cup {NoRecord, Torn}] /\ tmp' \in [Sessions -> Record \cup {NoRecord, Torn}]
    <3>1. CASE o.job = "write"
      BY <1>8, <2>1, <3>1 DEF RunOrphan, StoreInv, StoreTypeOK
    <3>2. CASE o.job # "write"
      BY <1>8, <2>1, <3>2, RenameKeepsTypes DEF RunOrphan, StoreInv
    <3>. QED  BY <3>1, <3>2
  <2>3. StoreTypeOK'
    BY <1>1, <1>8, <2>2 DEF RunOrphan, StoreInv, StoreTypeOK, LocksInv
  <2>. QED  BY <1>1, <1>8, <2>3, FilesOnlyKeepsTasks DEF RunOrphan, StoreInv
<1>9. CASE Crash
  BY <1>1, <1>9, CrashKeepsInv
<1>10. CASE UNCHANGED storeVars
  <2>1. UNCHANGED <<lockVars, pc, op, loaded>>
    BY <1>10 DEF storeVars, lockVars
  <2>2. StoreTypeOK'
    BY <1>1, <1>10 DEF storeVars, StoreInv, StoreTypeOK, LocksInv
  <2>. QED  BY <1>1, <2>1, <2>2, FilesOnlyKeepsTasks DEF StoreInv
<1>. QED
  BY <1>2, <1>3, <1>4, <1>5, <1>6, <1>7, <1>8, <1>9, <1>10 DEF StoreNext

-----------------------------------------------------------------------------
(* Theorems for every use of the store                                     *)

\* The variables of the store keep their types, and every task is at an await
\* that fits the lock and the data it holds.
THEOREM StoreInvariant == StoreSpec => []StoreInv
  BY StoreInvInit, StoreInvStep, PTL DEF StoreSpec

\* Every variable of the store keeps its type, dropped futures and crashes
\* included.
THEOREM StoreIsTyped == StoreSpec => []StoreTypeOK
<1>1. StoreInv => StoreTypeOK
  BY DEF StoreInv
<1>. QED  BY <1>1, StoreInvariant, PTL

\* The store as a whole runs its lock table as SessionLocks says.
THEOREM StoreUsesLocks == StoreSpec => LocksSpec
<1>1. StoreInit => LocksInit
  BY DEF StoreInit
<1>. QED  BY <1>1, StoreStepIsLocksStep, PTL DEF StoreSpec, LocksSpec

\* At most one update of a session is between lock().await and its return,
\* although futures are dropped, the table is pruned and the process crashes.
THEOREM StoreExcludes == StoreSpec => []MutualExclusion
  BY StoreUsesLocks, SessionsAreExclusive, PTL

\* The table of locks stays within its bound as the operations of the store use it.
THEOREM StoreTableIsBounded == StoreSpec => []TableIsBounded
  BY StoreUsesLocks, TableStaysBounded, PTL

-----------------------------------------------------------------------------
(* Updates whose futures are not dropped                                   *)

\* What an update has read is still the record, and what it has written is
\* still the temporary file.
Fresh(t) ==
  /\ pc[t] \in {"writing", "renaming"}
       => file[target[t]] \in Record /\ loaded[t] = Apply(op[t], file[target[t]])
  /\ pc[t] = "renaming" => tmp[target[t]] = loaded[t]

FreshInv ==
  /\ StoreInv
  /\ orphans = {}
  /\ file \in [Sessions -> Record \cup {NoRecord}]
  /\ \A t \in Tasks : Fresh(t)

LEMMA FreshInvInit == StoreInit => FreshInv
  BY StoreInvInit DEF StoreInit, FreshInv, Fresh

\* Two updates past the lock work on different sessions.
LEMMA UpdatesAreApart ==
  ASSUME StoreInv, NEW t \in Tasks, NEW u \in Tasks \ {t}, pc[t] \in Inside, pc[u] \in Inside
  PROVE  target[t] # target[u]
  BY LocksInvExcludes DEF StoreInv, TaskInv, MutualExclusion

\* A rename that succeeds is one step of the abstract update.
LEMMA RenameInstallsUpdate ==
  ASSUME FreshInv, NEW t \in Tasks, RenameTmp(t)
  PROVE  /\ target[t] \in Sessions /\ op[t] \in Op /\ file[target[t]] \in Record
         /\ file' = [file EXCEPT ![target[t]] = Apply(op[t], file[target[t]])]
<1>1. pc[t] = "renaming" /\ Rename(target[t])
  BY DEF RenameTmp
<1>2. target[t] \in Sessions /\ op[t] \in Op
  BY <1>1 DEF FreshInv, StoreInv, TaskInv
<1>3. file[target[t]] \in Record /\ tmp[target[t]] = Apply(op[t], file[target[t]])
  BY <1>1 DEF FreshInv, Fresh
<1>4. tmp[target[t]] # NoRecord
  BY <1>2, <1>3, ApplyGivesRecord, StoreAssumption DEF Record
<1>. QED  BY <1>1, <1>2, <1>3, <1>4 DEF Rename

LEMMA OperationKeepsFresh ==
  ASSUME FreshInv, Droppable = {}, NEW t \in Tasks,
         Enter(t) \/ RecordMissing(t) \/ ReadRecord(t) \/ WriteTmp(t) \/ RenameTmp(t),
         StoreInv'
  PROVE  FreshInv'
<1>. USE DEF FreshInv
<1>1. orphans' = {}
  BY DEF Enter, RecordMissing, ReadRecord, WriteTmp, RenameTmp
<1>2. CASE Enter(t)
  BY <1>1, <1>2 DEF Enter, AcquireGuard, Fresh, StoreInv, StoreTypeOK
<1>3. CASE RecordMissing(t)
  <2>1. Leave(t) /\ UNCHANGED <<file, tmp>>
    BY <1>3 DEF RecordMissing
  <2>2. ASSUME NEW u \in Tasks PROVE Fresh(u)'
    BY <2>1 DEF Leave, DropFuture, Fresh, StoreInv, StoreTypeOK, LocksInv, LocksTypeOK
  <2>. QED  BY <1>1, <2>1, <2>2
<1>4. CASE ReadRecord(t)
  BY <1>1, <1>4 DEF ReadRecord, lockVars, Fresh, StoreInv, StoreTypeOK
<1>5. CASE WriteTmp(t)
  <2>1. /\ pc[t] = "writing" /\ pc' = [pc EXCEPT ![t] = "renaming"]
        /\ tmp' = [tmp EXCEPT ![target[t]] = loaded[t]]
        /\ UNCHANGED <<lockVars, file, op, loaded>>
    BY <1>5 DEF WriteTmp
  <2>2. target[t] \in Sessions
    BY <2>1 DEF StoreInv, TaskInv
  <2>3. Fresh(t)'
    BY <2>1, <2>2 DEF Fresh, lockVars, StoreInv, StoreTypeOK
  <2>4. ASSUME NEW u \in Tasks \ {t} PROVE Fresh(u)'
    <3>1. pc[u] = "renaming" => target[u] # target[t]
      BY <2>1, UpdatesAreApart DEF Inside
    <3>2. Fresh(u) /\ pc'[u] = pc[u]
      BY <2>1 DEF StoreInv, StoreTypeOK
    <3>. QED  BY <2>1, <2>2, <3>1, <3>2 DEF Fresh, lockVars, StoreInv, StoreTypeOK
  <2>. QED  BY <1>1, <2>1, <2>3, <2>4
<1>6. CASE RenameTmp(t)
  <2>1. /\ target[t] \in Sessions /\ op[t] \in Op /\ file[target[t]] \in Record
        /\ file' = [file EXCEPT ![target[t]] = Apply(op[t], file[target[t]])]
    BY <1>6, RenameInstallsUpdate
  <2>2. file' \in [Sessions -> Record \cup {NoRecord}]
    BY <2>1, ApplyGivesRecord
  <2>3. /\ pc[t] = "renaming" /\ Leave(t)
        /\ \A s \in Sessions \ {target[t]} : file'[s] = file[s] /\ tmp'[s] = tmp[s]
    BY <1>6, <2>1 DEF RenameTmp, Rename, StoreInv, StoreTypeOK
  <2>4. /\ pc' = [pc EXCEPT ![t] = "idle"]
        /\ \A u \in Tasks \ {t} : pc'[u] = pc[u] /\ op'[u] = op[u] /\ loaded'[u] = loaded[u]
                                    /\ target'[u] = target[u]
    BY <2>3 DEF Leave, DropFuture, StoreInv, StoreTypeOK, LocksInv, LocksTypeOK
  <2>5. Fresh(t)'
    BY <2>4 DEF Fresh, StoreInv, StoreTypeOK
  <2>6. ASSUME NEW u \in Tasks \ {t} PROVE Fresh(u)'
    <3>1. pc[u] \in {"writing", "renaming"} => target[u] \in Sessions \ {target[t]}
      BY <2>3, UpdatesAreApart DEF Inside, StoreInv, TaskInv
    <3>. QED  BY <2>3, <2>4, <3>1 DEF Fresh
  <2>. QED  BY <1>1, <2>2, <2>5, <2>6
<1>. QED  BY <1>2, <1>3, <1>4, <1>5, <1>6

LEMMA FreshInvStep ==
  ASSUME Droppable = {}
  PROVE  FreshInv /\ [StoreNext]_storeVars => FreshInv'
<1>. SUFFICES ASSUME FreshInv, [StoreNext]_storeVars PROVE FreshInv'
  OBVIOUS
<1>1. StoreInv'
  BY StoreInvStep DEF FreshInv
<1>2. ASSUME NEW s \in Sessions, CreateSession(s) PROVE FreshInv'
  <2>1. NewRecord \in Record
    BY StoreAssumption DEF NewRecord, Record
  <2>2. NoRecord \notin Record
    BY StoreAssumption DEF Record
  <2>. QED  BY <1>1, <1>2, <2>1, <2>2 DEF CreateSession, lockVars, FreshInv, Fresh, StoreInv, TaskInv
<1>3. ASSUME NEW t \in Tasks, NEW s \in Sessions, NEW o \in Op, Begin(t, s, o) PROVE FreshInv'
  BY <1>1, <1>3 DEF Begin, GetSessionLock, FreshInv, Fresh, StoreInv, StoreTypeOK, LocksInv, LocksTypeOK
<1>4. ASSUME NEW t \in Tasks,
             Enter(t) \/ RecordMissing(t) \/ ReadRecord(t) \/ WriteTmp(t) \/ RenameTmp(t)
      PROVE  FreshInv'
  BY <1>1, <1>4, OperationKeepsFresh
<1>5. ASSUME NEW t \in Tasks, Drop(t) PROVE FreshInv'
  BY <1>5 DEF Drop
<1>6. ASSUME NEW o \in orphans, RunOrphan(o) PROVE FreshInv'
  BY <1>6 DEF FreshInv
<1>7. CASE Crash
  BY <1>1, <1>7 DEF Crash, FreshInv, Fresh
<1>8. CASE UNCHANGED storeVars
  BY <1>1, <1>8 DEF storeVars, FreshInv, Fresh
<1>. QED  BY <1>2, <1>3, <1>4, <1>5, <1>6, <1>7, <1>8 DEF StoreNext

-----------------------------------------------------------------------------
(* Theorems for updates whose futures are not dropped                      *)

THEOREM UpdatesStayFresh ==
  ASSUME Droppable = {}
  PROVE  StoreSpec => []FreshInv
<1>1. StoreInit => FreshInv
  BY FreshInvInit
<1>2. FreshInv /\ [StoreNext]_storeVars => FreshInv'
  BY FreshInvStep
<1>. QED  BY <1>1, <1>2, PTL DEF StoreSpec

\* session.json holds a whole record at every moment, a crash included.
THEOREM RecordFilesAreWhole ==
  ASSUME Droppable = {}
  PROVE  StoreSpec => []RecordFileIsWhole
<1>1. FreshInv => RecordFileIsWhole
  BY StoreAssumption DEF FreshInv, RecordFileIsWhole, Record
<1>. QED  BY <1>1, UpdatesStayFresh, PTL

\* An update that returns Ok changed exactly its field of the record that was
\* current when it renamed: no update is lost.
THEOREM NoUpdateIsLost ==
  ASSUME Droppable = {}
  PROVE  StoreSpec => UpdatesTakeEffect
<1>1. FreshInv => [\A t \in Tasks :
                     RenameTmp(t) /\ tmp[target[t]] # NoRecord
                       => file'[target[t]] = Apply(op[t], file[target[t]])]_storeVars
  <2>. SUFFICES ASSUME FreshInv, NEW t \in Tasks, RenameTmp(t)
                PROVE  file'[target[t]] = Apply(op[t], file[target[t]])
    OBVIOUS
  <2>. QED  BY RenameInstallsUpdate DEF FreshInv
<1>. QED  BY <1>1, UpdatesStayFresh, PTL DEF StoreSpec, UpdatesTakeEffect

-----------------------------------------------------------------------------
(* The refinement                                                          *)

\* Each step of the store is a step of the atomic records or leaves the
\* record files as they are.
LEMMA StoreStepIsRecordsStep ==
  ASSUME FreshInv, Droppable = {}, [StoreNext]_storeVars
  PROVE  [Records!RecordsNext]_file
<1>1. ASSUME NEW s \in Sessions, CreateSession(s) PROVE Records!Create(s)
  BY <1>1 DEF CreateSession, Records!Create, NewRecord, Records!NewRecord
<1>2. ASSUME NEW t \in Tasks, RenameTmp(t) PROVE [Records!RecordsNext]_file
  <2>1. /\ target[t] \in Sessions /\ op[t] \in Op /\ file[target[t]] \in Record
        /\ file' = [file EXCEPT ![target[t]] = Apply(op[t], file[target[t]])]
    BY <1>2, RenameInstallsUpdate
  <2>2. file[target[t]] # NoRecord
    BY <2>1, StoreAssumption DEF Record
  <2>3. CASE op[t].field = "state"
    <3>1. op[t].value \in States /\ Records!SetState(target[t], op[t].value)
      BY <2>1, <2>2, <2>3 DEF Op, Apply, Records!SetState
    <3>. QED  BY <2>1, <3>1 DEF Records!RecordsNext
  <2>4. CASE op[t].field # "state"
    <3>1. op[t].value \in Turns /\ Records!SetTurns(target[t], op[t].value)
      BY <2>1, <2>2, <2>4 DEF Op, Apply, Records!SetTurns
    <3>. QED  BY <2>1, <3>1 DEF Records!RecordsNext
  <2>. QED  BY <2>3, <2>4
<1>3. ASSUME NEW t \in Tasks,
             \/ \E s \in Sessions, o \in Op : Begin(t, s, o)
             \/ Enter(t) \/ RecordMissing(t) \/ ReadRecord(t) \/ WriteTmp(t) \/ Drop(t)
      PROVE  UNCHANGED file
  BY <1>3 DEF Begin, Enter, RecordMissing, ReadRecord, WriteTmp, Drop
<1>4. ASSUME NEW o \in orphans, RunOrphan(o) PROVE FALSE
  BY <1>4 DEF FreshInv
<1>5. CASE Crash \/ UNCHANGED storeVars
  BY <1>5 DEF Crash, storeVars
<1>. QED  BY <1>1, <1>2, <1>3, <1>4, <1>5 DEF StoreNext, Records!RecordsNext

\* The store, with its locks, temporary files and crashes, implements records
\* that change in single steps.
THEOREM StoreImplementsRecords ==
  ASSUME Droppable = {}
  PROVE  StoreSpec => ImplementsRecords
<1>1. StoreInit => Records!RecordsInit
  BY DEF StoreInit, Records!RecordsInit
<1>2. FreshInv /\ [StoreNext]_storeVars => [Records!RecordsNext]_file
  BY StoreStepIsRecordsStep
<1>. QED
  BY <1>1, <1>2, UpdatesStayFresh, PTL DEF StoreSpec, ImplementsRecords, Records!RecordsSpec
=============================================================================
