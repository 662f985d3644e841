----------------------------- MODULE StagingArea -----------------------------
(***************************************************************************)
(* StagingArea of kn-code-atomic/src/staging.rs: stage, commit, rollback.  *)
(* A change is written to base_dir under the bare file name of its target; *)
(* commit copies every existing target to a backup, then every staged file *)
(* over its target, and on an error copies backups back.  One action per   *)
(* file operation of the commit.                                           *)
(*                                                                         *)
(* A copy may fail (disk full, permissions): its destination is then as it *)
(* was or torn.  The commit may be interrupted: its future is dropped or   *)
(* the process dies.                                                       *)
(***************************************************************************)
EXTENDS Naturals, Sequences, FiniteSets, Functions, TLC

CONSTANTS
  Paths, Names,        \* target files; file names within base_dir
  NameOf,              \* Path::file_name of each path
  Contents, Empty,     \* file contents, and the empty one
  NoFile, Torn,        \* no file there; a file a failed copy left behind
  Kinds,               \* the change types the caller uses
  MaxStageFaults, MaxCopyFaults, MaxInterrupts   \* bounds on the trouble

ASSUME StagingAssumption ==
  /\ NameOf \in [Paths -> Names]
  /\ Empty \in Contents
  /\ NoFile \notin Contents /\ Torn \notin Contents /\ NoFile # Torn
  /\ Kinds \subseteq {"write", "delete"}

VARIABLES
  disk,      \* the targets
  area,      \* base_dir
  changes,   \* StagingArea::changes
  batch,     \* commit: the drained changes
  backup,    \* commit: the backup file of each target (NoFile: none)
  order,     \* commit: the order in which the drained changes are walked
  next,      \* commit: the index of the loop
  pc,        \* commit: the loop it is in, "idle" outside
  start,     \* what each target held before the last commit, for the properties
  lost,      \* the targets whose copy back failed in it, for the properties
  result,    \* what the last commit returned, or will once nothing can be undone
  faults     \* how often each kind of trouble has happened

areaVars == <<disk, area, changes, batch, backup, order, next, pc, start, lost, result, faults>>

File == Contents \cup {NoFile, Torn}

StagedChange == [kind : Kinds, content : Contents]

StagingTypeOK ==
  /\ disk \in [Paths -> File] /\ backup \in [Paths -> File] /\ start \in [Paths -> File]
  /\ area \in [Names -> File]
  /\ DOMAIN changes \subseteq Paths /\ Range(changes) \subseteq StagedChange
  /\ DOMAIN batch \subseteq Paths /\ Range(batch) \subseteq StagedChange
  /\ Range(order) \subseteq DOMAIN batch /\ IsInjective(order)
  /\ next \in 1..(Len(order) + 1)
  /\ pc \in {"idle", "backup", "restore", "apply", "undo", "cleanup"}
  /\ lost \subseteq Paths /\ result \in {"none", "ok", "err"}
  /\ faults \in [{"stage", "copy", "interrupt"} -> Nat]

NoChanges == <<>>

StagingInit ==
  /\ disk \in [Paths -> {NoFile} \cup Contents]
  /\ area = [n \in Names |-> NoFile]
  /\ changes = NoChanges /\ batch = NoChanges
  /\ backup = [p \in Paths |-> NoFile]
  /\ order = <<>> /\ next = 1 /\ pc = "idle"
  /\ start = disk /\ lost = {} /\ result = "none"
  /\ faults = [k \in {"stage", "copy", "interrupt"} |-> 0]

commitVars == <<batch, backup, order, next, pc, start, lost, result>>

\* The locals of commit go out of scope.
EndCommit ==
  /\ batch' = NoChanges /\ order' = <<>> /\ next' = 1
  /\ pc' = "idle"

Limit == [stage |-> MaxStageFaults, copy |-> MaxCopyFaults, interrupt |-> MaxInterrupts]

Trouble(kind) ==
  /\ faults[kind] < Limit[kind]
  /\ faults' = [faults EXCEPT ![kind] = @ + 1]

-----------------------------------------------------------------------------
(* stage and rollback                                                      *)

\* Mutant: a second change of the same file is not written out again.
StageFile_Once(n, c) == area' = [area EXCEPT ![n] = IF @ = NoFile THEN c ELSE @]

\* tokio::fs::write(staged_path, new_content)
StageFile(n, c) == area' = [area EXCEPT ![n] = c]

\* stage: whatever the change type, new_content is written; the caller sends
\* none for a deletion.  The hash of what the caller saw is stored with the
\* change and never compared, so it is left out.
Stage(p, kind, c) ==
  /\ pc = "idle"
  /\ kind = "delete" => c = Empty
  /\ StageFile(NameOf[p], c)
  /\ changes' = [q \in DOMAIN changes \cup {p} |->
                   IF q = p THEN [kind |-> kind, content |-> c] ELSE changes[q]]
  /\ UNCHANGED <<disk, commitVars, faults>>

\* The write fails: stage returns before it records the change.
StageFails(p) ==
  /\ pc = "idle"
  /\ Trouble("stage")
  /\ area' = [area EXCEPT ![NameOf[p]] = Torn]
  /\ UNCHANGED <<disk, changes, commitVars>>

\* remove_file of every staged file, whatever comes of it
Unstage(c) == area' = [n \in Names |-> IF \E p \in DOMAIN c : NameOf[p] = n THEN NoFile ELSE area[n]]

Rollback ==
  /\ pc = "idle"
  /\ Unstage(changes)
  /\ changes' = NoChanges
  /\ UNCHANGED <<disk, commitVars, faults>>

-----------------------------------------------------------------------------
(* commit                                                                  *)

\* changes.drain(); backups of earlier commits that were left behind have
\* names of their own, and nothing looks at them again.
Commit ==
  /\ pc = "idle"
  /\ batch' = changes /\ changes' = NoChanges
  /\ backup' = [p \in Paths |-> NoFile]
  /\ order' = <<>> /\ next' = 1 /\ pc' = "backup"
  /\ start' = disk /\ lost' = {} /\ result' = "none"
  /\ UNCHANGED <<disk, area, faults>>

\* Mutant: the walk comes back to a change it has backed up.
Backup_Revisits(p) ==
  /\ pc = "backup" /\ p \in DOMAIN batch
  /\ Len(order) < Cardinality(Paths)
  /\ backup' = [backup EXCEPT ![p] = disk[p]]
  /\ order' = Append(order, p)
  /\ UNCHANGED <<disk, area, changes, batch, next, pc, start, lost, result, faults>>

\* The next change of the HashMap's order is backed up, if its target exists.
Backup(p) ==
  /\ pc = "backup" /\ p \in DOMAIN batch \ Range(order)
  /\ backup' = [backup EXCEPT ![p] = disk[p]]
  /\ order' = Append(order, p)
  /\ UNCHANGED <<disk, area, changes, batch, next, pc, start, lost, result, faults>>

\* Its copy fails: the backups made so far are copied back.
BackupFails(p) ==
  /\ pc = "backup" /\ p \in DOMAIN batch \ Range(order)
  /\ disk[p] # NoFile
  /\ Trouble("copy")
  /\ \E left \in {NoFile, Torn} : backup' = [backup EXCEPT ![p] = left]
  /\ pc' = "restore"
  /\ UNCHANGED <<disk, area, changes, batch, order, next, start, lost, result>>

BackupsMade ==
  /\ pc = "backup" /\ Range(order) = DOMAIN batch
  /\ pc' = "apply"
  /\ UNCHANGED <<disk, area, changes, batch, backup, order, next, start, lost, result, faults>>

\* tokio::fs::copy(staged_path, target_path)
Apply ==
  /\ pc = "apply" /\ next <= Len(order)
  /\ area[NameOf[order[next]]] # NoFile
  /\ disk' = [disk EXCEPT ![order[next]] = area[NameOf[order[next]]]]
  /\ next' = next + 1
  /\ UNCHANGED <<area, changes, batch, backup, order, pc, start, lost, result, faults>>

\* Mutant: the failed change itself is not rolled back (rollback_idx < idx).
UndoUpTo_Exclusive(idx) == SubSeq(order, 1, idx - 1)

\* The changes rolled back when the one at idx fails: rollback_idx <= idx.
UndoUpTo(idx) == SubSeq(order, 1, idx)

\* The copy fails, or there is no staged file to copy.
ApplyFails ==
  /\ pc = "apply" /\ next <= Len(order)
  /\ IF area[NameOf[order[next]]] = NoFile
       THEN UNCHANGED <<disk, faults>>
       ELSE /\ Trouble("copy")
            /\ \E left \in {disk[order[next]], Torn} : disk' = [disk EXCEPT ![order[next]] = left]
  /\ order' = UndoUpTo(next) /\ next' = 1 /\ pc' = "undo"
  /\ UNCHANGED <<area, changes, batch, backup, start, lost, result>>

\* One backup is copied back and removed; a target that did not exist is
\* removed, unless the commit failed before it touched any.
UndoOne ==
  /\ pc \in {"restore", "undo"} /\ next <= Len(order)
  /\ LET p == order[next] IN
       /\ disk' = IF backup[p] = NoFile /\ pc = "restore" THEN disk ELSE [disk EXCEPT ![p] = backup[p]]
       /\ backup' = [backup EXCEPT ![p] = NoFile]
  /\ next' = next + 1
  /\ UNCHANGED <<area, changes, batch, order, pc, start, lost, result, faults>>

\* The copy back fails; the error is dropped and the backup removed all the same.
UndoOneFails ==
  /\ pc \in {"restore", "undo"} /\ next <= Len(order)
  /\ backup[order[next]] # NoFile
  /\ Trouble("copy")
  /\ \E left \in {disk[order[next]], Torn} : disk' = [disk EXCEPT ![order[next]] = left]
  /\ backup' = [backup EXCEPT ![order[next]] = NoFile]
  /\ lost' = lost \cup {order[next]}
  /\ next' = next + 1
  /\ UNCHANGED <<area, changes, batch, order, pc, start, result>>

Fail ==
  /\ pc \in {"restore", "undo"} /\ next > Len(order)
  /\ EndCommit /\ result' = "err"
  /\ UNCHANGED <<disk, area, changes, backup, start, lost, faults>>

\* Mutant: the backups go while changes are still being applied.
DropBackups_Early ==
  /\ pc = "apply" /\ (next > 1 \/ next > Len(order))
  /\ backup' = [p \in Paths |-> NoFile]
  /\ IF next > Len(order) THEN pc' = "cleanup" /\ result' = "ok" ELSE UNCHANGED <<pc, result>>
  /\ UNCHANGED <<disk, area, changes, batch, order, next, start, lost, faults>>

\* Every change is applied: the backups go.
DropBackups ==
  /\ pc = "apply" /\ next > Len(order)
  /\ backup' = [p \in Paths |-> NoFile]
  /\ pc' = "cleanup" /\ result' = "ok"
  /\ UNCHANGED <<disk, area, changes, batch, order, next, start, lost, faults>>

\* Then the staged files go, and commit returns Ok.
Succeed ==
  /\ pc = "cleanup"
  /\ Unstage(batch)
  /\ EndCommit
  /\ UNCHANGED <<disk, changes, backup, start, lost, result, faults>>

-----------------------------------------------------------------------------
(* The environment                                                         *)

\* The target a copy is going on to.
Copying ==
  IF pc \in {"apply", "restore", "undo"} /\ next <= Len(order) THEN {order[next]} ELSE {}

\* The process dies, or the future of the commit is dropped: what was drained
\* and what was staged in memory is forgotten; the files stay, the one being
\* written possibly torn.
Interrupt ==
  /\ Trouble("interrupt")
  /\ \E torn \in SUBSET Copying : disk' = [p \in Paths |-> IF p \in torn THEN Torn ELSE disk[p]]
  /\ changes' = NoChanges
  /\ EndCommit
  /\ UNCHANGED <<area, backup, start, lost, result>>

CommitStep ==
  \/ \E p \in Paths : Backup(p) \/ BackupFails(p)
  \/ BackupsMade \/ Apply \/ ApplyFails \/ UndoOne \/ UndoOneFails
  \/ Fail \/ DropBackups \/ Succeed

StagingNext ==
  \/ \E p \in Paths, kind \in Kinds, c \in Contents : Stage(p, kind, c)
  \/ \E p \in Paths : StageFails(p)
  \/ Rollback
  \/ Commit
  \/ CommitStep
  \/ Interrupt

StagingSpec == StagingInit /\ [][StagingNext]_areaVars

-----------------------------------------------------------------------------
(* Properties                                                              *)

Returns(r) == pc # "idle" /\ pc' = "idle" /\ result' = r

\* A commit that returns Ok has left at every staged path what was last
\* staged for it and has touched nothing else: the "all" of all-or-nothing,
\* over the loops of commit (staging.rs 74-106).  A staging that failed may
\* have spoilt the staged file of an earlier one, and a deletion is not
\* carried out; the property speaks of the rest.
CommitInstallsStaged ==
  [][Returns("ok") =>
       \A p \in Paths :
         /\ p \notin DOMAIN batch => disk'[p] = start[p]
         /\ p \in DOMAIN batch /\ batch[p].kind = "write" /\ faults.stage = 0
              => disk'[p] = batch[p].content]_areaVars

\* A commit that returns an error has left every target as it found it,
\* whichever backup or copy failed and however far it had got: the "nothing".
\* A failure of the rollback itself costs the one target it happened to.
FailureRestores ==
  [][Returns("err") => \A p \in Paths \ lost' : disk'[p] = start[p]]_areaVars

\* Until a commit has succeeded, what the target held before it is still on
\* disk, at the target or in its backup.
Survives(p) == start[p] \in {NoFile, disk[p], backup[p]}

\* A commit interrupted at any await, in the middle of a rollback included,
\* has destroyed nothing but what a failing copy back took.
OnlyFailedRestoresLose == result # "ok" => \A p \in Paths \ lost : Survives(p)

\* No failure destroys what a target held before the commit.  The code does
\* not have this property: see UndoOneFails.
OriginalsSurvive == result # "ok" => \A p \in Paths : Survives(p)
==============================================================================
