---------------------------- MODULE SessionLocks ----------------------------
(***************************************************************************)
(* The per-session write locks of kn-code-session/src/store.rs.            *)
(*                                                                         *)
(* SessionStore keeps a HashMap from session ids to Arc<Mutex<()>>.  Every *)
(* operation that touches a session's files first fetches the session's    *)
(* Arc (get_session_lock, which may prune entries nobody else holds), then *)
(* awaits the mutex behind it, and drops guard and Arc when it returns or  *)
(* when the future running it is dropped.                                  *)
(*                                                                         *)
(* A lock is an element of LockIds; an element no table entry and no task  *)
(* refers to stands for a mutex that has not been allocated.               *)
(***************************************************************************)
EXTENDS Integers, FiniteSets

CONSTANTS
  Tasks,        \* futures that may be inside a store operation
  Sessions,     \* session ids
  LockIds,      \* identities of Mutex allocations
  PruneLimit,   \* the 10_000 of get_session_lock
  NoTask,       \* the mutex is free
  NoLock,       \* no Arc: an absent table entry, or a task outside the store
  NoSession     \* a task that works on no session

ASSUME TasksAssumption == IsFiniteSet(Tasks) /\ NoTask \notin Tasks
ASSUME SessionsAssumption == IsFiniteSet(Sessions) /\ NoSession \notin Sessions
ASSUME LockIdsAssumption == NoLock \notin LockIds
ASSUME PruneLimitAssumption == PruneLimit \in Nat \ {0}

VARIABLES
  locks,    \* write_locks: the table, session -> lock or NoLock
  arc,      \* the Arc clone a task holds
  target,   \* the session_id argument of the operation a task is in
  owner     \* the task whose MutexGuard is alive, per lock

lockVars == <<locks, arc, target, owner>>

LocksTypeOK ==
  /\ locks \in [Sessions -> LockIds \cup {NoLock}]
  /\ arc \in [Tasks -> LockIds \cup {NoLock}]
  /\ target \in [Tasks -> Sessions \cup {NoSession}]
  /\ owner \in [LockIds -> Tasks \cup {NoTask}]

LocksInit ==
  /\ locks = [s \in Sessions |-> NoLock]
  /\ arc = [t \in Tasks |-> NoLock]
  /\ target = [t \in Tasks |-> NoSession]
  /\ owner = [l \in LockIds |-> NoTask]

-----------------------------------------------------------------------------
(* The table and its pruning                                               *)

Entries(table) == {s \in Sessions : table[s] # NoLock}

Holders(clones, l) == {t \in Tasks : clones[t] = l}

\* Arc::strong_count: the table's own reference and one per clone.
StrongCount(table, clones, l) ==
  Cardinality({s \in Sessions : table[s] = l}) + Cardinality(Holders(clones, l))

\* Mutants of StaleKeys: every entry is stale; one clone does not count.
StaleKeys_All(table, clones) == Entries(table)

StaleKeys_OneClone(table, clones) ==
  {s \in Entries(table) : StrongCount(table, clones, table[s]) <= 2}

StaleKeys(table, clones) ==
  {s \in Entries(table) : StrongCount(table, clones, table[s]) <= 1}

SmallerOf(m, n) == IF m <= n THEN m ELSE n

\* Mutant: the table is never pruned.
PrunedKeys_Never(table, clones) == {{}}

\* The sets of keys one call may remove: above the limit, half the table's
\* length of stale keys in whatever order the HashMap iterates.
PrunedKeys(table, clones) ==
  IF Cardinality(Entries(table)) > PruneLimit
  THEN LET stale == StaleKeys(table, clones)
           quota == SmallerOf(Cardinality(Entries(table)) \div 2, Cardinality(stale))
       IN  {P \in SUBSET stale : Cardinality(P) = quota}
  ELSE {{}}

Without(table, keys) ==
  [s \in Sessions |-> IF s \in keys THEN NoLock ELSE table[s]]

-----------------------------------------------------------------------------
(* Actions                                                                 *)

\* entry().or_insert_with(): the present lock, or one nobody refers to yet.
EntryFor(s) ==
  IF locks[s] # NoLock
  THEN {locks[s]}
  ELSE {l \in LockIds : StrongCount(locks, arc, l) = 0}

GetSessionLock(t, s) ==
  /\ arc[t] = NoLock
  /\ \E l \in EntryFor(s) :
       /\ arc' = [arc EXCEPT ![t] = l]
       /\ \E keys \in PrunedKeys([locks EXCEPT ![s] = l], arc') :
            locks' = Without([locks EXCEPT ![s] = l], keys)
  /\ target' = [target EXCEPT ![t] = s]
  /\ UNCHANGED owner

HoldsGuard(t) == arc[t] # NoLock /\ owner[arc[t]] = t

\* lock.lock().await
AcquireGuard(t) ==
  /\ arc[t] # NoLock
  /\ owner[arc[t]] = NoTask
  /\ owner' = [owner EXCEPT ![arc[t]] = t]
  /\ UNCHANGED <<locks, arc, target>>

\* Mutant: the guard leaks when the future ends.
DropFuture_KeepsGuard(t) ==
  /\ arc[t] # NoLock
  /\ arc' = [arc EXCEPT ![t] = NoLock]
  /\ target' = [target EXCEPT ![t] = NoSession]
  /\ UNCHANGED <<locks, owner>>

\* The future ends, by returning or by being dropped: _guard, then lock.
DropFuture(t) ==
  /\ arc[t] # NoLock
  /\ owner' = IF HoldsGuard(t) THEN [owner EXCEPT ![arc[t]] = NoTask] ELSE owner
  /\ arc' = [arc EXCEPT ![t] = NoLock]
  /\ target' = [target EXCEPT ![t] = NoSession]
  /\ UNCHANGED locks

\* The process dies: the table, the futures and the mutexes are gone.
LocksReset ==
  /\ locks' = [s \in Sessions |-> NoLock]
  /\ arc' = [t \in Tasks |-> NoLock]
  /\ target' = [t \in Tasks |-> NoSession]
  /\ owner' = [l \in LockIds |-> NoTask]

LocksNext ==
  \/ \E t \in Tasks :
       \/ \E s \in Sessions : GetSessionLock(t, s)
       \/ AcquireGuard(t)
       \/ DropFuture(t)
  \/ LocksReset

LocksSpec == LocksInit /\ [][LocksNext]_lockVars

-----------------------------------------------------------------------------
(* Properties                                                              *)

\* At most one future is between lock().await and its return for a session,
\* although get_session_lock may have removed and re-created the session's
\* entry in the meantime (store.rs 42-57).
MutualExclusion ==
  \A t, u \in Tasks :
    HoldsGuard(t) /\ HoldsGuard(u) /\ t # u => target[t] # target[u]

\* The Arc a task has cloned is the one the table hands to the next caller:
\* pruning never removes an entry a task still refers to.
ClonesAreMapped ==
  \A t \in Tasks : arc[t] # NoLock => target[t] \in Sessions /\ locks[target[t]] = arc[t]

\* Two sessions never share a mutex, so an operation on one session is never
\* made to wait for an operation on another.
LocksAreDistinct ==
  \A r, s \in Sessions : locks[r] = locks[s] /\ locks[r] # NoLock => r = s

\* A mutex is owned only by a task that still has its Arc: no guard outlives
\* the future that took it.
GuardsAreAlive ==
  \A l \in LockIds : owner[l] # NoTask => arc[owner[l]] = l

\* The table never outgrows the larger of the limit and the number of
\* operations in flight: pruning half of what is stale keeps up with one
\* insertion per call.
TableIsBounded ==
  Cardinality(Entries(locks)) <= PruneLimit
    \/ Cardinality(Entries(locks)) <= Cardinality(Tasks)
=============================================================================
