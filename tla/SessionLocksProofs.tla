------------------------- MODULE SessionLocksProofs -------------------------
(***************************************************************************)
(* Proofs about the session locks, for any number of tasks, sessions and   *)
(* locks and any prune limit.                                              *)
(*                                                                         *)
(* Mutual exclusion is not inductive: a task that holds the guard of a     *)
(* mutex excludes only those that wait for the same mutex, so the proof    *)
(* needs that everyone working on a session has cloned the same Arc.  That *)
(* is ClonesAreMapped, and it survives pruning because Arc::strong_count   *)
(* of an entry somebody has cloned is at least 2.                          *)
(***************************************************************************)
EXTENDS SessionLocks, FiniteSetTheorems, TLAPS

LocksInv ==
  /\ LocksTypeOK
  /\ ClonesAreMapped
  /\ LocksAreDistinct
  /\ GuardsAreAlive

-----------------------------------------------------------------------------
(* Reference counts                                                        *)

LEMMA CountsAreNatural ==
  ASSUME NEW table, NEW clones, NEW l
  PROVE  /\ IsFiniteSet({s \in Sessions : table[s] = l})
         /\ IsFiniteSet(Holders(clones, l))
         /\ Cardinality({s \in Sessions : table[s] = l}) \in Nat
         /\ Cardinality(Holders(clones, l)) \in Nat
<1>1. IsFiniteSet({s \in Sessions : table[s] = l})
  BY FS_Subset, SessionsAssumption
<1>2. IsFiniteSet(Holders(clones, l))
  BY FS_Subset, TasksAssumption DEF Holders
<1>. QED  BY <1>1, <1>2, FS_CardinalityType

\* strong_count(lock) <= 1 means that only the table refers to the lock.
LEMMA StaleLocksAreUnheld ==
  ASSUME NEW table, NEW clones, NEW s \in StaleKeys(table, clones)
  PROVE  \A t \in Tasks : clones[t] # table[s]
<1>. DEFINE inTable == {r \in Sessions : table[r] = table[s]}
<1>1. s \in inTable
  BY DEF StaleKeys, Entries
<1>2. Cardinality(inTable) # 0
  BY <1>1, CountsAreNatural, FS_EmptySet
<1>3. Cardinality(inTable) + Cardinality(Holders(clones, table[s])) <= 1
  BY DEF StaleKeys, StrongCount
<1>4. Cardinality(Holders(clones, table[s])) = 0
  <2>. HIDE DEF inTable
  <2>1. Cardinality(inTable) \in Nat /\ Cardinality(Holders(clones, table[s])) \in Nat
    BY CountsAreNatural DEF inTable
  <2>. QED  BY <2>1, <1>2, <1>3
<1>5. Holders(clones, table[s]) = {}
  BY <1>4, CountsAreNatural, FS_EmptySet
<1>. QED  BY <1>5 DEF Holders

\* A count of 0 means that nobody refers to the lock.
LEMMA UncountedLocksAreFree ==
  ASSUME NEW table, NEW clones, NEW l, StrongCount(table, clones, l) = 0
  PROVE  /\ \A s \in Sessions : table[s] # l
         /\ \A t \in Tasks : clones[t] # l
<1>. DEFINE inTable == {s \in Sessions : table[s] = l}
<1>1. Cardinality(inTable) = 0 /\ Cardinality(Holders(clones, l)) = 0
  <2>1. Cardinality(inTable) + Cardinality(Holders(clones, l)) = 0
    BY DEF StrongCount
  <2>2. Cardinality(inTable) \in Nat /\ Cardinality(Holders(clones, l)) \in Nat
    BY CountsAreNatural
  <2>. HIDE DEF inTable
  <2>. QED  BY <2>1, <2>2
<1>2. inTable = {} /\ Holders(clones, l) = {}
  BY <1>1, CountsAreNatural, FS_EmptySet
<1>. QED  BY <1>2 DEF Holders

\* Pruning removes stale entries only, at whatever limit.
LEMMA PrunedEntriesAreUnheld ==
  ASSUME NEW table, NEW clones, NEW keys \in PrunedKeys(table, clones),
         NEW s \in keys
  PROVE  \A t \in Tasks : clones[t] # table[s]
<1>1. s \in StaleKeys(table, clones)
  BY DEF PrunedKeys
<1>. QED  BY <1>1, StaleLocksAreUnheld

-----------------------------------------------------------------------------
(* The inductive invariant                                                 *)

LEMMA LocksInvInit == LocksInit => LocksInv
  BY LockIdsAssumption, TasksAssumption, SessionsAssumption
  DEF LocksInit, LocksInv, LocksTypeOK, ClonesAreMapped, LocksAreDistinct, GuardsAreAlive

LEMMA GetSessionLockKeepsInv ==
  ASSUME LocksInv, NEW t \in Tasks, NEW s \in Sessions, GetSessionLock(t, s)
  PROVE  LocksInv'
<1>1. PICK l \in EntryFor(s) :
        /\ arc' = [arc EXCEPT ![t] = l]
        /\ \E keys \in PrunedKeys([locks EXCEPT ![s] = l], arc') :
             locks' = Without([locks EXCEPT ![s] = l], keys)
  BY DEF GetSessionLock
<1>. DEFINE table == [locks EXCEPT ![s] = l]
<1>2. PICK keys \in PrunedKeys(table, arc') : locks' = Without(table, keys)
  BY <1>1
<1>3. arc[t] = NoLock /\ target' = [target EXCEPT ![t] = s] /\ owner' = owner
  BY DEF GetSessionLock
<1>4. l \in LockIds
  BY <1>1 DEF EntryFor, LocksInv, LocksTypeOK
<1>5. \A r \in Sessions : r # s => locks[r] # l
  <2>1. CASE locks[s] # NoLock
    BY <2>1, <1>1 DEF EntryFor, LocksInv, LocksAreDistinct
  <2>2. CASE locks[s] = NoLock
    BY <2>2, <1>1, UncountedLocksAreFree DEF EntryFor
  <2>. QED  BY <2>1, <2>2
<1>6. \A k \in keys : \A u \in Tasks : arc'[u] # table[k]
  BY <1>2, PrunedEntriesAreUnheld
<1>7. table \in [Sessions -> LockIds \cup {NoLock}] /\ table[s] = l
      /\ \A r \in Sessions : r # s => table[r] = locks[r]
  BY <1>4 DEF LocksInv, LocksTypeOK
<1>8. LocksTypeOK'
  BY <1>1, <1>2, <1>3, <1>4, <1>7 DEF LocksInv, LocksTypeOK, Without
<1>9. ClonesAreMapped'
  <2>. SUFFICES ASSUME NEW u \in Tasks, arc'[u] # NoLock
                PROVE  target'[u] \in Sessions /\ locks'[target'[u]] = arc'[u]
    BY DEF ClonesAreMapped
  <2>1. target'[u] \in Sessions /\ table[target'[u]] = arc'[u]
    <3>1. CASE u = t
      BY <3>1, <1>1, <1>3, <1>7 DEF LocksInv, LocksTypeOK
    <3>2. CASE u # t
      <4>1. arc[u] # NoLock /\ arc'[u] = arc[u] /\ target'[u] = target[u]
        BY <3>2, <1>1, <1>3 DEF LocksInv, LocksTypeOK
      <4>2. target[u] \in Sessions /\ locks[target[u]] = arc[u]
        BY <4>1 DEF LocksInv, ClonesAreMapped
      <4>3. CASE target[u] = s
        <5>1. locks[s] # NoLock
          BY <4>1, <4>2, <4>3
        <5>. QED  BY <5>1, <4>1, <4>2, <4>3, <1>1, <1>7 DEF EntryFor
      <4>4. CASE target[u] # s
        BY <4>1, <4>2, <4>4, <1>7
      <4>. QED  BY <4>3, <4>4
    <3>. QED  BY <3>1, <3>2
  <2>2. target'[u] \notin keys
    BY <2>1, <1>6
  <2>. QED  BY <2>1, <2>2, <1>2 DEF Without
<1>10. LocksAreDistinct'
  <2>1. \A q, r \in Sessions : table[q] = table[r] /\ table[q] # NoLock => q = r
    BY <1>5, <1>7 DEF LocksInv, LocksAreDistinct
  <2>2. \A r \in Sessions : locks'[r] # NoLock => locks'[r] = table[r]
    BY <1>2 DEF Without
  <2>. QED  BY <2>1, <2>2 DEF LocksAreDistinct
<1>11. GuardsAreAlive'
  <2>. SUFFICES ASSUME NEW k \in LockIds, owner[k] # NoTask
                PROVE  arc'[owner[k]] = k
    BY <1>3 DEF GuardsAreAlive
  <2>1. arc[owner[k]] = k /\ owner[k] \in Tasks
    BY DEF LocksInv, LocksTypeOK, GuardsAreAlive
  <2>2. owner[k] # t
    BY <2>1, <1>3, LockIdsAssumption
  <2>. QED  BY <2>1, <2>2, <1>1 DEF LocksInv, LocksTypeOK
<1>. QED  BY <1>8, <1>9, <1>10, <1>11 DEF LocksInv

LEMMA AcquireGuardKeepsInv ==
  ASSUME LocksInv, NEW t \in Tasks, AcquireGuard(t)
  PROVE  LocksInv'
<1>. USE DEF LocksInv, AcquireGuard
<1>1. LocksTypeOK'
  BY DEF LocksTypeOK
<1>2. ClonesAreMapped' /\ LocksAreDistinct'
  BY DEF ClonesAreMapped, LocksAreDistinct
<1>3. GuardsAreAlive'
  BY DEF LocksTypeOK, GuardsAreAlive
<1>. QED  BY <1>1, <1>2, <1>3

LEMMA DropFutureKeepsInv ==
  ASSUME LocksInv, NEW t \in Tasks, DropFuture(t)
  PROVE  LocksInv'
<1>. USE DEF LocksInv, DropFuture
<1>1. LocksTypeOK'
  BY DEF LocksTypeOK, HoldsGuard
<1>2. ClonesAreMapped'
  BY DEF LocksTypeOK, ClonesAreMapped
<1>3. LocksAreDistinct'
  BY DEF LocksAreDistinct
<1>4. GuardsAreAlive'
  <2>. SUFFICES ASSUME NEW l \in LockIds, owner'[l] # NoTask
                PROVE  arc'[owner'[l]] = l
    BY DEF GuardsAreAlive
  <2>1. owner'[l] = owner[l] /\ owner[l] \in Tasks /\ arc[owner[l]] = l
    BY DEF LocksTypeOK, GuardsAreAlive, HoldsGuard
  <2>2. owner[l] # t
    BY <2>1 DEF LocksTypeOK, HoldsGuard
  <2>. QED  BY <2>1, <2>2 DEF LocksTypeOK
<1>. QED  BY <1>1, <1>2, <1>3, <1>4

\* Every step of the lock table keeps the invariant.
LEMMA LocksInvStep == LocksInv /\ [LocksNext]_lockVars => LocksInv'
<1>. SUFFICES ASSUME LocksInv, [LocksNext]_lockVars PROVE LocksInv'
  OBVIOUS
<1>1. ASSUME NEW t \in Tasks, NEW s \in Sessions, GetSessionLock(t, s) PROVE LocksInv'
  BY <1>1, GetSessionLockKeepsInv
<1>2. ASSUME NEW t \in Tasks, AcquireGuard(t) PROVE LocksInv'
  BY <1>2, AcquireGuardKeepsInv
<1>3. ASSUME NEW t \in Tasks, DropFuture(t) PROVE LocksInv'
  BY <1>3, DropFutureKeepsInv
<1>4. CASE LocksReset
  BY <1>4, LockIdsAssumption, TasksAssumption, SessionsAssumption
  DEF LocksReset, LocksInv, LocksTypeOK, ClonesAreMapped, LocksAreDistinct, GuardsAreAlive
<1>5. CASE UNCHANGED lockVars
  BY <1>5 DEF lockVars, LocksInv, LocksTypeOK, ClonesAreMapped, LocksAreDistinct, GuardsAreAlive
<1>. QED  BY <1>1, <1>2, <1>3, <1>4, <1>5 DEF LocksNext

-----------------------------------------------------------------------------
(* What a step of one task means for the guards of the others              *)

\* Only t's relation to the locks changes.
OthersKeepLocks(t) ==
  \A u \in Tasks \ {t} :
    /\ arc'[u] = arc[u] /\ target'[u] = target[u]
    /\ HoldsGuard(u)' <=> HoldsGuard(u)

LEMMA FetchedLockIsNotHeld ==
  ASSUME LocksInv, NEW t \in Tasks, NEW s \in Sessions, GetSessionLock(t, s)
  PROVE  arc'[t] # NoLock /\ target'[t] = s /\ ~HoldsGuard(t)' /\ OthersKeepLocks(t)
<1>1. PICK l \in LockIds : arc' = [arc EXCEPT ![t] = l]
  BY DEF GetSessionLock, EntryFor, LocksInv, LocksTypeOK
<1>2. arc[t] = NoLock /\ target' = [target EXCEPT ![t] = s] /\ owner' = owner
  BY DEF GetSessionLock
<1>3. owner[l] # t
  BY <1>2, LockIdsAssumption, TasksAssumption DEF LocksInv, GuardsAreAlive
<1>. QED
  BY <1>1, <1>2, <1>3, LockIdsAssumption DEF HoldsGuard, OthersKeepLocks, LocksInv, LocksTypeOK

LEMMA AcquiredGuardIsHeld ==
  ASSUME LocksInv, NEW t \in Tasks, AcquireGuard(t)
  PROVE  arc'[t] # NoLock /\ target' = target /\ HoldsGuard(t)' /\ OthersKeepLocks(t)
  BY TasksAssumption DEF AcquireGuard, HoldsGuard, OthersKeepLocks, LocksInv, LocksTypeOK

LEMMA DroppedGuardIsFree ==
  ASSUME LocksInv, NEW t \in Tasks, DropFuture(t)
  PROVE  arc'[t] = NoLock /\ ~HoldsGuard(t)' /\ OthersKeepLocks(t)
<1>. USE DEF LocksInv, LocksTypeOK, DropFuture, HoldsGuard
<1>1. arc'[t] = NoLock
  OBVIOUS
<1>2. \A u \in Tasks \ {t} : arc'[u] = arc[u] /\ target'[u] = target[u]
  OBVIOUS
<1>3. \A u \in Tasks \ {t} : HoldsGuard(u)' <=> HoldsGuard(u)
  BY <1>2, TasksAssumption
<1>. QED  BY <1>1, <1>2, <1>3 DEF OthersKeepLocks

\* The invariant implies mutual exclusion: two guards on one session would be
\* two owners of one mutex.
LEMMA LocksInvExcludes == LocksInv => MutualExclusion
  BY DEF LocksInv, ClonesAreMapped, MutualExclusion, HoldsGuard

-----------------------------------------------------------------------------
(* The size of the table                                                   *)

LEMMA SizesAreNatural ==
  ASSUME NEW table, NEW keys \in SUBSET Entries(table)
  PROVE  /\ IsFiniteSet(Entries(table)) /\ IsFiniteSet(keys) /\ IsFiniteSet(Entries(table) \ keys)
         /\ Cardinality(Entries(table)) \in Nat /\ Cardinality(keys) \in Nat
         /\ Cardinality(Entries(table) \ keys) = Cardinality(Entries(table)) - Cardinality(keys)
<1>1. IsFiniteSet(Entries(table))
  BY FS_Subset, SessionsAssumption DEF Entries
<1>2. IsFiniteSet(keys)
  BY <1>1, FS_Subset
<1>3. Entries(table) \cap keys = keys
  OBVIOUS
<1>4. /\ IsFiniteSet(Entries(table) \ keys)
      /\ Cardinality(Entries(table) \ keys) = Cardinality(Entries(table)) - Cardinality(keys)
  BY <1>1, <1>3, FS_Difference
<1>. QED  BY <1>1, <1>2, <1>4, FS_CardinalityType

\* An entry that is not stale has a task of its own that cloned it.
LEMMA LiveEntriesAreFew ==
  ASSUME NEW table, NEW clones,
         \A q, r \in Sessions : table[q] = table[r] /\ table[q] # NoLock => q = r
  PROVE  Cardinality(Entries(table) \ StaleKeys(table, clones)) <= Cardinality(Tasks)
<1>. DEFINE live == Entries(table) \ StaleKeys(table, clones)
<1>1. ASSUME NEW s \in live
      PROVE  \E t \in Tasks : clones[t] = table[s]
  <2>. DEFINE inTable == {r \in Sessions : table[r] = table[s]}
  <2>1. inTable = {s}
    BY DEF Entries
  <2>2. Cardinality(inTable) = 1
    BY <2>1, FS_Singleton
  <2>3. ~(StrongCount(table, clones, table[s]) <= 1)
    BY DEF StaleKeys
  <2>4. Cardinality(Holders(clones, table[s])) \in Nat
    BY CountsAreNatural
  <2>5. StrongCount(table, clones, table[s]) = 1 + Cardinality(Holders(clones, table[s]))
    BY <2>2 DEF StrongCount
  <2>6. Cardinality(Holders(clones, table[s])) # 0
    BY <2>3, <2>4, <2>5
  <2>7. Holders(clones, table[s]) # {}
    BY <2>6, FS_EmptySet
  <2>. QED  BY <2>7 DEF Holders
<1>. DEFINE f == [s \in live |-> CHOOSE t \in Tasks : clones[t] = table[s]]
<1>2. \A s \in live : f[s] \in Tasks /\ clones[f[s]] = table[s]
  BY <1>1
<1>3. \A r, s \in live : f[r] = f[s] => r = s
  <2>. SUFFICES ASSUME NEW r \in live, NEW s \in live, f[r] = f[s]
                PROVE  r = s
    OBVIOUS
  <2>1. table[r] = table[s] /\ table[r] # NoLock /\ r \in Sessions /\ s \in Sessions
    BY <1>2 DEF Entries
  <2>. QED  BY <2>1
<1>4. f \in [live -> Tasks]
  BY <1>2
<1>. HIDE DEF f, live
<1>5. f \in Injection(live, Tasks)
  BY <1>3, <1>4 DEF Injection, IsInjective
<1>6. Cardinality(live) <= Cardinality(Tasks)
  BY <1>5, TasksAssumption, FS_Injection
<1>. QED  BY <1>6 DEF live

\* One insertion, then the pruning: half of the table goes, or all of it that no
\* task has cloned.
LEMMA PrunedTableIsBounded ==
  ASSUME NEW table, NEW clones, NEW keys \in PrunedKeys(table, clones),
         NEW n \in Nat, n <= PruneLimit \/ n <= Cardinality(Tasks),
         Cardinality(Entries(table)) <= n + 1, Tasks # {},
         \A q, r \in Sessions : table[q] = table[r] /\ table[q] # NoLock => q = r
  PROVE  \/ Cardinality(Entries(table) \ keys) <= PruneLimit
         \/ Cardinality(Entries(table) \ keys) <= Cardinality(Tasks)
<1>. DEFINE size == Cardinality(Entries(table))
            stale == StaleKeys(table, clones)
            left == Cardinality(Entries(table) \ keys)
<1>1. stale \subseteq Entries(table) /\ keys \subseteq Entries(table)
  BY DEF StaleKeys, PrunedKeys
<1>2. /\ size \in Nat /\ Cardinality(stale) \in Nat /\ Cardinality(keys) \in Nat
      /\ left = size - Cardinality(keys)
      /\ Cardinality(Entries(table) \ stale) = size - Cardinality(stale)
  BY <1>1, SizesAreNatural
<1>3. Cardinality(Entries(table) \ stale) <= Cardinality(Tasks)
  BY LiveEntriesAreFew
<1>4. Cardinality(Tasks) \in Nat /\ Cardinality(Tasks) >= 1
  BY TasksAssumption, FS_CardinalityType, FS_EmptySet
<1>5. PruneLimit \in Nat
  BY PruneLimitAssumption
<1>6. \/ size <= PruneLimit /\ keys = {}
      \/ size > PruneLimit /\ Cardinality(keys) = SmallerOf(size \div 2, Cardinality(stale))
  BY <1>2, <1>5 DEF PrunedKeys
<1>7. keys = {} => Cardinality(keys) = 0
  BY FS_EmptySet
<1>8. size <= n + 1
  OBVIOUS
<1>. HIDE DEF size, stale, left
<1>9. size \div 2 \in Nat /\ 2 * (size \div 2) <= size /\ size <= 2 * (size \div 2) + 1
  BY <1>2
<1>10. CASE size <= PruneLimit /\ keys = {}
  BY <1>2, <1>5, <1>7, <1>10 DEF left
<1>11. CASE Cardinality(keys) = Cardinality(stale)
  BY <1>2, <1>3, <1>11 DEF left
<1>12. CASE Cardinality(keys) = size \div 2 /\ size > PruneLimit
  <2>1. CASE size <= 1
    BY <2>1, <1>2, <1>4, <1>9, <1>12 DEF left
  <2>2. CASE size >= 2
    <3>1. size \div 2 >= 1
      BY <2>2, <1>2, <1>9
    <3>2. size - Cardinality(keys) <= n
      BY <3>1, <1>2, <1>8, <1>12
    <3>. QED  BY <3>2, <1>2, <1>4, <1>5 DEF left
  <2>. QED  BY <2>1, <2>2, <1>2
<1>. QED  BY <1>6, <1>10, <1>11, <1>12 DEF SmallerOf, left

LEMMA GetSessionLockBoundsTable ==
  ASSUME LocksInv, TableIsBounded, NEW t \in Tasks, NEW s \in Sessions, GetSessionLock(t, s)
  PROVE  TableIsBounded'
<1>1. PICK l \in EntryFor(s) :
        \E keys \in PrunedKeys([locks EXCEPT ![s] = l], arc') :
          locks' = Without([locks EXCEPT ![s] = l], keys)
  BY DEF GetSessionLock
<1>. DEFINE table == [locks EXCEPT ![s] = l]
<1>2. PICK keys \in PrunedKeys(table, arc') : locks' = Without(table, keys)
  BY <1>1
<1>3. \A r \in Sessions : r # s => locks[r] # l
  <2>1. CASE locks[s] # NoLock
    BY <2>1, <1>1 DEF EntryFor, LocksInv, LocksAreDistinct
  <2>2. CASE locks[s] = NoLock
    BY <2>2, <1>1, UncountedLocksAreFree DEF EntryFor
  <2>. QED  BY <2>1, <2>2
<1>4. table[s] = l /\ \A r \in Sessions : r # s => table[r] = locks[r]
  BY DEF LocksInv, LocksTypeOK
<1>. HIDE DEF table
<1>5. \A q, r \in Sessions : table[q] = table[r] /\ table[q] # NoLock => q = r
  BY <1>3, <1>4 DEF LocksInv, LocksAreDistinct
<1>6. Entries(table) \subseteq Entries(locks) \cup {s}
  BY <1>4 DEF Entries
<1>7. IsFiniteSet(Entries(locks)) /\ Cardinality(Entries(locks)) \in Nat
  BY SizesAreNatural
<1>8. Cardinality(Entries(table)) <= Cardinality(Entries(locks)) + 1
  <2>1. /\ IsFiniteSet(Entries(locks) \cup {s})
        /\ Cardinality(Entries(locks) \cup {s}) <= Cardinality(Entries(locks)) + 1
    <3>. DEFINE present == Entries(locks)
    <3>1. IsFiniteSet(present) /\ Cardinality(present) \in Nat
      BY <1>7
    <3>. HIDE DEF present
    <3>2. /\ IsFiniteSet(present \cup {s})
          /\ Cardinality(present \cup {s}) =
               IF s \in present THEN Cardinality(present) ELSE Cardinality(present) + 1
      BY <3>1, FS_AddElement
    <3>3. Cardinality(present \cup {s}) <= Cardinality(present) + 1
      BY <3>1, <3>2
    <3>. QED  BY <3>2, <3>3 DEF present
  <2>2. Cardinality(Entries(table)) <= Cardinality(Entries(locks) \cup {s})
    BY <1>6, <2>1, FS_Subset
  <2>3. Cardinality(Entries(table)) \in Nat /\ Cardinality(Entries(locks) \cup {s}) \in Nat
    BY <2>1, SizesAreNatural, FS_CardinalityType
  <2>. QED  BY <1>7, <2>1, <2>2, <2>3
<1>9. Entries(locks') = Entries(table) \ keys
  BY <1>2 DEF Entries, Without
<1>10. \/ Cardinality(Entries(table) \ keys) <= PruneLimit
       \/ Cardinality(Entries(table) \ keys) <= Cardinality(Tasks)
  <2>1. \/ Cardinality(Entries(locks)) <= PruneLimit
        \/ Cardinality(Entries(locks)) <= Cardinality(Tasks)
    BY DEF TableIsBounded
  <2>2. Tasks # {}
    OBVIOUS
  <2>. QED  BY <1>2, <1>5, <1>7, <1>8, <2>1, <2>2, PrunedTableIsBounded
<1>. QED  BY <1>9, <1>10 DEF TableIsBounded

\* A new table has no entries.
LEMMA EmptyTableIsBounded ==
  ASSUME NEW table, table = [s \in Sessions |-> NoLock]
  PROVE  Entries(table) = {} /\ Cardinality(Entries(table)) <= PruneLimit
<1>1. Entries(table) = {}
  BY DEF Entries
<1>. QED  BY <1>1, FS_EmptySet, PruneLimitAssumption

\* Every step leaves the table within its bound; only get_session_lock adds to it.
LEMMA TableBoundStep ==
  ASSUME LocksInv, TableIsBounded, [LocksNext]_lockVars
  PROVE  TableIsBounded'
<1>1. ASSUME NEW t \in Tasks, NEW s \in Sessions, GetSessionLock(t, s) PROVE TableIsBounded'
  BY <1>1, GetSessionLockBoundsTable
<1>2. CASE locks' = locks
  BY <1>2 DEF TableIsBounded, Entries
<1>3. CASE LocksReset
  <2>1. locks' = [s \in Sessions |-> NoLock]
    BY <1>3 DEF LocksReset
  <2>. QED  BY <2>1, EmptyTableIsBounded DEF TableIsBounded
<1>. QED
  BY <1>1, <1>2, <1>3 DEF LocksNext, AcquireGuard, DropFuture, lockVars

-----------------------------------------------------------------------------
(* Theorems                                                                *)

\* The lock table's variables keep their types, every cloned Arc is the one in
\* the table, no two sessions share a mutex and no guard outlives its future.
THEOREM LocksInvariant == LocksSpec => []LocksInv
<1>1. LocksInit => LocksInv
  BY LocksInvInit
<1>2. LocksInv /\ [LocksNext]_lockVars => LocksInv'
  BY LocksInvStep
<1>. QED  BY <1>1, <1>2, PTL DEF LocksSpec

\* At most one future at a time is inside the store for one session, whatever
\* get_session_lock prunes (store.rs 34-60).
THEOREM SessionsAreExclusive == LocksSpec => []MutualExclusion
  BY LocksInvariant, LocksInvExcludes, PTL

\* get_session_lock never removes an entry whose Arc is still in use.
THEOREM PruningKeepsHeldLocks == LocksSpec => []ClonesAreMapped
<1>1. LocksInv => ClonesAreMapped
  BY DEF LocksInv
<1>. QED  BY <1>1, LocksInvariant, PTL

\* The table of locks stays within its limit or the number of operations in
\* flight, for any number of sessions the server ever sees.
THEOREM TableStaysBounded == LocksSpec => []TableIsBounded
<1>1. LocksInit => TableIsBounded
  BY EmptyTableIsBounded DEF LocksInit, TableIsBounded
<1>2. LocksInv /\ TableIsBounded /\ [LocksNext]_lockVars => TableIsBounded'
  BY TableBoundStep
<1>. QED  BY <1>1, <1>2, LocksInvariant, PTL DEF LocksSpec
=============================================================================
