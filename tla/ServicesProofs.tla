--------------------------- MODULE ServicesProofs ----------------------------
(***************************************************************************)
(* Proofs about the parts around an agent's turn: the permission rules     *)
(* for any rules, sources and requests; the Bash tool for any calls and    *)
(* processes; a provider's client for any conversation, body and stream;   *)
(* and, with the proofs about the edges of the program, all of them        *)
(* together.                                                               *)
(***************************************************************************)
EXTENDS MCServices, EdgeProofs, FiniteSetTheorems, WellFoundedInduction

-----------------------------------------------------------------------------
(* The permission rules                                                    *)

First(checks) ==
  CHOOSE i \in DOMAIN checks : checks[i].when /\ \A j \in 1..(i - 1) : ~checks[j].when

LEMMA FirstIsUnique ==
  ASSUME NEW n \in Nat, NEW checks, DOMAIN checks = 1..n, NEW k \in 1..n,
         checks[k].when, \A j \in 1..(k - 1) : ~checks[j].when
  PROVE  First(checks) = k
<1>. DEFINE P(i) == checks[i].when /\ \A j \in 1..(i - 1) : ~checks[j].when
<1>1. P(k)
  OBVIOUS
<1>2. ASSUME NEW i \in DOMAIN checks, P(i) PROVE i = k
  <2>1. ~(i < k) /\ ~(k < i)
    BY <1>2
  <2>. QED
    BY <2>1
<1>. QED
  BY <1>1, <1>2 DEF First

\* What resolve_permission allows, whichever check it is that decides.
MayProceed(req) ==
  \/ mode = "bypassPermissions"
  \/ /\ ~IsDenied(req) /\ ~IsAlwaysAsk(req)
     /\ \/ req.tool \in ReadOnly
        \/ IsExplicitlyAllowed(req)
        \/ mode = "acceptEdits" /\ req.tool \in FileLike \ Destructive

LEMMA AllowedMayProceed ==
  ASSUME NEW req
  PROVE  Allowed(req) <=> MayProceed(req)
<1>. USE DEF MayProceed
<1>. DEFINE checks == Checks(req)
<1>1. DOMAIN checks = 1..10
  BY DEF Checks
<1>2. Resolve(req) = checks[First(checks)].verdict
  BY DEF Resolve, First
<1>3. /\ checks[1].when = (mode = "bypassPermissions") /\ checks[1].verdict = "allow"
      /\ checks[2].when = IsDenied(req) /\ checks[2].verdict = "deny"
      /\ checks[3].when = IsAlwaysAsk(req) /\ checks[3].verdict = "ask"
      /\ checks[4].when = (req.tool \in ReadOnly) /\ checks[4].verdict = "allow"
      /\ checks[5].when = IsExplicitlyAllowed(req) /\ checks[5].verdict = "allow"
  BY DEF Checks
<1>4. /\ checks[6].when = (mode = "plan") /\ checks[6].verdict = "deny"
      /\ checks[7].when = (mode = "acceptEdits" /\ req.tool \in FileLike \ Destructive)
      /\ checks[7].verdict = "allow"
      /\ checks[8].when = (mode = "auto") /\ checks[8].verdict = "deny"
      /\ checks[9].verdict = "passthrough"
      /\ checks[10].when = TRUE /\ checks[10].verdict = "ask"
  BY DEF Checks
<1>. HIDE DEF checks
<1>5. ASSUME NEW k \in 1..10, checks[k].when, \A j \in 1..(k - 1) : ~checks[j].when
      PROVE  Resolve(req) = checks[k].verdict
  <2>1. 10 \in Nat
    OBVIOUS
  <2>2. First(checks) = k
    BY <1>1, <1>5, <2>1, FirstIsUnique
  <2>. QED
    BY <1>2, <2>2
<1>6. CASE checks[1].when
  <2>1. Resolve(req) = "allow"
    BY <1>3, <1>5, <1>6
  <2>. QED
    BY <1>3, <1>6, <2>1 DEF Allowed
<1>7. CASE ~checks[1].when /\ (checks[2].when \/ checks[3].when)
  <2>1. Resolve(req) \in {"deny", "ask"}
    BY <1>3, <1>5, <1>7
  <2>. QED
    BY <1>3, <1>7, <2>1 DEF Allowed
<1>8. CASE ~checks[1].when /\ ~checks[2].when /\ ~checks[3].when /\ (checks[4].when \/ checks[5].when)
  <2>1. Resolve(req) = "allow"
    BY <1>3, <1>5, <1>8
  <2>. QED
    BY <1>3, <1>8, <2>1 DEF Allowed
<1>9. CASE \A k \in 1..5 : ~checks[k].when
  <2>4. /\ ~checks[1].when /\ ~checks[2].when /\ ~checks[3].when
        /\ ~checks[4].when /\ ~checks[5].when
    BY <1>9
  <2>1. CASE checks[6].when
    <3>1. Resolve(req) = "deny"
      BY <1>4, <1>5, <1>9, <2>1
    <3>. QED
      BY <1>3, <1>4, <2>1, <2>4, <3>1 DEF Allowed
  <2>2. CASE ~checks[6].when /\ checks[7].when
    <3>1. Resolve(req) = "allow"
      BY <1>4, <1>5, <1>9, <2>2
    <3>. QED
      BY <1>3, <1>4, <2>2, <2>4, <3>1 DEF Allowed
  <2>3. CASE ~checks[6].when /\ ~checks[7].when
    <3>1. \A k \in 1..7 : ~checks[k].when
      BY <1>9, <2>3
    <3>2. Resolve(req) \in {"deny", "passthrough", "ask"}
      BY <1>4, <1>5, <3>1
    <3>. QED
      BY <1>3, <1>4, <2>3, <2>4, <3>2 DEF Allowed
  <2>. QED
    BY <2>1, <2>2, <2>3
<1>10. \/ checks[1].when \/ checks[2].when \/ checks[3].when \/ checks[4].when \/ checks[5].when
       \/ \A k \in 1..5 : ~checks[k].when
  OBVIOUS
<1>. QED
  BY <1>6, <1>7, <1>8, <1>9, <1>10

LEMMA ListsOnlyGrow ==
  ASSUME PermissionsNext, mode' = mode
  PROVE  allowing \subseteq allowing' /\ denying \subseteq denying' /\ asking \subseteq asking'
  BY DEF PermissionsNext, AddAllowRule, AddDenyRule, AddAlwaysAskRule, SetMode

LEMMA MoreRulesMatchMore ==
  ASSUME NEW list, NEW longer, list \subseteq longer, NEW req
  PROVE  Matching(list, req) \subseteq Matching(longer, req)
  BY DEF Matching

\* Whatever rules there are, of whatever sources, and whatever is asked for: deny
\* and ask rules only refuse, allow rules only allow and overrule no other.
THEOREM RulesPullTheirWay == PermissionsSpec => RulesAreMonotone
<1>. DEFINE Monotone(req) ==
       /\ allowing' = allowing /\ Allowed(req)' => Allowed(req)
       /\ denying' = denying /\ asking' = asking =>
            /\ Allowed(req) => Allowed(req)'
            /\ ~Allowed(req) /\ Matching(denying \cup asking, req) # {}
                 => ~Allowed(req)'
<1>1. \A req \in RequestSet : Allowed(req) <=> MayProceed(req)
  BY AllowedMayProceed
<1>2. (\A req \in RequestSet : Allowed(req) <=> MayProceed(req))'
  BY <1>1, PTL
<1>3. ASSUME PermissionsNext, mode' = mode, NEW req \in RequestSet
      PROVE  Monotone(req)
  <2>1. /\ IsDenied(req) => IsDenied(req)'
        /\ IsAlwaysAsk(req) => IsAlwaysAsk(req)'
        /\ IsExplicitlyAllowed(req) => IsExplicitlyAllowed(req)'
    BY <1>3, ListsOnlyGrow, MoreRulesMatchMore DEF IsDenied, IsAlwaysAsk, IsExplicitlyAllowed
  <2>2. allowing' = allowing => IsExplicitlyAllowed(req)' = IsExplicitlyAllowed(req)
    BY DEF IsExplicitlyAllowed
  <2>3. denying' = denying /\ asking' = asking =>
          IsDenied(req)' = IsDenied(req) /\ IsAlwaysAsk(req)' = IsAlwaysAsk(req)
    BY DEF IsDenied, IsAlwaysAsk
  <2>4. Matching(denying \cup asking, req) # {} => IsDenied(req) \/ IsAlwaysAsk(req)
    BY DEF IsDenied, IsAlwaysAsk, Matching
  <2>5. /\ Allowed(req) <=> MayProceed(req)
        /\ Allowed(req)' <=> MayProceed(req)'
    BY <1>1, <1>2
  <2>6. allowing' = allowing /\ MayProceed(req)' => MayProceed(req)
    BY <1>3, <2>1, <2>2 DEF MayProceed
  <2>7. denying' = denying /\ asking' = asking /\ MayProceed(req) => MayProceed(req)'
    BY <1>3, <2>1, <2>3 DEF MayProceed
  <2>8. denying' = denying /\ asking' = asking /\ ~MayProceed(req)
          /\ (IsDenied(req) \/ IsAlwaysAsk(req)) => ~MayProceed(req)'
    BY <1>3, <2>3 DEF MayProceed
  <2>. QED
    BY <2>4, <2>5, <2>6, <2>7, <2>8
<1>4. [PermissionsNext]_permissionVars => [ChangePullsItsWay]_permissionVars
  BY <1>3 DEF ChangePullsItsWay
<1>. QED
  BY <1>4, PTL DEF PermissionsSpec, RulesAreMonotone

\* A context keeps only rules of the kinds there are, each with its source.
THEOREM RulesStayTyped == PermissionsSpec => []PermissionsTypeOK
<1>1. PermissionsInit => PermissionsTypeOK
  BY DEF PermissionsInit, PermissionsTypeOK
<1>2. PermissionsTypeOK /\ [PermissionsNext]_permissionVars => PermissionsTypeOK'
  BY PermissionsAssumption
  DEF PermissionsNext, AddAllowRule, AddDenyRule, AddAlwaysAskRule, SetMode, PermissionsTypeOK,
      permissionVars
<1>. QED
  BY <1>1, <1>2, PTL DEF PermissionsSpec

-----------------------------------------------------------------------------
(* The processes of the Bash tool                                          *)

\* Every process the tool answers for is in one of the places it looks at, and
\* while kill_background_tasks has the list nobody else puts anything there.
BashInv ==
  /\ BashTypeOK
  /\ IsFiniteSet(tracked) /\ Cardinality(tracked) <= BackgroundLimit
  /\ IsFiniteSet(killing) /\ Cardinality(killing) <= BackgroundLimit
  /\ KillsInProgress => tracked = {}
  /\ \A s \in Shells : call[s] # "waiting" => child[s] = {}
  /\ background \cap Unborn = {}
  /\ (Running \cap background) \ signalled \subseteq tracked \cup killing
  /\ OnlyTimeoutsEscape

LEMMA BashInvInit == BashInit => BashInv
<1>. SUFFICES ASSUME BashInit PROVE BashInv
  OBVIOUS
<1>1. IsFiniteSet({}) /\ Cardinality({}) = 0
  BY FS_EmptySet
<1>2. BackgroundLimit \in Nat
  BY BashAssumption
<1>3. used \in [{"failures", "kills"} -> Nat]
  BY DEF BashInit
<1>4. child \in [Shells -> SUBSET Children] /\ \A s \in Shells : Cardinality(child[s]) <= 1
  BY <1>1 DEF BashInit
<1>5. /\ process \in [Children -> {"unborn", "running", "exited"}]
       /\ call \in [Shells -> {"idle", "reaping", "registering", "waiting"}]
       /\ dropped \in BOOLEAN
  BY DEF BashInit
<1>6. /\ tracked \subseteq Children /\ stale \subseteq tracked
       /\ signalled \subseteq Children /\ escaped \subseteq Children /\ background \subseteq Children
       /\ killing \subseteq Children /\ awaited \subseteq Children
  BY DEF BashInit
<1>7. Cardinality(awaited) <= 1
  BY <1>1 DEF BashInit
<1>8. BashTypeOK
  BY <1>3, <1>4, <1>5, <1>6, <1>7 DEF BashTypeOK
<1>9. Running = {}
  BY DEF BashInit, Running
<1>10. OnlyTimeoutsEscape
  BY <1>9 DEF OnlyTimeoutsEscape
<1>11. IsFiniteSet(tracked) /\ IsFiniteSet(killing) /\ Cardinality(tracked) = 0 /\ Cardinality(killing) = 0
  BY <1>1 DEF BashInit
<1>12. Cardinality(tracked) <= BackgroundLimit /\ Cardinality(killing) <= BackgroundLimit
  BY <1>2, <1>11
<1>. QED
  BY <1>8, <1>9, <1>10, <1>11, <1>12 DEF BashInit, BashInv, KillsInProgress

LEMMA CallStepKeepsInv ==
  ASSUME BashInv, NEW s \in Shells, StartBackground(s) \/ Reap(s) \/ ForegroundEnds(s) \/ ForegroundLeft(s)
  PROVE  BashInv'
<1>1. IsFiniteSet({}) /\ Cardinality({}) = 0
  BY FS_EmptySet
<1>. USE DEF BashInv, BashTypeOK, KillsInProgress, Running, Unborn, OnlyTimeoutsEscape, killVars, Answer
<1>2. CASE StartBackground(s)
  BY <1>2 DEF StartBackground
<1>3. CASE Reap(s)
  <2>1. tracked' \subseteq tracked
    BY <1>3 DEF Reap
  <2>2. IsFiniteSet(tracked') /\ Cardinality(tracked') <= Cardinality(tracked)
    BY <2>1, FS_Subset
  <2>3. Cardinality(tracked') \in Nat /\ Cardinality(tracked) \in Nat /\ BackgroundLimit \in Nat
    BY <2>2, FS_CardinalityType, BashAssumption
  <2>4. Cardinality(tracked') <= BackgroundLimit
    BY <2>2, <2>3
  <2>5. BashTypeOK'
    BY <1>3 DEF Reap, Reaped, LockFree
  <2>6. OnlyTimeoutsEscape' /\ ((Running \cap background) \ signalled \subseteq tracked \cup killing)'
    BY <1>3 DEF Reap, Reaped, LockFree
  <2>. QED
    BY <1>3, <2>1, <2>2, <2>4, <2>5, <2>6 DEF Reap, Reaped, LockFree
<1>4. CASE ForegroundEnds(s)
  <2>1. \A r \in Shells : Cardinality(child'[r]) <= 1
    BY <1>1, <1>4 DEF ForegroundEnds
  <2>2. BashTypeOK'
    BY <1>4, <2>1 DEF ForegroundEnds
  <2>3. OnlyTimeoutsEscape'
    BY <1>4 DEF ForegroundEnds
  <2>. QED
    BY <1>4, <2>2, <2>3 DEF ForegroundEnds
<1>5. CASE ForegroundLeft(s)
  <2>1. \A r \in Shells : Cardinality(child'[r]) <= 1
    BY <1>1, <1>5 DEF ForegroundLeft
  <2>2. BashTypeOK'
    BY <1>5, <2>1 DEF ForegroundLeft
  <2>3. \A r \in Shells : child[r] \cap Running \subseteq child'[r] \cup escaped'
    BY <1>5 DEF ForegroundLeft
  <2>4. Running' = Running /\ escaped \subseteq escaped'
        /\ UNCHANGED <<signalled, tracked, killing>>
    BY <1>5 DEF ForegroundLeft
  <2>5. OnlyTimeoutsEscape'
    BY <2>3, <2>4
  <2>. QED
    BY <1>5, <2>2, <2>5 DEF ForegroundLeft
<1>. QED
  BY <1>2, <1>3, <1>4, <1>5

LEMMA SpawnKeepsInv ==
  ASSUME BashInv, NEW s \in Shells, Register(s) \/ StartForeground(s)
  PROVE  BashInv'
<1>. USE DEF BashInv, BashTypeOK, KillsInProgress, Running, Unborn, OnlyTimeoutsEscape, killVars, Answer
<1>1. ASSUME NEW x \in Unborn, Register(s), MayRegister,
             process' = [process EXCEPT ![x] = "running"],
             tracked' = tracked \cup {x}, background' = background \cup {x}, used' = used
      PROVE  BashInv'
  <2>1. IsFiniteSet(tracked') /\ Cardinality(tracked') <= Cardinality(tracked) + 1
    <3>1. IsFiniteSet(tracked)
      OBVIOUS
    <3>2. Cardinality(tracked) \in Nat
      BY <3>1, FS_CardinalityType
    <3>3. /\ IsFiniteSet(tracked \cup {x})
          /\ Cardinality(tracked \cup {x}) = IF x \in tracked THEN Cardinality(tracked) ELSE Cardinality(tracked) + 1
      BY ONLY <3>1, FS_AddElement
    <3>. QED
      BY <1>1, <3>2, <3>3
  <2>2. Cardinality(tracked') \in Nat /\ Cardinality(tracked) \in Nat /\ BackgroundLimit \in Nat
    BY <2>1, FS_CardinalityType, BashAssumption
  <2>3. Cardinality(tracked) < BackgroundLimit
    BY <1>1 DEF MayRegister
  <2>4. Cardinality(tracked') <= BackgroundLimit
    BY <2>1, <2>2, <2>3
  <2>5. /\ call' = [call EXCEPT ![s] = "idle"] /\ call[s] = "registering" /\ killing = {} /\ awaited = {}
        /\ UNCHANGED <<stale, signalled, killing, awaited, child, escaped, dropped>>
    BY <1>1 DEF Register, LockFree
  <2>6. BashTypeOK'
    BY <1>1, <2>5
  <2>7. OnlyTimeoutsEscape' /\ ((Running \cap background) \ signalled \subseteq tracked \cup killing)'
        /\ (background \cap Unborn = {})'
    BY <1>1, <2>5
  <2>. QED
    BY <2>1, <2>4, <2>5, <2>6, <2>7
<1>2. CASE Register(s) /\ UNCHANGED <<process, tracked, background>>
  <2>1. used' \in [{"failures", "kills"} -> Nat]
    BY <1>2 DEF Register
  <2>. QED
    BY <1>2, <2>1 DEF Register
<1>3. CASE StartForeground(s)
  <2>1. PICK x \in Unborn : process' = [process EXCEPT ![x] = "running"] /\ child' = [child EXCEPT ![s] = {x}]
    BY <1>3 DEF StartForeground
  <2>2. Cardinality({x}) = 1
    BY FS_Singleton
  <2>3. \A r \in Shells : Cardinality(child'[r]) <= 1
    BY <2>1, <2>2
  <2>4. /\ call' = [call EXCEPT ![s] = "waiting"] /\ call[s] = "idle" /\ child[s] = {}
        /\ UNCHANGED <<tracked, stale, signalled, killing, awaited, escaped, background, dropped, used>>
    BY <1>3 DEF StartForeground
  <2>5. /\ process' \in [Children -> {"unborn", "running", "exited"}]
         /\ call' \in [Shells -> {"idle", "reaping", "registering", "waiting"}]
    BY <2>1, <2>4
  <2>6. child' \in [Shells -> SUBSET Children]
    BY <2>1
  <2>7. BashTypeOK'
    BY <2>3, <2>4, <2>5, <2>6
  <2>8. \A r \in Shells : child[r] \cup (IF r = s THEN {x} ELSE {}) \subseteq child'[r]
    BY <2>1, <2>4
  <2>9. Running' = Running \cup {x}
    BY <2>1
  <2>10. Running' = Running \cup {x} /\ (UNION {child[r] : r \in Shells}) \cup {x} \subseteq UNION {child'[r] : r \in Shells}
    BY <2>8, <2>9
  <2>11. OnlyTimeoutsEscape'
    BY <2>4, <2>10
  <2>12. background \cap Unborn' = {} /\ Running' \cap background \subseteq Running
    BY <2>1, <2>10
  <2>13. \A r \in Shells : call'[r] # "waiting" => child'[r] = {}
    BY <2>1, <2>4
  <2>. QED
    BY <2>4, <2>7, <2>11, <2>12, <2>13
<1>. QED
  BY <1>1, <1>2, <1>3 DEF Register

LEMMA KillStepKeepsInv ==
  ASSUME BashInv, KillAll \/ KillOne \/ Killed \/ DropTool
  PROVE  BashInv'
<1>1. IsFiniteSet({}) /\ Cardinality({}) = 0 /\ 0 <= BackgroundLimit
  BY FS_EmptySet, BashAssumption
<1>. USE DEF BashInv, BashTypeOK, KillsInProgress, Running, Unborn, OnlyTimeoutsEscape, killVars
<1>2. CASE KillAll
  <2>1. used' \in [{"failures", "kills"} -> Nat]
    BY <1>2 DEF KillAll
  <2>2. IsFiniteSet(tracked') /\ Cardinality(tracked') <= BackgroundLimit
    BY <1>1, <1>2 DEF KillAll
  <2>. QED
    BY <1>2, <2>1, <2>2 DEF KillAll, LockFree
<1>3. CASE KillOne
  <2>1. PICK x \in killing : /\ signalled' = signalled \cup {x} /\ awaited' = {x}
                             /\ killing' = killing \ {x}
    BY <1>3 DEF KillOne
  <2>2. Cardinality(awaited') = 1
    BY <2>1, FS_Singleton
  <2>3. killing' \subseteq killing
    BY <2>1
  <2>4. IsFiniteSet(killing') /\ Cardinality(killing') <= Cardinality(killing)
    BY <2>3, FS_Subset
  <2>5. Cardinality(killing') \in Nat /\ Cardinality(killing) \in Nat /\ BackgroundLimit \in Nat
    BY <2>4, FS_CardinalityType, BashAssumption
  <2>6. Cardinality(killing') <= BackgroundLimit
    BY <2>4, <2>5
  <2>7. UNCHANGED <<process, tracked, stale, call, child, escaped, background, dropped, used>>
    BY <1>3 DEF KillOne
  <2>8. BashTypeOK'
    BY <2>1, <2>2, <2>7
  <2>. QED
    BY <2>1, <2>4, <2>6, <2>7, <2>8
<1>4. CASE Killed
  BY <1>1, <1>4 DEF Killed
<1>5. CASE DropTool
  <2>1. IsFiniteSet(tracked') /\ Cardinality(tracked') <= BackgroundLimit
    BY <1>1, <1>5 DEF DropTool
  <2>. QED
    BY <1>5, <2>1 DEF DropTool, LockFree
<1>. QED
  BY <1>2, <1>3, <1>4, <1>5

LEMMA ChildStepKeepsInv ==
  ASSUME BashInv, NEW x \in Children, ChildExits(x) \/ HourPasses(x)
  PROVE  BashInv'
  BY DEF BashInv, BashTypeOK, KillsInProgress, Running, Unborn, OnlyTimeoutsEscape, killVars,
         ChildExits, HourPasses

\* However calls, kills, the processes and the drop of the tool interleave, each
\* process is in one of the places the tool looks at, or escaped its timeout.
THEOREM BashInvariant == BashSpec => []BashInv
<1>1. BashInv /\ [BashNext]_bashVars => BashInv'
  <2>. SUFFICES ASSUME BashInv, [BashNext]_bashVars PROVE BashInv'
    OBVIOUS
  <2>1. CASE UNCHANGED bashVars
    BY <2>1 DEF bashVars, BashInv, BashTypeOK, KillsInProgress, Running, Unborn, OnlyTimeoutsEscape
  <2>. QED
    BY <2>1, CallStepKeepsInv, SpawnKeepsInv, KillStepKeepsInv, ChildStepKeepsInv DEF BashNext
<1>. QED
  BY <1>1, BashInvInit, PTL DEF BashSpec

\* The tool's list, its kills in progress and its calls keep the types they are
\* declared with.
THEOREM TasksStayTyped == BashSpec => []BashTypeOK
<1>1. BashInv => BashTypeOK
  BY DEF BashInv
<1>. QED
  BY <1>1, BashInvariant, PTL

\* No more processes run in the background than the limit, unless they were told to
\* stop, and only a timeout leaves a process in the foreground nobody waits for.
THEOREM TasksAreAccounted == BashSpec => []ProcessesAreAccounted
<1>1. BashInv => ProcessesAreAccounted
  <2>. SUFFICES ASSUME BashInv PROVE BackgroundIsBounded
    BY DEF BashInv, ProcessesAreAccounted
  <2>. DEFINE Unkilled == (Running \cap background) \ signalled
  <2>1. PICK S \in {tracked, killing} : Unkilled \subseteq S
    BY DEF BashInv, KillsInProgress
  <2>2. IsFiniteSet(S) /\ Cardinality(S) <= BackgroundLimit
    BY DEF BashInv
  <2>3. IsFiniteSet(Unkilled) /\ Cardinality(Unkilled) <= Cardinality(S)
    BY <2>1, <2>2, FS_Subset
  <2>4. Cardinality(S) \in Nat /\ Cardinality(Unkilled) \in Nat /\ BackgroundLimit \in Nat
    BY <2>2, <2>3, FS_CardinalityType, BashAssumption
  <2>. QED
    BY <2>2, <2>3, <2>4 DEF BackgroundIsBounded
<1>. QED
  BY <1>1, BashInvariant, PTL

-----------------------------------------------------------------------------
(* What a retry may repeat                                                 *)

\* While a call may still be tried again nothing of it has been said.
ProviderInv ==
  /\ attempt \in 0..MaxRetries
  /\ doing \in {"idle", "chat", "connecting", "streaming", "over"}
  /\ doing \in {"idle", "chat", "connecting"} =>
       result = NoResult /\ pending = <<>> /\ channel = <<>> /\ received = <<>>

LEMMA ProviderInvInit == ProviderInit => ProviderInv
  BY ProviderAssumption DEF ProviderInit, ProviderInv

LEMMA CallsKeepInv ==
  ASSUME ProviderInv, NEW operation \in Operations,
         \/ CallAnthropic(operation) \/ CallOpenAI(operation)
         \/ CallCompatible(operation) \/ CallCopilot(operation)
  PROVE  ProviderInv' /\ attempt' = attempt
  BY DEF ProviderInv, CallAnthropic, CallOpenAI, CallCompatible, CallCopilot, Start, Operations,
         streamVars

LEMMA ChatKeepsInv ==
  ASSUME ProviderInv, NEW outcomes, Chat(outcomes)
  PROVE  /\ ProviderInv'
         /\ attempt' # attempt => attempt' = attempt + 1 /\ UNCHANGED <<result, received, channel>>
                                  /\ doing = "chat"
  BY ProviderAssumption DEF ProviderInv, Chat, FailAttempt, Return, streamVars

LEMMA ConnectKeepsInv ==
  ASSUME ProviderInv, NEW bodies, Connect(bodies)
  PROVE  /\ ProviderInv'
         /\ attempt' # attempt => attempt' = attempt + 1 /\ UNCHANGED <<result, received, channel>>
                                  /\ doing = "connecting"
  BY ProviderAssumption DEF ProviderInv, Connect, RetryConnect, EndWith

LEMMA ReadingKeepsInv ==
  ASSUME ProviderInv,
         \/ Verify \/ ReadChunk \/ ChunkFails \/ Send \/ Receive \/ Leave \/ TakeLine
         \/ \E last : EndOfBody(last)
  PROVE  ProviderInv' /\ attempt' = attempt
  BY DEF ProviderInv, Verify, ReadChunk, ChunkFails, Send, Receive, Leave, TakeLine, EndOfBody,
         Reading, EndWith, callVars, streamVars

LEMMA ProviderStepKeepsInv ==
  ASSUME ProviderInv, ProviderNext
  PROVE  /\ ProviderInv'
         /\ attempt' # attempt =>
              /\ attempt' = attempt + 1 /\ UNCHANGED <<result, received, channel>>
              /\ doing \in {"chat", "connecting"}
<1>1. CASE \E operation \in Operations :
             \/ CallAnthropic(operation) \/ CallOpenAI(operation)
             \/ CallCompatible(operation) \/ CallCopilot(operation)
  BY <1>1, CallsKeepInv
<1>2. CASE AnthropicChat \/ OpenAIChat \/ CompatibleChat \/ CopilotChat
  <2>1. PICK outcomes : Chat(outcomes)
    BY <1>2 DEF AnthropicChat, OpenAIChat, CompatibleChat, CopilotChat
  <2>. QED
    BY <2>1, ChatKeepsInv
<1>3. CASE AnthropicStream \/ OpenAIStream \/ CompatibleStream \/ CopilotStream
  <2>1. (\E bodies : Connect(bodies)) \/ TakeLine \/ (\E last : EndOfBody(last))
    BY <1>3 DEF AnthropicStream, OpenAIStream, CompatibleStream, CopilotStream, CompletionStream,
                AnthropicTakeLine, CompletionTakeLine
  <2>. QED
    BY <2>1, ConnectKeepsInv, ReadingKeepsInv
<1>4. CASE \/ AnthropicVerify \/ OpenAIVerify \/ CompatibleVerify \/ CopilotVerify
           \/ ReadChunk \/ ChunkFails \/ Send \/ Receive \/ Leave
  BY <1>4, ReadingKeepsInv DEF AnthropicVerify, OpenAIVerify, CompatibleVerify, CopilotVerify
<1>. QED
  BY <1>1, <1>2, <1>3, <1>4 DEF ProviderNext

\* Whichever client is called and whatever fails, a call that may still be tried
\* again has said nothing.
THEOREM ProviderInvariant == ProviderSpec => []ProviderInv
<1>1. ProviderInv /\ [ProviderNext]_providerVars => ProviderInv'
  BY ProviderStepKeepsInv DEF ProviderInv, providerVars
<1>. QED
  BY <1>1, ProviderInvInit, PTL DEF ProviderSpec

\* with_retry and the retry of chat_stream send a request again only while the
\* caller has seen nothing of it, and at most max_retries times.
THEOREM NothingIsSaidTwice == ProviderSpec => RetriesAreUnseen
<1>. DEFINE Unseen == attempt' # attempt =>
                        /\ attempt' = attempt + 1 /\ attempt' <= MaxRetries
                        /\ result' = NoResult /\ received' = <<>> /\ channel' = <<>>
<1>1. ProviderInv /\ [ProviderNext]_providerVars => [Unseen]_providerVars
  <2>. SUFFICES ASSUME ProviderInv, ProviderNext, attempt' # attempt
                PROVE  /\ attempt' = attempt + 1 /\ attempt' <= MaxRetries
                       /\ result' = NoResult /\ received' = <<>> /\ channel' = <<>>
    OBVIOUS
  <2>1. ProviderInv' /\ attempt' = attempt + 1
    BY ProviderStepKeepsInv
  <2>2. UNCHANGED <<result, received, channel>> /\ doing \in {"chat", "connecting"}
    BY ProviderStepKeepsInv
  <2>. QED
    BY <2>1, <2>2, ProviderAssumption DEF ProviderInv
<1>. QED
  BY <1>1, ProviderInvariant, PTL DEF ProviderSpec, RetriesAreUnseen

-----------------------------------------------------------------------------
(* What a stream is decoded into                                           *)

\* What String::from_utf8_lossy can give.
Decoded == Bytes \cup {"?"}

IsAtMostOne(events) == events = <<>> \/ \E event : events = <<event>>

\* The buffer is never longer than what was heard, because every character it
\* holds was decoded from a byte that arrived.
ProviderTypes ==
  /\ ProviderTypeOK
  /\ stream \in Seq(Bytes) /\ buffer \in Seq(Decoded)
  /\ IsAtMostOne(pending)
  /\ \E S : channel \in Seq(S)
  /\ doing \in {"idle", "chat", "connecting"} => heard = 0

LEMMA LossyKeepsTheLength ==
  ASSUME NEW chunk \in Seq(Bytes)
  PROVE  Lossy(chunk) \in Seq(Decoded) /\ Len(Lossy(chunk)) = Len(chunk)
<1>1. DOMAIN chunk = 1..Len(chunk) /\ Len(chunk) \in Nat
  BY LenProperties
<1>2. \A i \in 1..Len(chunk) : Lossy(chunk)[i] \in Decoded
  BY <1>1 DEF Lossy, Decoded
<1>3. Lossy(chunk) = [i \in 1..Len(chunk) |-> Lossy(chunk)[i]]
  BY <1>1 DEF Lossy
<1>. QED
  BY <1>1, <1>2, <1>3, IsASeq, LenProperties

\* The least counterexample, in place of an induction.
LEMMA SetsOfNaturalsHaveAMinimum ==
  ASSUME NEW N \in SUBSET Nat, N # {}
  PROVE  \E i \in N : \A j \in N : i <= j
<1>. DEFINE R == OpToRel(<, Nat)
<1>1. IsWellFoundedOn(R, Nat)
  BY NatLessThanWellFounded
<1>2. PICK i \in N : \A j \in N : ~(<<j, i>> \in R)
  <2>. HIDE DEF R
  <2>. QED
    BY <1>1, WFMin
<1>3. \A j \in N : ~(j < i)
  BY <1>2 DEF OpToRel
<1>. QED
  BY <1>3

LEMMA FirstNewlineIsInTheBuffer ==
  ASSUME NEW S, buffer \in Seq(S), HasLine
  PROVE  /\ FirstNewline \in 1..Len(buffer) /\ buffer[FirstNewline] = "n"
         /\ "n" \notin Range(Line)
<1>. DEFINE N == {i \in DOMAIN buffer : buffer[i] = "n"}
<1>1. DOMAIN buffer = 1..Len(buffer) /\ Len(buffer) \in Nat
  BY LenProperties
<1>2. N \in SUBSET Nat /\ N # {}
  BY <1>1 DEF HasLine, Range
<1>3. PICK i \in N : \A j \in N : i <= j
  BY <1>2, SetsOfNaturalsHaveAMinimum
<1>4. "n" \notin Range(SubSeq(buffer, 1, i - 1))
  <2>1. \A j \in 1..(i - 1) : buffer[j] \in S
    BY <1>1
  <2>2. /\ SubSeq(buffer, 1, i - 1) \in Seq(S)
        /\ Len(SubSeq(buffer, 1, i - 1)) = i - 1
        /\ \A j \in 1..(i - 1) : SubSeq(buffer, 1, i - 1)[j] = buffer[j]
    BY <1>1, <2>1, SubSeqProperties
  <2>3. DOMAIN SubSeq(buffer, 1, i - 1) = 1..(i - 1)
    BY <2>2, LenProperties
  <2>4. \A j \in 1..(i - 1) : buffer[j] # "n"
    BY <1>1, <1>3
  <2>. QED
    BY <2>2, <2>3, <2>4 DEF Range
<1>5. i \in DOMAIN buffer /\ buffer[i] = "n"
  BY <1>3
<1>. HIDE DEF N
<1>. QED
  BY <1>1, <1>4, <1>5 DEF FirstNewline, Line

LEMMA EventIsAtMostOne ==
  /\ \A lines : IsAtMostOne(AnthropicEvent(lines))
  /\ \A line : IsAtMostOne(CompletionLine(line))
<1>1. \A payload : IsAtMostOne(Event(payload))
  <2>. SUFFICES ASSUME NEW payload PROVE IsAtMostOne(Event(payload))
    OBVIOUS
  <2>1. CASE "b" \in Range(payload)
    BY <2>1 DEF Event, IsAtMostOne
  <2>2. CASE "b" \notin Range(payload)
    BY <2>2 DEF Event, IsAtMostOne
  <2>. QED
    BY <2>1, <2>2
<1>2. \A lines : IsAtMostOne(AnthropicEvent(lines))
  <2>. SUFFICES ASSUME NEW lines PROVE IsAtMostOne(AnthropicEvent(lines))
    OBVIOUS
  <2>1. AnthropicEvent(lines) = <<>> \/ \E payload : AnthropicEvent(lines) = Event(payload)
    BY DEF AnthropicEvent
  <2>. QED
    BY <1>1, <2>1 DEF IsAtMostOne
<1>3. \A line : IsAtMostOne(CompletionLine(line))
  BY <1>1 DEF CompletionLine, IsAtMostOne
<1>. QED
  BY <1>2, <1>3

LEMMA AtMostOneIsShort ==
  ASSUME NEW events, IsAtMostOne(events)
  PROVE  Len(events) <= 1
<1>1. CASE events = <<>>
  BY <1>1
<1>2. CASE \E event : events = <<event>>
  <2>1. PICK event : events = <<event>>
    BY <1>2
  <2>2. Len(<<event>>) = 1
    OBVIOUS
  <2>. QED
    BY <2>1, <2>2
<1>. QED
  BY <1>1, <1>2 DEF IsAtMostOne

LEMMA TypesInit == ProviderInit => ProviderTypes
<1>. SUFFICES ASSUME ProviderInit PROVE ProviderTypes
  OBVIOUS
<1>1. stream \in Seq(Bytes) /\ buffer \in Seq(Decoded) /\ channel \in Seq({}) /\ Len(channel) = 0
      /\ Len(buffer) = 0 /\ Len(stream) = 0 /\ Len(pending) = 0
  BY EmptySeq DEF ProviderInit
<1>4. IsAtMostOne(pending)
  BY DEF ProviderInit, IsAtMostOne
<1>2. DOMAIN request = {"system", "messages"}
  BY DEF ProviderInit
<1>3. DOMAIN result = {"error", "blocks", "stop"}
  BY DEF ProviderInit, NoResult
<1>. QED
  BY <1>1, <1>2, <1>3, <1>4, ProviderAssumption DEF ProviderInit, ProviderTypes, ProviderTypeOK

LEMMA StartKeepsTypes ==
  ASSUME ProviderTypes, NEW operation \in Operations, NEW sent, NEW header,
         DOMAIN sent = {"system", "messages"}, header \in [Credentials -> BOOLEAN],
         Start(operation, sent, header)
  PROVE  ProviderTypes'
<1>1. authorised' \in BOOLEAN
  BY DEF Start, Credentials
<1>. QED
  BY <1>1 DEF ProviderTypes, ProviderTypeOK, Start, Operations, streamVars

LEMMA CallsKeepTypes ==
  ASSUME ProviderTypes, NEW operation \in Operations,
         \/ CallAnthropic(operation) \/ CallOpenAI(operation)
         \/ CallCompatible(operation) \/ CallCopilot(operation)
  PROVE  ProviderTypes'
<1>1. DOMAIN AnthropicRequest(conversation) = {"system", "messages"}
  BY DEF AnthropicRequest
<1>2. DOMAIN CompletionRequest(conversation) = {"system", "messages"}
  BY DEF CompletionRequest
<1>3. /\ [c \in Credentials |-> AnthropicHeader(c)] \in [Credentials -> BOOLEAN]
      /\ [c \in Credentials |-> OpenAIHeader(c)] \in [Credentials -> BOOLEAN]
      /\ [c \in Credentials |-> CompatibleHeader(c)] \in [Credentials -> BOOLEAN]
      /\ [c \in Credentials |-> CopilotHeader(c)] \in [Credentials -> BOOLEAN]
  BY DEF AnthropicHeader, OpenAIHeader, CompatibleHeader, CopilotHeader
<1>4. CASE CallAnthropic(operation)
  BY <1>1, <1>3, <1>4, StartKeepsTypes DEF CallAnthropic
<1>5. CASE CallOpenAI(operation)
  BY <1>2, <1>3, <1>5, StartKeepsTypes DEF CallOpenAI, OpenAIRequest
<1>6. CASE CallCompatible(operation)
  BY <1>2, <1>3, <1>6, StartKeepsTypes DEF CallCompatible, CompatibleRequest
<1>7. CASE CallCopilot(operation)
  BY <1>2, <1>3, <1>7, StartKeepsTypes DEF CallCopilot, CopilotRequest
<1>. QED
  BY <1>4, <1>5, <1>6, <1>7

LEMMA OutcomesAreRecords ==
  /\ \A error : DOMAIN Failed(error) = {"error", "blocks", "stop"}
  /\ \A body : DOMAIN AnthropicResponse(body) = {"error", "blocks", "stop"}
  /\ \A body : DOMAIN CompletionResponse(body) = {"error", "blocks", "stop"}
  BY DEF Failed, AnthropicResponse, CompletionResponse, Reply

LEMMA ChatKeepsTypes ==
  ASSUME ProviderTypes, NEW outcomes, Chat(outcomes),
         \A answer \in outcomes : DOMAIN answer = {"error", "blocks", "stop"}
  PROVE  ProviderTypes'
<1>1. /\ UNCHANGED callVars /\ UNCHANGED streamVars
      /\ attempt' \in 0..MaxRetries /\ doing = "chat" /\ doing' \in {"chat", "over"}
      /\ DOMAIN result' = {"error", "blocks", "stop"}
  BY ProviderAssumption, OutcomesAreRecords
  DEF Chat, FailAttempt, Return, ProviderTypes, ProviderTypeOK
<1>. QED
  BY <1>1 DEF ProviderTypes, ProviderTypeOK, callVars, streamVars

LEMMA ConnectKeepsTypes ==
  ASSUME ProviderTypes, NEW bodies, bodies \subseteq AnthropicStreams \cup CompletionStreams,
         Connect(bodies)
  PROVE  ProviderTypes'
<1>1. /\ DOMAIN request' = {"system", "messages"} /\ DOMAIN result' = {"error", "blocks", "stop"}
      /\ UNCHANGED <<provider, conversation, authorised, heard, buffer, channel, attended>>
      /\ attempt' \in 0..MaxRetries /\ doing' \in {"connecting", "streaming", "over"}
      /\ pending' = pending \/ IsAtMostOne(pending')
      /\ doing = "connecting"
  BY ProviderAssumption DEF Connect, EndWith, IsAtMostOne, RetryConnect, ProviderTypes, ProviderTypeOK, callVars
<1>2. stream' = stream \/ stream' \in bodies
  BY DEF Connect
<1>3. stream' \in AnthropicStreams \cup CompletionStreams \cup {<<>>} /\ stream' \in Seq(Bytes)
  BY <1>2, ProviderAssumption DEF ProviderTypes, ProviderTypeOK
<1>5. heard' = 0 /\ Len(stream') \in Nat
  BY <1>1, <1>3, LenProperties DEF ProviderTypes
<1>6. IsAtMostOne(pending')
  BY <1>1 DEF ProviderTypes
<1>4. Len(pending') <= 1
  BY <1>6, AtMostOneIsShort
<1>. QED
  BY <1>1, <1>3, <1>4, <1>5, <1>6 DEF ProviderTypes, ProviderTypeOK

LEMMA ReadChunkKeepsTypes ==
  ASSUME ProviderTypes, ReadChunk
  PROVE  ProviderTypes'
<1>1. PICK size \in 1..Len(stream) : Chunk(size)
  BY DEF ReadChunk
<1>2. Len(stream) \in Nat /\ heard \in Nat /\ heard + size <= Len(stream) /\ Len(buffer) \in Nat
  BY <1>1, LenProperties DEF Chunk, ProviderTypes, ProviderTypeOK
<1>. DEFINE chunk == SubSeq(stream, heard + 1, heard + size)
<1>3. chunk \in Seq(Bytes) /\ Len(chunk) = size
  <2>1. \A i \in (heard + 1)..(heard + size) : stream[i] \in Bytes
    BY <1>1, <1>2, ElementOfSeq DEF ProviderTypes
  <2>2. heard + 1 \in Int /\ heard + size \in Int /\ heard + 1 <= heard + size
        /\ (heard + size) - (heard + 1) + 1 = size
    BY <1>2
  <2>. QED
    BY <2>1, <2>2, SubSeqProperties
<1>4. Lossy(chunk) \in Seq(Decoded) /\ Len(Lossy(chunk)) = size
  BY <1>3, LossyKeepsTheLength
<1>5. heard' = heard + size /\ buffer' = buffer \o Lossy(chunk)
  BY <1>1 DEF Chunk
<1>. HIDE DEF chunk
<1>6. buffer' \in Seq(Decoded) /\ Len(buffer') = Len(buffer) + size
  BY <1>4, <1>5, ConcatProperties DEF ProviderTypes
<1>7. heard' \in 0..Len(stream) /\ Len(buffer') <= heard'
  BY <1>2, <1>5, <1>6 DEF ProviderTypes, ProviderTypeOK
<1>8. /\ UNCHANGED callVars /\ doing = "streaming"
      /\ UNCHANGED <<doing, attempt, result, stream, eventLines, pending, channel, attended>>
  BY DEF ReadChunk, Reading
<1>. QED
  BY <1>6, <1>7, <1>8 DEF ProviderTypes, ProviderTypeOK, callVars

LEMMA TakeLineKeepsTypes ==
  ASSUME ProviderTypes, TakeLine, IsAtMostOne(pending')
  PROVE  ProviderTypes'
<1>1. Len(buffer) \in Nat /\ Len(buffer) <= heard /\ heard \in 0..Len(stream) /\ Len(stream) \in Nat
  BY LenProperties DEF ProviderTypes, ProviderTypeOK
<1>2. FirstNewline \in 1..Len(buffer)
  BY FirstNewlineIsInTheBuffer DEF ProviderTypes, TakeLine
<1>3. buffer' = SubSeq(buffer, FirstNewline + 1, Len(buffer))
  BY DEF TakeLine
<1>4. \A i \in (FirstNewline + 1)..Len(buffer) : buffer[i] \in Decoded
  BY <1>1, <1>2, ElementOfSeq DEF ProviderTypes
<1>5. buffer' \in Seq(Decoded) /\ Len(buffer') <= Len(buffer)
  BY <1>1, <1>2, <1>3, <1>4, SubSeqProperties
<1>6. Len(buffer') \in Nat
  BY <1>5, LenProperties
<1>7. Len(buffer') <= heard
  BY <1>1, <1>5, <1>6
<1>8. Len(pending') <= 1
  BY AtMostOneIsShort
<1>9. /\ UNCHANGED callVars /\ doing = "streaming"
      /\ UNCHANGED <<doing, attempt, result, stream, heard, channel, attended>>
  BY DEF TakeLine, Reading
<1>. QED
  BY <1>5, <1>7, <1>8, <1>9 DEF ProviderTypes, ProviderTypeOK, callVars

LEMMA SendKeepsTypes ==
  ASSUME ProviderTypes, Send
  PROVE  ProviderTypes'
<1>1. PICK S : channel \in Seq(S)
  BY DEF ProviderTypes
<1>2. PICK event : pending = <<event>>
  BY DEF ProviderTypes, Send, IsAtMostOne
<1>3. Len(channel) \in Nat /\ Capacity \in Nat
  BY <1>1, LenProperties, ProviderAssumption
<1>9. IsAtMostOne(pending') /\ Len(pending') <= 1
  BY AtMostOneIsShort DEF Send, IsAtMostOne
<1>4. /\ channel' = channel \/ (HasRoom /\ channel' = channel \o <<event>>)
      /\ doing' = doing \/ doing' = "over"
      /\ pending' = <<>> /\ UNCHANGED callVars
      /\ UNCHANGED <<attempt, result, stream, heard, buffer, attended>>
  BY <1>2 DEF Send, IsAtMostOne
<1>5. channel \in Seq(S \cup {event}) /\ <<event>> \in Seq(S \cup {event}) /\ Len(<<event>>) = 1
  <2>1. S \subseteq S \cup {event}
    OBVIOUS
  <2>2. channel \in Seq(S \cup {event})
    BY <1>1, <2>1, SeqMonotonic
  <2>. QED
    BY <2>2
<1>6. channel \o <<event>> \in Seq(S \cup {event}) /\ Len(channel \o <<event>>) = Len(channel) + 1
  BY <1>5, ConcatProperties
<1>7. (\E T : channel' \in Seq(T)) /\ Len(channel') <= Capacity
  <2>1. CASE channel' = channel
    BY <1>1, <2>1 DEF ProviderTypes, ProviderTypeOK
  <2>2. CASE HasRoom /\ channel' = channel \o <<event>>
    <3>1. Len(channel) < Capacity
      BY <2>2 DEF HasRoom
    <3>2. Len(channel) + 1 <= Capacity
      BY <1>3, <3>1
    <3>. QED
      BY <1>6, <2>2, <3>2
  <2>. QED
    BY <1>4, <2>1, <2>2
<1>8. doing' \in {"idle", "chat", "connecting"} => heard' = 0
  BY <1>4 DEF ProviderTypes
<1>. QED
  BY <1>4, <1>7, <1>8, <1>9 DEF ProviderTypes, ProviderTypeOK, callVars

LEMMA ReceiveKeepsTypes ==
  ASSUME ProviderTypes, Receive
  PROVE  ProviderTypes'
<1>1. PICK S : channel \in Seq(S)
  BY DEF ProviderTypes
<1>2. channel # <<>> /\ channel' = Tail(channel)
  BY DEF Receive
<1>3. channel' \in Seq(S) /\ Len(channel') = Len(channel) - 1 /\ Len(channel) \in Nat
  BY <1>1, <1>2, HeadTailProperties, LenProperties
<1>4. Len(channel') <= Capacity
  BY <1>3, ProviderAssumption DEF ProviderTypes, ProviderTypeOK
<1>5. /\ UNCHANGED callVars
      /\ UNCHANGED <<doing, attempt, result, stream, heard, buffer, pending, attended>>
  BY DEF Receive
<1>. QED
  BY <1>3, <1>4, <1>5 DEF ProviderTypes, ProviderTypeOK, callVars

LEMMA OtherStepsKeepTypes ==
  ASSUME ProviderTypes,
         \/ Verify \/ ChunkFails \/ Leave
         \/ \E last : EndOfBody(last) /\ IsAtMostOne(last)
  PROVE  ProviderTypes'
<1>1. CASE Verify
  BY <1>1, OutcomesAreRecords DEF Verify, ProviderTypes, ProviderTypeOK, callVars, streamVars
<1>2. CASE ChunkFails
  BY <1>2, AtMostOneIsShort DEF ChunkFails, EndWith, IsAtMostOne, ProviderTypes, ProviderTypeOK, callVars
<1>3. CASE Leave
  BY <1>3 DEF Leave, ProviderTypes, ProviderTypeOK, callVars
<1>4. CASE \E last : EndOfBody(last) /\ IsAtMostOne(last)
  <2>1. IsAtMostOne(pending')
    BY <1>4 DEF EndOfBody
  <2>2. Len(pending') <= 1
    BY <2>1, AtMostOneIsShort
  <2>. QED
    BY <1>4, <2>1, <2>2 DEF EndOfBody, ProviderTypes, ProviderTypeOK, callVars
<1>. QED
  BY <1>1, <1>2, <1>3, <1>4

LEMMA ProviderStepKeepsTypes ==
  ASSUME ProviderTypes, ProviderNext
  PROVE  ProviderTypes'
<1>1. CASE \E operation \in Operations :
             \/ CallAnthropic(operation) \/ CallOpenAI(operation)
             \/ CallCompatible(operation) \/ CallCopilot(operation)
  BY <1>1, CallsKeepTypes
<1>2. CASE AnthropicChat \/ OpenAIChat \/ CompatibleChat \/ CopilotChat
  <2>1. PICK outcomes : Chat(outcomes) /\ \A answer \in outcomes : DOMAIN answer = {"error", "blocks", "stop"}
    BY <1>2, OutcomesAreRecords DEF AnthropicChat, OpenAIChat, CompatibleChat, CopilotChat,
       OpenAIResponse, CompatibleResponse, CopilotResponse
  <2>. QED
    BY <2>1, ChatKeepsTypes
<1>3. CASE AnthropicStream \/ OpenAIStream \/ CompatibleStream \/ CopilotStream
  <2>1. \/ Connect(AnthropicStreams) \/ Connect(CompletionStreams)
        \/ TakeLine /\ IsAtMostOne(pending')
        \/ \E last : EndOfBody(last) /\ IsAtMostOne(last)
    <3>1. CASE AnthropicStream
      <4>1. IsAtMostOne(AnthropicEvent(eventLines))
        BY EventIsAtMostOne
      <4>2. AnthropicTakeLine => TakeLine /\ IsAtMostOne(pending')
        BY <4>1 DEF AnthropicTakeLine, TakeLine, Reading, IsAtMostOne
      <4>. QED
        BY <3>1, <4>1, <4>2 DEF AnthropicStream
    <3>2. CASE OpenAIStream \/ CompatibleStream \/ CopilotStream
      <4>1. IsAtMostOne(CompletionLine(Line)) /\ IsAtMostOne(<<>>)
        BY EventIsAtMostOne DEF IsAtMostOne
      <4>2. CompletionStream(CompletionLine(Line))
        BY <3>2 DEF OpenAIStream, CompatibleStream, CopilotStream, OpenAILine, CompatibleLine,
                    CopilotLine
      <4>3. CompletionTakeLine(CompletionLine(Line)) => TakeLine /\ IsAtMostOne(pending')
        BY <4>1 DEF CompletionTakeLine
      <4>. QED
        BY <4>1, <4>2, <4>3 DEF CompletionStream
    <3>. QED
      BY <1>3, <3>1, <3>2
  <2>2. AnthropicStreams \subseteq AnthropicStreams \cup CompletionStreams
        /\ CompletionStreams \subseteq AnthropicStreams \cup CompletionStreams
    OBVIOUS
  <2>. QED
    BY <2>1, <2>2, ConnectKeepsTypes, TakeLineKeepsTypes, OtherStepsKeepTypes
<1>4. CASE \/ AnthropicVerify \/ OpenAIVerify \/ CompatibleVerify \/ CopilotVerify
           \/ ReadChunk \/ ChunkFails \/ Send \/ Receive \/ Leave
  BY <1>4, ReadChunkKeepsTypes, SendKeepsTypes, ReceiveKeepsTypes, OtherStepsKeepTypes
  DEF AnthropicVerify, OpenAIVerify, CompatibleVerify, CopilotVerify
<1>. QED
  BY <1>1, <1>2, <1>3, <1>4 DEF ProviderNext

\* A call to a provider keeps its types: what is decoded of a chunk is no longer
\* than the bytes that arrived, and the channel never exceeds its room.
THEOREM ProviderStaysTyped == ProviderSpec => []ProviderTypeOK
<1>1. ProviderTypes /\ [ProviderNext]_providerVars => ProviderTypes'
  <2>. SUFFICES ASSUME ProviderTypes, UNCHANGED providerVars PROVE ProviderTypes'
    BY ProviderStepKeepsTypes
  <2>. QED
    BY DEF providerVars, ProviderTypes, ProviderTypeOK
<1>2. ProviderTypes => ProviderTypeOK
  BY DEF ProviderTypes
<1>. QED
  BY <1>1, <1>2, TypesInit, PTL DEF ProviderSpec

-----------------------------------------------------------------------------
(* Sequences of sequences, of any length                                   *)

\* Induction on a sequence, with a set in place of a predicate.
LEMMA SequencesAreAppended ==
  ASSUME NEW S, NEW P \in SUBSET Seq(S), <<>> \in P,
         \A s \in P, x \in S : Append(s, x) \in P
  PROVE  P = Seq(S)
<1>. DEFINE Missed == {n \in Nat : \E s \in Seq(S) \ P : Len(s) = n}
<1>. SUFFICES ASSUME Missed # {} PROVE FALSE
  <2>1. \A s \in Seq(S) : Len(s) \in Nat
    BY LenProperties
  <2>. QED
    BY <2>1
<1>1. PICK n \in Missed : \A j \in Missed : n <= j
  BY SetsOfNaturalsHaveAMinimum
<1>2. PICK s \in Seq(S) : s \notin P /\ Len(s) = n
  BY <1>1
<1>3. s # <<>>
  BY <1>2
<1>4. PICK t \in Seq(S), x \in S : s = Append(t, x)
  BY <1>3, SequenceEmptyOrAppend
<1>5. Len(t) \in Nat /\ Len(t) + 1 = n
  BY <1>2, <1>4, LenProperties, AppendProperties
<1>6. t \in P
  <2>1. ~(n <= Len(t))
    BY <1>5
  <2>. QED
    BY <1>1, <1>5, <2>1
<1>. QED
  BY <1>2, <1>4, <1>6

\* f holds what FlattenSeq has of each beginning of q.
Unfolds(q, f) == f = [i \in 1..Len(q) |-> IF i = 1 THEN q[i] ELSE f[i - 1] \o q[i]]

\* FlattenSeq chooses such a function: there is one,
LEMMA EveryFlatteningUnfolds ==
  ASSUME NEW S, NEW q \in Seq(Seq(S))
  PROVE  \E f \in [1..Len(q) -> Seq(S)] : Unfolds(q, f)
<1>. DEFINE P == {r \in Seq(Seq(S)) : \E f \in [1..Len(r) -> Seq(S)] : Unfolds(r, f)}
<1>1. <<>> \in P
  <2>. DEFINE f == [i \in 1..0 |-> <<>>]
  <2>1. Len(<<>>) = 0 /\ <<>> \in Seq(Seq(S)) /\ 1..0 = {}
    BY EmptySeq
  <2>2. f \in [1..0 -> Seq(S)] /\ Unfolds(<<>>, f)
    BY <2>1 DEF Unfolds
  <2>. QED
    BY <2>1, <2>2
<1>2. ASSUME NEW r \in P, NEW x \in Seq(S)
      PROVE  Append(r, x) \in P
  <2>1. PICK f \in [1..Len(r) -> Seq(S)] : Unfolds(r, f)
    OBVIOUS
  <2>. DEFINE n == Len(r)
              longer == Append(r, x)
              last == IF n = 0 THEN x ELSE f[n] \o x
              g == [i \in 1..(n + 1) |-> IF i = n + 1 THEN last ELSE f[i]]
  <2>2. n \in Nat /\ longer \in Seq(Seq(S)) /\ Len(longer) = n + 1
        /\ (\A i \in 1..n : longer[i] = r[i]) /\ longer[n + 1] = x
    BY LenProperties, AppendProperties
  <2>3. last \in Seq(S)
    <3>1. CASE n = 0
      BY <3>1
    <3>2. CASE n # 0
      <4>1. n \in 1..n
        BY <2>2, <3>2
      <4>2. f[n] \in Seq(S)
        BY <4>1
      <4>. QED
        BY <3>2, <4>2, ConcatProperties
    <3>. QED
      BY <3>1, <3>2
  <2>4. g \in [1..(n + 1) -> Seq(S)]
    BY <2>2, <2>3
  <2>. HIDE DEF longer, last, n
  <2>5. ASSUME NEW i \in 1..(n + 1)
        PROVE  g[i] = IF i = 1 THEN longer[i] ELSE g[i - 1] \o longer[i]
    <3>1. CASE i = n + 1
      <4>1. g[i] = last /\ longer[i] = x
        BY <2>2, <3>1
      <4>2. CASE n = 0
        BY <3>1, <4>1, <4>2 DEF last
      <4>3. CASE n # 0
        <5>1. i # 1 /\ i - 1 = n /\ n \in 1..(n + 1) /\ n # n + 1
          BY <2>2, <3>1, <4>3
        <5>2. g[i - 1] = f[n]
          BY <5>1
        <5>. QED
          BY <4>1, <4>3, <5>1, <5>2 DEF last
      <4>. QED
        BY <4>2, <4>3
    <3>2. CASE i # n + 1
      <4>1. i \in 1..n /\ g[i] = f[i] /\ longer[i] = r[i]
        <5>1. i \in 1..n
          BY <2>2, <3>2
        <5>2. longer[i] = r[i]
          BY <2>2, <5>1
        <5>3. g[i] = f[i]
          BY <3>2
        <5>. QED
          BY <5>1, <5>2, <5>3
      <4>2. f[i] = IF i = 1 THEN r[i] ELSE f[i - 1] \o r[i]
        BY <2>1, <4>1 DEF Unfolds, n
      <4>3. i # 1 => i - 1 \in 1..(n + 1) /\ i - 1 # n + 1
        BY <2>2, <4>1
      <4>4. i # 1 => g[i - 1] = f[i - 1]
        BY <4>3
      <4>. QED
        BY <4>1, <4>2, <4>4
    <3>. QED
      BY <3>1, <3>2
  <2>6. Unfolds(longer, g)
    <3>. HIDE DEF g
    <3>. QED
      BY <2>2, <2>4, <2>5 DEF Unfolds
  <2>. QED
    BY <2>2, <2>4, <2>6 DEF longer
<1>3. P = Seq(Seq(S))
  <2>. HIDE DEF P
  <2>1. P \in SUBSET Seq(Seq(S))
    BY DEF P
  <2>. QED
    BY <1>1, <1>2, <2>1, SequencesAreAppended
<1>. QED
  BY <1>3

Begins(q, r) ==
  /\ Len(q) \in Nat /\ Len(r) \in Nat /\ Len(q) <= Len(r)
  /\ \A i \in 1..Len(q) : r[i] = q[i]

Agree(f, g, n) == \A i \in 1..n : f[i] = g[i]

\* and what it is at i depends on the beginning up to i only.
LEMMA UnfoldingsAgree ==
  ASSUME NEW q, NEW r, NEW f, NEW g, Begins(q, r), Unfolds(q, f), Unfolds(r, g)
  PROVE  Agree(f, g, Len(q))
<1>. USE DEF Begins, Agree
<1>. DEFINE Wrong == {i \in 1..Len(q) : f[i] # g[i]}
<1>. SUFFICES ASSUME Wrong # {} PROVE FALSE
  OBVIOUS
<1>1. PICK i \in Wrong : \A j \in Wrong : i <= j
  <2>1. Wrong \in SUBSET Nat
    OBVIOUS
  <2>. QED
    BY <2>1, SetsOfNaturalsHaveAMinimum
<1>2. i \in 1..Len(q) /\ i \in 1..Len(r) /\ f[i] # g[i] /\ r[i] = q[i]
  OBVIOUS
<1>3. /\ f[i] = IF i = 1 THEN q[i] ELSE f[i - 1] \o q[i]
      /\ g[i] = IF i = 1 THEN r[i] ELSE g[i - 1] \o r[i]
  BY <1>2 DEF Unfolds
<1>4. i # 1 => f[i - 1] = g[i - 1]
  <2>1. i # 1 => i - 1 \in 1..Len(q) /\ ~(i <= i - 1)
    BY <1>2
  <2>. QED
    BY <1>1, <2>1
<1>. QED
  BY <1>2, <1>3, <1>4

LEMMA FlatteningUnfolds ==
  ASSUME NEW S, NEW q \in Seq(Seq(S))
  PROVE  \E f \in [1..Len(q) -> Seq(S)] :
           Unfolds(q, f) /\ FlattenSeq(q) = IF Len(q) = 0 THEN <<>> ELSE f[Len(q)]
<1>1. PICK f \in [1..Len(q) -> Seq(S)] : Unfolds(q, f)
  BY EveryFlatteningUnfolds
<1>2. Len(q) \in Nat /\ (Len(q) = 0 => q = <<>>)
  BY LenProperties, EmptySeq
<1>. DEFINE flatten == CHOOSE g : Unfolds(q, g)
<1>3. Unfolds(q, flatten)
  BY <1>1
<1>4. FlattenSeq(q) = IF Len(q) = 0 THEN q ELSE flatten[Len(q)]
  BY DEF FlattenSeq, Unfolds
<1>. HIDE DEF flatten
<1>5. \A i \in 1..Len(q) : f[i] = flatten[i]
  <2>1. Begins(q, q)
    BY <1>2 DEF Begins
  <2>. QED
    BY <1>1, <1>3, <2>1, UnfoldingsAgree DEF Agree
<1>6. FlattenSeq(q) = IF Len(q) = 0 THEN <<>> ELSE f[Len(q)]
  <2>1. CASE Len(q) = 0
    BY <1>2, <1>4, <2>1
  <2>2. CASE Len(q) # 0
    <3>1. Len(q) \in 1..Len(q)
      BY <1>2, <2>2
    <3>. QED
      BY <1>4, <1>5, <2>2, <3>1
  <2>. QED
    BY <2>1, <2>2
<1>. QED
  BY <1>1, <1>6

\* Flattening is done from the left, one sequence at a time.
LEMMA FlattenAppends ==
  ASSUME NEW S, NEW q \in Seq(Seq(S)), NEW x \in Seq(S)
  PROVE  /\ FlattenSeq(q) \in Seq(S)
         /\ FlattenSeq(Append(q, x)) = FlattenSeq(q) \o x
         /\ FlattenSeq(<<>>) = <<>>
<1>. DEFINE longer == Append(q, x)
<1>0. PICK n : n = Len(q)
  OBVIOUS
<1>1. n \in Nat /\ longer \in Seq(Seq(S)) /\ Len(longer) = n + 1
      /\ (\A i \in 1..n : longer[i] = q[i]) /\ longer[n + 1] = x
  BY <1>0, LenProperties, AppendProperties
<1>. HIDE DEF longer
<1>2. PICK f \in [1..n -> Seq(S)] :
        Unfolds(q, f) /\ FlattenSeq(q) = IF n = 0 THEN <<>> ELSE f[n]
  BY <1>0, FlatteningUnfolds
<1>3. PICK g \in [1..(n + 1) -> Seq(S)] :
        Unfolds(longer, g) /\ FlattenSeq(longer) = IF n + 1 = 0 THEN <<>> ELSE g[n + 1]
  BY <1>1, FlatteningUnfolds
<1>4. \A i \in 1..n : f[i] = g[i]
  <2>1. Len(q) \in Nat /\ Len(longer) \in Nat /\ Len(q) <= Len(longer)
    BY <1>0, <1>1
  <2>2. \A i \in 1..Len(q) : longer[i] = q[i]
    BY <1>0, <1>1
  <2>3. Begins(q, longer)
    BY <2>1, <2>2 DEF Begins
  <2>4. Unfolds(q, f) /\ Unfolds(longer, g)
    BY <1>2, <1>3
  <2>5. Agree(f, g, Len(q))
    BY <2>3, <2>4, UnfoldingsAgree
  <2>. QED
    BY <1>0, <2>5 DEF Agree
<1>5. FlattenSeq(q) \in Seq(S)
  <2>1. CASE n = 0
    BY <1>2, <2>1, EmptySeq
  <2>2. CASE n # 0
    <3>1. n \in 1..n
      BY <1>1, <2>2
    <3>2. f[n] \in Seq(S)
      BY <3>1
    <3>. QED
      BY <1>2, <2>2, <3>2
  <2>. QED
    BY <2>1, <2>2
<1>6. g[n + 1] = IF n + 1 = 1 THEN x ELSE g[n] \o x
  <2>1. n + 1 \in 1..(n + 1) /\ (n + 1) - 1 = n
    BY <1>1
  <2>2. g[n + 1] = IF n + 1 = 1 THEN longer[n + 1] ELSE g[(n + 1) - 1] \o longer[n + 1]
    BY <1>1, <1>3, <2>1 DEF Unfolds
  <2>. QED
    BY <1>1, <2>1, <2>2
<1>7. FlattenSeq(longer) = FlattenSeq(q) \o x
  <2>1. FlattenSeq(longer) = g[n + 1]
    BY <1>1, <1>3
  <2>2. CASE n = 0
    <3>1. FlattenSeq(q) = <<>> /\ <<>> \o x = x
      BY <1>2, <2>2, ConcatEmptySeq
    <3>. QED
      BY <1>6, <2>1, <2>2, <3>1
  <2>3. CASE n # 0
    <3>1. n \in 1..n /\ n + 1 # 1
      BY <1>1, <2>3
    <3>. QED
      BY <1>2, <1>4, <1>6, <2>1, <2>3, <3>1
  <2>. QED
    BY <2>2, <2>3
<1>8. FlattenSeq(<<>>) = <<>>
  <2>1. Len(<<>>) = 0
    OBVIOUS
  <2>. QED
    BY <2>1 DEF FlattenSeq
<1>. QED
  BY <1>5, <1>7, <1>8 DEF longer

-----------------------------------------------------------------------------
(* Each, for an operation given as a function, which is data and may be a   *)
(* parameter of a lemma                                                    *)

Bind(g, s) == FlattenSeq([i \in DOMAIN s |-> g[s[i]]])

\* g makes a sequence on T of each element of S.
Gives(g, S, T) == g \in [S -> Seq(T)]

LEMMA BindAppends ==
  ASSUME NEW S, NEW T, NEW g, Gives(g, S, T), NEW s \in Seq(S), NEW x \in S
  PROVE  /\ Bind(g, s) \in Seq(T)
         /\ Bind(g, Append(s, x)) = Bind(g, s) \o g[x]
<1>. DEFINE q == [i \in DOMAIN s |-> g[s[i]]]
            r == [i \in DOMAIN Append(s, x) |-> g[Append(s, x)[i]]]
<1>0. g \in [S -> Seq(T)]
  BY DEF Gives
<1>1. /\ Len(s) \in Nat /\ DOMAIN s = 1..Len(s)
      /\ Append(s, x) \in Seq(S) /\ Len(Append(s, x)) = Len(s) + 1
      /\ DOMAIN Append(s, x) = 1..(Len(s) + 1)
      /\ \A i \in 1..Len(s) : Append(s, x)[i] = s[i] /\ s[i] \in S
      /\ Append(s, x)[Len(s) + 1] = x
  BY LenProperties, AppendProperties
<1>2. q \in Seq(Seq(T)) /\ Len(q) = Len(s) /\ \A i \in 1..Len(s) : q[i] = g[s[i]]
  <2>1. q = [i \in 1..Len(s) |-> g[s[i]]] /\ \A i \in 1..Len(s) : g[s[i]] \in Seq(T)
    BY <1>0, <1>1
  <2>. HIDE DEF q
  <2>. QED
    BY <1>1, <2>1
<1>3. r \in Seq(Seq(T)) /\ Len(r) = Len(s) + 1
      /\ (\A i \in 1..Len(s) : r[i] = g[s[i]]) /\ r[Len(s) + 1] = g[x]
  <2>1. r = [i \in 1..(Len(s) + 1) |-> IF i = Len(s) + 1 THEN g[x] ELSE g[s[i]]]
    BY <1>1
  <2>2. \A i \in 1..(Len(s) + 1) : (IF i = Len(s) + 1 THEN g[x] ELSE g[s[i]]) \in Seq(T)
    BY <1>0, <1>1
  <2>. HIDE DEF r
  <2>. QED
    BY <1>1, <2>1, <2>2
<1>4. Bind(g, s) = FlattenSeq(q) /\ Bind(g, Append(s, x)) = FlattenSeq(r)
  BY DEF Bind
<1>. HIDE DEF q, r
<1>5. PICK y \in Seq(T) : y = g[x]
  BY <1>0
<1>6. r = Append(q, y)
  <2>1. /\ Append(q, y) \in Seq(Seq(T)) /\ Len(Append(q, y)) = Len(s) + 1
        /\ (\A i \in 1..Len(s) : Append(q, y)[i] = q[i])
        /\ Append(q, y)[Len(s) + 1] = y
    <3>1. PICK E : E = Seq(T)
      OBVIOUS
    <3>2. PICK v \in Seq(E) : v = q /\ Len(v) = Len(s)
      BY <1>2, <3>1
    <3>3. y \in E
      BY <3>1
    <3>4. /\ Append(v, y) \in Seq(E) /\ Len(Append(v, y)) = Len(v) + 1
          /\ (\A i \in 1..Len(v) : Append(v, y)[i] = v[i])
          /\ Append(v, y)[Len(v) + 1] = y
      BY ONLY v \in Seq(E), <3>3, AppendProperties
    <3>. QED
      BY <3>1, <3>2, <3>4
  <2>2. \A i \in 1..(Len(s) + 1) : r[i] = Append(q, y)[i]
    BY <1>1, <1>2, <1>3, <1>5, <2>1
  <2>. QED
    BY <1>3, <2>1, <2>2, SeqEqual
<1>7. FlattenSeq(q) \in Seq(T) /\ FlattenSeq(Append(q, y)) = FlattenSeq(q) \o y
  BY <1>2, FlattenAppends
<1>. QED
  BY <1>4, <1>5, <1>6, <1>7

LEMMA BindOfNothing ==
  ASSUME NEW g
  PROVE  Bind(g, <<>>) = <<>>
<1>1. [i \in DOMAIN <<>> |-> g[<<>>[i]]] = <<>>
  OBVIOUS
<1>2. <<>> \in Seq(Seq({})) /\ <<>> \in Seq({})
  BY EmptySeq
<1>. QED
  BY <1>1, <1>2, FlattenAppends DEF Bind

LEMMA BindOfOne ==
  ASSUME NEW S, NEW T, NEW g, Gives(g, S, T), NEW x \in S
  PROVE  Bind(g, <<x>>) = g[x]
<1>1. <<>> \in Seq(S) /\ Append(<<>>, x) = <<x>>
  BY EmptySeq
<1>2. <<>> \o g[x] = g[x]
  BY ConcatEmptySeq DEF Gives
<1>3. PICK none \in Seq(S) : none = <<>>
  BY <1>1
<1>4. Bind(g, Append(none, x)) = Bind(g, none) \o g[x]
  BY BindAppends
<1>. QED
  BY <1>1, <1>2, <1>3, <1>4, BindOfNothing

LEMMA Regrouped ==
  ASSUME NEW T, NEW a \in Seq(T), NEW b \in Seq(T), NEW c \in Seq(T)
  PROVE  (a \o b) \o c = a \o (b \o c)
BY ConcatAssociative

LEMMA BindConcatenates ==
  ASSUME NEW S, NEW T, NEW g, Gives(g, S, T), NEW s \in Seq(S), NEW t \in Seq(S)
  PROVE  Bind(g, s \o t) = Bind(g, s) \o Bind(g, t)
<1>0. ASSUME NEW a \in Seq(T), NEW b \in Seq(T), NEW c \in Seq(T)
      PROVE  (a \o b) \o c = a \o (b \o c)
  BY Regrouped
<1>. DEFINE P == {u \in Seq(S) : Bind(g, s \o u) = Bind(g, s) \o Bind(g, u)}
<1>1. <<>> \in P
  <2>1. <<>> \in Seq(S) /\ s \o <<>> = s
    BY EmptySeq, ConcatEmptySeq
  <2>2. Bind(g, s) \in Seq(T) \/ S = {}
    BY BindAppends
  <2>3. S = {} => s = <<>>
    BY LenProperties, EmptySeq
  <2>4. Bind(g, s) \o <<>> = Bind(g, s)
    BY <2>2, <2>3, BindOfNothing, ConcatEmptySeq, EmptySeq
  <2>. QED
    BY <2>1, <2>4, BindOfNothing
<1>2. ASSUME NEW u \in P, NEW x \in S
      PROVE  Append(u, x) \in P
  <2>1. u \in Seq(S) /\ s \o u \in Seq(S) /\ Append(u, x) \in Seq(S)
    BY ConcatProperties, AppendProperties
  <2>2. s \o Append(u, x) = Append(s \o u, x)
    <3>1. <<x>> \in Seq(S) /\ Append(u, x) = u \o <<x>> /\ Append(s \o u, x) = (s \o u) \o <<x>>
      BY <2>1, AppendIsConcat
    <3>. QED
      BY <2>1, <3>1, ConcatAssociative
  <2>3. Bind(g, s) \in Seq(T) /\ Bind(g, u) \in Seq(T) /\ g[x] \in Seq(T)
    BY <2>1, BindAppends DEF Gives
  <2>4. Bind(g, Append(s \o u, x)) = Bind(g, s \o u) \o g[x]
    <3>1. PICK v \in Seq(S) : v = s \o u
      BY <2>1
    <3>2. Bind(g, Append(v, x)) = Bind(g, v) \o g[x]
      BY BindAppends
    <3>. QED
      BY <3>1, <3>2
  <2>5. Bind(g, Append(u, x)) = Bind(g, u) \o g[x]
    BY <2>1, BindAppends
  <2>6. (Bind(g, s) \o Bind(g, u)) \o g[x] = Bind(g, s) \o (Bind(g, u) \o g[x])
    <3>1. PICK y \in Seq(T) : y = g[x]
      BY <2>3
    <3>2. PICK a \in Seq(T), b \in Seq(T) : a = Bind(g, s) /\ b = Bind(g, u)
      BY <2>3
    <3>3. (a \o b) \o y = a \o (b \o y)
      BY <1>0
    <3>. QED
      BY <3>1, <3>2, <3>3
  <2>7. Bind(g, s \o u) = Bind(g, s) \o Bind(g, u)
    OBVIOUS
  <2>8. Bind(g, s \o Append(u, x)) = Bind(g, s) \o Bind(g, Append(u, x))
    BY <2>2, <2>4, <2>5, <2>6, <2>7
  <2>. QED
    BY <2>1, <2>8
<1>3. P = Seq(S)
  <2>1. P \in SUBSET Seq(S)
    OBVIOUS
  <2>. HIDE DEF P
  <2>. QED
    BY <1>1, <1>2, <2>1, SequencesAreAppended
<1>. QED
  BY <1>3

\* Two operations, one after the other, are one.
LEMMA BindTwice ==
  ASSUME NEW S, NEW T, NEW U, NEW g, NEW h, Gives(g, S, T), Gives(h, T, U),
         NEW s \in Seq(S)
  PROVE  Bind(h, Bind(g, s)) = Bind([x \in S |-> Bind(h, g[x])], s)
<1>. DEFINE k == [x \in S |-> Bind(h, g[x])]
            P == {u \in Seq(S) : Bind(g, u) \in Seq(T) /\ Bind(h, Bind(g, u)) = Bind(k, u)}
<1>0. ASSUME NEW t \in Seq(T) PROVE Bind(h, t) \in Seq(U)
  <2>1. CASE t = <<>>
    BY <2>1, BindOfNothing, EmptySeq
  <2>2. CASE t # <<>>
    <3>1. PICK y \in T : TRUE
      BY <2>2, SequenceEmptyOrAppend
    <3>. QED
      BY <3>1, BindAppends
  <2>. QED
    BY <2>1, <2>2
<1>1. Gives(k, S, U)
  BY <1>0 DEF Gives
<1>2. <<>> \in P
  <2>1. <<>> \in Seq(S) /\ <<>> \in Seq(T)
    BY EmptySeq
  <2>2. Bind(g, <<>>) = <<>> /\ Bind(h, <<>>) = <<>> /\ Bind(k, <<>>) = <<>>
    <3>. HIDE DEF k
    <3>. QED
      BY BindOfNothing
  <2>. HIDE DEF k
  <2>. QED
    BY <2>1, <2>2
<1>3. ASSUME NEW u \in P, NEW x \in S
      PROVE  Append(u, x) \in P
  <2>. HIDE DEF k
  <2>1. Append(u, x) \in Seq(S) /\ g[x] \in Seq(T) /\ Bind(g, u) \in Seq(T) /\ u \in Seq(S)
    BY AppendProperties DEF Gives
  <2>2. Bind(g, Append(u, x)) = Bind(g, u) \o g[x]
    BY <2>1, BindAppends
  <2>3. Bind(h, Bind(g, u) \o g[x]) = Bind(h, Bind(g, u)) \o Bind(h, g[x])
    <3>1. PICK a \in Seq(T), y \in Seq(T) : a = Bind(g, u) /\ y = g[x]
      BY <2>1
    <3>2. Bind(h, a \o y) = Bind(h, a) \o Bind(h, y)
      BY BindConcatenates
    <3>. QED
      BY <3>1, <3>2
  <2>4. Bind(k, Append(u, x)) = Bind(k, u) \o k[x]
    BY <1>1, <2>1, BindAppends
  <2>5. k[x] = Bind(h, g[x]) /\ Bind(h, Bind(g, u)) = Bind(k, u)
    BY DEF k
  <2>6. Bind(g, Append(u, x)) \in Seq(T)
    BY <2>1, <2>2, ConcatProperties
  <2>. QED
    BY <2>1, <2>2, <2>3, <2>4, <2>5, <2>6
<1>4. P = Seq(S)
  <2>1. P \in SUBSET Seq(S)
    OBVIOUS
  <2>. HIDE DEF P
  <2>. QED
    BY <1>2, <1>3, <2>1, SequencesAreAppended
<1>. QED
  BY <1>4

-----------------------------------------------------------------------------
(* What a request keeps                                                    *)

Pick(B, kinds) == [b \in B |-> IF b.kind \in kinds THEN <<b>> ELSE <<>>]

LEMMA PickGives ==
  ASSUME NEW B, NEW kinds
  PROVE  Gives(Pick(B, kinds), B, B)
<1>1. \A b \in B : <<b>> \in Seq(B) /\ <<>> \in Seq(B)
  BY EmptySeq
<1>. QED
  BY <1>1 DEF Gives, Pick

\* Each, over the elements of a set, is Bind.
LEMMA OfKindBinds ==
  ASSUME NEW B, NEW s \in Seq(B), NEW kinds
  PROVE  OfKind(s, kinds) = Bind(Pick(B, kinds), s)
<1>1. \A i \in DOMAIN s : s[i] \in B
  BY LenProperties
<1>2. [i \in DOMAIN s |-> IF s[i].kind \in kinds THEN <<s[i]>> ELSE <<>>]
        = [i \in DOMAIN s |-> Pick(B, kinds)[s[i]]]
  BY <1>1 DEF Pick
<1>. QED
  BY <1>2 DEF OfKind, Each, Bind

LEMMA BindIsTyped ==
  ASSUME NEW S, NEW T, NEW g, Gives(g, S, T), NEW s \in Seq(S)
  PROVE  Bind(g, s) \in Seq(T)
<1>1. CASE s = <<>>
  BY <1>1, BindOfNothing, EmptySeq
<1>2. CASE s # <<>>
  <2>1. PICK x \in S : TRUE
    BY <1>2, SequenceEmptyOrAppend
  <2>. QED
    BY <2>1, BindAppends
<1>. QED
  BY <1>1, <1>2

LEMMA OfKindTwice ==
  ASSUME NEW B, NEW s \in Seq(B), NEW some, NEW kinds
  PROVE  /\ OfKind(s, some) \in Seq(B)
         /\ OfKind(OfKind(s, some), kinds) = OfKind(s, some \cap kinds)
<1>1. /\ Gives(Pick(B, some), B, B) /\ Gives(Pick(B, kinds), B, B)
      /\ Gives(Pick(B, some \cap kinds), B, B)
  BY PickGives
<1>2. /\ OfKind(s, some) = Bind(Pick(B, some), s)
      /\ OfKind(s, some \cap kinds) = Bind(Pick(B, some \cap kinds), s)
  BY OfKindBinds
<1>3. OfKind(s, some) \in Seq(B)
  BY <1>1, <1>2, BindIsTyped
<1>4. OfKind(OfKind(s, some), kinds) = Bind(Pick(B, kinds), OfKind(s, some))
  BY <1>3, OfKindBinds
<1>5. Bind(Pick(B, kinds), Bind(Pick(B, some), s))
        = Bind([b \in B |-> Bind(Pick(B, kinds), Pick(B, some)[b])], s)
  BY <1>1, BindTwice
<1>6. ASSUME NEW b \in B
      PROVE  Bind(Pick(B, kinds), Pick(B, some)[b]) = Pick(B, some \cap kinds)[b]
  <2>1. CASE b.kind \in some
    <3>1. Pick(B, some)[b] = <<b>>
      BY <2>1 DEF Pick
    <3>2. Bind(Pick(B, kinds), <<b>>) = Pick(B, kinds)[b]
      BY <1>1, BindOfOne
    <3>3. Pick(B, kinds)[b] = Pick(B, some \cap kinds)[b]
      BY <2>1 DEF Pick
    <3>. QED
      BY <3>1, <3>2, <3>3
  <2>2. CASE b.kind \notin some
    <3>1. Pick(B, some)[b] = <<>> /\ Pick(B, some \cap kinds)[b] = <<>>
      BY <2>2 DEF Pick
    <3>. QED
      BY <3>1, BindOfNothing
  <2>. QED
    BY <2>1, <2>2
<1>7. [b \in B |-> Bind(Pick(B, kinds), Pick(B, some)[b])] = Pick(B, some \cap kinds)
  BY <1>6 DEF Pick
<1>. QED
  BY <1>2, <1>3, <1>4, <1>5, <1>7

LEMMA OfKindAlike ==
  ASSUME NEW s, NEW some, NEW kinds,
         \A i \in DOMAIN s : s[i].kind \in some <=> s[i].kind \in kinds
  PROVE  OfKind(s, some) = OfKind(s, kinds)
<1>1. [i \in DOMAIN s |-> IF s[i].kind \in some THEN <<s[i]>> ELSE <<>>]
        = [i \in DOMAIN s |-> IF s[i].kind \in kinds THEN <<s[i]>> ELSE <<>>]
  OBVIOUS
<1>. QED
  BY <1>1 DEF OfKind, Each

\* The blocks a request must keep, the messages it may hold, what one says.
Kept == {"text", "tool_use", "tool_result"}
Roles == {"user", "assistant", "tool", "system"}
Sendable(B) == [role : Roles, blocks : Seq(B)]
Says(B) == [w \in Sendable(B) |-> OfKind(w.blocks, Kept)]

LEMMA SaysGives ==
  ASSUME NEW B
  PROVE  Gives(Says(B), Sendable(B), B)
<1>1. \A w \in Sendable(B) : OfKind(w.blocks, Kept) \in Seq(B)
  BY OfKindTwice DEF Sendable
<1>. QED
  BY <1>1 DEF Gives, Says

LEMMA OneMessageSays ==
  ASSUME NEW B, NEW s \in Seq(B), NEW role \in Roles
  PROVE  /\ Message(role, s) \in Seq(Sendable(B))
         /\ Bind(Says(B), Message(role, s)) = OfKind(s, Kept)
<1>1. PICK w \in Sendable(B) : w = [role |-> role, blocks |-> s]
  BY DEF Sendable
<1>2. Message(role, s) = <<w>> /\ <<w>> \in Seq(Sendable(B))
  BY <1>1 DEF Message
<1>3. Bind(Says(B), <<w>>) = Says(B)[w]
  BY SaysGives, BindOfOne
<1>4. Says(B)[w] = OfKind(s, Kept)
  BY <1>1 DEF Says
<1>. QED
  BY <1>2, <1>3, <1>4

LEMMA MessagesOfBlocksSay ==
  ASSUME NEW B, NEW s \in Seq(B), NEW role \in Roles
  PROVE  /\ Each(s, LAMBDA b : Message(role, <<b>>)) \in Seq(Sendable(B))
         /\ Bind(Says(B), Each(s, LAMBDA b : Message(role, <<b>>))) = OfKind(s, Kept)
<1>. DEFINE apart == [b \in B |-> Message(role, <<b>>)]
            sent == Each(s, LAMBDA b : Message(role, <<b>>))
<1>1. \A b \in B : <<b>> \in Seq(B)
  OBVIOUS
<1>2. Gives(apart, B, Sendable(B))
  BY <1>1, OneMessageSays DEF Gives
<1>3. sent = Bind(apart, s)
  <2>1. \A i \in DOMAIN s : s[i] \in B
    BY LenProperties
  <2>2. [i \in DOMAIN s |-> Message(role, <<s[i]>>)] = [i \in DOMAIN s |-> apart[s[i]]]
    BY <2>1
  <2>. QED
    BY <2>2 DEF Each, Bind
<1>4. \A b \in B : Bind(Says(B), apart[b]) = Pick(B, Kept)[b]
  <2>. SUFFICES ASSUME NEW b \in B PROVE Bind(Says(B), apart[b]) = Pick(B, Kept)[b]
    OBVIOUS
  <2>1. PICK one \in Seq(B) : one = <<b>>
    BY <1>1
  <2>2. Bind(Says(B), Message(role, one)) = OfKind(one, Kept)
    BY OneMessageSays
  <2>3. OfKind(one, Kept) = Bind(Pick(B, Kept), one)
    BY OfKindBinds
  <2>4. Bind(Pick(B, Kept), <<b>>) = Pick(B, Kept)[b]
    BY PickGives, BindOfOne
  <2>. QED
    BY <2>1, <2>2, <2>3, <2>4
<1>. HIDE DEF apart, sent
<1>5. Bind(Says(B), Bind(apart, s)) = Bind([b \in B |-> Bind(Says(B), apart[b])], s)
  BY <1>2, SaysGives, BindTwice
<1>6. [b \in B |-> Bind(Says(B), apart[b])] = Pick(B, Kept)
  BY <1>4 DEF Pick
<1>7. sent \in Seq(Sendable(B)) /\ Bind(Says(B), sent) = OfKind(s, Kept)
  BY <1>2, <1>3, <1>5, <1>6, BindIsTyped, OfKindBinds
<1>. QED
  BY <1>7 DEF sent

\* A message of a history, which has blocks of its role's kinds.
IsSaid(m, B) ==
  /\ m.role \in Roles /\ m.blocks \in Seq(B)
  /\ \A i \in DOMAIN m.blocks : m.blocks[i].kind \in KindsOf(m.role)

LEMMA OnlyTheseAreKept ==
  ASSUME NEW B, NEW m, IsSaid(m, B), NEW kinds,
         \A k \in KindsOf(m.role) : k \in kinds \cap Kept <=> k \in Kept
  PROVE  /\ OfKind(m.blocks, kinds) \in Seq(B)
         /\ OfKind(OfKind(m.blocks, kinds), Kept) = OfKind(m.blocks, Kept)
<1>1. /\ OfKind(m.blocks, kinds) \in Seq(B)
      /\ OfKind(OfKind(m.blocks, kinds), Kept) = OfKind(m.blocks, kinds \cap Kept)
  <2>1. PICK s \in Seq(B) : s = m.blocks
    BY DEF IsSaid
  <2>2. OfKind(s, kinds) \in Seq(B) /\ OfKind(OfKind(s, kinds), Kept) = OfKind(s, kinds \cap Kept)
    BY OfKindTwice
  <2>. QED
    BY <2>1, <2>2
<1>2. OfKind(m.blocks, kinds \cap Kept) = OfKind(m.blocks, Kept)
  BY OfKindAlike DEF IsSaid
<1>. QED
  BY <1>1, <1>2

LEMMA UserBlocksAreUnchanged ==
  ASSUME NEW B, NEW m, IsSaid(m, B), m.role = "user", NEW kinds, "text" \in kinds
  PROVE  UserBlocks(m.blocks, kinds) = m.blocks
<1>1. \A i \in DOMAIN m.blocks : m.blocks[i].kind \in kinds
  BY DEF IsSaid, KindsOf
<1>2. m.blocks = [i \in DOMAIN m.blocks |-> m.blocks[i]]
  BY DEF IsSaid
<1>. QED
  BY <1>1, <1>2 DEF UserBlocks

LEMMA AnthropicKeeps ==
  ASSUME NEW B, NEW m, IsSaid(m, B)
  PROVE  /\ AnthropicMessage(m) \in Seq(Sendable(B))
         /\ Bind(Says(B), AnthropicMessage(m))
              = IF m.role = "system" THEN <<>> ELSE OfKind(m.blocks, Kept)
<1>0. m.role \in Roles /\ m.blocks \in Seq(B)
  BY DEF IsSaid
<1>1. CASE m.role = "user"
  <2>1. AnthropicMessage(m) = Message("user", m.blocks)
    BY <1>1, UserBlocksAreUnchanged DEF AnthropicMessage
  <2>. QED
    BY <1>0, <1>1, <2>1, OneMessageSays DEF Roles
<1>2. CASE m.role = "assistant"
  <2>. DEFINE kinds == {"text", "tool_use", "thinking"}
  <2>1. AnthropicMessage(m) = Message("assistant", OfKind(m.blocks, kinds))
    BY <1>2 DEF AnthropicMessage
  <2>2. \A k \in KindsOf(m.role) : k \in kinds \cap Kept <=> k \in Kept
    BY <1>2 DEF KindsOf, Kept
  <2>. HIDE DEF kinds
  <2>3. PICK b \in Seq(B) : b = OfKind(m.blocks, kinds) /\ OfKind(b, Kept) = OfKind(m.blocks, Kept)
    BY <2>2, OnlyTheseAreKept
  <2>. QED
    BY <1>2, <2>1, <2>3, OneMessageSays DEF Roles
<1>3. CASE m.role = "tool"
  <2>. DEFINE kinds == {"tool_result"}
  <2>1. AnthropicMessage(m) = Message("user", OfKind(m.blocks, kinds))
    BY <1>3 DEF AnthropicMessage
  <2>2. \A k \in KindsOf(m.role) : k \in kinds \cap Kept <=> k \in Kept
    BY <1>3 DEF KindsOf, Kept
  <2>. HIDE DEF kinds
  <2>3. PICK b \in Seq(B) : b = OfKind(m.blocks, kinds) /\ OfKind(b, Kept) = OfKind(m.blocks, Kept)
    BY <2>2, OnlyTheseAreKept
  <2>. QED
    BY <1>3, <2>1, <2>3, OneMessageSays DEF Roles
<1>4. CASE m.role = "system"
  <2>1. AnthropicMessage(m) = <<>>
    BY <1>4 DEF AnthropicMessage
  <2>. QED
    BY <1>4, <2>1, BindOfNothing, EmptySeq
<1>. QED
  BY <1>0, <1>1, <1>2, <1>3, <1>4 DEF Roles

LEMMA CompletionKeeps ==
  ASSUME NEW B, NEW m, IsSaid(m, B)
  PROVE  /\ CompletionMessage(m) \in Seq(Sendable(B))
         /\ Bind(Says(B), CompletionMessage(m)) = OfKind(m.blocks, Kept)
<1>0. m.role \in Roles /\ m.blocks \in Seq(B)
  BY DEF IsSaid
<1>1. CASE m.role = "user"
  <2>1. CompletionMessage(m) = Message("user", m.blocks)
    BY <1>1, UserBlocksAreUnchanged DEF CompletionMessage
  <2>. QED
    BY <1>0, <2>1, OneMessageSays DEF Roles
<1>2. CASE m.role = "assistant"
  <2>. DEFINE kinds == {"text", "tool_use"}
  <2>1. CompletionMessage(m) = Message("assistant", OfKind(m.blocks, kinds))
    BY <1>2 DEF CompletionMessage
  <2>2. \A k \in KindsOf(m.role) : k \in kinds \cap Kept <=> k \in Kept
    BY <1>2 DEF KindsOf, Kept
  <2>. HIDE DEF kinds
  <2>3. PICK b \in Seq(B) : b = OfKind(m.blocks, kinds) /\ OfKind(b, Kept) = OfKind(m.blocks, Kept)
    BY <2>2, OnlyTheseAreKept
  <2>. QED
    BY <2>1, <2>3, OneMessageSays DEF Roles
<1>3. CASE m.role = "tool"
  <2>. DEFINE kinds == {"tool_result"}
  <2>1. CompletionMessage(m) = Each(OfKind(m.blocks, kinds), LAMBDA b : Message("tool", <<b>>))
    BY <1>3 DEF CompletionMessage
  <2>2. \A k \in KindsOf(m.role) : k \in kinds \cap Kept <=> k \in Kept
    BY <1>3 DEF KindsOf, Kept
  <2>. HIDE DEF kinds
  <2>3. PICK b \in Seq(B) : b = OfKind(m.blocks, kinds) /\ OfKind(b, Kept) = OfKind(m.blocks, Kept)
    BY <2>2, OnlyTheseAreKept
  <2>4. "tool" \in Roles
    BY DEF Roles
  <2>. QED
    BY <2>1, <2>3, <2>4, MessagesOfBlocksSay
<1>4. CASE m.role = "system"
  <2>. DEFINE kinds == {"text"}
  <2>1. CompletionMessage(m) = Each(OfKind(m.blocks, kinds), LAMBDA b : Message("system", <<b>>))
    BY <1>4 DEF CompletionMessage
  <2>2. \A k \in KindsOf(m.role) : k \in kinds \cap Kept <=> k \in Kept
    BY <1>4 DEF KindsOf, Kept
  <2>. HIDE DEF kinds
  <2>3. PICK b \in Seq(B) : b = OfKind(m.blocks, kinds) /\ OfKind(b, Kept) = OfKind(m.blocks, Kept)
    BY <2>2, OnlyTheseAreKept
  <2>4. "system" \in Roles
    BY DEF Roles
  <2>. QED
    BY <2>1, <2>3, <2>4, MessagesOfBlocksSay
<1>. QED
  BY <1>0, <1>1, <1>2, <1>3, <1>4 DEF Roles

\* The blocks of a history.
BlocksOf(c) == UNION {Range(m.blocks) : m \in Range(c)}

LEMMA HistoriesAreSaid ==
  ASSUME NEW c, IsHistory(c)
  PROVE  \A m \in Range(c) : IsSaid(m, BlocksOf(c))
<1>. SUFFICES ASSUME NEW m \in Range(c) PROVE IsSaid(m, BlocksOf(c))
  OBVIOUS
<1>1. /\ m.role \in Roles /\ m.blocks \in Seq(Range(m.blocks))
      /\ \A b \in Range(m.blocks) : b.kind \in KindsOf(m.role)
  BY DEF IsHistory, Roles
<1>2. PICK s : s = m.blocks
  OBVIOUS
<1>3. \A i \in DOMAIN s : s[i] \in Range(s) /\ s[i] \in BlocksOf(c)
  BY <1>2 DEF Range, BlocksOf
<1>4. s \in Seq(BlocksOf(c))
  <2>1. s \in Seq(Range(s))
    BY <1>1, <1>2
  <2>2. s = [i \in 1..Len(s) |-> s[i]] /\ Len(s) \in Nat /\ DOMAIN s = 1..Len(s)
    BY <2>1, LenProperties
  <2>. QED
    BY <1>3, <2>2, IsASeq
<1>. QED
  BY <1>1, <1>2, <1>3, <1>4 DEF IsSaid

KeptBy(moved, m) == IF m.role \in moved THEN <<>> ELSE OfKind(m.blocks, Kept)

\* Whatever makes messages out of each one of a history, the messages say what
\* they say one by one.
LEMMA MessagesSayTheHistory ==
  ASSUME NEW c, IsHistory(c), NEW moved, NEW built,
         DOMAIN built = Range(c),
         \A m \in Range(c) : /\ built[m] \in Seq(Sendable(BlocksOf(c)))
                             /\ Bind(Says(BlocksOf(c)), built[m]) = KeptBy(moved, m),
         NEW messages, messages = FlattenSeq([i \in DOMAIN c |-> built[c[i]]])
  PROVE  Each(messages, LAMBDA m : OfKind(m.blocks, Kept)) = Each(c, LAMBDA m : KeptBy(moved, m))
<1>. DEFINE B == BlocksOf(c)
            W == Sendable(B)
            M == Range(c)
<1>1. c \in Seq(M)
  BY DEF IsHistory
<1>2. /\ Gives(Says(B), W, B)
      /\ \A m \in M : built[m] \in Seq(W) /\ Bind(Says(B), built[m]) = KeptBy(moved, m)
  BY SaysGives
<1>3. messages = Bind(built, c)
  BY DEF Bind
<1>4. \A i \in DOMAIN c : c[i] \in M
  BY DEF Range
<1>5. Each(c, LAMBDA m : KeptBy(moved, m)) = Bind([m \in M |-> KeptBy(moved, m)], c)
  <2>1. [i \in DOMAIN c |-> KeptBy(moved, c[i])]
          = [i \in DOMAIN c |-> [m \in M |-> KeptBy(moved, m)][c[i]]]
    BY <1>4
  <2>. QED
    BY <2>1 DEF Each, Bind
<1>. HIDE DEF B, W, M
<1>6. PICK made : made = [m \in M |-> built[m]]
  OBVIOUS
<1>7. Gives(made, M, W) /\ Bind(built, c) = Bind(made, c)
  <2>1. [i \in DOMAIN c |-> built[c[i]]] = [i \in DOMAIN c |-> made[c[i]]]
    BY <1>4, <1>6
  <2>. QED
    BY <1>2, <1>6, <2>1 DEF Gives, Bind
<1>8. messages \in Seq(W)
  BY <1>1, <1>3, <1>7, BindIsTyped
<1>9. Each(messages, LAMBDA m : OfKind(m.blocks, Kept)) = Bind(Says(B), messages)
  <2>1. \A i \in DOMAIN messages : messages[i] \in W
    BY <1>8, LenProperties
  <2>2. [i \in DOMAIN messages |-> OfKind(messages[i].blocks, Kept)]
          = [i \in DOMAIN messages |-> Says(B)[messages[i]]]
    BY <2>1 DEF Says, W
  <2>. QED
    BY <2>2 DEF Each, Bind
<1>10. Bind(Says(B), Bind(made, c)) = Bind([m \in M |-> Bind(Says(B), made[m])], c)
  BY <1>1, <1>2, <1>7, BindTwice
<1>11. [m \in M |-> Bind(Says(B), made[m])] = [m \in M |-> KeptBy(moved, m)]
  BY <1>2, <1>6
<1>. QED
  BY <1>3, <1>5, <1>7, <1>9, <1>10, <1>11

LEMMA AnthropicRequestsKeep ==
  ASSUME NEW c, IsHistory(c)
  PROVE  Each(AnthropicRequest(c).messages, LAMBDA m : OfKind(m.blocks, Kept))
           = Each(c, LAMBDA m : KeptBy({"system"}, m))
<1>. DEFINE made == [m \in Range(c) |-> AnthropicMessage(m)]
            messages == AnthropicRequest(c).messages
<1>1. \A m \in Range(c) : /\ made[m] \in Seq(Sendable(BlocksOf(c)))
                          /\ Bind(Says(BlocksOf(c)), made[m]) = KeptBy({"system"}, m)
  BY HistoriesAreSaid, AnthropicKeeps DEF KeptBy
<1>2. messages = FlattenSeq([i \in DOMAIN c |-> made[c[i]]])
  <2>1. [i \in DOMAIN c |-> AnthropicMessage(c[i])] = [i \in DOMAIN c |-> made[c[i]]]
    BY DEF Range
  <2>. QED
    BY <2>1 DEF AnthropicRequest, Each
<1>3. DOMAIN made = Range(c)
  OBVIOUS
<1>. HIDE DEF made, messages
<1>4. Each(messages, LAMBDA m : OfKind(m.blocks, Kept)) = Each(c, LAMBDA m : KeptBy({"system"}, m))
  BY <1>1, <1>2, <1>3, MessagesSayTheHistory
<1>. QED
  BY <1>4 DEF messages

LEMMA CompletionRequestsKeep ==
  ASSUME NEW c, IsHistory(c)
  PROVE  Each(CompletionRequest(c).messages, LAMBDA m : OfKind(m.blocks, Kept))
           = Each(c, LAMBDA m : KeptBy({}, m))
<1>. DEFINE made == [m \in Range(c) |-> CompletionMessage(m)]
            messages == CompletionRequest(c).messages
<1>1. \A m \in Range(c) : /\ made[m] \in Seq(Sendable(BlocksOf(c)))
                          /\ Bind(Says(BlocksOf(c)), made[m]) = KeptBy({}, m)
  BY HistoriesAreSaid, CompletionKeeps DEF KeptBy
<1>2. messages = FlattenSeq([i \in DOMAIN c |-> made[c[i]]])
  <2>1. [i \in DOMAIN c |-> CompletionMessage(c[i])] = [i \in DOMAIN c |-> made[c[i]]]
    BY DEF Range
  <2>. QED
    BY <2>1 DEF CompletionRequest, Each
<1>3. DOMAIN made = Range(c)
  OBVIOUS
<1>. HIDE DEF made, messages
<1>4. Each(messages, LAMBDA m : OfKind(m.blocks, Kept)) = Each(c, LAMBDA m : KeptBy({}, m))
  BY <1>1, <1>2, <1>3, MessagesSayTheHistory
<1>. QED
  BY <1>4 DEF messages

\* The body of a call is built once, from the conversation of the call.
RequestIsBuilt ==
  /\ conversation \in Conversations
  /\ \/ request.messages = <<>>
     \/ provider = "anthropic" /\ request = AnthropicRequest(conversation)
     \/ provider # "anthropic" /\ request = CompletionRequest(conversation)

LEMMA RequestsAreBuiltInit == ProviderInit => RequestIsBuilt
  BY DEF ProviderInit, RequestIsBuilt

LEMMA RequestsAreBuiltStep ==
  ASSUME RequestIsBuilt, [ProviderNext]_providerVars
  PROVE  RequestIsBuilt'
<1>1. CASE UNCHANGED <<provider, request, conversation>>
  BY <1>1 DEF RequestIsBuilt
<1>2. ASSUME NEW operation \in Operations,
             \/ CallAnthropic(operation) \/ CallOpenAI(operation)
             \/ CallCompatible(operation) \/ CallCopilot(operation)
      PROVE  RequestIsBuilt'
  <2>1. UNCHANGED <<provider, conversation>>
    BY <1>2 DEF CallAnthropic, CallOpenAI, CallCompatible, CallCopilot, Start
  <2>2. \/ provider = "anthropic" /\ request' = AnthropicRequest(conversation)
        \/ provider # "anthropic" /\ request' = CompletionRequest(conversation)
    BY <1>2 DEF CallAnthropic, CallOpenAI, CallCompatible, CallCopilot, Start, ResolvesTo,
                OpenAIRequest, CompatibleRequest, CopilotRequest
  <2>. QED
    BY <2>1, <2>2 DEF RequestIsBuilt
<1>3. CASE AnthropicChat \/ OpenAIChat \/ CompatibleChat \/ CopilotChat
  <2>1. UNCHANGED callVars
    BY <1>3 DEF AnthropicChat, OpenAIChat, CompatibleChat, CopilotChat, Chat
  <2>. QED
    BY <1>1, <2>1 DEF callVars
<1>4. CASE AnthropicStream \/ OpenAIStream \/ CompatibleStream \/ CopilotStream
  <2>1. UNCHANGED callVars
    BY <1>4 DEF AnthropicStream, OpenAIStream, CompatibleStream, CopilotStream, CompletionStream,
                AnthropicTakeLine, CompletionTakeLine, Connect, TakeLine, EndOfBody
  <2>. QED
    BY <1>1, <2>1 DEF callVars
<1>5. CASE \/ AnthropicVerify \/ OpenAIVerify \/ CompatibleVerify \/ CopilotVerify
           \/ ReadChunk \/ ChunkFails \/ Send \/ Receive \/ Leave
  <2>1. UNCHANGED callVars
    BY <1>5 DEF AnthropicVerify, OpenAIVerify, CompatibleVerify, CopilotVerify, Verify,
                ReadChunk, ChunkFails, Send, Receive, Leave
  <2>. QED
    BY <1>1, <2>1 DEF callVars
<1>6. CASE UNCHANGED providerVars
  BY <1>1, <1>6 DEF providerVars
<1>. QED
  BY <1>2, <1>3, <1>4, <1>5, <1>6 DEF ProviderNext

\* A request of any client holds, in their order, every text, tool call and
\* result of the conversation it was built from, the texts anthropic.rs moves to
\* the system prompt excepted: build_messages may drop thinking, split results
\* into messages and rename a role, but it loses and swaps nothing else.
THEOREM NothingIsLeftOut == ProviderSpec => []RequestsKeepTheConversation
<1>1. RequestIsBuilt => RequestsKeepTheConversation
  <2>. SUFFICES ASSUME RequestIsBuilt, request.messages # <<>>
                PROVE  RequestsKeepTheConversation
    BY DEF RequestsKeepTheConversation
  <2>1. IsHistory(conversation)
    BY ConversationsAssumption DEF RequestIsBuilt
  <2>2. CASE provider = "anthropic"
    <3>1. request = AnthropicRequest(conversation)
      BY <2>2 DEF RequestIsBuilt
    <3>2. Each(request.messages, LAMBDA m : OfKind(m.blocks, Kept))
            = Each(conversation, LAMBDA m : KeptBy({"system"}, m))
      BY <2>1, <3>1, AnthropicRequestsKeep
    <3>. QED
      BY <2>2, <3>2 DEF RequestsKeepTheConversation, KeptBy, Kept, Each
  <2>3. CASE provider # "anthropic"
    <3>1. request = CompletionRequest(conversation)
      BY <2>3 DEF RequestIsBuilt
    <3>2. Each(request.messages, LAMBDA m : OfKind(m.blocks, Kept))
            = Each(conversation, LAMBDA m : KeptBy({}, m))
      BY <2>1, <3>1, CompletionRequestsKeep
    <3>. QED
      BY <2>3, <3>2 DEF RequestsKeepTheConversation, KeptBy, Kept, Each
  <2>. QED
    BY <2>2, <2>3
<1>. QED
  BY <1>1, RequestsAreBuiltInit, RequestsAreBuiltStep, PTL DEF ProviderSpec

-----------------------------------------------------------------------------
(* Pieces of a sequence                                                    *)

\* Where the piece before position k begins, less one.
LastSeparator(seq, sep, k) == Max({0} \cup {j \in 1..(k - 1) : seq[j] = sep})

LEMMA MaximumExists ==
  ASSUME NEW k \in Nat, NEW N \in SUBSET (0..k), N # {}
  PROVE  Max(N) \in N /\ \A y \in N : Max(N) >= y
<1>. DEFINE M == {k - y : y \in N}
<1>1. M \in SUBSET Nat /\ M # {}
  <2>1. \A y \in N : y \in 0..k /\ k - y \in Nat
    OBVIOUS
  <2>. QED
    BY <2>1
<1>2. PICK m \in M : \A y \in M : m <= y
  <2>. HIDE DEF M
  <2>. QED
    BY <1>1, SetsOfNaturalsHaveAMinimum
<1>3. \E x \in N : \A y \in N : x >= y
  <2>1. PICK x \in N : m = k - x
    OBVIOUS
  <2>2. \A y \in N : m <= k - y
    BY <1>2
  <2>. QED
    BY <2>1, <2>2
<1>. QED
  BY <1>3 DEF Max

\* The last separator is one, before k.
LEMMA LastSeparatorIsBefore ==
  ASSUME NEW seq, NEW sep, NEW n \in Nat, NEW k \in 1..(n + 1)
  PROVE  /\ LastSeparator(seq, sep, k) \in 0..(k - 1)
         /\ \A j \in 1..(k - 1) : seq[j] = sep => j <= LastSeparator(seq, sep, k)
<1>. DEFINE N == {0} \cup {j \in 1..(k - 1) : seq[j] = sep}
<1>1. N \in SUBSET (0..(k - 1)) /\ N # {} /\ k - 1 \in Nat
  OBVIOUS
<1>2. Max(N) \in N /\ \A y \in N : Max(N) >= y
  <2>. HIDE DEF N
  <2>. QED
    BY <1>1, MaximumExists
<1>3. LastSeparator(seq, sep, k) = Max(N)
  BY DEF LastSeparator
<1>4. \A j \in 1..(k - 1) : seq[j] = sep => Max(N) >= j
  BY <1>2
<1>. HIDE DEF N
<1>. QED
  BY <1>1, <1>2, <1>3, <1>4

\* The last line before k begins after the last separator.
LEMMA PieceIsASubSeq ==
  ASSUME NEW seq, NEW sep, NEW k
  PROVE  Piece(seq, sep, k) = SubSeq(seq, LastSeparator(seq, sep, k) + 1, k - 1)
  BY DEF Piece, LastSeparator

\* Up to position n, an appended element changes no piece.
LEMMA PiecesStay ==
  ASSUME NEW S, NEW seq \in Seq(S), NEW x \in S, NEW sep, NEW k \in 1..(Len(seq) + 1)
  PROVE  /\ Piece(Append(seq, x), sep, k) = Piece(seq, sep, k)
         /\ Piece(seq, sep, k) \in Seq(S)
<1>. DEFINE longer == Append(seq, x)
<1>0. PICK n \in Nat : n = Len(seq)
  BY LenProperties
<1>1. /\ longer \in Seq(S) /\ \A i \in 1..n : longer[i] = seq[i]
      /\ \A i \in 1..n : seq[i] \in S
  <2>1. longer \in Seq(S) /\ \A i \in 1..n : longer[i] = seq[i]
    BY <1>0, AppendProperties
  <2>2. \A i \in 1..n : seq[i] \in S
    BY <1>0, ElementOfSeq
  <2>. QED
    BY <2>1, <2>2
<1>. HIDE DEF longer
<1>2. LastSeparator(longer, sep, k) = LastSeparator(seq, sep, k)
  <2>1. {j \in 1..(k - 1) : longer[j] = sep} = {j \in 1..(k - 1) : seq[j] = sep}
    BY <1>0, <1>1
  <2>. QED
    BY <2>1 DEF LastSeparator
<1>3. PICK m \in 1..k : m = LastSeparator(seq, sep, k) + 1
  <2>1. k \in 1..(n + 1)
    BY <1>0
  <2>2. LastSeparator(seq, sep, k) \in 0..(k - 1)
    BY <2>1, LastSeparatorIsBefore
  <2>. QED
    BY <2>1, <2>2
<1>4. \A i \in m..(k - 1) : i \in 1..n
  BY <1>0, <1>3
<1>5. SubSeq(longer, m, k - 1) = SubSeq(seq, m, k - 1) /\ SubSeq(seq, m, k - 1) \in Seq(S)
  <2>1. /\ SubSeq(seq, m, k - 1) \in Seq(S)
        /\ Len(SubSeq(seq, m, k - 1)) = IF m <= k - 1 THEN (k - 1) - m + 1 ELSE 0
        /\ \A i \in 1..((k - 1) - m + 1) : SubSeq(seq, m, k - 1)[i] = seq[m + i - 1]
    BY <1>0, <1>1, <1>4, SubSeqProperties
  <2>2. /\ SubSeq(longer, m, k - 1) \in Seq(S)
        /\ Len(SubSeq(longer, m, k - 1)) = IF m <= k - 1 THEN (k - 1) - m + 1 ELSE 0
        /\ \A i \in 1..((k - 1) - m + 1) : SubSeq(longer, m, k - 1)[i] = longer[m + i - 1]
    BY <1>0, <1>1, <1>4, SubSeqProperties
  <2>3. \A i \in 1..((k - 1) - m + 1) : m + i - 1 \in m..(k - 1)
    BY <1>0
  <2>4. \A i \in 1..((k - 1) - m + 1) : longer[m + i - 1] = seq[m + i - 1]
    BY <1>1, <1>4, <2>3
  <2>5. PICK p \in Seq(S), q \in Seq(S) :
          p = SubSeq(longer, m, k - 1) /\ q = SubSeq(seq, m, k - 1)
    BY <2>1, <2>2
  <2>6. Len(p) = Len(q) /\ \A i \in 1..Len(p) : p[i] = q[i]
    BY <1>0, <2>1, <2>2, <2>4, <2>5
  <2>7. p = q
    BY <2>6, SeqEqual
  <2>. QED
    BY <2>5, <2>7
<1>. QED
  BY <1>2, <1>3, <1>5, PieceIsASubSeq DEF longer

\* An appended element ends a piece or extends the last one.
LEMMA CutAppends ==
  ASSUME NEW S, NEW seq \in Seq(S), NEW x \in S, NEW sep
  PROVE  /\ Terminated(seq, sep) \in Seq(Seq(S)) /\ Unterminated(seq, sep) \in Seq(S)
         /\ Terminated(Append(seq, x), sep) =
              IF x = sep THEN Append(Terminated(seq, sep), Unterminated(seq, sep))
              ELSE Terminated(seq, sep)
         /\ Unterminated(Append(seq, x), sep) =
              IF x = sep THEN <<>> ELSE Append(Unterminated(seq, sep), x)
<1>. DEFINE longer == Append(seq, x)
            ends == [k \in DOMAIN seq |-> IF seq[k] = sep THEN <<Piece(seq, sep, k)>> ELSE <<>>]
            more == [k \in DOMAIN longer |->
                       IF longer[k] = sep THEN <<Piece(longer, sep, k)>> ELSE <<>>]
            end == IF x = sep THEN <<Piece(seq, sep, Len(seq) + 1)>> ELSE <<>>
<1>0. PICK n \in Nat : n = Len(seq)
  BY LenProperties
<1>1. /\ longer \in Seq(S) /\ Len(longer) = n + 1 /\ DOMAIN longer = 1..(n + 1)
      /\ DOMAIN seq = 1..n
      /\ (\A i \in 1..n : longer[i] = seq[i]) /\ longer[n + 1] = x
  BY <1>0, LenProperties, AppendProperties
<1>2. \A k \in 1..(n + 1) : /\ Piece(longer, sep, k) = Piece(seq, sep, k)
                            /\ Piece(seq, sep, k) \in Seq(S)
  BY <1>0, PiecesStay
<1>3. \A k \in 1..(n + 1) : <<Piece(seq, sep, k)>> \in Seq(Seq(S))
  BY <1>2
<1>4. ends \in Seq(Seq(Seq(S))) /\ Len(ends) = n
      /\ \A i \in 1..n : ends[i] = IF seq[i] = sep THEN <<Piece(seq, sep, i)>> ELSE <<>>
  <2>. DEFINE F(i) == IF seq[i] = sep THEN <<Piece(seq, sep, i)>> ELSE <<>>
  <2>1. \A i \in 1..n : F(i) \in Seq(Seq(S))
    BY <1>0, <1>3, EmptySeq
  <2>2. ends = [i \in 1..n |-> F(i)]
    BY <1>1
  <2>. HIDE DEF F, ends
  <2>3. ends \in Seq(Seq(Seq(S))) /\ Len(ends) = n /\ \A i \in 1..n : ends[i] = F(i)
    BY <2>1, <2>2
  <2>. QED
    BY <2>3 DEF F
<1>5. end \in Seq(Seq(S))
  BY <1>0, <1>3, EmptySeq
<1>6. more = Append(ends, end)
  <2>1. more = [i \in 1..(n + 1) |-> IF i = n + 1 THEN end ELSE ends[i]]
    <3>1. DOMAIN more = 1..(n + 1) /\ more = [i \in 1..(n + 1) |-> more[i]]
      BY <1>1
    <3>2. \A i \in 1..n : more[i] = ends[i]
      <4>1. \A i \in 1..n : i \in 1..(n + 1) /\ longer[i] = seq[i]
        BY <1>1
      <4>2. \A i \in 1..n : more[i] = IF seq[i] = sep THEN <<Piece(seq, sep, i)>> ELSE <<>>
        BY <1>1, <1>2, <4>1
      <4>. QED
        BY <1>4, <4>2
    <3>3. more[n + 1] = end
      BY <1>0, <1>1, <1>2
    <3>4. \A i \in 1..(n + 1) : i = n + 1 \/ i \in 1..n
      OBVIOUS
    <3>. HIDE DEF more, end, ends
    <3>. QED
      BY <3>1, <3>2, <3>3, <3>4
  <2>. HIDE DEF more, ends, end, longer
  <2>2. PICK E : E = Seq(Seq(S))
    OBVIOUS
  <2>3. PICK q \in Seq(E), y \in E : q = ends /\ y = end /\ Len(q) = n
    BY <1>4, <1>5, <2>2
  <2>4. /\ Append(q, y) \in Seq(E) /\ Len(Append(q, y)) = n + 1
        /\ (\A i \in 1..n : Append(q, y)[i] = q[i]) /\ Append(q, y)[n + 1] = y
    BY <2>3, AppendProperties
  <2>5. \A i \in 1..(n + 1) : more[i] \in E /\ more[i] = Append(q, y)[i]
    <3>1. \A i \in 1..n : q[i] \in E
      BY <2>3, ElementOfSeq
    <3>. QED
      BY <2>1, <2>3, <2>4, <3>1
  <2>6. more \in Seq(E) /\ Len(more) = n + 1
    BY <2>1, <2>5
  <2>7. more = Append(q, y)
    BY <2>4, <2>5, <2>6, SeqEqual
  <2>. QED
    BY <2>3, <2>7
<1>7. Terminated(seq, sep) = FlattenSeq(ends) /\ Terminated(longer, sep) = FlattenSeq(more)
      /\ Unterminated(seq, sep) = Piece(seq, sep, n + 1)
      /\ Unterminated(longer, sep) = Piece(longer, sep, (n + 1) + 1)
  BY <1>0, <1>1 DEF Terminated, Unterminated
<1>. HIDE DEF longer, ends, more
<1>8. FlattenSeq(ends) \in Seq(Seq(S)) /\ FlattenSeq(more) = FlattenSeq(ends) \o end
  BY <1>4, <1>5, <1>6, FlattenAppends
<1>9. Piece(seq, sep, n + 1) \in Seq(S)
  BY <1>2
<1>10. Terminated(longer, sep) = IF x = sep THEN Append(Terminated(seq, sep), Unterminated(seq, sep))
                                 ELSE Terminated(seq, sep)
  <2>1. PICK t \in Seq(Seq(S)), u \in Seq(S) : t = FlattenSeq(ends) /\ u = Piece(seq, sep, n + 1)
    BY <1>8, <1>9
  <2>2. t \o <<u>> = Append(t, u) /\ t \o <<>> = t
    BY AppendIsConcat, ConcatEmptySeq
  <2>. QED
    BY <1>0, <1>7, <1>8, <2>1, <2>2
<1>11. Unterminated(longer, sep) = IF x = sep THEN <<>> ELSE Append(Unterminated(seq, sep), x)
  <2>. DEFINE last == LastSeparator(longer, sep, (n + 1) + 1)
              before == LastSeparator(seq, sep, n + 1)
  <2>1. Unterminated(longer, sep) = SubSeq(longer, last + 1, n + 1)
        /\ Unterminated(seq, sep) = SubSeq(seq, before + 1, n)
    <3>1. ((n + 1) + 1) - 1 = n + 1 /\ (n + 1) - 1 = n
      OBVIOUS
    <3>. QED
      BY <1>7, <3>1, PieceIsASubSeq
  <2>2. last \in 0..(n + 1) /\ \A j \in 1..(n + 1) : longer[j] = sep => j <= last
    <3>1. n + 1 \in Nat /\ (n + 1) + 1 \in 1..((n + 1) + 1) /\ ((n + 1) + 1) - 1 = n + 1
      OBVIOUS
    <3>. QED
      BY <3>1, LastSeparatorIsBefore
  <2>3. CASE x = sep
    <3>1. last = n + 1
      BY <1>1, <2>2, <2>3
    <3>2. SubSeq(longer, (n + 1) + 1, n + 1) = <<>>
      BY <1>1, SubSeqProperties
    <3>. QED
      BY <2>1, <2>3, <3>1, <3>2
  <2>4. CASE x # sep
    <3>1. last = before
      <4>1. {j \in 1..(n + 1) : longer[j] = sep} = {j \in 1..n : seq[j] = sep}
        BY <1>1, <2>4
      <4>2. ((n + 1) + 1) - 1 = n + 1 /\ (n + 1) - 1 = n
        OBVIOUS
      <4>. QED
        BY <4>1, <4>2 DEF LastSeparator
    <3>2. before \in 0..n
      <4>1. n + 1 \in 1..(n + 1) /\ (n + 1) - 1 = n
        OBVIOUS
      <4>. QED
        BY <4>1, LastSeparatorIsBefore
    <3>3. SubSeq(longer, before + 1, n + 1) = Append(SubSeq(seq, before + 1, n), x)
      <4>. HIDE DEF before, last
      <4>1. PICK m \in 1..(n + 1) : m = before + 1
        BY <3>2
      <4>2. SubSeq(longer, m, n + 1) = Append(SubSeq(seq, m, n), x)
        BY <1>0, <1>1 DEF longer
      <4>. QED
        BY <4>1, <4>2
    <3>. QED
      BY <2>1, <2>4, <3>1, <3>3
  <2>. QED
    BY <2>3, <2>4
<1>. QED
  BY <1>7, <1>8, <1>9, <1>10, <1>11 DEF longer

\* No element, no piece.
LEMMA CutNothing ==
  ASSUME NEW sep
  PROVE  Terminated(<<>>, sep) = <<>> /\ Unterminated(<<>>, sep) = <<>>
<1>1. <<>> \in Seq(Seq({})) /\ <<>> \in Seq({}) /\ Len(<<>>) = 0
  BY EmptySeq
<1>2. Terminated(<<>>, sep) = <<>>
  <2>1. [k \in DOMAIN <<>> |-> IF <<>>[k] = sep THEN <<Piece(<<>>, sep, k)>> ELSE <<>>] = <<>>
    OBVIOUS
  <2>. QED
    BY <1>1, <2>1, FlattenAppends DEF Terminated
<1>3. Unterminated(<<>>, sep) = <<>>
  <2>1. \A n \in Nat : \A k \in 1..(n + 1) : LastSeparator(<<>>, sep, k) \in 0..(k - 1)
    BY LastSeparatorIsBefore
  <2>2. LastSeparator(<<>>, sep, 1) = 0
    <3>1. 0 \in Nat /\ 1 \in 1..(0 + 1)
      OBVIOUS
    <3>2. LastSeparator(<<>>, sep, 1) \in 0..(1 - 1)
      BY <2>1, <3>1
    <3>. QED
      BY <3>2
  <2>3. SubSeq(<<>>, 1, 0) = <<>>
    BY <1>1, SubSeqProperties
  <2>. QED
    BY <1>1, <2>2, <2>3, PieceIsASubSeq DEF Unterminated
<1>. QED
  BY <1>2, <1>3

-----------------------------------------------------------------------------
(* Prefixes and lines                                                      *)

\* whole begins with start.
StartsWith(T, whole, start) == \E rest \in Seq(T) : whole = start \o rest

LEMMA PrefixesChain ==
  ASSUME NEW T, NEW p \in Seq(T), NEW q, NEW r \in Seq(T), StartsWith(T, q, p)
  PROVE  StartsWith(T, q \o r, p)
<1>1. PICK rest \in Seq(T) : q = p \o rest
  BY DEF StartsWith
<1>2. (p \o rest) \o r = p \o (rest \o r) /\ rest \o r \in Seq(T)
  BY ConcatAssociative, ConcatProperties
<1>. QED
  BY <1>1, <1>2 DEF StartsWith

LEMMA PrefixesAgree ==
  ASSUME NEW T, NEW p \in Seq(T), NEW q, StartsWith(T, q, p)
  PROVE  Len(p) <= Len(q) /\ \A i \in 1..Len(p) : q[i] = p[i]
<1>1. PICK rest \in Seq(T) : q = p \o rest
  BY DEF StartsWith
<1>2. Len(q) = Len(p) + Len(rest) /\ \A i \in 1..Len(p) : q[i] = p[i]
  <2>1. \A i \in 1..Len(p) : i \in 1..(Len(p) + Len(rest)) /\ i <= Len(p)
    BY LenProperties
  <2>. QED
    BY <1>1, <2>1, ConcatProperties
<1>3. Len(p) \in Nat /\ Len(rest) \in Nat
  BY LenProperties
<1>. QED
  BY <1>2, <1>3

\* Bytes without a newline add no line.
LEMMA NoNewlineNoLine ==
  ASSUME NEW S, NEW seq \in Seq(S), NEW sep, Unterminated(seq, sep) = <<>>,
         NEW held \in Seq(S), \A i \in 1..Len(held) : held[i] # sep
  PROVE  /\ Terminated(seq \o held, sep) = Terminated(seq, sep)
         /\ Unterminated(seq \o held, sep) = held
         /\ Terminated((seq \o held) \o <<sep>>, sep) = Append(Terminated(seq, sep), held)
         /\ Unterminated((seq \o held) \o <<sep>>, sep) = <<>>
<1>. DEFINE Q == {u \in Seq(S) : (\A i \in 1..Len(u) : u[i] # sep) =>
                                   /\ Terminated(seq \o u, sep) = Terminated(seq, sep)
                                   /\ Unterminated(seq \o u, sep) = u}
<1>1. <<>> \in Q
  <2>1. seq \o <<>> = seq /\ <<>> \in Seq(S)
    BY ConcatEmptySeq, EmptySeq
  <2>. QED
    BY <2>1
<1>2. ASSUME NEW u \in Q, NEW x \in S
      PROVE  Append(u, x) \in Q
  <2>1. /\ u \in Seq(S) /\ Append(u, x) \in Seq(S) /\ Len(u) \in Nat
        /\ Len(Append(u, x)) = Len(u) + 1
        /\ (\A i \in 1..Len(u) : Append(u, x)[i] = u[i]) /\ Append(u, x)[Len(u) + 1] = x
    BY AppendProperties, LenProperties
  <2>2. PICK v \in Seq(S) : v = seq \o u
    BY <2>1, ConcatProperties
  <2>3. seq \o Append(u, x) = Append(v, x)
    BY <2>1, <2>2
  <2>. SUFFICES ASSUME \A i \in 1..Len(Append(u, x)) : Append(u, x)[i] # sep
                PROVE  /\ Terminated(Append(v, x), sep) = Terminated(seq, sep)
                       /\ Unterminated(Append(v, x), sep) = Append(u, x)
    BY <2>1, <2>3
  <2>4. x # sep /\ \A i \in 1..Len(u) : u[i] # sep
    <3>1. Len(u) + 1 \in 1..(Len(u) + 1) /\ \A i \in 1..Len(u) : i \in 1..(Len(u) + 1)
      BY <2>1
    <3>. QED
      BY <2>1, <3>1
  <2>5. Terminated(v, sep) = Terminated(seq, sep) /\ Unterminated(v, sep) = u
    BY <2>2, <2>4
  <2>. HIDE DEF Q
  <2>6. /\ Terminated(Append(v, x), sep) =
              IF x = sep THEN Append(Terminated(v, sep), Unterminated(v, sep))
              ELSE Terminated(v, sep)
        /\ Unterminated(Append(v, x), sep) =
              IF x = sep THEN <<>> ELSE Append(Unterminated(v, sep), x)
    BY ONLY v \in Seq(S), x \in S, CutAppends
  <2>. QED
    BY <2>4, <2>5, <2>6
<1>3. Q = Seq(S)
  <2>1. Q \in SUBSET Seq(S)
    OBVIOUS
  <2>. HIDE DEF Q
  <2>. QED
    BY <1>1, <1>2, <2>1, SequencesAreAppended
<1>4. /\ Terminated(seq \o held, sep) = Terminated(seq, sep)
      /\ Unterminated(seq \o held, sep) = held
  BY <1>3
<1>. HIDE DEF Q
<1>5. PICK v : v = seq \o held
  OBVIOUS
<1>6. /\ Terminated(v \o <<sep>>, sep) = Append(Terminated(v, sep), Unterminated(v, sep))
      /\ Unterminated(v \o <<sep>>, sep) = <<>>
  <2>1. S \subseteq S \cup {sep} /\ sep \in S \cup {sep}
    OBVIOUS
  <2>2. v \in Seq(S)
    BY <1>5, ConcatProperties
  <2>3. v \in Seq(S \cup {sep})
    BY <2>1, <2>2, SeqMonotonic
  <2>4. Append(v, sep) = v \o <<sep>>
    BY <2>3, <2>1, AppendIsConcat
  <2>5. PICK R : R = S \cup {sep}
    OBVIOUS
  <2>7. v \in Seq(R) /\ \E x \in R : x = sep
    BY <2>1, <2>3, <2>5
  <2>8. PICK x \in R : x = sep
    BY <2>7
  <2>6. /\ Terminated(Append(v, x), sep) =
              IF x = sep THEN Append(Terminated(v, sep), Unterminated(v, sep))
              ELSE Terminated(v, sep)
        /\ Unterminated(Append(v, x), sep) =
              IF x = sep THEN <<>> ELSE Append(Unterminated(v, sep), x)
    BY ONLY <2>7, x \in R, CutAppends
  <2>. QED
    BY <2>4, <2>8, <2>6
<1>. QED
  BY <1>4, <1>5, <1>6

-----------------------------------------------------------------------------
(* Events that are alike                                                   *)

\* What an event holds: the characters of a text, or the one error of a payload that
\* is no event.  Told is an event, Texts are lines.
Chars == Decoded \cup {"Serialization"}
Told == Seq(Chars)
Texts == Seq(Decoded)

\* Two sequences whose elements are pairs of R.
Matches(R, q, r) == Len(q) = Len(r) /\ \A i \in 1..Len(q) : <<q[i], r[i]>> \in R

\* Characters and events that are alike, as pairs.
SameChars == {pair \in Chars \X Chars :
                pair[1] = pair[2] \/ (pair[1] = "?" /\ pair[2] \in {"w", "v"})}
SameEvents == {pair \in Told \X Told : Alike(pair[1], pair[2])}

LEMMA TextsAreTold == Texts \subseteq Told /\ Seq(Bytes) \subseteq Texts
<1>1. Bytes \subseteq Decoded /\ Decoded \subseteq Chars
  BY DEF Decoded, Chars
<1>. QED
  BY <1>1, SeqMonotonic DEF Texts, Told

\* Texts are alike when their characters are.
LEMMA AlikeMatches ==
  ASSUME NEW e \in Told, NEW f \in Told
  PROVE  Alike(e, f) <=> Matches(SameChars, e, f)
<1>1. DOMAIN e = 1..Len(e) /\ DOMAIN f = 1..Len(f) /\ (\A i \in 1..Len(e) : e[i] \in Chars)
      /\ \A i \in 1..Len(f) : f[i] \in Chars
  BY LenProperties, ElementOfSeq DEF Told
<1>. QED
  BY <1>1 DEF Alike, Matches, SameChars

\* What matches part by part matches in one.
LEMMA MatchesConcatenate ==
  ASSUME NEW S, NEW R, NEW q \in Seq(S), NEW r \in Seq(S), NEW v \in Seq(S), NEW w \in Seq(S),
         Matches(R, q, r), Matches(R, v, w)
  PROVE  Matches(R, q \o v, r \o w)
<1>1. PICK m \in Nat, n \in Nat : Len(q) = m /\ Len(r) = m /\ Len(v) = n /\ Len(w) = n
  BY LenProperties DEF Matches
<1>2. /\ Len(q \o v) = m + n /\ Len(r \o w) = m + n
      /\ \A i \in 1..(m + n) : (q \o v)[i] = IF i <= m THEN q[i] ELSE v[i - m]
      /\ \A i \in 1..(m + n) : (r \o w)[i] = IF i <= m THEN r[i] ELSE w[i - m]
  <2>1. \A s \in Seq(S), t \in Seq(S) : Len(s) = m /\ Len(t) = n =>
          /\ Len(s \o t) = m + n
          /\ \A i \in 1..(m + n) : (s \o t)[i] = IF i <= m THEN s[i] ELSE t[i - m]
    <3>. SUFFICES ASSUME NEW s \in Seq(S), NEW t \in Seq(S), Len(s) = m, Len(t) = n
                  PROVE  /\ Len(s \o t) = m + n
                         /\ \A i \in 1..(m + n) : (s \o t)[i] = IF i <= m THEN s[i] ELSE t[i - m]
      OBVIOUS
    <3>1. /\ Len(s \o t) = Len(s) + Len(t)
          /\ \A i \in 1..(Len(s) + Len(t)) :
               (s \o t)[i] = IF i <= Len(s) THEN s[i] ELSE t[i - Len(s)]
      BY ConcatProperties
    <3>. QED
      BY <3>1
  <2>. QED
    BY <1>1, <2>1
<1>3. \A i \in 1..(m + n) : i \in 1..m \/ (~(i <= m) /\ i - m \in 1..n)
  OBVIOUS
<1>. QED
  BY <1>1, <1>2, <1>3 DEF Matches

\* Parts of what matches match.
LEMMA PartsMatch ==
  ASSUME NEW S, NEW R, NEW q \in Seq(S), NEW r \in Seq(S), Matches(R, q, r),
         NEW m \in 1..(Len(q) + 1), NEW n \in 0..Len(q)
  PROVE  /\ Matches(R, SubSeq(q, m, n), SubSeq(r, m, n))
         /\ SubSeq(q, m, n) \in Seq(S) /\ SubSeq(r, m, n) \in Seq(S)
<1>1. Len(q) = Len(r) /\ Len(q) \in Nat
  BY LenProperties DEF Matches
<1>2. PICK k \in Nat : k = IF m <= n THEN n - m + 1 ELSE 0
  <2>1. m \in Int /\ n \in Int
    BY <1>1
  <2>2. (IF m <= n THEN n - m + 1 ELSE 0) \in Nat
    BY <2>1
  <2>. QED
    BY <2>2
<1>3. \A s \in Seq(S) : Len(s) = Len(q) =>
        /\ SubSeq(s, m, n) \in Seq(S) /\ Len(SubSeq(s, m, n)) = k
        /\ \A i \in 1..k : SubSeq(s, m, n)[i] = s[m + i - 1]
  <2>. SUFFICES ASSUME NEW s \in Seq(S), Len(s) = Len(q)
                PROVE  /\ SubSeq(s, m, n) \in Seq(S) /\ Len(SubSeq(s, m, n)) = k
                       /\ \A i \in 1..k : SubSeq(s, m, n)[i] = s[m + i - 1]
    OBVIOUS
  <2>1. \A i \in m..n : s[i] \in S
    <3>1. \A i \in m..n : i \in 1..Len(s)
      BY <1>1
    <3>. QED
      BY <3>1, ElementOfSeq
  <2>2. m \in Int /\ n \in Int
    BY <1>1
  <2>3. /\ SubSeq(s, m, n) \in Seq(S)
        /\ Len(SubSeq(s, m, n)) = IF m <= n THEN n - m + 1 ELSE 0
        /\ \A i \in 1..(n - m + 1) : SubSeq(s, m, n)[i] = s[m + i - 1]
    BY <2>1, <2>2, SubSeqProperties
  <2>4. \A i \in 1..k : i \in 1..(n - m + 1)
    BY <1>2, <2>2
  <2>. QED
    BY <1>2, <2>3, <2>4
<1>4. \A i \in 1..k : m + i - 1 \in 1..Len(q)
  BY <1>1, <1>2
<1>. QED
  BY <1>1, <1>3, <1>4 DEF Matches

\* Decoding changes characters, never their number.
LEMMA LossyIsAlike ==
  ASSUME NEW chunk \in Seq(Bytes)
  PROVE  Alike(Lossy(chunk), chunk)
<1>1. Len(Lossy(chunk)) = Len(chunk)
  BY LossyKeepsTheLength
<1>2. DOMAIN Lossy(chunk) = DOMAIN chunk
  BY DEF Lossy
<1>3. \A i \in DOMAIN chunk : Lossy(chunk)[i] = chunk[i]
                               \/ (Lossy(chunk)[i] = "?" /\ chunk[i] \in {"w", "v"})
  BY DEF Lossy
<1>. QED
  BY <1>1, <1>2, <1>3 DEF Alike

LEMMA MinimumExists ==
  ASSUME NEW N \in SUBSET Nat, N # {}
  PROVE  Min(N) \in N
<1>1. \E x \in N : \A y \in N : x <= y
  BY SetsOfNaturalsHaveAMinimum
<1>. QED
  BY <1>1 DEF Min

LEMMA OneMatches ==
  ASSUME NEW R, NEW x, NEW y, <<x, y>> \in R
  PROVE  Matches(R, <<x>>, <<y>>) /\ Matches(R, <<>>, <<>>)
<1>1. Len(<<x>>) = 1 /\ Len(<<y>>) = 1 /\ <<x>>[1] = x /\ <<y>>[1] = y /\ Len(<<>>) = 0
  OBVIOUS
<1>. QED
  BY <1>1 DEF Matches

LEMMA AlikeIsReflexive ==
  ASSUME NEW e \in Told
  PROVE  Alike(e, e) /\ <<e, e>> \in SameEvents
<1>1. Alike(e, e)
  BY DEF Alike
<1>. QED
  BY <1>1 DEF SameEvents

LEMMA SingletonIsTyped ==
  ASSUME NEW S, NEW x \in S
  PROVE  <<x>> \in Seq(S)
OBVIOUS

\* Payloads that are alike give events that are alike: no character that a chunk may
\* damage decides where a field is or whether it can be read.
LEMMA EventsAreAlike ==
  ASSUME NEW q \in Texts, NEW r \in Texts, Alike(q, r)
  PROVE  /\ Event(q) \in Seq(Told) /\ Event(r) \in Seq(Told)
         /\ Matches(SameEvents, Event(q), Event(r))
<1>1. PICK n \in Nat : /\ Len(q) = n /\ Len(r) = n /\ DOMAIN q = 1..n /\ DOMAIN r = 1..n
                      /\ \A i \in 1..n : q[i] = r[i] \/ (q[i] = "?" /\ r[i] \in {"w", "v"})
  BY LenProperties DEF Texts, Alike
<1>. DEFINE starts == {i \in 1..n : q[i] \in {"t", "k", "c", "u"}}
            later == {i \in starts : i > Min(starts)}
            first == Min(starts)
            last == IF later = {} THEN n ELSE Min(later) - 1
<1>2. {i \in 1..n : r[i] \in {"t", "k", "c", "u"}} = starts
  BY <1>1
<1>3. "b" \in Range(q) <=> "b" \in Range(r)
  BY <1>1 DEF Range
<1>4. Event(q) = IF "b" \in Range(q) THEN <<<<"Serialization">>>>
                 ELSE IF starts = {} THEN <<>> ELSE <<SubSeq(q, first, last)>>
  BY <1>1 DEF Event
<1>5. Event(r) = IF "b" \in Range(r) THEN <<<<"Serialization">>>>
                 ELSE IF starts = {} THEN <<>> ELSE <<SubSeq(r, first, last)>>
  BY <1>1, <1>2 DEF Event
<1>6. starts \in SUBSET (1..n) /\ later \in SUBSET (1..n)
  OBVIOUS
<1>7. starts # {} => first \in 1..n /\ last \in 0..n
  <2>. SUFFICES ASSUME starts # {} PROVE first \in 1..n /\ last \in 0..n
    OBVIOUS
  <2>1. \A N \in SUBSET (1..n) : N # {} => Min(N) \in 1..n
    <3>1. \A N \in SUBSET (1..n) : N \in SUBSET Nat
      OBVIOUS
    <3>. QED
      BY <3>1, MinimumExists
  <2>. HIDE DEF starts, later
  <2>. QED
    BY <1>6, <2>1
<1>. HIDE DEF starts, later, first, last
<1>8. CASE "b" \in Range(q)
  <2>1. PICK e \in Told : e = <<"Serialization">>
    <3>1. \A c \in Chars : <<c>> \in Told
      BY SingletonIsTyped DEF Told
    <3>2. "Serialization" \in Chars
      BY DEF Chars
    <3>. QED
      BY <3>1, <3>2
  <2>2. Event(q) = <<e>> /\ Event(r) = <<e>>
    BY <1>3, <1>4, <1>5, <1>8, <2>1
  <2>3. <<e>> \in Seq(Told)
    BY SingletonIsTyped
  <2>4. <<e, e>> \in SameEvents
    BY AlikeIsReflexive
  <2>5. Matches(SameEvents, <<e>>, <<e>>)
    BY <2>4, OneMatches
  <2>. QED
    BY <2>2, <2>3, <2>5
<1>9. CASE "b" \notin Range(q) /\ starts = {}
  <2>1. Event(q) = <<>> /\ Event(r) = <<>>
    BY <1>3, <1>4, <1>5, <1>9
  <2>2. Len(<<>>) = 0
    OBVIOUS
  <2>. QED
    BY <2>1, <2>2, EmptySeq DEF Matches
<1>10. CASE "b" \notin Range(q) /\ starts # {}
  <2>1. q \in Told /\ r \in Told /\ Matches(SameChars, q, r)
    BY TextsAreTold, AlikeMatches
  <2>2. PICK k \in 1..n, m \in 0..n : k = first /\ m = last
    BY <1>7, <1>10
  <2>3. /\ Matches(SameChars, SubSeq(q, k, m), SubSeq(r, k, m))
        /\ SubSeq(q, k, m) \in Told /\ SubSeq(r, k, m) \in Told
    <3>1. k \in 1..(Len(q) + 1) /\ m \in 0..Len(q)
      BY <1>1
    <3>. QED
      BY <2>1, <3>1, PartsMatch DEF Told
  <2>4. PICK e \in Told, f \in Told : e = SubSeq(q, k, m) /\ f = SubSeq(r, k, m)
    BY <2>3
  <2>5. <<e, f>> \in SameEvents
    BY <2>3, <2>4, AlikeMatches DEF SameEvents
  <2>6. Event(q) = <<e>> /\ Event(r) = <<f>>
    BY <1>3, <1>4, <1>5, <1>10, <2>2, <2>4
  <2>7. <<e>> \in Seq(Told) /\ <<f>> \in Seq(Told)
    BY SingletonIsTyped
  <2>8. Matches(SameEvents, <<e>>, <<f>>)
    BY <2>5, OneMatches
  <2>. QED
    BY <2>6, <2>7, <2>8
<1>. QED
  BY <1>8, <1>9, <1>10

\* A character that a chunk boundary cut changes no line's kind.
LEMMA LinesAreAlike ==
  ASSUME NEW q \in Texts, NEW r \in Texts, Alike(q, r)
  PROVE  /\ IsData(q) <=> IsData(r)
         /\ q = <<>> <=> r = <<>>
         /\ IsData(q) => /\ Event(Tail(q)) \in Seq(Told) /\ Event(Tail(r)) \in Seq(Told)
                         /\ Matches(SameEvents, Event(Tail(q)), Event(Tail(r)))
<1>1. Len(q) = Len(r) /\ Len(q) \in Nat /\ DOMAIN q = 1..Len(q)
      /\ \A i \in 1..Len(q) : q[i] = r[i] \/ (q[i] = "?" /\ r[i] \in {"w", "v"})
  BY LenProperties DEF Texts, Alike
<1>2. (q = <<>> <=> Len(q) = 0) /\ (r = <<>> <=> Len(r) = 0)
  BY EmptySeq DEF Texts
<1>3. q # <<>> => 1 \in 1..Len(q)
  BY <1>1, <1>2
<1>4. IsData(q) <=> IsData(r)
  BY <1>1, <1>2, <1>3 DEF IsData
<1>5. ASSUME IsData(q)
      PROVE  /\ Event(Tail(q)) \in Seq(Told) /\ Event(Tail(r)) \in Seq(Told)
             /\ Matches(SameEvents, Event(Tail(q)), Event(Tail(r)))
  <2>1. q # <<>> /\ r # <<>>
    BY <1>1, <1>2, <1>5 DEF IsData
  <2>2. \A s \in Texts : s # <<>> =>
          /\ Tail(s) \in Texts /\ Len(Tail(s)) = Len(s) - 1
          /\ \A i \in 1..(Len(s) - 1) : Tail(s)[i] = s[i + 1]
    BY HeadTailProperties DEF Texts
  <2>3. Tail(q) \in Texts /\ Tail(r) \in Texts
    BY <2>1, <2>2
  <2>4. Alike(Tail(q), Tail(r))
    <3>1. Len(Tail(q)) = Len(Tail(r)) /\ DOMAIN Tail(q) = 1..(Len(q) - 1)
      BY <1>1, <2>1, <2>2, <2>3, LenProperties DEF Texts
    <3>2. \A i \in 1..(Len(q) - 1) : i + 1 \in 1..Len(q)
      BY <1>1
    <3>3. \A i \in 1..(Len(q) - 1) : Tail(q)[i] = q[i + 1] /\ Tail(r)[i] = r[i + 1]
      BY <1>1, <2>1, <2>2
    <3>. QED
      BY <1>1, <3>1, <3>2, <3>3 DEF Alike
  <2>5. PICK a \in Texts, b \in Texts : a = Tail(q) /\ b = Tail(r)
    BY <2>3
  <2>. QED
    BY <2>4, <2>5, EventsAreAlike
<1>. QED
  BY <1>1, <1>2, <1>4, <1>5

-----------------------------------------------------------------------------
(* The events of lines                                                     *)

\* Lines with data, and what a line, or the lines of an event, say.
DataTexts == {line \in Texts : IsData(line)}

DataOf == [line \in Texts |-> IF IsData(line) THEN <<line>> ELSE <<>>]
LineEvents == [line \in Texts |-> CompletionLine(line)]
GroupEvents == [group \in Seq(Texts) |-> AnthropicEvent(DataLines(group))]

\* The data lines of lines are gathered line by line.
LEMMA DataLinesAreData ==
  /\ Gives(DataOf, Texts, DataTexts)
  /\ \A lines \in Seq(Texts) : /\ DataLines(lines) = Bind(DataOf, lines)
                              /\ DataLines(lines) \in Seq(DataTexts)
<1>1. Gives(DataOf, Texts, DataTexts)
  <2>1. \A line \in Texts : IsData(line) => <<line>> \in Seq(DataTexts)
    BY SingletonIsTyped DEF DataTexts
  <2>. QED
    BY <2>1, EmptySeq DEF Gives, DataOf
<1>2. ASSUME NEW lines \in Seq(Texts)
      PROVE  DataLines(lines) = Bind(DataOf, lines)
  <2>1. \A i \in DOMAIN lines : lines[i] \in Texts
    BY LenProperties
  <2>2. [i \in DOMAIN lines |-> IF IsData(lines[i]) THEN <<lines[i]>> ELSE <<>>]
          = [i \in DOMAIN lines |-> DataOf[lines[i]]]
    BY <2>1 DEF DataOf
  <2>. QED
    BY <2>2 DEF DataLines, Each, Bind
<1>3. ASSUME NEW lines \in Seq(Texts)
      PROVE  DataLines(lines) \in Seq(DataTexts)
  BY <1>1, <1>2, BindIsTyped
<1>. QED
  BY <1>1, <1>2, <1>3

\* Data lines that are alike give an event that is alike.
LEMMA AnthropicEventsAreAlike ==
  ASSUME NEW q \in Seq(DataTexts), NEW r \in Seq(DataTexts), Matches(SameEvents, q, r)
  PROVE  /\ AnthropicEvent(q) \in Seq(Told) /\ AnthropicEvent(r) \in Seq(Told)
         /\ Matches(SameEvents, AnthropicEvent(q), AnthropicEvent(r))
<1>1. Len(q) = Len(r) /\ Len(q) \in Nat /\ (q = <<>> <=> Len(q) = 0) /\ (r = <<>> <=> Len(r) = 0)
  BY LenProperties, EmptySeq DEF Matches
<1>2. CASE Len(q) = 0
  <2>1. AnthropicEvent(q) = <<>> /\ AnthropicEvent(r) = <<>>
    BY <1>1, <1>2 DEF AnthropicEvent
  <2>2. Len(<<>>) = 0 /\ <<>> \in Seq(Told)
    BY EmptySeq
  <2>. QED
    BY <2>1, <2>2 DEF Matches
<1>3. CASE Len(q) = 1
  <2>1. 1 \in 1..Len(q) /\ 1 \in 1..Len(r)
    BY <1>1, <1>3
  <2>2. q[1] \in DataTexts /\ r[1] \in DataTexts /\ <<q[1], r[1]>> \in SameEvents
    BY <2>1, ElementOfSeq DEF Matches
  <2>3. PICK a \in Texts, b \in Texts : a = q[1] /\ b = r[1] /\ IsData(a) /\ Alike(a, b)
    BY <2>2 DEF DataTexts, SameEvents
  <2>4. AnthropicEvent(q) = Event(Tail(a)) /\ AnthropicEvent(r) = Event(Tail(b))
    BY <1>1, <1>3, <2>3 DEF AnthropicEvent
  <2>. QED
    BY <2>3, <2>4, LinesAreAlike
<1>4. CASE Len(q) \notin {0, 1}
  <2>1. AnthropicEvent(q) = Event(<<"b">>) /\ AnthropicEvent(r) = Event(<<"b">>)
    BY <1>1, <1>4 DEF AnthropicEvent
  <2>2. PICK c \in Decoded : c = "b"
    BY DEF Decoded, Bytes
  <2>3. PICK a \in Texts : a = <<c>>
    BY SingletonIsTyped DEF Texts
  <2>4. Alike(a, a)
    BY TextsAreTold, AlikeIsReflexive
  <2>. QED
    BY <2>1, <2>2, <2>3, <2>4, EventsAreAlike
<1>. QED
  BY <1>2, <1>3, <1>4

\* Lines that are alike give events that are alike.
LEMMA CompletionLinesAreAlike ==
  ASSUME NEW q \in Texts, NEW r \in Texts, Alike(q, r)
  PROVE  /\ CompletionLine(q) \in Seq(Told) /\ CompletionLine(r) \in Seq(Told)
         /\ Matches(SameEvents, CompletionLine(q), CompletionLine(r))
<1>1. CASE IsData(q)
  BY <1>1, LinesAreAlike DEF CompletionLine
<1>2. CASE ~IsData(q)
  <2>1. ~IsData(r)
    BY <1>2, LinesAreAlike
  <2>2. CompletionLine(q) = <<>> /\ CompletionLine(r) = <<>>
    BY <1>2, <2>1 DEF CompletionLine
  <2>3. Len(<<>>) = 0 /\ <<>> \in Seq(Told)
    BY EmptySeq
  <2>. QED
    BY <2>2, <2>3 DEF Matches
<1>. QED
  BY <1>1, <1>2

LEMMA SequencesMatchThemselves ==
  ASSUME NEW q \in Seq(Told)
  PROVE  Matches(SameEvents, q, q)
BY AlikeIsReflexive, ElementOfSeq DEF Matches

LEMMA EventsAreGiven ==
  Gives(LineEvents, Texts, Told) /\ Gives(GroupEvents, Seq(Texts), Told)
<1>1. \A line \in Texts : CompletionLine(line) \in Seq(Told)
  BY TextsAreTold, AlikeIsReflexive, CompletionLinesAreAlike
<1>2. \A group \in Seq(Texts) : AnthropicEvent(DataLines(group)) \in Seq(Told)
  <2>. SUFFICES ASSUME NEW group \in Seq(Texts)
                PROVE  AnthropicEvent(DataLines(group)) \in Seq(Told)
    OBVIOUS
  <2>1. PICK q \in Seq(DataTexts) : q = DataLines(group)
    BY DataLinesAreData
  <2>2. DataTexts \subseteq Told
    BY TextsAreTold DEF DataTexts
  <2>3. q \in Seq(Told)
    BY <2>2, SeqMonotonic
  <2>4. Matches(SameEvents, q, q)
    BY <2>3, SequencesMatchThemselves
  <2>. QED
    BY <2>1, <2>4, AnthropicEventsAreAlike
<1>. QED
  BY <1>1, <1>2 DEF Gives, LineEvents, GroupEvents

\* Pieces are made of the elements they are cut from.
LEMMA CutIsTyped ==
  ASSUME NEW S, NEW seq \in Seq(S), NEW sep
  PROVE  Terminated(seq, sep) \in Seq(Seq(S)) /\ Unterminated(seq, sep) \in Seq(S)
<1>1. CASE seq = <<>>
  BY <1>1, CutNothing, EmptySeq
<1>2. CASE seq # <<>>
  <2>1. PICK x \in S : TRUE
    BY <1>2, SequenceEmptyOrAppend
  <2>. QED
    BY <2>1, CutAppends
<1>. QED
  BY <1>1, <1>2

\* The events of whole lines, the data lines of an event that is not over,
\* and what one line more adds to the events.
EventsOf(caller, lines) ==
  IF caller = "anthropic" THEN Bind(GroupEvents, Terminated(lines, <<>>)) ELSE Bind(LineEvents, lines)
OpenLines(lines) == DataLines(Unterminated(lines, <<>>))
LastEvents(caller, lines) ==
  IF caller = "anthropic" THEN AnthropicEvent(OpenLines(lines)) ELSE <<>>
Adds(caller, lines, line) ==
  IF caller # "anthropic" THEN CompletionLine(line)
  ELSE IF line = <<>> THEN AnthropicEvent(OpenLines(lines)) ELSE <<>>

\* The events of lines grow with every line, by what that line adds.
LEMMA LinesAddEvents ==
  ASSUME NEW caller, NEW lines \in Seq(Texts), NEW line \in Texts
  PROVE  /\ EventsOf(caller, lines) \in Seq(Told)
         /\ Adds(caller, lines, line) \in Seq(Told)
         /\ LastEvents(caller, lines) \in Seq(Told)
         /\ EventsOf(caller, Append(lines, line)) = EventsOf(caller, lines) \o Adds(caller, lines, line)
         /\ OpenLines(lines) \in Seq(DataTexts)
         /\ OpenLines(Append(lines, line)) = IF line = <<>> THEN <<>>
                                             ELSE OpenLines(lines) \o DataOf[line]
<1>. DEFINE groups == Terminated(lines, <<>>)
            open == Unterminated(lines, <<>>)
<1>1. groups \in Seq(Seq(Texts)) /\ open \in Seq(Texts)
  BY CutIsTyped
<1>2. /\ Terminated(Append(lines, line), <<>>) = IF line = <<>> THEN Append(groups, open) ELSE groups
      /\ Unterminated(Append(lines, line), <<>>) = IF line = <<>> THEN <<>> ELSE Append(open, line)
  BY CutAppends
<1>. HIDE DEF groups, open
<1>3. GroupEvents[open] = AnthropicEvent(DataLines(open)) /\ LineEvents[line] = CompletionLine(line)
  BY <1>1 DEF GroupEvents, LineEvents
<1>4. OpenLines(lines) = DataLines(open) /\ DataLines(open) \in Seq(DataTexts)
  BY <1>1, DataLinesAreData DEF OpenLines, open
<1>5. /\ Bind(GroupEvents, groups) \in Seq(Told)
      /\ Bind(GroupEvents, Append(groups, open)) = Bind(GroupEvents, groups) \o GroupEvents[open]
      /\ GroupEvents[open] \in Seq(Told)
  <2>1. Gives(GroupEvents, Seq(Texts), Told)
    BY EventsAreGiven
  <2>2. GroupEvents[open] \in Seq(Told)
    BY <1>1, <2>1 DEF Gives
  <2>3. /\ Bind(GroupEvents, groups) \in Seq(Told)
        /\ Bind(GroupEvents, Append(groups, open)) = Bind(GroupEvents, groups) \o GroupEvents[open]
    BY <1>1, <2>1, BindAppends
  <2>. QED
    BY <2>2, <2>3
<1>6. /\ Bind(LineEvents, lines) \in Seq(Told)
      /\ Bind(LineEvents, Append(lines, line)) = Bind(LineEvents, lines) \o LineEvents[line]
      /\ LineEvents[line] \in Seq(Told)
  <2>1. Gives(LineEvents, Texts, Told)
    BY EventsAreGiven
  <2>2. LineEvents[line] \in Seq(Told)
    BY <2>1 DEF Gives
  <2>3. /\ Bind(LineEvents, lines) \in Seq(Told)
        /\ Bind(LineEvents, Append(lines, line)) = Bind(LineEvents, lines) \o LineEvents[line]
    BY <2>1, BindAppends
  <2>. QED
    BY <2>2, <2>3
<1>7. <<>> \in Seq(Told) /\ Bind(GroupEvents, groups) \o <<>> = Bind(GroupEvents, groups)
  BY <1>5, EmptySeq, ConcatEmptySeq
<1>8. EventsOf(caller, lines) \in Seq(Told) /\ Adds(caller, lines, line) \in Seq(Told)
      /\ LastEvents(caller, lines) \in Seq(Told)
  BY <1>3, <1>4, <1>5, <1>6, <1>7 DEF EventsOf, Adds, LastEvents, groups
<1>9. EventsOf(caller, Append(lines, line)) = EventsOf(caller, lines) \o Adds(caller, lines, line)
  <2>1. CASE caller # "anthropic"
    BY <1>3, <1>6, <2>1 DEF EventsOf, Adds
  <2>2. CASE caller = "anthropic" /\ line = <<>>
    BY <1>2, <1>3, <1>4, <1>5, <2>2 DEF EventsOf, Adds, groups
  <2>3. CASE caller = "anthropic" /\ line # <<>>
    BY <1>2, <1>7, <2>3 DEF EventsOf, Adds, groups
  <2>. QED
    BY <2>1, <2>2, <2>3
<1>10. OpenLines(Append(lines, line)) = IF line = <<>> THEN <<>> ELSE OpenLines(lines) \o DataOf[line]
  <2>1. CASE line = <<>>
    <3>1. DataLines(<<>>) = <<>>
      BY EmptySeq, DataLinesAreData, BindOfNothing
    <3>. QED
      BY <1>2, <2>1, <3>1 DEF OpenLines
  <2>2. CASE line # <<>>
    <3>1. Append(open, line) \in Seq(Texts)
      BY <1>1, AppendProperties
    <3>2. DataLines(Append(open, line)) = Bind(DataOf, Append(open, line))
          /\ DataLines(open) = Bind(DataOf, open)
      BY <1>1, <3>1, DataLinesAreData
    <3>3. Bind(DataOf, Append(open, line)) = Bind(DataOf, open) \o DataOf[line]
      BY <1>1, DataLinesAreData, BindAppends
    <3>. QED
      BY <1>2, <1>4, <2>2, <3>2, <3>3 DEF OpenLines
  <2>. QED
    BY <2>1, <2>2
<1>. QED
  BY <1>4, <1>8, <1>9, <1>10

\* What a body says is the events of its lines, and what its end adds.
LEMMA BodiesSayTheirLines ==
  ASSUME NEW caller, NEW bytes \in Texts
  PROVE  /\ LinesOf(bytes) \in Seq(Texts)
         /\ (IF caller = "anthropic" THEN AnthropicEvents(bytes) ELSE CompletionEvents(bytes))
              = EventsOf(caller, LinesOf(bytes)) \o LastEvents(caller, LinesOf(bytes))
<1>1. LinesOf(bytes) \in Seq(Texts)
  BY CutIsTyped DEF LinesOf, Texts
<1>2. PICK lines \in Seq(Texts) : lines = LinesOf(bytes)
  BY <1>1
<1>. DEFINE groups == Terminated(lines, <<>>)
            open == Unterminated(lines, <<>>)
<1>3. groups \in Seq(Seq(Texts)) /\ open \in Seq(Texts) /\ Append(groups, open) \in Seq(Seq(Texts))
  <2>1. groups \in Seq(Seq(Texts)) /\ open \in Seq(Texts)
    BY CutIsTyped
  <2>. QED
    BY <2>1, AppendProperties
<1>4. AnthropicEvents(bytes) = Bind(GroupEvents, Append(groups, open))
  <2>. DEFINE all == Append(groups, open)
  <2>1. \A i \in DOMAIN all : all[i] \in Seq(Texts)
    <3>. HIDE DEF all
    <3>1. all \in Seq(Seq(Texts))
      BY <1>3 DEF all
    <3>. QED
      BY <3>1, LenProperties, ElementOfSeq
  <2>2. AnthropicEvents(bytes) = FlattenSeq([i \in DOMAIN all |-> AnthropicEvent(DataLines(all[i]))])
    BY <1>2 DEF AnthropicEvents, Each
  <2>. HIDE DEF all
  <2>3. [i \in DOMAIN all |-> AnthropicEvent(DataLines(all[i]))]
          = [i \in DOMAIN all |-> GroupEvents[all[i]]]
    BY <2>1 DEF GroupEvents
  <2>4. AnthropicEvents(bytes) = Bind(GroupEvents, all)
    BY <2>2, <2>3 DEF Bind
  <2>. QED
    BY <2>4 DEF all
<1>5. CompletionEvents(bytes) = Bind(LineEvents, lines)
  <2>1. \A i \in DOMAIN lines : lines[i] \in Texts
    BY LenProperties, ElementOfSeq
  <2>2. [i \in DOMAIN lines |-> CompletionLine(lines[i])] = [i \in DOMAIN lines |-> LineEvents[lines[i]]]
    BY <2>1 DEF LineEvents
  <2>. QED
    BY <1>2, <2>2 DEF CompletionEvents, Each, Bind
<1>6. Bind(GroupEvents, Append(groups, open)) = Bind(GroupEvents, groups) \o GroupEvents[open]
  <2>. HIDE DEF groups, open
  <2>. QED
    BY <1>3, EventsAreGiven, BindAppends
<1>7. GroupEvents[open] = LastEvents("anthropic", lines)
  BY <1>3 DEF GroupEvents, LastEvents, OpenLines
<1>8. Bind(LineEvents, lines) \o <<>> = Bind(LineEvents, lines)
  <2>1. Bind(LineEvents, lines) \in Seq(Told)
    BY EventsAreGiven, BindIsTyped
  <2>. QED
    BY <2>1, ConcatEmptySeq
<1>. QED
  BY <1>1, <1>2, <1>4, <1>5, <1>6, <1>7, <1>8 DEF EventsOf, LastEvents

\* Bytes that follow never change the events of the lines before them.
LEMMA EventsGrow ==
  ASSUME NEW caller, NEW bytes \in Texts, NEW ahead \in Texts
  PROVE  StartsWith(Told, EventsOf(caller, LinesOf(bytes \o ahead)), EventsOf(caller, LinesOf(bytes)))
<1>. DEFINE Q == {u \in Texts : StartsWith(Told, EventsOf(caller, LinesOf(bytes \o u)),
                                         EventsOf(caller, LinesOf(bytes)))}
<1>1. EventsOf(caller, LinesOf(bytes)) \in Seq(Told)
  <2>1. LinesOf(bytes) \in Seq(Texts) /\ <<>> \in Texts
    BY BodiesSayTheirLines, EmptySeq DEF Texts
  <2>. QED
    BY <2>1, LinesAddEvents
<1>2. <<>> \in Q
  <2>1. bytes \o <<>> = bytes /\ <<>> \in Texts
    BY ConcatEmptySeq, EmptySeq DEF Texts
  <2>2. EventsOf(caller, LinesOf(bytes)) = EventsOf(caller, LinesOf(bytes)) \o <<>>
        /\ <<>> \in Seq(Told)
    BY <1>1, ConcatEmptySeq, EmptySeq
  <2>. QED
    BY <2>1, <2>2 DEF StartsWith
<1>3. ASSUME NEW u \in Q, NEW x \in Decoded
      PROVE  Append(u, x) \in Q
  <2>1. u \in Texts /\ Append(u, x) \in Texts
    BY AppendProperties DEF Texts
  <2>2. PICK v \in Texts : v = bytes \o u
    BY <2>1, ConcatProperties DEF Texts
  <2>3. bytes \o Append(u, x) = Append(v, x)
    BY <2>1, <2>2 DEF Texts
  <2>4. PICK lines \in Seq(Texts), line \in Texts : lines = LinesOf(v) /\ line = Unterminated(v, "n")
    BY CutIsTyped DEF LinesOf, Texts
  <2>5. LinesOf(Append(v, x)) = IF x = "n" THEN Append(lines, line) ELSE lines
    BY <2>4, CutAppends DEF LinesOf, Texts
  <2>6. StartsWith(Told, EventsOf(caller, lines), EventsOf(caller, LinesOf(bytes)))
    BY <2>2, <2>4
  <2>7. StartsWith(Told, EventsOf(caller, Append(lines, line)), EventsOf(caller, LinesOf(bytes)))
    <3>0. EventsOf(caller, lines) \in Seq(Told) /\ Adds(caller, lines, line) \in Seq(Told)
      BY LinesAddEvents
    <3>1. PICK old \in Seq(Told), more \in Seq(Told), now \in Seq(Told) :
            /\ old = EventsOf(caller, LinesOf(bytes)) /\ more = Adds(caller, lines, line)
            /\ now = EventsOf(caller, lines)
      BY <1>1, <3>0
    <3>2. EventsOf(caller, Append(lines, line)) = now \o more
      BY <3>1, LinesAddEvents
    <3>3. StartsWith(Told, now, old)
      BY <2>6, <3>1
    <3>4. StartsWith(Told, now \o more, old)
      BY <3>3, PrefixesChain
    <3>. QED
      BY <3>1, <3>2, <3>4
  <2>. QED
    BY <2>1, <2>3, <2>5, <2>6, <2>7
<1>4. Q = Seq(Decoded)
  <2>1. Q \in SUBSET Seq(Decoded)
    BY DEF Texts
  <2>. HIDE DEF Q
  <2>. QED
    BY <1>2, <1>3, <2>1, SequencesAreAppended
<1>. QED
  BY <1>4 DEF Texts

-----------------------------------------------------------------------------
(* What the receiver has of a body                                         *)

\* The events g are the first ones of e, but for damaged characters.
Follows(g, e) == Len(g) <= Len(e) /\ \A i \in 1..Len(g) : Alike(g[i], e[i])

LEMMA MatchesFollow ==
  ASSUME NEW g \in Seq(Told), NEW f \in Seq(Told), NEW e, Matches(SameEvents, g, f),
         StartsWith(Told, e, f)
  PROVE  Follows(g, e)
<1>1. Len(f) <= Len(e) /\ \A i \in 1..Len(f) : e[i] = f[i]
  BY PrefixesAgree
<1>2. Len(g) = Len(f) /\ \A i \in 1..Len(g) : Alike(g[i], f[i])
  BY DEF Matches, SameEvents
<1>. QED
  BY <1>1, <1>2 DEF Follows

\* Without its last event it still does.
LEMMA FewerFollow ==
  ASSUME NEW g \in Seq(Told), NEW x \in Told, NEW e \in Seq(Told), Follows(Append(g, x), e)
  PROVE  Follows(g, e)
<1>1. /\ Len(g) \in Nat /\ Len(e) \in Nat /\ Len(Append(g, x)) = Len(g) + 1
      /\ \A i \in 1..Len(g) : Append(g, x)[i] = g[i]
  BY AppendProperties, LenProperties
<1>2. \A i \in 1..Len(g) : i \in 1..(Len(g) + 1)
  BY <1>1
<1>. QED
  BY <1>1, <1>2 DEF Follows

\* What goes through the channel: events of the body, or an error that ends it.
Items == Told \cup Ends
DeliveredOf == [item \in Items |-> IF item \in Ends THEN <<>> ELSE <<item>>]

\* An error that ends a stream is never taken for an event of its body.
LEMMA EndsAreNotTold == \A e \in Told : e \notin Ends
<1>. SUFFICES ASSUME NEW e \in Told, e \in Ends PROVE FALSE
  OBVIOUS
<1>1. Len(e) \in Nat /\ \A i \in 1..Len(e) : e[i] \in Chars
  BY LenProperties, ElementOfSeq DEF Told
<1>2. Len(e) >= 1 /\ e[1] \in {"Network", "Internal", "Status"}
  BY DEF Ends
<1>3. e[1] \in Chars
  BY <1>1, <1>2
<1>. QED
  BY <1>2, <1>3 DEF Chars, Decoded, Bytes

LEMMA ToldIsDelivered ==
  /\ Gives(DeliveredOf, Items, Items)
  /\ \A g \in Seq(Told) : Bind(DeliveredOf, g) = g
<1>1. Gives(DeliveredOf, Items, Items)
  <2>1. \A item \in Items : <<item>> \in Seq(Items)
    BY SingletonIsTyped
  <2>. QED
    BY <2>1, EmptySeq DEF Gives, DeliveredOf
<1>5. ASSUME NEW q \in Seq(Items), NEW x \in Items
      PROVE  Bind(DeliveredOf, Append(q, x)) = Bind(DeliveredOf, q) \o DeliveredOf[x]
  BY <1>1, BindAppends
<1>. DEFINE Q == {g \in Seq(Told) : Bind(DeliveredOf, g) = g}
<1>2. <<>> \in Q
  BY BindOfNothing, EmptySeq
<1>3. ASSUME NEW g \in Q, NEW x \in Told
      PROVE  Append(g, x) \in Q
  <2>1. g \in Seq(Told) /\ Append(g, x) \in Seq(Told) /\ x \in Items /\ Append(g, x) = g \o <<x>>
    BY AppendProperties, AppendIsConcat DEF Items
  <2>2. g \in Seq(Items)
    <3>1. Told \subseteq Items
      BY DEF Items
    <3>. QED
      BY <2>1, <3>1, SeqMonotonic
  <2>3. DeliveredOf[x] = <<x>>
    BY <2>1, EndsAreNotTold DEF DeliveredOf
  <2>4. Bind(DeliveredOf, Append(g, x)) = Bind(DeliveredOf, g) \o DeliveredOf[x]
    BY <1>5, <2>1, <2>2
  <2>5. Bind(DeliveredOf, g) = g
    OBVIOUS
  <2>. QED
    BY <2>1, <2>3, <2>4, <2>5
<1>4. Q = Seq(Told)
  <2>1. Q \in SUBSET Seq(Told)
    OBVIOUS
  <2>. HIDE DEF Q
  <2>. QED
    BY <1>2, <1>3, <2>1, SequencesAreAppended
<1>. QED
  BY <1>1, <1>4

\* Without the error at its end, what was sent are the events.
LEMMA DeliveredIsTold ==
  ASSUME NEW g \in Seq(Told), Emitted = g \/ \E e \in Ends : Emitted = Append(g, e)
  PROVE  Delivered = g
<1>1. g \in Seq(Items)
  <2>1. Told \subseteq Items
    BY DEF Items
  <2>. QED
    BY <2>1, SeqMonotonic
<1>2. ASSUME NEW q \in Seq(Items), Emitted = q
      PROVE  Delivered = Bind(DeliveredOf, q)
  <2>1. \A i \in DOMAIN q : q[i] \in Items
    BY LenProperties, ElementOfSeq
  <2>2. [i \in DOMAIN q |-> IF q[i] \in Ends THEN <<>> ELSE <<q[i]>>]
          = [i \in DOMAIN q |-> DeliveredOf[q[i]]]
    BY <2>1 DEF DeliveredOf
  <2>. QED
    BY <1>2, <2>2 DEF Delivered, Each, Bind
<1>3. CASE Emitted = g
  BY <1>1, <1>2, <1>3, ToldIsDelivered
<1>4. CASE \E e \in Ends : Emitted = Append(g, e)
  <2>1. PICK e \in Ends : Emitted = Append(g, e)
    BY <1>4
  <2>2. PICK x \in Items : x = e
    BY DEF Items
  <2>3. Append(g, x) \in Seq(Items)
    BY <1>1, AppendProperties
  <2>4. Delivered = Bind(DeliveredOf, Append(g, x))
    BY <1>2, <2>1, <2>2, <2>3
  <2>5. Bind(DeliveredOf, Append(g, x)) = Bind(DeliveredOf, g) \o DeliveredOf[x]
    BY ONLY <1>1, ToldIsDelivered, BindAppends, x \in Items
  <2>6. DeliveredOf[x] = <<>> /\ Bind(DeliveredOf, g) = g /\ g \o <<>> = g
    BY <1>1, <2>2, ToldIsDelivered, ConcatEmptySeq DEF DeliveredOf
  <2>. QED
    BY <2>4, <2>5, <2>6
<1>. QED
  BY <1>3, <1>4

-----------------------------------------------------------------------------
(* The invariant of a stream                                               *)

\* Whatever a service may send.
AllBodies == AnthropicStreams \cup CompletionStreams

\* All a body says.
DueOf(caller, bytes) == EventsOf(caller, LinesOf(bytes)) \o LastEvents(caller, LinesOf(bytes))

\* Whole lines were read, then what the buffer holds arrived, the rest is ahead.
IsRead(past, held, ahead) ==
  /\ stream = (past \o held) \o ahead /\ heard = Len(past) + Len(held)
  /\ Alike(buffer, held) /\ Unterminated(past, "n") = <<>>
  /\ Matches(SameEvents, Emitted, EventsOf(provider, LinesOf(past)))
  /\ provider = "anthropic" => Matches(SameEvents, eventLines, OpenLines(LinesOf(past)))

\* The events are g, or g and one error; without an error nothing is missing.
IsHeard(g) ==
  /\ Follows(g, DueOf(provider, stream))
  /\ \/ /\ Emitted = g
        /\ attended /\ result = NoResult => stream \in AllBodies /\ Len(g) = Len(DueOf(provider, stream))
     \/ \E e \in Ends : Emitted = Append(g, e)

\* Nothing is heard before a body is read.
FreshInv ==
  doing \in {"idle", "chat", "connecting"} =>
    /\ buffer = <<>> /\ eventLines = <<>> /\ heard = 0
    /\ pending = <<>> /\ channel = <<>> /\ received = <<>>

\* While it is read, the body is in three parts.
StreamingInv ==
  doing = "streaming" =>
    /\ stream \in AllBodies /\ Emitted \in Seq(Told) /\ eventLines \in Seq(DataTexts)
    /\ \E past, held, ahead \in Seq(Bytes) : IsRead(past, held, ahead)

\* When the task is over, what it said is of the body.
OverInv == doing = "over" => \E g \in Seq(Told) : IsHeard(g)

\* The inductive invariant of a stream.
FaithInv ==
  /\ ProviderTypes
  /\ received \in Seq(Items) /\ channel \in Seq(Items) /\ pending \in Seq(Items)
  /\ FreshInv /\ StreamingInv /\ OverInv

LEMMA DueIsTyped ==
  ASSUME NEW caller, NEW bytes \in Seq(Bytes)
  PROVE  DueOf(caller, bytes) \in Seq(Told) /\ Follows(<<>>, DueOf(caller, bytes))
<1>1. bytes \in Texts /\ <<>> \in Texts
  BY TextsAreTold, EmptySeq DEF Texts
<1>2. LinesOf(bytes) \in Seq(Texts)
  BY <1>1, BodiesSayTheirLines
<1>3. EventsOf(caller, LinesOf(bytes)) \in Seq(Told) /\ LastEvents(caller, LinesOf(bytes)) \in Seq(Told)
  BY <1>1, <1>2, LinesAddEvents
<1>4. PICK due \in Seq(Told) : due = DueOf(caller, bytes)
  BY <1>3, ConcatProperties DEF DueOf
<1>5. Len(<<>>) = 0 /\ Len(due) \in Nat
  BY LenProperties
<1>. QED
  BY <1>4, <1>5 DEF Follows

LEMMA EmptyEmitted ==
  <<>> \o <<>> \o <<>> = <<>> /\ \A e : <<>> \o <<>> \o <<e>> = Append(<<>>, e)
<1>1. <<>> \o <<>> = <<>>
  BY EmptySeq, ConcatEmptySeq
<1>2. ASSUME NEW e PROVE <<>> \o <<e>> = Append(<<>>, e)
  <2>1. <<>> \in Seq({e}) /\ e \in {e}
    BY EmptySeq
  <2>. QED
    BY <2>1, AppendIsConcat
<1>. QED
  BY <1>1, <1>2

LEMMA FaithInvInit == ProviderInit => FaithInv
<1>. SUFFICES ASSUME ProviderInit PROVE FaithInv
  OBVIOUS
<1>1. ProviderTypes
  BY TypesInit
<1>. QED
  BY <1>1, EmptySeq DEF ProviderInit, FaithInv, FreshInv, StreamingInv, OverInv

\* Before a body arrives nothing is said, and a call that ends there says so.
LEMMA CallsKeepStreams ==
  ASSUME FaithInv, ProviderTypes', NEW operation \in Operations, NEW sent, NEW header,
         Start(operation, sent, header)
  PROVE  FaithInv'
<1>1. doing = "idle" /\ doing' \in {"chat", "connecting"} /\ UNCHANGED streamVars
  BY DEF Start, Operations
<1>. QED
  BY <1>1 DEF FaithInv, FreshInv, StreamingInv, OverInv, streamVars

\* An error without a body ends the stream and nothing is said.
LEMMA EarlyEndsKeepStreams ==
  ASSUME FaithInv, ProviderTypes', doing \in {"idle", "chat", "connecting"}, doing' = "over",
         UNCHANGED <<channel, received>>,
         \/ pending' = <<>> /\ result' # NoResult
         \/ \E e \in Ends : pending' = <<e>>
  PROVE  FaithInv'
<1>1. received' = <<>> /\ channel' = <<>>
  BY DEF FaithInv, FreshInv
<1>2. pending' \in Seq(Items)
  <2>1. \A e \in Ends : e \in Items
    BY DEF Items
  <2>. QED
    BY <2>1, EmptySeq, SingletonIsTyped
<1>3. PICK none \in Seq(Told) : none = <<>>
  BY EmptySeq
<1>4. Follows(none, DueOf(provider', stream'))
  BY <1>3, DueIsTyped DEF ProviderTypes
<1>5. \/ Emitted' = <<>> /\ result' # NoResult
      \/ \E e \in Ends : Emitted' = Append(<<>>, e)
  BY <1>1, EmptyEmitted DEF Emitted
<1>6. IsHeard(none)'
  BY <1>3, <1>4, <1>5 DEF IsHeard
<1>. QED
  BY <1>1, <1>2, <1>6, EmptySeq DEF FaithInv, FreshInv, StreamingInv, OverInv

LEMMA OutcomesAreResults ==
  ASSUME NEW body
  PROVE  /\ AnthropicResponse(body).error # "pending"
         /\ CompletionResponse(body).error # "pending"
BY DEF AnthropicResponse, CompletionResponse, Failed, Reply

LEMMA ChatKeepsStreams ==
  ASSUME FaithInv, ProviderTypes', NEW outcomes, \A outcome \in outcomes : outcome.error # "pending",
         Chat(outcomes)
  PROVE  FaithInv'
<1>1. doing = "chat" /\ UNCHANGED streamVars /\ UNCHANGED callVars
  BY DEF Chat
<1>2. doing' = doing \/ (doing' = "over" /\ result'.error # "pending")
  BY DEF Chat, FailAttempt, Return, Failed
<1>3. CASE doing' = doing
  BY <1>1, <1>3 DEF FaithInv, FreshInv, StreamingInv, OverInv, streamVars
<1>4. CASE doing' = "over" /\ result'.error # "pending"
  <2>1. result' # NoResult
    BY <1>4 DEF NoResult
  <2>2. pending' = <<>> /\ UNCHANGED <<channel, received>>
    BY <1>1 DEF streamVars, FaithInv, FreshInv
  <2>. QED
    BY <1>1, <1>4, <2>1, <2>2, EarlyEndsKeepStreams
<1>. QED
  BY <1>2, <1>3, <1>4

LEMMA VerifyKeepsStreams ==
  ASSUME FaithInv, ProviderTypes', Verify
  PROVE  FaithInv'
<1>1. doing = "idle" /\ doing' = "over" /\ UNCHANGED streamVars
  BY DEF Verify
<1>2. result' # NoResult
  BY DEF Verify, Failed, NoResult
<1>3. pending' = <<>> /\ UNCHANGED <<channel, received>>
  BY <1>1 DEF streamVars, FaithInv, FreshInv
<1>. QED
  BY <1>1, <1>2, <1>3, EarlyEndsKeepStreams

\* Where nothing was read nothing is said.
LEMMA NothingIsRead ==
  ASSUME NEW caller
  PROVE  /\ Unterminated(<<>>, "n") = <<>>
         /\ EventsOf(caller, LinesOf(<<>>)) = <<>> /\ OpenLines(LinesOf(<<>>)) = <<>>
<1>1. LinesOf(<<>>) = <<>> /\ Unterminated(<<>>, "n") = <<>>
  BY CutNothing DEF LinesOf
<1>2. EventsOf(caller, <<>>) = <<>>
  BY CutNothing, BindOfNothing DEF EventsOf
<1>3. OpenLines(<<>>) = <<>>
  BY CutNothing, DataLinesAreData, BindOfNothing, EmptySeq DEF OpenLines
<1>. QED
  BY <1>1, <1>2, <1>3

\* A body that is about to be read is all ahead.
LEMMA ConnectKeepsStreams ==
  ASSUME FaithInv, ProviderTypes', NEW bodies, bodies \subseteq AllBodies, Connect(bodies)
  PROVE  FaithInv'
<1>1. /\ doing = "connecting" /\ UNCHANGED callVars
      /\ UNCHANGED <<result, heard, buffer, eventLines, channel, received, attended>>
  BY DEF Connect
<1>2. /\ buffer = <<>> /\ eventLines = <<>> /\ heard = 0
      /\ pending = <<>> /\ channel = <<>> /\ received = <<>>
  BY <1>1 DEF FaithInv, FreshInv
<1>3. \/ \E e \in Ends : pending' = <<e>> /\ doing' = "over"
      \/ doing' = "connecting" /\ pending' = <<>>
      \/ stream' \in bodies /\ doing' = "streaming" /\ pending' = <<>>
  BY <1>1, <1>2 DEF Connect, EndWith, RetryConnect, Ends
<1>4. CASE \E e \in Ends : pending' = <<e>> /\ doing' = "over"
  BY <1>1, <1>4, EarlyEndsKeepStreams
<1>5. CASE doing' = "connecting" /\ pending' = <<>>
  BY <1>1, <1>2, <1>5, EmptySeq DEF FaithInv, FreshInv, StreamingInv, OverInv
<1>6. CASE stream' \in bodies /\ doing' = "streaming" /\ pending' = <<>>
  <2>1. PICK none \in Seq(Bytes) : none = <<>>
    BY EmptySeq
  <2>2. PICK body \in Seq(Bytes) : body = stream' /\ body \in AllBodies
    BY <1>6 DEF ProviderTypes
  <2>3. Emitted' = <<>>
    BY <1>1, <1>2, <1>6, EmptyEmitted DEF Emitted
  <2>4. stream' = (none \o none) \o body
    <3>1. none \o none = none /\ none \o body = body
      BY <2>1, <2>2, ConcatEmptySeq
    <3>. QED
      BY <2>2, <3>1
  <2>5. Len(none) = 0 /\ heard' = 0 /\ Alike(buffer', none)
    BY <1>1, <1>2, <2>1 DEF Alike
  <2>6. /\ Matches(SameEvents, Emitted', EventsOf(provider', LinesOf(none)))
        /\ Matches(SameEvents, eventLines', OpenLines(LinesOf(none)))
    <3>1. Matches(SameEvents, <<>>, <<>>)
      BY <2>1, <2>5 DEF Matches
    <3>. QED
      BY <1>1, <1>2, <2>1, <2>3, <3>1, NothingIsRead
  <2>7. IsRead(none, none, body)'
    BY <2>1, <2>4, <2>5, <2>6, NothingIsRead DEF IsRead
  <2>8. StreamingInv'
    <3>1. Emitted' \in Seq(Told) /\ eventLines' \in Seq(DataTexts)
      BY <1>1, <1>2, <2>3, EmptySeq
    <3>. QED
      BY <2>1, <2>2, <2>7, <3>1 DEF StreamingInv
  <2>. QED
    BY <1>1, <1>2, <1>6, <2>8, EmptySeq DEF FaithInv, FreshInv, OverInv
<1>. QED
  BY <1>3, <1>4, <1>5, <1>6

-----------------------------------------------------------------------------
(* Reading                                                                 *)

\* A sequence is cut at any position.
LEMMA SplitsAnywhere ==
  ASSUME NEW S, NEW s \in Seq(S), NEW k \in 0..Len(s)
  PROVE  /\ SubSeq(s, 1, k) \in Seq(S) /\ Len(SubSeq(s, 1, k)) = k
         /\ \A i \in 1..k : SubSeq(s, 1, k)[i] = s[i]
         /\ SubSeq(s, k + 1, Len(s)) \in Seq(S)
         /\ s = SubSeq(s, 1, k) \o SubSeq(s, k + 1, Len(s))
<1>1. PICK n \in Nat : n = Len(s)
  BY LenProperties
<1>2. /\ SubSeq(s, 1, k) \in Seq(S) /\ Len(SubSeq(s, 1, k)) = k
      /\ \A i \in 1..k : SubSeq(s, 1, k)[i] = s[i]
  <2>1. \A i \in 1..k : s[i] \in S
    BY <1>1, ElementOfSeq
  <2>. QED
    BY <1>1, <2>1, SubSeqProperties
<1>3. /\ SubSeq(s, k + 1, n) \in Seq(S) /\ Len(SubSeq(s, k + 1, n)) = n - k
      /\ \A i \in 1..(n - k) : SubSeq(s, k + 1, n)[i] = s[k + i]
  <2>1. PICK m \in 1..(n + 1) : m = k + 1
    BY <1>1
  <2>2. \A i \in m..n : s[i] \in S
    BY <1>1, ElementOfSeq
  <2>3. /\ SubSeq(s, m, n) \in Seq(S)
        /\ Len(SubSeq(s, m, n)) = IF m <= n THEN n - m + 1 ELSE 0
        /\ \A i \in 1..(n - m + 1) : SubSeq(s, m, n)[i] = s[m + i - 1]
    BY <1>1, <2>2, SubSeqProperties
  <2>4. (IF m <= n THEN n - m + 1 ELSE 0) = n - k /\ n - m + 1 = n - k
        /\ \A i \in Int : m + i - 1 = k + i
    BY <1>1, <2>1
  <2>5. Len(SubSeq(s, m, n)) = n - k /\ \A i \in 1..(n - k) : SubSeq(s, m, n)[i] = s[k + i]
    BY <2>3, <2>4
  <2>. QED
    BY <2>1, <2>3, <2>5
<1>4. PICK a \in Seq(S), b \in Seq(S) : a = SubSeq(s, 1, k) /\ b = SubSeq(s, k + 1, n)
  BY <1>2, <1>3
<1>5. /\ a \o b \in Seq(S) /\ Len(a \o b) = Len(a) + Len(b)
      /\ \A i \in 1..(Len(a) + Len(b)) : (a \o b)[i] = IF i <= Len(a) THEN a[i] ELSE b[i - Len(a)]
  BY ConcatProperties
<1>6. Len(a) = k /\ Len(b) = n - k /\ k \in Nat
  BY <1>1, <1>2, <1>3, <1>4
<1>7. \A i \in 1..n : (a \o b)[i] = s[i]
  <2>. SUFFICES ASSUME NEW i \in 1..n PROVE (a \o b)[i] = s[i]
    OBVIOUS
  <2>1. CASE i <= k
    <3>1. i \in 1..k /\ i \in 1..(k + (n - k))
      BY <1>6, <2>1
    <3>. QED
      BY <1>2, <1>4, <1>5, <1>6, <2>1, <3>1
  <2>2. CASE ~(i <= k)
    <3>1. i - k \in 1..(n - k) /\ i \in 1..(k + (n - k)) /\ k + (i - k) = i
      BY <1>6, <2>2
    <3>2. b[i - k] = s[k + (i - k)]
      BY <1>3, <1>4, <3>1
    <3>. QED
      BY <1>5, <1>6, <2>2, <3>1, <3>2
  <2>. QED
    BY <2>1, <2>2
<1>8. a \o b = s
  <2>1. Len(a \o b) = Len(s)
    BY <1>1, <1>5, <1>6
  <2>. QED
    BY <1>1, <1>5, <1>7, <2>1, SeqEqual
<1>. QED
  BY <1>1, <1>2, <1>3, <1>4, <1>8

LEMMA TheNextPart ==
  ASSUME NEW S, NEW b \in Seq(S), NEW s \in Seq(S), NEW k \in 1..Len(s)
  PROVE  SubSeq(b \o s, Len(b) + 1, Len(b) + k) = SubSeq(s, 1, k)
<1>1. PICK m \in Nat, n \in Nat, t \in Seq(S) : m = Len(b) /\ n = Len(s) /\ t = b \o s
  BY LenProperties, ConcatProperties
<1>2. Len(t) = m + n /\ \A i \in 1..k : t[m + i] = s[i]
  <2>1. /\ Len(t) = Len(b) + Len(s)
        /\ \A i \in 1..(Len(b) + Len(s)) : t[i] = IF i <= Len(b) THEN b[i] ELSE s[i - Len(b)]
    BY <1>1, ConcatProperties
  <2>2. \A i \in 1..k : m + i \in 1..(m + n) /\ ~(m + i <= m) /\ (m + i) - m = i
    BY <1>1
  <2>. QED
    BY <1>1, <2>1, <2>2
<1>3. /\ SubSeq(s, 1, k) \in Seq(S) /\ Len(SubSeq(s, 1, k)) = k
      /\ \A i \in 1..k : SubSeq(s, 1, k)[i] = s[i]
  <2>1. k \in 0..Len(s)
    BY <1>1
  <2>. QED
    BY <2>1, SplitsAnywhere
<1>4. PICK p \in 1..(m + n), q \in 1..(m + n) : p = m + 1 /\ q = m + k
  BY <1>1
<1>5. /\ SubSeq(t, p, q) \in Seq(S) /\ Len(SubSeq(t, p, q)) = k
      /\ \A i \in 1..k : SubSeq(t, p, q)[i] = t[m + i]
  <2>1. \A i \in p..q : t[i] \in S
    <3>1. \A i \in p..q : i \in 1..Len(t)
      BY <1>2
    <3>. QED
      BY <3>1, ElementOfSeq
  <2>2. /\ SubSeq(t, p, q) \in Seq(S)
        /\ Len(SubSeq(t, p, q)) = IF p <= q THEN q - p + 1 ELSE 0
        /\ \A i \in 1..(q - p + 1) : SubSeq(t, p, q)[i] = t[p + i - 1]
    BY <2>1, SubSeqProperties
  <2>3. p <= q /\ q - p + 1 = k /\ \A i \in 1..k : p + i - 1 = m + i
    BY <1>1, <1>4
  <2>. QED
    BY <2>2, <2>3
<1>6. PICK x \in Seq(S), y \in Seq(S) : x = SubSeq(t, p, q) /\ y = SubSeq(s, 1, k)
  BY <1>3, <1>5
<1>7. Len(x) = Len(y) /\ \A i \in 1..Len(x) : x[i] = y[i]
  BY <1>2, <1>3, <1>5, <1>6
<1>8. x = y
  BY <1>7, SeqEqual
<1>. QED
  BY <1>1, <1>4, <1>6, <1>8

\* What arrives next, put with what is held.
Splits(S, past, held, ahead, size, chunk, more, rest) ==
  /\ chunk \in Seq(S) /\ more \in Seq(S) /\ rest \in Seq(S)
  /\ chunk = SubSeq((past \o held) \o ahead, Len(past) + Len(held) + 1,
                    Len(past) + Len(held) + size)
  /\ more = held \o chunk /\ Len(more) = Len(held) + size
  /\ (past \o held) \o ahead = (past \o more) \o rest

LEMMA MoreIsHeld ==
  ASSUME NEW S, NEW past \in Seq(S), NEW held \in Seq(S), NEW ahead \in Seq(S),
         NEW size \in Nat \ {0},
         Len(past) + Len(held) + size <= Len((past \o held) \o ahead)
  PROVE  \E chunk, more, rest : Splits(S, past, held, ahead, size, chunk, more, rest)
<1>1. PICK before \in Seq(S) : before = past \o held /\ Len(before) = Len(past) + Len(held)
  BY ConcatProperties
<1>2. Len(before \o ahead) = Len(before) + Len(ahead) /\ Len(before) \in Nat /\ Len(ahead) \in Nat
      /\ Len(past) \in Nat /\ Len(held) \in Nat
  BY ConcatProperties, LenProperties
<1>3. size \in 1..Len(ahead) /\ size \in 0..Len(ahead)
  BY <1>1, <1>2
<1>4. PICK chunk \in Seq(S) : chunk = SubSeq(ahead, 1, size)
  BY ONLY ahead \in Seq(S), <1>3, SplitsAnywhere
<1>5. PICK rest \in Seq(S) : rest = SubSeq(ahead, size + 1, Len(ahead))
  BY ONLY ahead \in Seq(S), <1>3, SplitsAnywhere
<1>6. Len(chunk) = size /\ ahead = chunk \o rest
  <2>1. /\ Len(SubSeq(ahead, 1, size)) = size
        /\ ahead = SubSeq(ahead, 1, size) \o SubSeq(ahead, size + 1, Len(ahead))
    BY ONLY ahead \in Seq(S), <1>3, SplitsAnywhere
  <2>. QED
    BY ONLY <1>4, <1>5, <2>1
<1>7. SubSeq(before \o ahead, Len(before) + 1, Len(before) + size) = chunk
  BY ONLY before \in Seq(S), ahead \in Seq(S), <1>3, <1>4, TheNextPart
<1>8. held \o chunk \in Seq(S) /\ Len(held \o chunk) = Len(held) + Len(chunk)
  BY ONLY held \in Seq(S), chunk \in Seq(S), ConcatProperties
<1>9. PICK more \in Seq(S) : more = held \o chunk /\ Len(more) = Len(held) + size
  BY ONLY <1>6, <1>8
<1>10. before \o ahead = (past \o more) \o rest
  <2>1. (past \o held) \o chunk = past \o (held \o chunk)
    BY ONLY past \in Seq(S)
  <2>2. (before \o chunk) \o rest = before \o (chunk \o rest)
    BY ONLY before \in Seq(S)
  <2>. QED
    BY ONLY <1>1, <1>6, <1>9, <2>1, <2>2
<1>. QED
  BY ONLY <1>1, <1>7, <1>9, <1>10, chunk \in Seq(S), rest \in Seq(S) DEF Splits

\* What is alike part by part is alike in one.
LEMMA AlikeConcatenates ==
  ASSUME NEW a \in Told, NEW b \in Told, NEW c \in Told, NEW d \in Told, Alike(a, b), Alike(c, d)
  PROVE  Alike(a \o c, b \o d)
<1>1. Matches(SameChars, a, b) /\ Matches(SameChars, c, d)
  BY AlikeMatches
<1>2. a \o c \in Told /\ b \o d \in Told
  BY ConcatProperties DEF Told
<1>3. Matches(SameChars, a \o c, b \o d)
  BY <1>1, MatchesConcatenate DEF Told
<1>. QED
  BY <1>2, <1>3, AlikeMatches

\* A chunk moves bytes from ahead to the buffer, wherever it ends: nothing is said.
LEMMA ReadChunkKeepsStreams ==
  ASSUME FaithInv, ProviderTypes', ReadChunk
  PROVE  FaithInv'
<1>1. PICK size \in 1..Len(stream) : Chunk(size)
  BY DEF ReadChunk
<1>2. /\ doing = "streaming" /\ UNCHANGED callVars
      /\ UNCHANGED <<doing, attempt, result, stream, eventLines, pending, channel, received, attended>>
  BY DEF ReadChunk, Reading
<1>3. PICK past \in Seq(Bytes), held \in Seq(Bytes), ahead \in Seq(Bytes) : IsRead(past, held, ahead)
  BY <1>2 DEF FaithInv, StreamingInv
<1>4. stream = (past \o held) \o ahead /\ heard = Len(past) + Len(held)
  BY <1>3 DEF IsRead
<1>5. PICK chunk, more, rest : Splits(Bytes, past, held, ahead, size, chunk, more, rest)
  <2>1. size \in Nat \ {0} /\ Len(past) + Len(held) + size <= Len((past \o held) \o ahead)
    <3>1. heard + size <= Len(stream) /\ Len(stream) \in Nat
      BY <1>1, LenProperties DEF Chunk, FaithInv, ProviderTypes
    <3>. QED
      BY <1>1, <1>4, <3>1
  <2>. QED
    BY <2>1, MoreIsHeld
<1>6. /\ chunk \in Seq(Bytes) /\ more \in Seq(Bytes) /\ rest \in Seq(Bytes)
      /\ more = held \o chunk /\ Len(more) = Len(held) + size
      /\ stream = (past \o more) \o rest
  BY <1>4, <1>5 DEF Splits
<1>8. heard' = heard + size /\ buffer' = buffer \o Lossy(chunk)
  BY <1>1, <1>4, <1>5 DEF Chunk, Splits
<1>11. heard' = Len(past) + Len(more)
  <2>1. Len(past) \in Nat /\ Len(held) \in Nat
    BY LenProperties
  <2>. QED
    BY <1>4, <1>6, <1>8, <2>1
<1>12. Alike(buffer', more)
  <2>1. Alike(buffer, held) /\ Alike(Lossy(chunk), chunk)
    BY <1>3, <1>6, LossyIsAlike DEF IsRead
  <2>2. buffer \in Told /\ held \in Told /\ chunk \in Told
    BY <1>6, TextsAreTold DEF FaithInv, ProviderTypes, Texts
  <2>3. PICK decoded \in Told : decoded = Lossy(chunk)
    BY <1>6, LossyKeepsTheLength, TextsAreTold DEF Texts
  <2>. QED
    BY <1>6, <1>8, <2>1, <2>2, <2>3, AlikeConcatenates
<1>13. Emitted' = Emitted
  BY <1>2 DEF Emitted
<1>14. IsRead(past, more, rest)'
  <2>1. UNCHANGED <<stream, eventLines, provider>>
    BY <1>2 DEF callVars
  <2>. QED
    BY <1>3, <1>6, <1>11, <1>12, <1>13, <2>1 DEF IsRead
<1>15. StreamingInv'
  BY <1>2, <1>6, <1>13, <1>14 DEF FaithInv, StreamingInv
<1>. QED
  BY <1>2, <1>15 DEF FaithInv, FreshInv, OverInv

LEMMA SplitsAround ==
  ASSUME NEW S, NEW s \in Seq(S), NEW k \in 1..Len(s)
  PROVE  /\ SubSeq(s, 1, k - 1) \in Seq(S) /\ Len(SubSeq(s, 1, k - 1)) = k - 1
         /\ \A i \in 1..(k - 1) : SubSeq(s, 1, k - 1)[i] = s[i]
         /\ SubSeq(s, k + 1, Len(s)) \in Seq(S)
         /\ s = (SubSeq(s, 1, k - 1) \o <<s[k]>>) \o SubSeq(s, k + 1, Len(s))
<1>1. PICK n \in Nat, x \in S : n = Len(s) /\ x = s[k]
  BY LenProperties, ElementOfSeq
<1>2. /\ SubSeq(s, 1, k) \in Seq(S) /\ Len(SubSeq(s, 1, k)) = k
      /\ \A i \in 1..k : SubSeq(s, 1, k)[i] = s[i]
      /\ SubSeq(s, k + 1, Len(s)) \in Seq(S)
      /\ s = SubSeq(s, 1, k) \o SubSeq(s, k + 1, Len(s))
  <2>1. k \in 0..Len(s)
    BY <1>1
  <2>. QED
    BY ONLY s \in Seq(S), <2>1, SplitsAnywhere
<1>3. PICK m \in 0..n : m = k - 1
  BY <1>1
<1>4. /\ SubSeq(s, 1, m) \in Seq(S) /\ Len(SubSeq(s, 1, m)) = m
      /\ \A i \in 1..m : SubSeq(s, 1, m)[i] = s[i]
  BY ONLY s \in Seq(S), m \in 0..n, <1>1, SplitsAnywhere
<1>5. PICK p \in Seq(S), q \in Seq(S) : p = SubSeq(s, 1, m) /\ q = SubSeq(s, 1, k)
  BY <1>2, <1>4
<1>6. q = p \o <<x>>
  <2>1. /\ Append(p, x) \in Seq(S) /\ Len(Append(p, x)) = m + 1
        /\ (\A i \in 1..m : Append(p, x)[i] = p[i]) /\ Append(p, x)[m + 1] = x
    BY <1>4, <1>5, AppendProperties
  <2>2. m + 1 = k /\ \A i \in 1..k : i \in 1..m \/ i = m + 1
    BY <1>1, <1>3
  <2>3. Len(q) = k /\ \A i \in 1..k : q[i] = Append(p, x)[i]
    BY <1>1, <1>2, <1>4, <1>5, <2>1, <2>2
  <2>4. q = Append(p, x)
    BY <2>1, <2>2, <2>3, SeqEqual
  <2>. QED
    BY <2>4, AppendIsConcat
<1>. QED
  BY <1>1, <1>2, <1>3, <1>4, <1>5, <1>6

\* The first line of the buffer is that of the bytes it was decoded from.
LEMMA TheFirstLine ==
  ASSUME NEW held \in Seq(Bytes), buffer \in Texts, Alike(buffer, held), HasLine
  PROVE  \E line, rest \in Seq(Bytes) :
           /\ held = (line \o <<"n">>) \o rest
           /\ Line \in Texts /\ Alike(Line, line) /\ \A i \in 1..Len(line) : line[i] # "n"
           /\ Alike(SubSeq(buffer, FirstNewline + 1, Len(buffer)), rest)
<1>1. PICK n \in Nat : /\ Len(buffer) = n /\ Len(held) = n /\ DOMAIN buffer = 1..n
                      /\ \A i \in 1..n : buffer[i] = held[i]
                                         \/ (buffer[i] = "?" /\ held[i] \in {"w", "v"})
  BY LenProperties DEF Texts, Alike
<1>2. PICK k \in 1..n : k = FirstNewline /\ buffer[k] = "n" /\ "n" \notin Range(Line)
  BY <1>1, FirstNewlineIsInTheBuffer DEF Texts
<1>3. Line = SubSeq(buffer, 1, k - 1) /\ held[k] = "n"
  BY <1>1, <1>2 DEF Line
<1>4. buffer \in Told /\ held \in Told /\ Matches(SameChars, buffer, held)
  BY TextsAreTold, AlikeMatches
<1>5. /\ SubSeq(held, 1, k - 1) \in Seq(Bytes) /\ Len(SubSeq(held, 1, k - 1)) = k - 1
      /\ \A i \in 1..(k - 1) : SubSeq(held, 1, k - 1)[i] = held[i]
      /\ SubSeq(held, k + 1, n) \in Seq(Bytes)
      /\ held = (SubSeq(held, 1, k - 1) \o <<held[k]>>) \o SubSeq(held, k + 1, n)
  <2>1. k \in 1..Len(held)
    BY <1>1
  <2>2. /\ SubSeq(held, 1, k - 1) \in Seq(Bytes) /\ Len(SubSeq(held, 1, k - 1)) = k - 1
        /\ \A i \in 1..(k - 1) : SubSeq(held, 1, k - 1)[i] = held[i]
        /\ SubSeq(held, k + 1, Len(held)) \in Seq(Bytes)
        /\ held = (SubSeq(held, 1, k - 1) \o <<held[k]>>) \o SubSeq(held, k + 1, Len(held))
    BY ONLY held \in Seq(Bytes), <2>1, SplitsAround
  <2>. QED
    BY <1>1, <2>2
<1>6. /\ SubSeq(buffer, 1, k - 1) \in Texts /\ Len(SubSeq(buffer, 1, k - 1)) = k - 1
      /\ \A i \in 1..(k - 1) : SubSeq(buffer, 1, k - 1)[i] = buffer[i]
  <2>1. k \in 1..Len(buffer) /\ buffer \in Seq(Decoded)
    BY <1>1 DEF Texts
  <2>. QED
    BY ONLY <2>1, SplitsAround DEF Texts
<1>7. PICK line \in Seq(Bytes), rest \in Seq(Bytes) :
        line = SubSeq(held, 1, k - 1) /\ rest = SubSeq(held, k + 1, n)
  BY <1>5
<1>8. Alike(Line, line)
  <2>1. Len(Line) = Len(line) /\ DOMAIN Line = 1..(k - 1)
    BY <1>3, <1>5, <1>6, <1>7, LenProperties DEF Texts
  <2>2. \A i \in 1..(k - 1) : i \in 1..n /\ Line[i] = buffer[i] /\ line[i] = held[i]
    BY <1>3, <1>5, <1>6, <1>7
  <2>. QED
    BY <1>1, <2>1, <2>2 DEF Alike
<1>9. \A i \in 1..Len(line) : line[i] # "n"
  <2>1. DOMAIN Line = 1..Len(line)
    BY <1>3, <1>5, <1>6, <1>7, LenProperties DEF Texts
  <2>2. \A i \in 1..Len(line) : Line[i] # "n"
    BY <1>2, <2>1 DEF Range
  <2>3. \A i \in 1..Len(line) : Line[i] = line[i] \/ line[i] \in {"w", "v"}
    BY <1>8, <2>1 DEF Alike
  <2>. QED
    BY <2>2, <2>3
<1>10. Alike(SubSeq(buffer, k + 1, n), rest)
  <2>1. PICK m \in 1..(n + 1) : m = k + 1
    OBVIOUS
  <2>2. /\ Matches(SameChars, SubSeq(buffer, m, n), SubSeq(held, m, n))
        /\ SubSeq(buffer, m, n) \in Told /\ SubSeq(held, m, n) \in Told
    <3>1. m \in 1..(Len(buffer) + 1) /\ n \in 0..Len(buffer)
      BY <1>1
    <3>. QED
      BY <1>4, <3>1, PartsMatch DEF Told
  <2>3. PICK a \in Told, b \in Told : a = SubSeq(buffer, m, n) /\ b = SubSeq(held, m, n)
    BY <2>2
  <2>4. Alike(a, b)
    BY <2>2, <2>3, AlikeMatches
  <2>. QED
    BY <1>7, <2>1, <2>3, <2>4
<1>. QED
  BY <1>1, <1>2, <1>3, <1>5, <1>6, <1>7, <1>8, <1>9, <1>10

\* What a line that is taken adds, as events and to the event that is open.
IsTaken(past, line, rest, ahead) ==
  /\ past \in Seq(Bytes) /\ line \in Seq(Bytes) /\ rest \in Seq(Bytes) /\ ahead \in Seq(Bytes)
  /\ IsRead(past, (line \o <<"n">>) \o rest, ahead)
  /\ Line \in Texts /\ Alike(Line, line) /\ \A i \in 1..Len(line) : line[i] # "n"
  /\ Alike(SubSeq(buffer, FirstNewline + 1, Len(buffer)), rest)

\* The buffer's first line is the body's next one.
LEMMA ALineIsTaken ==
  ASSUME FaithInv, TakeLine
  PROVE  \E past, line, rest, ahead : IsTaken(past, line, rest, ahead)
<1>1. doing = "streaming" /\ HasLine /\ buffer \in Texts
  BY DEF TakeLine, Reading, FaithInv, ProviderTypes, Texts
<1>2. PICK past \in Seq(Bytes), held \in Seq(Bytes), ahead \in Seq(Bytes) : IsRead(past, held, ahead)
  BY <1>1 DEF FaithInv, StreamingInv
<1>3. Alike(buffer, held)
  BY <1>2 DEF IsRead
<1>4. PICK line \in Seq(Bytes), rest \in Seq(Bytes) :
        /\ held = (line \o <<"n">>) \o rest
        /\ Line \in Texts /\ Alike(Line, line) /\ \A i \in 1..Len(line) : line[i] # "n"
        /\ Alike(SubSeq(buffer, FirstNewline + 1, Len(buffer)), rest)
  BY <1>1, <1>3, TheFirstLine
<1>5. IsTaken(past, line, rest, ahead)
  BY <1>2, <1>4 DEF IsTaken
<1>. QED
  BY <1>5

LEMMA EmittedGrows ==
  ASSUME FaithInv, pending = <<>>, UNCHANGED <<received, channel>>, NEW events \in Seq(Items),
         pending' = events
  PROVE  Emitted' = Emitted \o events /\ pending' \in Seq(Items)
<1>1. PICK before \in Seq(Items) : before = received \o channel
  BY ConcatProperties DEF FaithInv
<1>2. Emitted = before
  <2>1. before \o <<>> = before
    BY ConcatEmptySeq
  <2>. QED
    BY <1>1, <2>1 DEF Emitted
<1>. QED
  BY <1>1, <1>2 DEF Emitted

LEMMA ToldAreItems ==
  ASSUME NEW g \in Seq(Told)
  PROVE  g \in Seq(Items)
<1>1. Told \subseteq Items
  BY DEF Items
<1>. QED
  BY <1>1, SeqMonotonic

\* The place of a line in the body.
IsPast(S, sep, past, line, rest, ahead, now) ==
  /\ now \in Seq(S)
  /\ Unterminated(now, sep) = <<>>
  /\ Terminated(now, sep) = Append(Terminated(past, sep), line)
  /\ (past \o ((line \o <<sep>>) \o rest)) \o ahead = (now \o rest) \o ahead
  /\ Len(past) + Len((line \o <<sep>>) \o rest) = Len(now) + Len(rest)

LEMMA LineIsPast ==
  ASSUME NEW S, NEW past \in Seq(S), NEW line \in Seq(S), NEW rest \in Seq(S), NEW ahead \in Seq(S),
         NEW sep \in S, Unterminated(past, sep) = <<>>, \A i \in 1..Len(line) : line[i] # sep
  PROVE  \E now : IsPast(S, sep, past, line, rest, ahead, now)
<1>1. PICK end \in Seq(S) : end = <<sep>>
  BY SingletonIsTyped
<1>2. PICK now \in Seq(S) : now = (past \o line) \o end
  BY ONLY past \in Seq(S), ConcatProperties
<1>3. /\ Unterminated((past \o line) \o <<sep>>, sep) = <<>>
      /\ Terminated((past \o line) \o <<sep>>, sep) = Append(Terminated(past, sep), line)
  BY NoNewlineNoLine
<1>4. past \o ((line \o end) \o rest) = ((past \o line) \o end) \o rest
  <2>1. past \o (line \o end) = (past \o line) \o end
    BY ONLY past \in Seq(S)
  <2>2. PICK both \in Seq(S) : both = line \o end
    BY ONLY line \in Seq(S), end \in Seq(S), ConcatProperties
  <2>3. past \o (both \o rest) = (past \o both) \o rest
    BY ONLY past \in Seq(S)
  <2>. QED
    BY ONLY <2>1, <2>2, <2>3
<1>5. Len(past) + Len((line \o end) \o rest) = Len(now) + Len(rest)
  <2>1. /\ Len((line \o end) \o rest) = Len(line) + Len(end) + Len(rest)
        /\ Len(now) = Len(past) + Len(line) + Len(end)
    BY ONLY <1>2
  <2>. QED
    BY <2>1, LenProperties
<1>. QED
  BY ONLY <1>1, <1>2, <1>3, <1>4, <1>5, now \in Seq(S) DEF IsPast

LEMMA TakenLinesKeepStreams ==
  ASSUME FaithInv, ProviderTypes', TakeLine, NEW past, NEW line, NEW rest, NEW ahead,
         IsTaken(past, line, rest, ahead), NEW events \in Seq(Told), pending' = events,
         eventLines' \in Seq(DataTexts),
         Matches(SameEvents, events, Adds(provider, LinesOf(past), line)),
         provider = "anthropic" =>
           Matches(SameEvents, eventLines', OpenLines(Append(LinesOf(past), line)))
  PROVE  FaithInv'
<1>1. /\ doing = "streaming" /\ pending = <<>> /\ UNCHANGED callVars
      /\ buffer' = SubSeq(buffer, FirstNewline + 1, Len(buffer))
      /\ UNCHANGED <<doing, attempt, result, stream, heard, channel, received, attended>>
  BY DEF TakeLine, Reading
<1>2. /\ past \in Seq(Bytes) /\ line \in Seq(Bytes) /\ rest \in Seq(Bytes) /\ ahead \in Seq(Bytes)
      /\ stream = (past \o ((line \o <<"n">>) \o rest)) \o ahead
      /\ heard = Len(past) + Len((line \o <<"n">>) \o rest)
      /\ Unterminated(past, "n") = <<>> /\ \A i \in 1..Len(line) : line[i] # "n"
      /\ Matches(SameEvents, Emitted, EventsOf(provider, LinesOf(past)))
      /\ Alike(SubSeq(buffer, FirstNewline + 1, Len(buffer)), rest)
  BY DEF IsTaken, IsRead
<1>12. PICK now : IsPast(Bytes, "n", past, line, rest, ahead, now)
  <2>1. "n" \in Bytes
    BY DEF Bytes
  <2>. QED
    BY <1>2, <2>1, LineIsPast
<1>3. /\ now \in Seq(Bytes) /\ Unterminated(now, "n") = <<>>
      /\ Terminated(now, "n") = Append(Terminated(past, "n"), line)
      /\ (past \o ((line \o <<"n">>) \o rest)) \o ahead = (now \o rest) \o ahead
      /\ Len(past) + Len((line \o <<"n">>) \o rest) = Len(now) + Len(rest)
  BY <1>12 DEF IsPast
<1>4. LinesOf(now) = Append(LinesOf(past), line) /\ UNCHANGED <<provider, stream, heard>>
  BY <1>1, <1>3 DEF LinesOf, callVars
<1>5. PICK lines \in Seq(Texts), text \in Texts : lines = LinesOf(past) /\ text = line
  BY <1>2, TextsAreTold, BodiesSayTheirLines
<1>6. PICK old \in Seq(Told), more \in Seq(Told) :
        /\ old = EventsOf(provider, lines) /\ more = Adds(provider, lines, text)
        /\ EventsOf(provider, Append(lines, text)) = old \o more
  BY LinesAddEvents
<1>7. PICK said \in Seq(Told) : said = Emitted
  BY <1>1 DEF FaithInv, StreamingInv
<1>8. Emitted' = said \o events /\ pending' \in Seq(Items)
  BY <1>1, <1>7, ToldAreItems, EmittedGrows
<1>9. Matches(SameEvents, said \o events, old \o more)
  BY <1>2, <1>5, <1>6, <1>7, MatchesConcatenate
<1>10. IsRead(now, rest, ahead)'
  <2>1. stream' = (now \o rest) \o ahead /\ heard' = Len(now) + Len(rest)
    BY <1>2, <1>3, <1>4
  <2>2. Alike(buffer', rest)
    BY <1>1, <1>2
  <2>3. Matches(SameEvents, Emitted', EventsOf(provider', LinesOf(now)))
    BY <1>4, <1>5, <1>6, <1>8, <1>9
  <2>4. provider' = "anthropic" => Matches(SameEvents, eventLines', OpenLines(LinesOf(now)))
    BY <1>4
  <2>. QED
    BY <1>3, <2>1, <2>2, <2>3, <2>4 DEF IsRead
<1>11. StreamingInv'
  <2>1. Emitted' \in Seq(Told)
    BY ONLY <1>8, said \in Seq(Told), events \in Seq(Told), ConcatProperties
  <2>. QED
    BY <1>1, <1>2, <1>3, <1>10, <2>1 DEF FaithInv, StreamingInv
<1>. QED
  BY <1>1, <1>8, <1>11 DEF FaithInv, FreshInv, OverInv

\* A line of the Anthropic stream adds to its open event or ends it.
LEMMA AnthropicLinesKeepStreams ==
  ASSUME FaithInv, ProviderTypes', provider = "anthropic", AnthropicTakeLine
  PROVE  FaithInv'
<1>1. TakeLine /\ doing = "streaming" /\ pending = <<>>
  BY DEF AnthropicTakeLine, TakeLine, Reading
<1>2. PICK past, line, rest, ahead : IsTaken(past, line, rest, ahead)
  BY <1>1, ALineIsTaken
<1>3. /\ past \in Texts /\ line \in Texts /\ Line \in Texts /\ Alike(Line, line)
      /\ Matches(SameEvents, eventLines, OpenLines(LinesOf(past)))
  BY <1>2, TextsAreTold DEF IsTaken, IsRead
<1>4. PICK lines \in Seq(Texts), open \in Seq(DataTexts), now \in Seq(DataTexts) :
        lines = LinesOf(past) /\ open = OpenLines(lines) /\ now = eventLines
  <2>1. PICK lines \in Seq(Texts) : lines = LinesOf(past)
    BY <1>3, BodiesSayTheirLines
  <2>2. OpenLines(lines) \in Seq(DataTexts)
    BY <1>3, <2>1, LinesAddEvents
  <2>. QED
    BY <1>1, <2>1, <2>2 DEF FaithInv, StreamingInv
<1>5. OpenLines(Append(lines, line)) = IF line = <<>> THEN <<>> ELSE open \o DataOf[line]
  BY <1>3, <1>4, LinesAddEvents
<1>6. PICK adds \in Seq(Told) :
        adds = Adds(provider, lines, line) /\ adds = IF line = <<>> THEN AnthropicEvent(open) ELSE <<>>
  <2>1. Adds(provider, lines, line) \in Seq(Told)
    BY <1>3, LinesAddEvents
  <2>. QED
    BY <1>4, <2>1 DEF Adds
<1>7. (IsData(Line) <=> IsData(line)) /\ (Line = <<>> <=> line = <<>>)
  BY <1>3, LinesAreAlike
<1>8. Matches(SameEvents, <<>>, <<>>) /\ <<>> \in Seq(Told) /\ <<>> \in Seq(DataTexts)
  <2>1. Len(<<>>) = 0
    OBVIOUS
  <2>. QED
    BY <2>1, EmptySeq DEF Matches
<1>9. ASSUME NEW events \in Seq(Told), pending' = events, eventLines' \in Seq(DataTexts),
             Matches(SameEvents, events, adds),
             Matches(SameEvents, eventLines', OpenLines(Append(lines, line)))
      PROVE  FaithInv'
  BY <1>1, <1>2, <1>4, <1>6, <1>9, TakenLinesKeepStreams
<1>10. CASE IsData(Line) /\ eventLines' = Append(eventLines, Line) /\ UNCHANGED pending
  <2>1. line # <<>> /\ DataOf[line] = <<line>>
    BY <1>3, <1>7, <1>10 DEF IsData, DataOf
  <2>2. PICK a \in DataTexts, b \in DataTexts : a = Line /\ b = line
    BY <1>3, <1>7, <1>10 DEF DataTexts
  <2>3. now \o <<a>> \in Seq(DataTexts) /\ eventLines' = now \o <<a>>
    BY <1>4, <1>10, <2>2, AppendIsConcat, AppendProperties
  <2>4. Matches(SameEvents, now \o <<a>>, open \o <<b>>)
    <3>1. <<a, b>> \in SameEvents
      BY <1>3, <2>2, TextsAreTold DEF SameEvents, DataTexts
    <3>2. <<a>> \in Seq(DataTexts) /\ <<b>> \in Seq(DataTexts) /\ Matches(SameEvents, <<a>>, <<b>>)
      <4>1. Matches(SameEvents, <<a>>, <<b>>)
        BY <3>1, OneMatches
      <4>2. <<a>> \in Seq(DataTexts) /\ <<b>> \in Seq(DataTexts)
        BY SingletonIsTyped
      <4>. QED
        BY <4>1, <4>2
    <3>3. PICK c \in Seq(DataTexts), d \in Seq(DataTexts) : c = <<a>> /\ d = <<b>>
      BY <3>2
    <3>4. Matches(SameEvents, now, open)
      BY <1>3, <1>4
    <3>. QED
      BY <3>2, <3>3, <3>4, MatchesConcatenate
  <2>. QED
    BY <1>1, <1>5, <1>6, <1>8, <1>9, <1>10, <2>1, <2>2, <2>3, <2>4
<1>11. CASE Line = <<>> /\ pending' = AnthropicEvent(eventLines) /\ eventLines' = <<>>
  <2>1. line = <<>>
    BY <1>7, <1>11
  <2>2. AnthropicEvent(now) \in Seq(Told) /\ Matches(SameEvents, AnthropicEvent(now), AnthropicEvent(open))
    BY <1>3, <1>4, AnthropicEventsAreAlike
  <2>. QED
    BY <1>4, <1>5, <1>6, <1>8, <1>9, <1>11, <2>1, <2>2
<1>12. CASE ~IsData(Line) /\ (Line # <<>> \/ eventLines = <<>>) /\ UNCHANGED <<eventLines, pending>>
  <2>1. eventLines' = now /\ pending' = <<>> /\ Matches(SameEvents, now, open)
    BY <1>1, <1>3, <1>4, <1>12
  <2>2. CASE line # <<>>
    <3>1. DataOf[line] = <<>> /\ open \o <<>> = open
      BY <1>3, <1>7, <1>12, ConcatEmptySeq DEF DataOf
    <3>. QED
      BY <1>5, <1>6, <1>8, <1>9, <2>1, <2>2, <3>1
  <2>3. CASE line = <<>>
    <3>1. now = <<>>
      BY <1>4, <1>7, <1>12, <2>3
    <3>2. open = <<>>
      <4>1. Len(open) = 0
        BY <2>1, <3>1 DEF Matches
      <4>. QED
        BY <4>1, EmptySeq
    <3>3. AnthropicEvent(<<>>) = <<>>
      BY DEF AnthropicEvent
    <3>. QED
      BY <1>5, <1>6, <1>8, <1>9, <2>1, <2>3, <3>1, <3>2, <3>3
  <2>. QED
    BY <2>2, <2>3
<1>. QED
  BY <1>10, <1>11, <1>12 DEF AnthropicTakeLine

\* A line of the other streams says its event at once.
LEMMA CompletionLinesKeepStreams ==
  ASSUME FaithInv, ProviderTypes', provider # "anthropic", CompletionTakeLine(CompletionLine(Line))
  PROVE  FaithInv'
<1>1. TakeLine /\ doing = "streaming" /\ pending' = CompletionLine(Line) /\ UNCHANGED eventLines
  BY DEF CompletionTakeLine, TakeLine, Reading
<1>2. PICK past, line, rest, ahead : IsTaken(past, line, rest, ahead)
  BY <1>1, ALineIsTaken
<1>3. line \in Texts /\ Line \in Texts /\ Alike(Line, line)
  BY <1>2, TextsAreTold DEF IsTaken
<1>4. PICK events \in Seq(Told) :
        events = CompletionLine(Line) /\ Matches(SameEvents, events, CompletionLine(line))
  <2>1. PICK a \in Texts : a = Line
    BY <1>3
  <2>. QED
    BY <1>3, <2>1, CompletionLinesAreAlike
<1>5. Adds(provider, LinesOf(past), line) = CompletionLine(line)
  BY DEF Adds
<1>6. eventLines' \in Seq(DataTexts)
  BY <1>1 DEF FaithInv, StreamingInv
<1>. QED
  BY <1>1, <1>2, <1>4, <1>5, <1>6, TakenLinesKeepStreams

-----------------------------------------------------------------------------
(* The end of a stream                                                     *)

LEMMA MatchesAreComplete ==
  ASSUME NEW g \in Seq(Told), NEW e \in Seq(Told), Matches(SameEvents, g, e)
  PROVE  Len(g) = Len(e) /\ Follows(g, e)
<1>1. Len(g) = Len(e) /\ \A i \in 1..Len(g) : Alike(g[i], e[i])
  BY DEF Matches, SameEvents
<1>. QED
  BY <1>1, LenProperties DEF Follows

\* While a body is read, what is said of it follows all it says.
LEMMA StreamingFollows ==
  ASSUME FaithInv, doing = "streaming"
  PROVE  Emitted \in Seq(Told) /\ Follows(Emitted, DueOf(provider, stream))
<1>1. PICK past \in Seq(Bytes), held \in Seq(Bytes), ahead \in Seq(Bytes) : IsRead(past, held, ahead)
  BY DEF FaithInv, StreamingInv
<1>2. PICK said \in Seq(Told) : said = Emitted
  BY DEF FaithInv, StreamingInv
<1>3. PICK later \in Seq(Bytes) : stream = past \o later
  <2>1. held \o ahead \in Seq(Bytes)
    BY ONLY held \in Seq(Bytes), ahead \in Seq(Bytes), ConcatProperties
  <2>2. (past \o held) \o ahead = past \o (held \o ahead)
    BY ONLY past \in Seq(Bytes)
  <2>. QED
    BY <1>1, <2>1, <2>2 DEF IsRead
<1>4. PICK earlier \in Seq(Told), all \in Seq(Told), last \in Seq(Told) :
        /\ earlier = EventsOf(provider, LinesOf(past)) /\ all = EventsOf(provider, LinesOf(stream))
        /\ last = LastEvents(provider, LinesOf(stream))
  <2>1. past \in Texts /\ stream \in Texts /\ <<>> \in Texts
    BY TextsAreTold, EmptySeq DEF FaithInv, ProviderTypes, Texts
  <2>2. LinesOf(past) \in Seq(Texts) /\ LinesOf(stream) \in Seq(Texts)
    BY <2>1, BodiesSayTheirLines
  <2>. QED
    BY <2>1, <2>2, LinesAddEvents
<1>5. StartsWith(Told, all, earlier)
  <2>1. past \in Texts /\ later \in Texts
    BY TextsAreTold
  <2>. QED
    BY <1>3, <1>4, <2>1, EventsGrow
<1>6. StartsWith(Told, all \o last, earlier)
  BY <1>5, PrefixesChain
<1>7. Matches(SameEvents, said, earlier)
  BY <1>1, <1>2, <1>4 DEF IsRead
<1>8. Follows(said, all \o last)
  BY <1>6, <1>7, MatchesFollow
<1>. QED
  BY <1>2, <1>4, <1>8 DEF DueOf

\* A connection that breaks adds an error to what was said.
LEMMA ChunkFailsKeepsStreams ==
  ASSUME FaithInv, ProviderTypes', ChunkFails
  PROVE  FaithInv'
<1>1. /\ doing = "streaming" /\ pending = <<>> /\ doing' = "over" /\ pending' = <<<<"Network">>>>
      /\ UNCHANGED callVars
      /\ UNCHANGED <<result, stream, heard, buffer, eventLines, channel, received, attended>>
  BY DEF ChunkFails, Reading, EndWith
<1>2. PICK said \in Seq(Told) : said = Emitted /\ Follows(said, DueOf(provider, stream))
  BY <1>1, StreamingFollows
<1>3. PICK e \in Ends : e = <<"Network">>
  BY DEF Ends
<1>4. PICK items \in Seq(Items), x \in Items : items = said /\ x = e
  BY ToldAreItems DEF Items
<1>5. Emitted' = Append(said, e) /\ pending' \in Seq(Items)
  <2>1. PICK end \in Seq(Items) : end = <<x>>
    BY SingletonIsTyped
  <2>2. pending' = end
    BY <1>1, <1>3, <1>4, <2>1
  <2>3. Emitted' = Emitted \o end /\ pending' \in Seq(Items)
    BY <1>1, <2>2, EmittedGrows
  <2>4. Append(items, x) = items \o <<x>>
    BY AppendIsConcat
  <2>. QED
    BY <1>2, <1>4, <2>1, <2>3, <2>4
<1>6. IsHeard(said)'
  BY <1>1, <1>2, <1>5 DEF IsHeard, callVars
<1>. QED
  BY <1>1, <1>5, <1>6 DEF FaithInv, FreshInv, StreamingInv, OverInv

\* Characters after the last newline end no line.
LEMMA NoNewlineKeepsLines ==
  ASSUME NEW S, NEW seq \in Seq(S), NEW sep, Unterminated(seq, sep) = <<>>,
         NEW held \in Seq(S), \A i \in 1..Len(held) : held[i] # sep
  PROVE  Terminated(seq \o held, sep) = Terminated(seq, sep)
<1>1. /\ Terminated(seq \o held, sep) = Terminated(seq, sep)
      /\ Unterminated(seq \o held, sep) = held
      /\ Terminated((seq \o held) \o <<sep>>, sep) = Append(Terminated(seq, sep), held)
      /\ Unterminated((seq \o held) \o <<sep>>, sep) = <<>>
  BY NoNewlineNoLine
<1>. QED
  BY <1>1

\* At the end of the body all its lines are past, and the open event is the last.
LEMMA EndOfBodyKeepsStreams ==
  ASSUME FaithInv, ProviderTypes', NEW last, EndOfBody(last),
         last = IF provider = "anthropic" THEN AnthropicEvent(eventLines) ELSE <<>>
  PROVE  FaithInv'
<1>1. /\ doing = "streaming" /\ pending = <<>> /\ ~HasLine /\ heard = Len(stream)
      /\ doing' = "over" /\ pending' = last /\ UNCHANGED callVars
      /\ UNCHANGED <<result, stream, heard, buffer, eventLines, channel, received, attended>>
  BY DEF EndOfBody, Reading
<1>2. PICK past \in Seq(Bytes), held \in Seq(Bytes), ahead \in Seq(Bytes) : IsRead(past, held, ahead)
  BY <1>1 DEF FaithInv, StreamingInv
<1>3. stream = past \o held
  <2>1. PICK before \in Seq(Bytes) : before = past \o held /\ Len(before) = Len(past) + Len(held)
    BY ONLY past \in Seq(Bytes), held \in Seq(Bytes), ConcatProperties
  <2>2. stream = before \o ahead /\ heard = Len(before)
    BY <1>2, <2>1 DEF IsRead
  <2>3. Len(before \o ahead) = Len(before) + Len(ahead) /\ Len(before) \in Nat /\ Len(ahead) \in Nat
    BY ConcatProperties, LenProperties
  <2>4. Len(ahead) = 0
    BY <1>1, <2>2, <2>3
  <2>5. ahead = <<>> /\ before \o <<>> = before
    BY <2>4, EmptySeq, ConcatEmptySeq
  <2>. QED
    BY <2>1, <2>2, <2>5
<1>4. \A i \in 1..Len(held) : held[i] # "n"
  <2>1. Alike(buffer, held) /\ DOMAIN buffer = 1..Len(buffer)
    BY <1>2, LenProperties DEF IsRead, FaithInv, ProviderTypes
  <2>2. \A i \in 1..Len(buffer) : buffer[i] # "n"
    BY <1>1, <2>1 DEF HasLine, Range
  <2>. QED
    BY <2>1, <2>2 DEF Alike
<1>5. LinesOf(stream) = LinesOf(past)
  <2>1. Unterminated(past, "n") = <<>>
    BY <1>2 DEF IsRead
  <2>2. Terminated(past \o held, "n") = Terminated(past, "n")
    <3>1. PICK sep \in Bytes : sep = "n"
      BY DEF Bytes
    <3>2. Unterminated(past, sep) = <<>> /\ \A i \in 1..Len(held) : held[i] # sep
      BY <1>4, <2>1, <3>1
    <3>3. Terminated(past \o held, sep) = Terminated(past, sep)
      BY <3>2, NoNewlineKeepsLines
    <3>. QED
      BY <3>1, <3>3
  <2>. QED
    BY <1>3, <2>2 DEF LinesOf
<1>6. PICK lines \in Seq(Texts) : lines = LinesOf(past)
  BY TextsAreTold, BodiesSayTheirLines
<1>7. PICK all \in Seq(Told), rest \in Seq(Told), open \in Seq(DataTexts) :
        /\ all = EventsOf(provider, lines) /\ rest = LastEvents(provider, lines)
        /\ open = OpenLines(lines)
  <2>1. <<>> \in Texts
    BY EmptySeq DEF Texts
  <2>. QED
    BY <2>1, LinesAddEvents
<1>8. PICK said \in Seq(Told), now \in Seq(DataTexts) : said = Emitted /\ now = eventLines
  BY <1>1 DEF FaithInv, StreamingInv
<1>9. Matches(SameEvents, said, all)
  BY <1>2, <1>6, <1>7, <1>8 DEF IsRead
<1>10. last \in Seq(Told) /\ Matches(SameEvents, last, rest)
  <2>1. CASE provider = "anthropic"
    <3>1. Matches(SameEvents, now, open)
      BY <1>2, <1>6, <1>7, <1>8, <2>1 DEF IsRead
    <3>. QED
      BY <1>7, <1>8, <2>1, <3>1, AnthropicEventsAreAlike DEF LastEvents
  <2>2. CASE provider # "anthropic"
    <3>1. last = <<>> /\ rest = <<>> /\ Len(<<>>) = 0
      BY <1>7, <2>2 DEF LastEvents
    <3>2. Matches(SameEvents, <<>>, <<>>) /\ <<>> \in Seq(Told)
      BY ONLY <3>1, EmptySeq DEF Matches
    <3>. QED
      BY <3>1, <3>2
  <2>. QED
    BY <2>1, <2>2
<1>11. PICK end \in Seq(Told) : end = last
  BY <1>10
<1>12. Emitted' = said \o end /\ pending' \in Seq(Items)
  BY <1>1, <1>8, <1>11, ToldAreItems, EmittedGrows
<1>13. PICK g \in Seq(Told), due \in Seq(Told) : g = said \o end /\ due = all \o rest
  BY ConcatProperties
<1>14. Matches(SameEvents, g, due)
  BY <1>9, <1>10, <1>11, <1>13, MatchesConcatenate
<1>15. due = DueOf(provider, stream)
  BY <1>5, <1>6, <1>7, <1>13 DEF DueOf
<1>16. Follows(g, due) /\ Len(g) = Len(due)
  BY <1>14, MatchesAreComplete
<1>17. IsHeard(g)'
  <2>1. stream \in AllBodies
    BY <1>1 DEF FaithInv, StreamingInv
  <2>. QED
    BY <1>1, <1>12, <1>13, <1>15, <1>16, <2>1 DEF IsHeard, callVars
<1>. QED
  BY <1>1, <1>12, <1>17 DEF FaithInv, FreshInv, StreamingInv, OverInv

\* Moving an event along the channel changes nothing that was said.
LEMMA SameEmittedKeepsStreams ==
  ASSUME FaithInv, ProviderTypes', doing \in {"streaming", "over"},
         UNCHANGED <<provider, doing, attended, result, stream, heard, buffer, eventLines>>,
         Emitted' = Emitted,
         received' \in Seq(Items) /\ channel' \in Seq(Items) /\ pending' \in Seq(Items)
  PROVE  FaithInv'
<1>1. StreamingInv'
  BY DEF FaithInv, StreamingInv, IsRead
<1>2. OverInv'
  BY DEF FaithInv, OverInv, IsHeard
<1>. QED
  BY <1>1, <1>2 DEF FaithInv, FreshInv

LEMMA ReceiveKeepsStreams ==
  ASSUME FaithInv, ProviderTypes', Receive
  PROVE  FaithInv'
<1>1. /\ channel # <<>> /\ received' = Append(received, Head(channel)) /\ channel' = Tail(channel)
      /\ UNCHANGED <<provider, doing, result, stream, heard, buffer, eventLines, pending, attended>>
  BY DEF Receive, callVars
<1>2. doing \in {"streaming", "over"}
  BY <1>1 DEF FaithInv, FreshInv, ProviderTypes, ProviderTypeOK
<1>3. PICK got \in Seq(Items), sent \in Seq(Items) : got = received /\ sent = channel
  BY DEF FaithInv
<1>4. PICK x \in Items, more \in Seq(Items) : x = Head(sent) /\ more = Tail(sent)
  BY <1>1, <1>3, HeadTailProperties
<1>5. Append(got, x) \in Seq(Items) /\ Append(got, x) \o more = got \o sent
  <2>1. sent = <<x>> \o more
    BY <1>1, <1>3, <1>4
  <2>2. Append(got, x) = got \o <<x>> /\ Append(got, x) \in Seq(Items)
    BY AppendIsConcat, AppendProperties
  <2>3. (got \o <<x>>) \o more = got \o (<<x>> \o more)
    BY ONLY got \in Seq(Items), more \in Seq(Items), x \in Items
  <2>. QED
    BY <2>1, <2>2, <2>3
<1>6. Emitted' = Emitted
  BY <1>1, <1>3, <1>4, <1>5 DEF Emitted
<1>7. received' \in Seq(Items) /\ channel' \in Seq(Items) /\ pending' \in Seq(Items)
  BY <1>1, <1>3, <1>4, <1>5 DEF FaithInv
<1>. QED
  BY <1>1, <1>2, <1>6, <1>7, SameEmittedKeepsStreams

LEMMA LeaveKeepsStreams ==
  ASSUME FaithInv, ProviderTypes', Leave
  PROVE  FaithInv'
<1>1. /\ doing \in {"connecting", "streaming"}
      /\ UNCHANGED <<provider, doing, result, stream, heard, buffer, eventLines, pending, channel,
                     received>>
  BY DEF Leave, callVars
<1>2. StreamingInv'
  BY <1>1 DEF FaithInv, StreamingInv, IsRead, Emitted
<1>. QED
  BY <1>1, <1>2 DEF FaithInv, FreshInv, OverInv

\* The task ends without its last event: its receiver is gone.
LEMMA GoneKeepsStreams ==
  ASSUME FaithInv, ProviderTypes', doing \in {"streaming", "over"}, doing' = "over", ~attended',
         UNCHANGED <<provider, result, stream, heard, buffer, eventLines, channel, received>>,
         NEW x \in Items, pending = <<x>>, pending' = <<>>
  PROVE  FaithInv'
<1>1. PICK before \in Seq(Items) : before = received \o channel
  BY ConcatProperties DEF FaithInv
<1>2. Emitted = Append(before, x) /\ Emitted' = before
  <2>1. before \o <<x>> = Append(before, x) /\ before \o <<>> = before
    BY AppendIsConcat, ConcatEmptySeq
  <2>. QED
    BY <1>1, <2>1 DEF Emitted
<1>3. PICK due \in Seq(Told) : due = DueOf(provider, stream)
  BY DueIsTyped DEF FaithInv, ProviderTypes
<1>4. ASSUME Append(before, x) \in Seq(Told), Follows(Append(before, x), due)
      PROVE  before \in Seq(Told) /\ Follows(before, due)
  <2>1. PICK g \in Seq(Told), y \in Told : Append(before, x) = Append(g, y)
    <3>1. Append(before, x) # <<>>
      BY AppendProperties
    <3>. QED
      BY <1>4, <3>1, SequenceEmptyOrAppend
  <2>2. g \in Seq(Items) /\ y \in Items
    BY <2>1, ToldAreItems DEF Items
  <2>3. before = g
    BY <2>1, <2>2, AppendInjective
  <2>. QED
    BY <1>4, <2>1, <2>3, FewerFollow
<1>5. before \in Seq(Told) /\ Follows(before, due)
  <2>1. CASE doing = "streaming"
    BY <1>2, <1>3, <1>4, <2>1, StreamingFollows
  <2>2. CASE doing = "over"
    <3>1. PICK g \in Seq(Told) : IsHeard(g)
      BY <2>2 DEF FaithInv, OverInv
    <3>2. CASE Emitted = g
      BY <1>2, <1>3, <1>4, <3>1, <3>2 DEF IsHeard
    <3>3. CASE \E e \in Ends : Emitted = Append(g, e)
      <4>1. PICK e \in Items : Append(before, x) = Append(g, e)
        BY <1>2, <3>3 DEF Items
      <4>2. g \in Seq(Items)
        BY ToldAreItems
      <4>3. before = g
        BY <4>1, <4>2, AppendInjective
      <4>. QED
        BY <1>3, <3>1, <4>3 DEF IsHeard
    <3>. QED
      BY <3>1, <3>2, <3>3 DEF IsHeard
  <2>. QED
    BY <2>1, <2>2
<1>6. IsHeard(before)'
  BY <1>1, <1>2, <1>3, <1>5 DEF IsHeard
<1>. QED
  BY <1>5, <1>6, EmptySeq DEF FaithInv, FreshInv, StreamingInv, OverInv

LEMMA SendKeepsStreams ==
  ASSUME FaithInv, ProviderTypes', Send
  PROVE  FaithInv'
<1>1. /\ pending # <<>> /\ pending' = <<>>
      /\ UNCHANGED <<provider, result, stream, heard, buffer, eventLines, received, attended>>
      /\ \/ channel' = channel \o pending /\ UNCHANGED doing
         \/ ~attended /\ doing' = "over" /\ UNCHANGED channel
  BY DEF Send, callVars
<1>2. doing \in {"streaming", "over"}
  BY <1>1 DEF FaithInv, FreshInv, ProviderTypes, ProviderTypeOK
<1>3. PICK x \in Items : pending = <<x>>
  <2>1. PICK x : pending = <<x>>
    BY <1>1 DEF FaithInv, ProviderTypes, IsAtMostOne
  <2>2. PICK events \in Seq(Items) : events = pending
    BY DEF FaithInv
  <2>3. Len(events) = 1 /\ events[1] = x /\ 1 \in 1..1
    BY <2>1, <2>2
  <2>4. x \in Items
    BY <2>3, ElementOfSeq
  <2>. QED
    BY <2>1, <2>4
<1>4. CASE channel' = channel \o pending /\ UNCHANGED doing
  <2>1. PICK got \in Seq(Items), sent \in Seq(Items), end \in Seq(Items) :
          got = received /\ sent = channel /\ end = pending
    BY DEF FaithInv
  <2>2. sent \o end \in Seq(Items)
    BY ONLY sent \in Seq(Items), end \in Seq(Items), ConcatProperties
  <2>3. (got \o (sent \o end)) \o <<>> = (got \o sent) \o end
    <3>1. PICK all \in Seq(Items) : all = got \o (sent \o end)
      BY ONLY got \in Seq(Items), sent \in Seq(Items), end \in Seq(Items), ConcatProperties
    <3>2. all \o <<>> = all
      BY ConcatEmptySeq
    <3>3. got \o (sent \o end) = (got \o sent) \o end
      BY ONLY got \in Seq(Items), sent \in Seq(Items), end \in Seq(Items)
    <3>. QED
      BY <3>1, <3>2, <3>3
  <2>4. Emitted' = Emitted
    BY <1>1, <1>4, <2>1, <2>3 DEF Emitted
  <2>5. received' \in Seq(Items) /\ channel' \in Seq(Items) /\ pending' \in Seq(Items)
    BY <1>1, <1>4, <2>1, <2>2, EmptySeq
  <2>. QED
    BY <1>1, <1>2, <1>4, <2>4, <2>5, SameEmittedKeepsStreams
<1>5. CASE ~attended /\ doing' = "over" /\ UNCHANGED channel
  BY <1>1, <1>2, <1>3, <1>5, GoneKeepsStreams
<1>. QED
  BY <1>1, <1>4, <1>5

\* Every step of a call keeps what is said faithful to the body.
LEMMA StepKeepsStreams ==
  ASSUME FaithInv, ProviderNext
  PROVE  FaithInv'
<1>. ProviderTypes'
  BY ProviderStepKeepsTypes DEF FaithInv
<1>1. CASE \E operation \in Operations :
             \/ CallAnthropic(operation) \/ CallOpenAI(operation)
             \/ CallCompatible(operation) \/ CallCopilot(operation)
  <2>1. PICK operation, sent, header : operation \in Operations /\ Start(operation, sent, header)
    BY <1>1 DEF CallAnthropic, CallOpenAI, CallCompatible, CallCopilot
  <2>. QED
    BY <2>1, CallsKeepStreams
<1>2. CASE AnthropicChat \/ OpenAIChat \/ CompatibleChat \/ CopilotChat
  <2>1. PICK outcomes : Chat(outcomes) /\ \A outcome \in outcomes : outcome.error # "pending"
    BY <1>2, OutcomesAreResults DEF AnthropicChat, OpenAIChat, CompatibleChat, CopilotChat,
       OpenAIResponse, CompatibleResponse, CopilotResponse
  <2>. QED
    BY <2>1, ChatKeepsStreams
<1>3. CASE AnthropicStream
  <2>1. AnthropicStreams \subseteq AllBodies
    BY DEF AllBodies
  <2>2. PICK last : last = AnthropicEvent(eventLines)
    OBVIOUS
  <2>3. /\ provider = "anthropic"
        /\ Connect(AnthropicStreams) \/ AnthropicTakeLine \/ EndOfBody(last)
    BY <1>3, <2>2 DEF AnthropicStream
  <2>. QED
    BY <2>1, <2>2, <2>3, ConnectKeepsStreams, AnthropicLinesKeepStreams, EndOfBodyKeepsStreams
<1>4. CASE OpenAIStream \/ CompatibleStream \/ CopilotStream
  <2>1. CompletionStreams \subseteq AllBodies
    BY DEF AllBodies
  <2>2. provider # "anthropic" /\ CompletionStream(CompletionLine(Line))
    BY <1>4 DEF OpenAIStream, CompatibleStream, CopilotStream, OpenAILine, CompatibleLine,
                CopilotLine
  <2>3. Connect(CompletionStreams) \/ CompletionTakeLine(CompletionLine(Line)) \/ EndOfBody(<<>>)
    BY <2>2 DEF CompletionStream
  <2>. QED
    BY <2>1, <2>2, <2>3, ConnectKeepsStreams, CompletionLinesKeepStreams, EndOfBodyKeepsStreams
<1>5. CASE \/ AnthropicVerify \/ OpenAIVerify \/ CompatibleVerify \/ CopilotVerify
           \/ ReadChunk \/ ChunkFails \/ Send \/ Receive \/ Leave
  BY <1>5, VerifyKeepsStreams, ReadChunkKeepsStreams, ChunkFailsKeepsStreams, SendKeepsStreams,
     ReceiveKeepsStreams, LeaveKeepsStreams
  DEF AnthropicVerify, OpenAIVerify, CompatibleVerify, CopilotVerify
<1>. QED
  BY <1>1, <1>2, <1>3, <1>4, <1>5 DEF ProviderNext

\* What follows the body at each point is what the property asks.
LEMMA FaithImpliesFaithful ==
  ASSUME FaithInv
  PROVE  StreamsAreFaithful
<1>1. PICK due \in Seq(Told) : due = DueOf(provider, stream) /\ Follows(<<>>, due)
  BY DueIsTyped DEF FaithInv, ProviderTypes
<1>2. due = IF provider = "anthropic" THEN AnthropicEvents(stream) ELSE CompletionEvents(stream)
  <2>1. stream \in Texts
    BY TextsAreTold DEF FaithInv, ProviderTypes
  <2>. QED
    BY <1>1, <2>1, BodiesSayTheirLines DEF DueOf
<1>3. PICK g \in Seq(Told) :
        /\ Emitted = g \/ \E e \in Ends : Emitted = Append(g, e)
        /\ Follows(g, due)
        /\ doing = "over" => IsHeard(g)
  <2>1. CASE doing \in {"idle", "chat", "connecting"}
    <3>1. Emitted = <<>>
      BY <2>1, EmptyEmitted DEF FaithInv, FreshInv, Emitted
    <3>. QED
      BY <1>1, <2>1, <3>1, EmptySeq
  <2>2. CASE doing = "streaming"
    BY <1>1, <2>2, StreamingFollows
  <2>3. CASE doing = "over"
    BY <1>1, <2>3 DEF FaithInv, OverInv, IsHeard
  <2>. QED
    BY <2>1, <2>2, <2>3 DEF FaithInv, ProviderTypes, ProviderTypeOK
<1>4. Delivered = g
  BY <1>3, DeliveredIsTold
<1>5. Len(Delivered) <= Len(due) /\ \A i \in DOMAIN Delivered : Alike(Delivered[i], due[i])
  BY <1>3, <1>4, LenProperties DEF Follows
<1>6. ASSUME Ended, attended, result = NoResult
      PROVE  \/ stream \in AnthropicStreams \cup CompletionStreams /\ Len(Delivered) = Len(due)
             \/ Emitted # <<>> /\ Emitted[Len(Emitted)] \in Ends
  <2>1. IsHeard(g)
    BY <1>3, <1>6 DEF Ended
  <2>2. CASE Emitted = g /\ stream \in AllBodies /\ Len(g) = Len(DueOf(provider, stream))
    BY <1>1, <1>4, <2>2 DEF AllBodies
  <2>3. CASE \E e \in Ends : Emitted = Append(g, e)
    <3>1. PICK e \in Ends : Emitted = Append(g, e)
      BY <2>3
    <3>2. g \in Seq(Items) /\ e \in Items
      BY ToldAreItems DEF Items
    <3>3. /\ Append(g, e) \in Seq(Items) /\ Len(Append(g, e)) = Len(g) + 1
          /\ Append(g, e)[Len(g) + 1] = e /\ Append(g, e) # <<>>
      BY <3>2, AppendProperties
    <3>. QED
      BY <3>1, <3>3
  <2>. QED
    BY <1>6, <2>1, <2>2, <2>3 DEF IsHeard
<1>. QED
  BY <1>2, <1>5, <1>6 DEF StreamsAreFaithful

\* However the network cuts the bytes of a streamed answer into chunks, and even if a
\* cut damages a character, the reader task of each client sends the events of the
\* body's lines in their order, each once, and a receiver that stays until the task is
\* over has all of them or a final error: an incomplete answer never looks complete.
THEOREM StreamsStayFaithful == ProviderSpec => []StreamsAreFaithful
<1>1. FaithInv /\ [ProviderNext]_providerVars => FaithInv'
  <2>. SUFFICES ASSUME FaithInv, UNCHANGED providerVars PROVE FaithInv'
    BY StepKeepsStreams
  <2>1. ProviderTypes'
    BY DEF FaithInv, ProviderTypes, ProviderTypeOK, providerVars
  <2>2. Emitted' = Emitted
    BY DEF Emitted, providerVars
  <2>3. StreamingInv' /\ OverInv' /\ FreshInv'
    BY <2>2 DEF FaithInv, StreamingInv, IsRead, OverInv, IsHeard, FreshInv, providerVars
  <2>. QED
    BY <2>1, <2>3 DEF FaithInv, providerVars
<1>. QED
  BY <1>1, FaithInvInit, FaithImpliesFaithful, PTL DEF ProviderSpec

-----------------------------------------------------------------------------
(* All of them together                                                    *)

\* Each part, moved alone or beside the others, goes through steps of its own
\* specification only: what is proved of a part holds of them all together.
THEOREM PartsKeepToThemselves ==
  ServicesSpec => /\ PermissionsSpec /\ BashSpec /\ ProviderSpec /\ SubscriptionSpec /\ NatsSpec
                  /\ RateSpec /\ SocketSpec /\ TelegramSpec
<1>1. ServicesInit => /\ PermissionsInit /\ BashInit /\ ProviderInit /\ SubscriptionInit /\ NatsInit
                      /\ RateInit /\ SocketInit /\ TelegramInit
  BY DEF ServicesInit
<1>2. ASSUME TurnNext
      PROVE  /\ [PermissionsNext]_permissionVars /\ [BashNext]_bashVars
             /\ [ProviderNext]_providerVars /\ [SubscriptionNext]_subscriptionVars
             /\ [NatsNext]_natsVars /\ UNCHANGED entryVars
  BY <1>2 DEF TurnNext, NatsNext
<1>3. ASSUME EntryNext
      PROVE  /\ [RateNext]_rateVars /\ [SocketNext]_socketVars /\ [TelegramNext]_telegramVars
             /\ UNCHANGED turnVars
  BY <1>3 DEF EntryNext
<1>4. UNCHANGED turnVars => /\ UNCHANGED permissionVars /\ UNCHANGED bashVars
                            /\ UNCHANGED providerVars /\ UNCHANGED subscriptionVars
                            /\ UNCHANGED natsVars
  BY DEF turnVars
<1>5. UNCHANGED entryVars => UNCHANGED rateVars /\ UNCHANGED socketVars /\ UNCHANGED telegramVars
  BY DEF entryVars
<1>6. UNCHANGED servicesVars => UNCHANGED turnVars /\ UNCHANGED entryVars
  BY DEF servicesVars
<1>7. [ServicesNext]_servicesVars =>
        /\ [PermissionsNext]_permissionVars /\ [BashNext]_bashVars
        /\ [ProviderNext]_providerVars /\ [SubscriptionNext]_subscriptionVars
        /\ [NatsNext]_natsVars
        /\ [RateNext]_rateVars /\ [SocketNext]_socketVars /\ [TelegramNext]_telegramVars
  BY <1>2, <1>3, <1>4, <1>5, <1>6 DEF ServicesNext
<1>. QED
  BY <1>1, <1>7, PTL DEF ServicesSpec, PermissionsSpec, BashSpec, ProviderSpec, SubscriptionSpec,
     NatsSpec, RateSpec, SocketSpec, TelegramSpec

\* Every variable of every part around a turn keeps its type.
THEOREM ServicesStayTyped == ServicesSpec => []ServicesTypeOK
<1>1. RateInv => RateTypeOK
  BY DEF RateInv
<1>2. RateSpec => []RateTypeOK
  BY <1>1, RateInvariant, PTL
<1>. QED
  BY <1>2, PartsKeepToThemselves, RulesStayTyped, TasksStayTyped, ProviderStaysTyped,
     SubscriptionsStayTyped, AgentsStayTyped, SocketStaysTyped, BotStaysTyped, PTL
  DEF ServicesTypeOK

\* What the eight parts promise, they promise side by side.
THEOREM ServicesKeepTheirPromises ==
  ServicesSpec =>
    /\ [](ProcessesAreAccounted /\ RepliesFollowMessages /\ ConfirmedAreHandled /\ RateIsExact)
    /\ [](OneAgentGetsATask /\ AcknowledgedIsCollected)
    /\ [](RequestsKeepTheConversation /\ StreamsAreFaithful)
    /\ RulesAreMonotone /\ RetriesAreUnseen /\ HeartbeatsAreFresh
  BY PartsKeepToThemselves, TasksAreAccounted, RepliesAreFaithful, ConfirmedWereHandled,
     RatesAreExact, TasksAreClaimedOnce, NothingIsAcknowledgedUnseen, RulesPullTheirWay,
     NothingIsSaidTwice, NothingIsLeftOut, StreamsStayFaithful, BeatsAreFresh, PTL
=============================================================================
