--------------------------- MODULE RunServerProofs ---------------------------
(***************************************************************************)
(* Proofs about the run and cancel routes, for any number of requests and  *)
(* sessions, any limit of turns and calls, and any number of faults and    *)
(* cancels.                                                                *)
(*                                                                         *)
(* Three inductive invariants.  ServerInv is about control: that           *)
(* running_sessions keeps runs apart needs that it is exactly the sessions *)
(* of the runs that are live or have leaked, and that the session a        *)
(* handler is about to insert is still absent.  The latter is where        *)
(* HandlerLimit = 1 comes in: the handler checks and inserts in two        *)
(* critical sections.  DurableInv counts the copies of a message in memory *)
(* and in the transcript.  OwnInv and SettledInv count, from every         *)
(* message on, the calls made and the answers given: Owing is what the     *)
(* loop keeps true while it executes the calls of a reply, and what        *)
(* compaction, which keeps the end of a conversation, cannot break.        *)
(***************************************************************************)
EXTENDS RunServer, FiniteSetTheorems, TLAPS

PCs == HandlerPCs \cup RunnerPCs \cup {"new", "refused", "conflict", "leaked", "done", "lost"}

ControlTypeOK ==
  /\ pc \in [Runs -> PCs]
  /\ session \in [Runs -> Sessions \cup {NoSession}]
  /\ status \in [Sessions -> Terminal \cup {"absent", "active"}]
  /\ running \subseteq Sessions
  /\ cancelled \subseteq Runs
  /\ lateChats \in [Runs -> Nat]

\* The run keeps its session in running_sessions: it is live, or it has ended
\* without taking the session out.
Occupies(r) == pc[r] \in RunnerPCs \cup {"leaked"}

RunsApart ==
  /\ \A r, q \in Runs : pc[r] \in HandlerPCs /\ pc[q] \in HandlerPCs => r = q
  /\ \A r, q \in Runs : Occupies(r) /\ Occupies(q) /\ session[r] = session[q] => r = q

RunningIsExact ==
  /\ \A r \in Runs : Occupies(r) => session[r] \in running
  /\ \A s \in running : \E r \in Runs : Occupies(r) /\ session[r] = s
  /\ \A r \in Runs : pc[r] = "inserting" => session[r] \notin running
  /\ \A r \in Runs : pc[r] \in HandlerPCs \cup RunnerPCs \cup {"leaked", "done"}
                       => session[r] \in Sessions

EndsAreTerminal ==
  \A r \in Runs : pc[r] \in {"removing", "done"} => status[session[r]] \in Terminal

Spawned == RunnerPCs \cup {"leaked", "done", "lost"}

CancelInv ==
  \A r \in Runs :
    /\ r \in cancelled => pc[r] \in Spawned
    /\ r \notin cancelled => lateChats[r] = 0
    /\ r \in cancelled /\ pc[r] = "sending" => lateChats[r] = 0
    /\ r \in cancelled /\ pc[r] \in RunnerPCs \ {"removing"} => status[session[r]] = "cancelled"
    /\ lateChats[r] <= 1

ServerInv ==
  /\ ControlTypeOK
  /\ RunsApart
  /\ RunningIsExact
  /\ EndsAreTerminal
  /\ CancelInv

-----------------------------------------------------------------------------
(* What a step of a spawned task can do                                    *)

\* A step of r's task as far as sessions, states and the running set go.
TaskMove(r) ==
  /\ pc[r] \in RunnerPCs
  /\ pc' = [pc EXCEPT ![r] = pc'[r]] /\ pc'[r] \in RunnerPCs \cup {"leaked", "done"}
  /\ session' = session /\ cancelled' = cancelled
  /\ \/ status' = status
     \/ /\ \E x \in Terminal : status' = [status EXCEPT ![session[r]] = x]
        /\ pc'[r] \in {"removing", "leaked"}
  /\ pc'[r] = "removing" => status'[session[r]] \in Terminal
  /\ IF pc'[r] = "done"
     THEN pc[r] = "removing" /\ running' = running \ {session[r]}
     ELSE pc[r] # "removing" /\ running' = running
  /\ lateChats' = IF r \in cancelled /\ pc'[r] = "chatting"
                  THEN [lateChats EXCEPT ![r] = @ + 1] ELSE lateChats
  /\ pc'[r] = "chatting" => pc[r] = "sending"
  /\ pc'[r] = "sending" => pc[r] = "turn" /\ status[session[r]] # "cancelled"

LEMMA RunStepMoves ==
  ASSUME ControlTypeOK, NEW r \in Runs, session[r] \in Sessions, RunStep(r)
  PROVE  /\ pc[r] \in RunnerPCs \ {"removing"}
         /\ pc' = [pc EXCEPT ![r] = pc'[r]] /\ pc'[r] \in RunnerPCs \cup {"leaked"}
         /\ session' = session
         /\ \/ status' = status
            \/ /\ \E x \in Terminal : status' = [status EXCEPT ![session[r]] = x]
               /\ pc'[r] = "removing"
         /\ pc'[r] = "removing" => status'[session[r]] \in Terminal
         /\ pc'[r] = "chatting" => pc[r] = "sending"
         /\ pc'[r] = "sending" => pc[r] = "turn" /\ status[session[r]] # "cancelled"
<1>. USE DEF ControlTypeOK, RunnerPCs, Goto
<1>1. CASE Load(r) \/ LoadFails(r)
  BY <1>1 DEF Load, LoadFails
<1>2. CASE SeeCancelled(r)
  BY <1>2 DEF SeeCancelled, Terminal
<1>3. CASE PassCheck(r)
  BY <1>3 DEF PassCheck
<1>4. CASE BeginChat(r) \/ CompactPanics(r)
  BY <1>4 DEF BeginChat, CompactPanics
<1>5. CASE ChatReplies(r) \/ ChatFails(r)
  BY <1>5 DEF ChatReplies, ChatFails
<1>6. CASE AppendReply(r) \/ AppendFails(r)
  BY <1>6 DEF AppendReply, AppendFails
<1>7. CASE RunTool(r)
  BY <1>7 DEF RunTool
<1>8. CASE EndRun(r)
  <2>1. EndStatus(r) \in Terminal
    BY DEF EndStatus, Terminal
  <2>. QED  BY <1>8, <2>1 DEF EndRun, SetStatus
<1>9. CASE EndAtLimit(r)
  BY <1>9 DEF EndAtLimit, SetStatus, Terminal
<1>. QED
  BY <1>1, <1>2, <1>3, <1>4, <1>5, <1>6, <1>7, <1>8, <1>9 DEF RunStep

LEMMA TaskStepMoves ==
  ASSUME ServerInv, NEW r \in Runs, TaskStep(r)
  PROVE  TaskMove(r)
<1>1. pc[r] \in RunnerPCs
  BY DEF TaskStep, Resolve, ResolveFails, Advance, FailRun, Remove, RunnerPCs, RunStep,
         Load, LoadFails, SeeCancelled, PassCheck, BeginChat, CompactPanics, ChatReplies,
         ChatFails, AppendReply, RunTool, AppendFails, EndRun, EndAtLimit
<1>2. ControlTypeOK /\ session[r] \in Sessions
  BY <1>1 DEF ServerInv, RunningIsExact
<1>3. CASE Resolve(r)
  BY <1>2, <1>3 DEF Resolve, TaskMove, Goto, RunnerPCs, ControlTypeOK, cancelVars
<1>4. CASE ResolveFails(r)
  BY <1>2, <1>4 DEF ResolveFails, TaskMove, Goto, SetStatus, Terminal, RunnerPCs, ControlTypeOK,
                    cancelVars
<1>5. CASE Advance(r)
  <2>1. RunStep(r) /\ UNCHANGED <<running, cancelled>>
        /\ lateChats' = IF r \in cancelled /\ pc'[r] = "chatting"
                        THEN [lateChats EXCEPT ![r] = @ + 1] ELSE lateChats
    BY <1>5 DEF Advance
  <2>2. "done" \notin RunnerPCs \cup {"leaked"}
    BY DEF RunnerPCs
  <2>. QED  BY <1>2, <2>1, <2>2, RunStepMoves DEF TaskMove
<1>6. CASE FailRun(r)
  BY <1>2, <1>6 DEF FailRun, TaskMove, Goto, SetStatus, Terminal, RunnerPCs, ControlTypeOK,
                    cancelVars
<1>7. CASE Remove(r)
  BY <1>2, <1>7 DEF Remove, TaskMove, Goto, RunnerPCs, ControlTypeOK, cancelVars
<1>. QED  BY <1>3, <1>4, <1>5, <1>6, <1>7 DEF TaskStep

-----------------------------------------------------------------------------
(* The invariant is preserved                                              *)

LEMMA ServerInvInit == ServerInit => ServerInv
<1>. SUFFICES ASSUME ServerInit PROVE ServerInv
  OBVIOUS
<1>. USE DEF ServerInit, RunnerInit
<1>1. ControlTypeOK
  BY DEF ControlTypeOK, PCs
<1>2. RunsApart /\ RunningIsExact
  BY DEF RunsApart, RunningIsExact, Occupies, HandlerPCs, RunnerPCs
<1>3. EndsAreTerminal /\ CancelInv
  BY DEF EndsAreTerminal, CancelInv, RunnerPCs
<1>. QED  BY <1>1, <1>2, <1>3 DEF ServerInv

LEMMA TaskMoveKeepsInv ==
  ASSUME ServerInv, NEW r \in Runs, TaskMove(r)
  PROVE  ServerInv'
<1>. USE DEF ServerInv, TaskMove
<1>1. session[r] \in Sessions /\ Occupies(r)
  BY DEF RunningIsExact, Occupies
<1>2. ControlTypeOK'
  BY <1>1 DEF ControlTypeOK, PCs
<1>3. \A q \in Runs \ {r} : pc'[q] = pc[q] /\ (Occupies(q)' <=> Occupies(q))
  BY DEF ControlTypeOK, Occupies
<1>4. pc'[r] \notin HandlerPCs /\ (Occupies(r)' <=> pc'[r] # "done") /\ pc[r] \notin HandlerPCs
  BY DEF HandlerPCs, RunnerPCs, Occupies
<1>5. RunsApart'
  BY <1>1, <1>3, <1>4 DEF RunsApart
<1>6. RunningIsExact'
  <2>1. ASSUME NEW q \in Runs, Occupies(q)' PROVE session'[q] \in running'
    <3>1. Occupies(q) /\ session[q] \in running
      BY <1>1, <1>3, <2>1 DEF RunningIsExact
    <3>2. CASE pc'[r] = "done"
      <4>1. q # r
        BY <1>4, <2>1, <3>2
      <4>. QED  BY <1>1, <3>1, <3>2, <4>1 DEF RunsApart
    <3>. QED  BY <3>1, <3>2
  <2>2. ASSUME NEW s \in running' PROVE \E q \in Runs : Occupies(q)' /\ session'[q] = s
    <3>1. PICK q \in Runs : Occupies(q) /\ session[q] = s
      BY DEF RunningIsExact
    <3>2. Occupies(q)'
      BY <1>3, <1>4, <3>1
    <3>. QED  BY <3>1, <3>2
  <2>3. ASSUME NEW q \in Runs, pc'[q] = "inserting" PROVE session'[q] \notin running'
    <3>1. q # r /\ pc[q] = "inserting"
      BY <1>3, <1>4, <2>3 DEF HandlerPCs
    <3>. QED  BY <3>1 DEF RunningIsExact
  <2>4. ASSUME NEW q \in Runs, pc'[q] \in HandlerPCs \cup RunnerPCs \cup {"leaked", "done"}
        PROVE  session'[q] \in Sessions
    BY <1>1, <1>3, <2>4 DEF RunningIsExact
  <2>. QED  BY <2>1, <2>2, <2>3, <2>4 DEF RunningIsExact
\* r writes terminal states only, so a record that another run has left in one
\* stays in one.
<1>7. EndsAreTerminal'
  <2>. SUFFICES ASSUME NEW q \in Runs, pc'[q] \in {"removing", "done"}
                PROVE  status'[session[q]] \in Terminal
    BY DEF EndsAreTerminal
  <2>1. CASE q = r
    <3>1. CASE pc'[r] = "removing"
      BY <2>1, <3>1
    <3>2. CASE pc'[r] = "done"
      BY <2>1, <3>2 DEF EndsAreTerminal
    <3>. QED  BY <2>1, <3>1, <3>2
  <2>2. CASE q # r
    <3>1. status[session[q]] \in Terminal /\ session[q] \in Sessions
      BY <1>3, <2>2 DEF EndsAreTerminal, RunningIsExact, RunnerPCs
    <3>. QED  BY <1>1, <3>1 DEF ControlTypeOK
  <2>. QED  BY <2>1, <2>2
<1>8. CancelInv'
  <2>. SUFFICES ASSUME NEW q \in Runs
                PROVE  /\ q \in cancelled => pc'[q] \in Spawned
                       /\ q \notin cancelled => lateChats'[q] = 0
                       /\ q \in cancelled /\ pc'[q] = "sending" => lateChats'[q] = 0
                       /\ q \in cancelled /\ pc'[q] \in RunnerPCs \ {"removing"}
                            => status'[session[q]] = "cancelled"
                       /\ lateChats'[q] <= 1
    BY DEF CancelInv
  <2>1. CASE q = r
    <3>1. pc'[r] \in Spawned
      BY DEF Spawned
    <3>2. pc'[r] \in RunnerPCs \ {"removing"} => status' = status /\ pc[r] \in RunnerPCs \ {"removing"}
      BY DEF RunnerPCs
    <3>3. CASE r \in cancelled /\ pc'[r] = "chatting"
      <4>1. lateChats[r] = 0 /\ lateChats' = [lateChats EXCEPT ![r] = lateChats[r] + 1]
        BY <3>3 DEF CancelInv
      <4>2. lateChats'[r] = 1
        BY <4>1 DEF ControlTypeOK
      <4>. QED  BY <2>1, <3>1, <3>2, <3>3, <4>2 DEF CancelInv
    <3>4. CASE ~(r \in cancelled /\ pc'[r] = "chatting")
      <4>1. lateChats' = lateChats
        BY <3>4
      <4>2. r \in cancelled => pc'[r] # "sending"
        BY <3>2 DEF CancelInv, RunnerPCs
      <4>. QED  BY <2>1, <3>1, <3>2, <4>1, <4>2 DEF CancelInv
    <3>. QED  BY <3>3, <3>4
  <2>2. CASE q # r
    <3>1. lateChats'[q] = lateChats[q] /\ pc'[q] = pc[q]
      BY <1>3, <2>2 DEF ControlTypeOK
    <3>2. pc[q] \in RunnerPCs => status'[session[q]] = status[session[q]]
      <4>1. pc[q] \in RunnerPCs => session[q] # session[r] /\ session[q] \in Sessions
        BY <1>1, <2>2 DEF RunsApart, RunningIsExact, Occupies
      <4>. QED  BY <4>1 DEF ControlTypeOK
    <3>. QED  BY <3>1, <3>2 DEF CancelInv
  <2>. QED  BY <2>1, <2>2
<1>. QED  BY <1>2, <1>5, <1>6, <1>7, <1>8

-----------------------------------------------------------------------------
(* The handlers                                                            *)

\* With one request at a time, nobody is in the handler when one arrives.
LEMMA ArrivalsFindNobody ==
  ASSUME HandlerLimit = 1, NEW r \in Runs, NEW s \in Sessions, Arrive(r, s)
  PROVE  \A q \in Runs : pc[q] \notin HandlerPCs
<1>1. IsFiniteSet(InHandler)
  BY RunnerAssumption, FS_Subset DEF InHandler
<1>2. Cardinality(InHandler) < 1
  BY DEF Arrive
<1>3. Cardinality(InHandler) = 0
  BY <1>1, <1>2, FS_CardinalityType
<1>4. InHandler = {}
  BY <1>1, <1>3, FS_EmptySet
<1>. QED  BY <1>4 DEF InHandler

LEMMA ArriveKeepsInv ==
  ASSUME ServerInv, HandlerLimit = 1, NEW r \in Runs, NEW s \in Sessions,
         ArriveNew(r, s) \/ ArriveResume(r, s)
  PROVE  ServerInv'
<1>. USE DEF ServerInv
<1>1. /\ Arrive(r, s) /\ UNCHANGED <<running, cancelled, lateChats>>
      /\ \/ status' = status
         \/ status[s] = "absent" /\ status' = [status EXCEPT ![s] = "active"]
  BY DEF ArriveNew, ArriveResume, cancelVars
<1>2. \A q \in Runs : pc[q] \notin HandlerPCs
  BY <1>1, ArrivalsFindNobody
<1>3. pc[r] = "new" /\ pc' = [pc EXCEPT ![r] = "prompting"] /\ session' = [session EXCEPT ![r] = s]
  BY <1>1 DEF Arrive, Goto
<1>4. ControlTypeOK'
  BY <1>1, <1>3 DEF ControlTypeOK, PCs, HandlerPCs
<1>5. \A q \in Runs \ {r} : pc'[q] = pc[q] /\ session'[q] = session[q]
  BY <1>3 DEF ControlTypeOK
<1>6. pc'[r] = "prompting" /\ session'[r] = s
  BY <1>3 DEF ControlTypeOK
<1>7. RunsApart'
  BY <1>2, <1>5, <1>6 DEF RunsApart, Occupies, RunnerPCs
<1>8. RunningIsExact'
  BY <1>1, <1>3, <1>5, <1>6 DEF RunningIsExact, Occupies, RunnerPCs, HandlerPCs
<1>9. EndsAreTerminal'
  <2>. SUFFICES ASSUME NEW q \in Runs, pc'[q] \in {"removing", "done"}
                PROVE  status'[session'[q]] \in Terminal
    BY DEF EndsAreTerminal
  <2>1. q # r /\ session'[q] = session[q] /\ status[session[q]] \in Terminal /\ session[q] \in Sessions
    BY <1>5, <1>6 DEF EndsAreTerminal, RunningIsExact, RunnerPCs
  <2>2. "absent" \notin Terminal
    BY DEF Terminal
  <2>. QED  BY <1>1, <2>1, <2>2 DEF ControlTypeOK
<1>10. CancelInv'
  <2>1. ASSUME NEW q \in Runs, pc'[q] \in RunnerPCs
        PROVE  status[session[q]] = "cancelled" => status'[session'[q]] = "cancelled"
    <3>1. q # r /\ session'[q] = session[q] /\ session[q] \in Sessions
      BY <1>5, <1>6, <2>1 DEF RunningIsExact, RunnerPCs
    <3>. QED  BY <1>1, <3>1 DEF ControlTypeOK
  <2>2. ASSUME NEW q \in Runs, pc'[q] \in RunnerPCs PROVE pc[q] = pc'[q]
    BY <1>5, <1>6, <2>2 DEF RunnerPCs
  <2>3. ASSUME NEW q \in cancelled PROVE pc'[q] \in Spawned
    <3>1. q \in Runs /\ pc[q] \in Spawned
      BY <2>3 DEF ControlTypeOK, CancelInv
    <3>. QED  BY <1>3, <1>5, <3>1 DEF Spawned, RunnerPCs
  <2>4. "sending" \in RunnerPCs
    BY DEF RunnerPCs
  <2>. QED  BY <1>1, <2>1, <2>2, <2>3, <2>4 DEF CancelInv
<1>. QED  BY <1>4, <1>7, <1>8, <1>9, <1>10

\* AppendPrompt, CheckRunning and Spawn move one handler on, and only Spawn
\* touches the running set.
LEMMA HandlerKeepsInv ==
  ASSUME ServerInv, NEW r \in Runs, AppendPrompt(r) \/ CheckRunning(r) \/ Spawn(r)
  PROVE  ServerInv'
<1>. USE DEF ServerInv
<1>1. /\ pc[r] \in HandlerPCs
      /\ pc' = [pc EXCEPT ![r] = pc'[r]]
      /\ pc'[r] \in {"refused", "conflict", "checking", "inserting", "resolving"}
      /\ UNCHANGED <<session, status, cancelled, lateChats>>
      /\ pc'[r] = "inserting" => session[r] \notin running
      /\ IF pc'[r] = "resolving"
         THEN pc[r] = "inserting" /\ running' = running \cup {session[r]}
         ELSE running' = running
  BY DEF AppendPrompt, CheckRunning, Spawn, Goto, HandlerPCs, ControlTypeOK, cancelVars
<1>2. session[r] \in Sessions
  BY <1>1 DEF RunningIsExact
<1>3. ControlTypeOK'
  BY <1>1, <1>2 DEF ControlTypeOK, PCs, HandlerPCs, RunnerPCs
<1>4. \A q \in Runs \ {r} : pc'[q] = pc[q] /\ pc[q] \notin HandlerPCs /\ (Occupies(q)' <=> Occupies(q))
  BY <1>1 DEF ControlTypeOK, RunsApart, Occupies
<1>5. (Occupies(r)' <=> pc'[r] = "resolving") /\ ~Occupies(r)
  BY <1>1 DEF Occupies, RunnerPCs, HandlerPCs
<1>6. pc'[r] = "resolving" => session[r] \notin running
  BY <1>1 DEF RunningIsExact
<1>7. RunsApart'
  <2>1. \A q \in Runs : pc'[q] \in HandlerPCs => q = r
    BY <1>4
  <2>2. ASSUME NEW q \in Runs \ {r}, Occupies(r)', Occupies(q)' PROVE session[q] # session[r]
    BY <1>4, <1>5, <1>6, <2>2 DEF RunningIsExact
  <2>. QED  BY <1>1, <1>4, <2>1, <2>2 DEF RunsApart
<1>8. RunningIsExact'
  <2>1. ASSUME NEW q \in Runs, Occupies(q)' PROVE session'[q] \in running'
    BY <1>1, <1>4, <1>5, <2>1 DEF RunningIsExact
  <2>2. ASSUME NEW s \in running' PROVE \E q \in Runs : Occupies(q)' /\ session'[q] = s
    <3>1. CASE s \in running
      <4>1. PICK q \in Runs : Occupies(q) /\ session[q] = s
        BY <3>1 DEF RunningIsExact
      <4>. QED  BY <1>1, <1>4, <1>5, <4>1
    <3>2. CASE s \notin running
      BY <1>1, <1>5, <3>2
    <3>. QED  BY <3>1, <3>2
  <2>3. ASSUME NEW q \in Runs, pc'[q] = "inserting" PROVE session'[q] \notin running'
    <3>1. q = r
      BY <1>4, <2>3 DEF HandlerPCs
    <3>. QED  BY <1>1, <2>3, <3>1
  <2>4. ASSUME NEW q \in Runs, pc'[q] \in HandlerPCs \cup RunnerPCs \cup {"leaked", "done"}
        PROVE  session'[q] \in Sessions
    BY <1>1, <1>2, <1>4, <2>4 DEF RunningIsExact
  <2>. QED  BY <2>1, <2>2, <2>3, <2>4 DEF RunningIsExact
<1>9. EndsAreTerminal'
  BY <1>1, <1>4 DEF EndsAreTerminal
<1>10. CancelInv'
  <2>1. ASSUME NEW q \in Runs
        PROVE  /\ pc'[q] = "sending" => pc[q] = "sending"
               /\ q # r /\ pc'[q] \in RunnerPCs \ {"removing"} => pc[q] \in RunnerPCs \ {"removing"}
    BY <1>1, <1>4
  <2>2. r \notin cancelled
    BY <1>1 DEF CancelInv, Spawned, RunnerPCs, HandlerPCs
  <2>3. \A q \in cancelled : pc'[q] \in Spawned
    BY <1>4, <2>2 DEF ControlTypeOK, CancelInv
  <2>. QED  BY <1>1, <2>1, <2>2, <2>3 DEF CancelInv
<1>. QED  BY <1>3, <1>7, <1>8, <1>9, <1>10

-----------------------------------------------------------------------------
(* Cancel and restart                                                      *)

LEMMA CancelKeepsInv ==
  ASSUME ServerInv, NEW s \in Sessions, Cancel(s)
  PROVE  ServerInv'
<1>. USE DEF ServerInv
<1>1. /\ status' = [status EXCEPT ![s] = "cancelled"]
      /\ cancelled' = cancelled \cup {r \in Runs : Live(r) /\ session[r] = s}
      /\ UNCHANGED <<pc, session, running, lateChats>>
  BY DEF Cancel
<1>2. ControlTypeOK'
  BY <1>1 DEF ControlTypeOK, Terminal
<1>3. RunsApart' /\ RunningIsExact'
  BY <1>1 DEF RunsApart, RunningIsExact, Occupies
<1>4. EndsAreTerminal'
  BY <1>1 DEF EndsAreTerminal, ControlTypeOK, Terminal
<1>5. CancelInv'
  <2>. SUFFICES ASSUME NEW q \in Runs
                PROVE  /\ q \in cancelled' => pc[q] \in Spawned
                       /\ q \notin cancelled' => lateChats[q] = 0
                       /\ q \in cancelled' /\ pc[q] = "sending" => lateChats[q] = 0
                       /\ q \in cancelled' /\ pc[q] \in RunnerPCs \ {"removing"}
                            => status'[session[q]] = "cancelled"
                       /\ lateChats[q] <= 1
    BY <1>1 DEF CancelInv
  <2>1. pc[q] \in RunnerPCs => session[q] \in Sessions
    BY DEF RunningIsExact
  <2>2. q \in cancelled' => q \in cancelled \/ (Live(q) /\ session[q] = s)
    BY <1>1
  <2>3. Live(q) => pc[q] \in Spawned
    BY DEF Live, Spawned
  <2>. QED  BY <1>1, <2>1, <2>2, <2>3 DEF CancelInv, ControlTypeOK
<1>. QED  BY <1>2, <1>3, <1>4, <1>5

LEMMA RestartKeepsInv ==
  ASSUME ServerInv, Restart
  PROVE  ServerInv'
<1>. USE DEF ServerInv
<1>1. /\ running' = {} /\ UNCHANGED <<status, session, cancelled, lateChats>>
      /\ pc' = [r \in Runs |-> IF pc[r] \in HandlerPCs \cup RunnerPCs \cup {"leaked"}
                               THEN "lost" ELSE pc[r]]
  BY DEF Restart, cancelVars
<1>2. \A r \in Runs : /\ pc'[r] \notin HandlerPCs \cup RunnerPCs \cup {"leaked"}
                      /\ pc'[r] = pc[r] \/ pc'[r] = "lost"
  BY <1>1 DEF HandlerPCs, RunnerPCs
<1>3. ControlTypeOK'
  BY <1>1 DEF ControlTypeOK, PCs
<1>4. RunsApart'
  BY <1>2 DEF RunsApart, Occupies
<1>5. RunningIsExact'
  BY <1>1, <1>2 DEF RunningIsExact, Occupies, HandlerPCs
<1>6. EndsAreTerminal'
  BY <1>1, <1>2 DEF EndsAreTerminal
<1>7. CancelInv'
  <2>1. "sending" \in RunnerPCs
    BY DEF RunnerPCs
  <2>. QED  BY <1>1, <1>2, <2>1 DEF CancelInv, Spawned
<1>. QED  BY <1>3, <1>4, <1>5, <1>6, <1>7

LEMMA ServerInvStep ==
  ASSUME HandlerLimit = 1
  PROVE  ServerInv /\ [ServerNext]_serverVars => ServerInv'
<1>. SUFFICES ASSUME ServerInv, [ServerNext]_serverVars PROVE ServerInv'
  OBVIOUS
<1>1. ASSUME NEW r \in Runs, NEW s \in Sessions, ArriveNew(r, s) \/ ArriveResume(r, s) PROVE ServerInv'
  BY <1>1, ArriveKeepsInv
<1>2. ASSUME NEW r \in Runs, AppendPrompt(r) \/ CheckRunning(r) \/ Spawn(r) PROVE ServerInv'
  BY <1>2, HandlerKeepsInv
<1>3. ASSUME NEW r \in Runs, TaskStep(r) PROVE ServerInv'
  BY <1>3, TaskStepMoves, TaskMoveKeepsInv
<1>4. ASSUME NEW s \in Sessions, Cancel(s) PROVE ServerInv'
  BY <1>4, CancelKeepsInv
<1>5. CASE Restart
  BY <1>5, RestartKeepsInv
<1>6. CASE UNCHANGED serverVars
  BY <1>6 DEF serverVars, ServerInv, ControlTypeOK, RunsApart, RunningIsExact, EndsAreTerminal,
              CancelInv, Occupies
<1>. QED  BY <1>1, <1>2, <1>3, <1>4, <1>5, <1>6 DEF ServerNext

-----------------------------------------------------------------------------
(* Theorems                                                                *)

\* Requests made one at a time keep running_sessions equal to the sessions of
\* the runs that are live or have leaked, and keep those runs apart.
THEOREM ServerInvariant ==
  ASSUME HandlerLimit = 1
  PROVE  ServerSpec => []ServerInv
<1>1. ServerInit => ServerInv
  BY ServerInvInit
<1>2. ServerInv /\ [ServerNext]_serverVars => ServerInv'
  BY ServerInvStep
<1>. QED  BY <1>1, <1>2, PTL DEF ServerSpec

\* A session never has two live runs.
THEOREM SessionsRunOnce ==
  ASSUME HandlerLimit = 1
  PROVE  ServerSpec => []OneRunPerSession
<1>1. ServerInv => OneRunPerSession
  BY DEF ServerInv, RunsApart, OneRunPerSession, Live, Occupies
<1>. QED  BY <1>1, ServerInvariant, PTL

\* A live run is always registered, whatever failed, panicked or restarted.
THEOREM RunsAreRegistered ==
  ASSUME HandlerLimit = 1
  PROVE  ServerSpec => []LiveRunsAreRegistered
<1>1. ServerInv => LiveRunsAreRegistered
  BY DEF ServerInv, RunningIsExact, LiveRunsAreRegistered, Live, Occupies
<1>. QED  BY <1>1, ServerInvariant, PTL

\* A cancelled run begins at most one more call to its provider.
THEOREM CancelsStop ==
  ASSUME HandlerLimit = 1
  PROVE  ServerSpec => []CancelStopsTheLoop
<1>1. ServerInv => CancelStopsTheLoop
  BY DEF ServerInv, CancelInv, CancelStopsTheLoop
<1>. QED  BY <1>1, ServerInvariant, PTL

\* The record of a session whose run has ended holds a terminal state.
THEOREM EndsAreRecorded ==
  ASSUME HandlerLimit = 1
  PROVE  ServerSpec => []FinishedRunsAreTerminal
<1>1. ServerInv => FinishedRunsAreTerminal
  BY DEF ServerInv, EndsAreTerminal, FinishedRunsAreTerminal
<1>. QED  BY <1>1, ServerInvariant, PTL

\* A request is refused as busy only because of a run that is live or leaked.
THEOREM ConflictsAreReal ==
  ASSUME HandlerLimit = 1
  PROVE  ServerSpec => ConflictMeansRunning
<1>1. ServerInv /\ [ServerNext]_serverVars
        => [\A r \in Runs : pc[r] # "conflict" /\ pc'[r] = "conflict"
              => \E q \in Runs : session[q] = session[r] /\ (Live(q) \/ pc[q] = "leaked")]_serverVars
  <2>. SUFFICES ASSUME ServerInv, ServerNext, NEW r \in Runs, pc[r] # "conflict", pc'[r] = "conflict"
                PROVE  \E q \in Runs : session[q] = session[r] /\ (Live(q) \/ pc[q] = "leaked")
    OBVIOUS
  <2>1. CheckRunning(r)
    <3>. USE DEF ServerInv, ControlTypeOK, Goto
    <3>1. ASSUME NEW q \in Runs, TaskStep(q) PROVE FALSE
      <4>1. TaskMove(q)
        BY <3>1, TaskStepMoves
      <4>. QED  BY <4>1 DEF TaskMove, RunnerPCs
    <3>2. ASSUME NEW q \in Runs, NEW s \in Sessions, ArriveNew(q, s) \/ ArriveResume(q, s) PROVE FALSE
      BY <3>2 DEF ArriveNew, ArriveResume, Arrive
    <3>3. ASSUME NEW q \in Runs, AppendPrompt(q) \/ Spawn(q) PROVE FALSE
      BY <3>3 DEF AppendPrompt, Spawn
    <3>4. ASSUME NEW q \in Runs \ {r}, CheckRunning(q) PROVE FALSE
      BY <3>4 DEF CheckRunning
    <3>5. ASSUME NEW s \in Sessions, Cancel(s) PROVE FALSE
      BY <3>5 DEF Cancel
    <3>6. ASSUME Restart PROVE FALSE
      BY <3>6 DEF Restart
    <3>. QED  BY <3>1, <3>2, <3>3, <3>4, <3>5, <3>6 DEF ServerNext
  <2>2. session[r] \in running
    BY <2>1 DEF CheckRunning, Goto, ServerInv, ControlTypeOK
  <2>. QED  BY <2>2 DEF ServerInv, RunningIsExact, Occupies, Live
<1>. QED  BY <1>1, ServerInvariant, PTL DEF ServerSpec, ConflictMeansRunning

-----------------------------------------------------------------------------
(* Sequences of messages: positions, calls and answers                     *)

Positions(c, e) == {j \in DOMAIN c : c[j] = e}

\* The calls that run q makes in c from i on, and the answers to them after i.
CallSet(c, q, i) ==
  {call \in (i..Len(c)) \X (1..MaxCalls) :
     LET m == c[call[1]]
     IN  m.kind = "assistant" /\ m.run = q /\ call[2] <= m.calls}

AnswerSet(c, q, i) == {j \in (i + 1)..Len(c) : c[j].kind = "tool" /\ c[j].run = q}

\* The answers of run q that are still to come are at most n.
Owing(c, q, n) ==
  \A i \in DOMAIN c : c[i].kind = "assistant" /\ c[i].run = q =>
    Cardinality(CallSet(c, q, i)) <= Cardinality(AnswerSet(c, q, i)) + n

LEMMA PositionsAreFinite ==
  ASSUME NEW c \in Seq(Entry), NEW e
  PROVE  IsFiniteSet(Positions(c, e)) /\ Cardinality(Positions(c, e)) \in Nat
<1>1. Positions(c, e) \in SUBSET (1..Len(c)) /\ Len(c) \in Nat
  BY DEF Positions
<1>2. IsFiniteSet(1..Len(c))
  BY <1>1, FS_Interval
<1>3. IsFiniteSet(Positions(c, e))
  BY <1>1, <1>2, FS_Subset
<1>. QED  BY <1>3, FS_CardinalityType

LEMMA PositionsAfterAppend ==
  ASSUME NEW c \in Seq(Entry), NEW x \in Entry, NEW e
  PROVE  Cardinality(Positions(Append(c, x), e))
           = Cardinality(Positions(c, e)) + (IF x = e THEN 1 ELSE 0)
<1>1. /\ Len(c) \in Nat /\ DOMAIN c = 1..Len(c) /\ DOMAIN Append(c, x) = 1..(Len(c) + 1)
      /\ \A j \in 1..Len(c) : Append(c, x)[j] = c[j]
      /\ Append(c, x)[Len(c) + 1] = x
  OBVIOUS
<1>2. IsFiniteSet(Positions(c, e)) /\ Len(c) + 1 \notin Positions(c, e) /\ Cardinality(Positions(c, e)) \in Nat
  <2>1. Len(c) + 1 \notin Positions(c, e)
    BY <1>1 DEF Positions
  <2>. QED  BY <2>1, PositionsAreFinite
<1>3. CASE x = e
  <2>1. Positions(Append(c, x), e) = Positions(c, e) \cup {Len(c) + 1}
    BY <1>1, <1>3 DEF Positions
  <2>2. Cardinality(Positions(c, e) \cup {Len(c) + 1}) = Cardinality(Positions(c, e)) + 1
    BY <1>2, FS_AddElement
  <2>. QED  BY <1>3, <2>1, <2>2
<1>4. CASE x # e
  <2>1. Positions(Append(c, x), e) = Positions(c, e)
    BY <1>1, <1>4 DEF Positions
  <2>. QED  BY <1>2, <1>4, <2>1
<1>. QED  BY <1>3, <1>4

LEMMA CallsAndAnswersAreFinite ==
  ASSUME NEW c \in Seq(Entry), NEW q, NEW i \in Nat
  PROVE  /\ IsFiniteSet(CallSet(c, q, i)) /\ Cardinality(CallSet(c, q, i)) \in Nat
         /\ IsFiniteSet(AnswerSet(c, q, i)) /\ Cardinality(AnswerSet(c, q, i)) \in Nat
<1>1. Len(c) \in Nat /\ i + 1 \in Nat /\ MaxCalls \in Nat
  BY RunnerAssumption
<1>2. /\ IsFiniteSet(i..Len(c)) /\ IsFiniteSet(1..MaxCalls) /\ IsFiniteSet((i + 1)..Len(c))
  BY <1>1, FS_Interval
<1>3. IsFiniteSet((i..Len(c)) \X (1..MaxCalls))
  BY <1>2, FS_Product
<1>4. CallSet(c, q, i) \in SUBSET ((i..Len(c)) \X (1..MaxCalls)) /\ AnswerSet(c, q, i) \in SUBSET ((i + 1)..Len(c))
  BY DEF CallSet, AnswerSet
<1>5. IsFiniteSet(CallSet(c, q, i)) /\ IsFiniteSet(AnswerSet(c, q, i))
  BY <1>2, <1>3, <1>4, FS_Subset
<1>. QED  BY <1>5, FS_CardinalityType

\* The calls of one message.
LEMMA MessageCalls ==
  ASSUME NEW i \in Nat, NEW n \in Nat
  PROVE  IsFiniteSet({i} \X (1..n)) /\ Cardinality({i} \X (1..n)) = n
<1>1. IsFiniteSet({i}) /\ Cardinality({i}) = 1 /\ IsFiniteSet(1..n) /\ Cardinality(1..n) = n
  <2>1. Cardinality(1..n) = n /\ IsFiniteSet(1..n)
    BY FS_Interval
  <2>2. IsFiniteSet({i}) /\ Cardinality({i}) = 1
    BY FS_Singleton
  <2>. QED  BY <2>1, <2>2
<1>2. IsFiniteSet({i} \X (1..n)) /\ Cardinality({i} \X (1..n)) = Cardinality({i}) * Cardinality(1..n)
  BY <1>1, FS_Product
<1>. QED  BY <1>1, <1>2

\* A message of run q with k calls leaves k more of them open.
LEMMA CallsOpen ==
  ASSUME NEW c \in Seq(Entry), NEW x \in Entry, NEW q, NEW n \in Nat, Owing(c, q, n),
         x.kind = "assistant", x.run = q
  PROVE  Owing(Append(c, x), q, n + x.calls)
<1>. DEFINE b == Append(c, x)  l == Len(c) + 1
<1>1. /\ Len(c) \in Nat /\ l \in Nat /\ DOMAIN c = 1..Len(c) /\ DOMAIN b = 1..l /\ Len(b) = l
      /\ \A j \in 1..Len(c) : b[j] = c[j]
      /\ b[l] = x /\ b \in Seq(Entry)
      /\ x.calls \in 0..MaxCalls /\ MaxCalls \in Nat
  BY RunnerAssumption DEF Entry
<1>. HIDE DEF b, l
<1>. SUFFICES ASSUME NEW i \in DOMAIN b, b[i].kind = "assistant", b[i].run = q
              PROVE  Cardinality(CallSet(b, q, i)) <= Cardinality(AnswerSet(b, q, i)) + (n + x.calls)
  BY DEF Owing, b
<1>2. CallSet(b, q, i) = CallSet(c, q, i) \cup ({l} \X (1..x.calls))
  <2>1. ASSUME NEW j, NEW k, <<j, k>> \in CallSet(b, q, i)
        PROVE  <<j, k>> \in CallSet(c, q, i) \cup ({l} \X (1..x.calls))
    BY <1>1, <2>1 DEF CallSet, l
  <2>2. ASSUME NEW j, NEW k, <<j, k>> \in CallSet(c, q, i)
        PROVE  <<j, k>> \in CallSet(b, q, i)
    BY <1>1, <2>2 DEF CallSet, l
  <2>3. ASSUME NEW k \in 1..x.calls
        PROVE  <<l, k>> \in CallSet(b, q, i)
    BY <1>1, <2>3 DEF CallSet
  <2>4. \A z \in CallSet(b, q, i) \cup CallSet(c, q, i) : z = <<z[1], z[2]>>
    BY DEF CallSet
  <2>. QED  BY <2>1, <2>2, <2>3, <2>4
<1>3. CallSet(c, q, i) \cap ({l} \X (1..x.calls)) = {}
  BY <1>1 DEF CallSet, l
<1>4. /\ IsFiniteSet(CallSet(c, q, i)) /\ Cardinality(CallSet(c, q, i)) \in Nat
      /\ IsFiniteSet({l} \X (1..x.calls)) /\ Cardinality({l} \X (1..x.calls)) = x.calls
      /\ Cardinality(AnswerSet(c, q, i)) \in Nat
  <2>1. i \in Nat /\ x.calls \in Nat
    BY <1>1
  <2>2. /\ IsFiniteSet(CallSet(c, q, i)) /\ Cardinality(CallSet(c, q, i)) \in Nat
        /\ Cardinality(AnswerSet(c, q, i)) \in Nat
    BY <2>1, CallsAndAnswersAreFinite
  <2>3. IsFiniteSet({l} \X (1..x.calls)) /\ Cardinality({l} \X (1..x.calls)) = x.calls
    BY <1>1, <2>1, MessageCalls
  <2>. QED  BY <2>2, <2>3
<1>5. Cardinality(CallSet(b, q, i)) = Cardinality(CallSet(c, q, i)) + x.calls
  <2>1. Cardinality(CallSet(b, q, i))
          = Cardinality(CallSet(c, q, i)) + Cardinality({l} \X (1..x.calls)) - Cardinality({})
    BY <1>2, <1>3, <1>4, FS_Union
  <2>. QED  BY <1>1, <1>4, <2>1, FS_EmptySet
<1>6. AnswerSet(b, q, i) = AnswerSet(c, q, i)
  BY <1>1 DEF AnswerSet, l
<1>7. CASE i = l
  <2>1. CallSet(c, q, i) = {}
    BY <1>1, <1>7 DEF CallSet, l
  <2>2. Cardinality(CallSet(c, q, i)) = 0
    BY <2>1, FS_EmptySet
  <2>. QED  BY <1>1, <1>4, <1>5, <1>6, <2>2
<1>8. CASE i # l
  <2>1. i \in DOMAIN c /\ c[i].kind = "assistant" /\ c[i].run = q
    BY <1>1, <1>8 DEF l
  <2>2. Cardinality(CallSet(c, q, i)) <= Cardinality(AnswerSet(c, q, i)) + n
    BY <2>1 DEF Owing
  <2>. QED  BY <1>1, <1>4, <1>5, <1>6, <2>2
<1>. QED  BY <1>7, <1>8

\* Any other message opens none, and an answer of run q closes one.
LEMMA OthersDoNotOpen ==
  ASSUME NEW c \in Seq(Entry), NEW x \in Entry, NEW q, NEW n \in Nat, Owing(c, q, n),
         x.kind # "assistant" \/ x.run # q
  PROVE  /\ Owing(Append(c, x), q, n)
         /\ x.kind = "tool" /\ x.run = q /\ n > 0 => Owing(Append(c, x), q, n - 1)
<1>. DEFINE b == Append(c, x)  l == Len(c) + 1
<1>1. /\ Len(c) \in Nat /\ l \in Nat /\ DOMAIN c = 1..Len(c) /\ DOMAIN b = 1..l /\ Len(b) = l
      /\ \A j \in 1..Len(c) : b[j] = c[j]
      /\ b[l] = x /\ b \in Seq(Entry)
  OBVIOUS
<1>. HIDE DEF b, l
<1>2. ASSUME NEW i \in DOMAIN b, b[i].kind = "assistant", b[i].run = q
      PROVE  /\ Cardinality(CallSet(b, q, i)) <= Cardinality(AnswerSet(b, q, i)) + n
             /\ x.kind = "tool" /\ x.run = q => Cardinality(CallSet(b, q, i)) <= Cardinality(AnswerSet(b, q, i)) + (n - 1)
  <2>1. i \in DOMAIN c /\ c[i].kind = "assistant" /\ c[i].run = q /\ i \in Nat
    BY <1>1, <1>2 DEF l
  <2>2. CallSet(b, q, i) = CallSet(c, q, i)
    <3>1. ASSUME NEW j, NEW k
          PROVE  <<j, k>> \in CallSet(b, q, i) <=> <<j, k>> \in CallSet(c, q, i)
      BY <1>1 DEF CallSet, l
    <3>2. \A z \in CallSet(b, q, i) \cup CallSet(c, q, i) : z = <<z[1], z[2]>>
      BY DEF CallSet
    <3>. QED  BY <3>1, <3>2
  <2>3. Cardinality(CallSet(c, q, i)) <= Cardinality(AnswerSet(c, q, i)) + n
    BY <2>1 DEF Owing
  <2>4. IsFiniteSet(AnswerSet(c, q, i)) /\ Cardinality(AnswerSet(c, q, i)) \in Nat /\ Cardinality(CallSet(c, q, i)) \in Nat
    BY <2>1, CallsAndAnswersAreFinite
  <2>5. CASE x.kind = "tool" /\ x.run = q
    <3>1. AnswerSet(b, q, i) = AnswerSet(c, q, i) \cup {l} /\ l \notin AnswerSet(c, q, i)
      BY <1>1, <2>1, <2>5 DEF AnswerSet, l
    <3>2. Cardinality(AnswerSet(b, q, i)) = Cardinality(AnswerSet(c, q, i)) + 1
      BY <2>4, <3>1, FS_AddElement
    <3>. QED  BY <2>2, <2>3, <2>4, <3>2
  <2>6. CASE ~(x.kind = "tool" /\ x.run = q)
    <3>1. AnswerSet(b, q, i) = AnswerSet(c, q, i)
      BY <1>1, <2>6 DEF AnswerSet, l
    <3>. QED  BY <2>2, <2>3, <2>6, <3>1
  <2>. QED  BY <2>5, <2>6
<1>. QED  BY <1>2 DEF Owing, b

-----------------------------------------------------------------------------
(* Compaction                                                              *)

\* b is c without d messages, the place of which may be taken by a summary:
\* from p + 1 on its messages are the last ones of c.
Tails(b, c, p, d) ==
  /\ b \in Seq(Entry) /\ p \in 0..Len(b) /\ d \in Nat /\ Len(c) = Len(b) + d
  /\ \A j \in 1..p : b[j].kind = "system"
  /\ \A j \in (p + 1)..Len(b) : b[j] = c[j + d]

\* A set of positions that contains all smaller ones is an initial segment.
LEMMA LeadingSystemLeads ==
  ASSUME NEW c \in Seq(Entry)
  PROVE  /\ LeadingSystem(c) \in 0..Len(c)
         /\ \A j \in 1..LeadingSystem(c) : c[j].kind = "system"
<1>. DEFINE P == {i \in DOMAIN c : \A j \in 1..i : c[j].kind = "system"}
<1>1. Len(c) \in Nat /\ DOMAIN c = 1..Len(c) /\ P \in SUBSET (1..Len(c))
  OBVIOUS
<1>2. /\ IsFiniteSet(1..Len(c)) /\ Cardinality(1..Len(c)) = Len(c)
  BY <1>1, FS_Interval
<1>3. IsFiniteSet(P) /\ Cardinality(P) \in Nat /\ Cardinality(P) <= Len(c)
  <2>1. IsFiniteSet(P) /\ Cardinality(P) <= Cardinality(1..Len(c))
    BY <1>1, <1>2, FS_Subset
  <2>2. Cardinality(P) \in Nat
    BY <2>1, FS_CardinalityType
  <2>. QED  BY <1>2, <2>1, <2>2
<1>4. ASSUME NEW i \in P PROVE i \in 1..Cardinality(P)
  <2>1. i \in 1..Len(c) /\ i \in Int
    BY <1>1
  <2>2. (1..i) \in SUBSET P
    BY <1>1, <2>1
  <2>3. Cardinality(1..i) <= Cardinality(P)
    BY <1>3, <2>2, FS_Subset
  <2>4. Cardinality(1..i) = i
    BY <2>1, FS_Interval
  <2>. QED  BY <1>3, <2>1, <2>3, <2>4
<1>5. P = 1..Cardinality(P)
  <2>1. IsFiniteSet(1..Cardinality(P)) /\ Cardinality(1..Cardinality(P)) = Cardinality(P)
    BY <1>3, FS_Interval
  <2>2. P \in SUBSET (1..Cardinality(P))
    BY <1>4
  <2>. QED  BY <2>1, <2>2, FS_Subset
<1>6. LeadingSystem(c) = Cardinality(P)
  BY DEF LeadingSystem
<1>7. \A j \in P : c[j].kind = "system"
  BY <1>1
<1>. HIDE DEF P
<1>. QED  BY <1>1, <1>3, <1>5, <1>6, <1>7

LEMMA CompactKeepsTheTail ==
  ASSUME NEW r \in Runs, NEW c \in Seq(Entry)
  PROVE  \E p, d \in Nat : Tails(Compact(r, c), c, p, d)
<1>1. PICK first : first = LeadingSystem(c)
  OBVIOUS
<1>2. first \in 0..Len(c) /\ (\A j \in 1..first : c[j].kind = "system") /\ Len(c) \in Nat
  BY <1>1, LeadingSystemLeads
<1>3. PICK keep : keep = SmallerOf(KeepRecent, Len(c) - first)
  OBVIOUS
<1>4. keep \in Nat /\ keep <= Len(c) - first
  BY <1>2, <1>3, RunnerAssumption DEF SmallerOf
<1>5. CASE Compact(r, c) = c
  BY <1>2, <1>5 DEF Tails
<1>6. CASE Compact(r, c) # c
  <2>. DEFINE lead == SubSeq(c, 1, first)
              tail == SubSeq(c, Len(c) - keep + 1, Len(c))
              b == lead \o <<Summary(r)>> \o tail
              d == Len(c) - keep - first - 1
  <2>1. Compact(r, c) = b /\ Len(c) - first - keep # 0
    BY <1>1, <1>3, <1>6 DEF Compact
  <2>2. d \in Nat
    BY <1>2, <1>4, <2>1
  <2>3. /\ lead \in Seq(Entry) /\ Len(lead) = first /\ \A j \in 1..first : lead[j] = c[j]
    BY <1>2
  <2>4. /\ tail \in Seq(Entry) /\ Len(tail) = keep
        /\ \A j \in 1..keep : tail[j] = c[Len(c) - keep + j]
    BY <1>2, <1>4
  <2>5. Summary(r) \in Entry /\ Summary(r).kind = "system"
    BY RunnerAssumption DEF Summary, Entry
  <2>. HIDE DEF lead, tail
  <2>6. /\ b \in Seq(Entry) /\ Len(b) = first + 1 + keep
        /\ \A j \in 1..first : b[j] = lead[j]
        /\ b[first + 1] = Summary(r)
        /\ \A j \in (first + 2)..(first + 1 + keep) : b[j] = tail[j - first - 1]
    <3>. DEFINE front == lead \o <<Summary(r)>>
    <3>1. /\ front \in Seq(Entry) /\ Len(front) = first + 1
          /\ \A j \in 1..first : front[j] = lead[j]
          /\ front[first + 1] = Summary(r)
      BY <1>2, <2>3, <2>5
    <3>. HIDE DEF front
    <3>2. front \o tail \in Seq(Entry) /\ Len(front \o tail) = first + 1 + keep
      BY <1>2, <1>4, <2>4, <3>1
    <3>3. \A j \in 1..(first + 1) : (front \o tail)[j] = front[j]
      BY <1>2, <1>4, <2>4, <3>1
    <3>4. \A j \in (first + 2)..(first + 1 + keep) : (front \o tail)[j] = tail[j - first - 1]
      BY <1>2, <1>4, <2>4, <3>1
    <3>5. b = front \o tail
      BY DEF front
    <3>. HIDE DEF b
    <3>6. first \in Nat /\ \A j \in 1..first : j \in 1..(first + 1)
      BY <1>2
    <3>. QED  BY <3>1, <3>2, <3>3, <3>4, <3>5, <3>6
  <2>. HIDE DEF b
  <2>7. \A j \in 1..(first + 1) : b[j].kind = "system"
    BY <1>2, <2>3, <2>5, <2>6
  <2>8. ASSUME NEW j \in (first + 2)..Len(b) PROVE b[j] = c[j + d]
    <3>1. j - first - 1 \in 1..keep
      BY <1>2, <1>4, <2>6
    <3>2. b[j] = c[Len(c) - keep + (j - first - 1)]
      BY <2>4, <2>6, <3>1, <1>2, <1>4
    <3>3. Len(c) - keep + (j - first - 1) = j + d
      BY <1>2, <1>4, <2>6
    <3>. QED  BY <3>2, <3>3
  <2>9. Tails(b, c, first + 1, d)
    <3>1. first \in Nat /\ keep \in Nat /\ Len(c) \in Nat /\ Len(b) = first + 1 + keep
      BY <1>2, <1>4, <2>6
    <3>2. first + 1 \in 0..Len(b) /\ Len(c) = Len(b) + d
      BY ONLY <3>1
    <3>3. \A j \in ((first + 1) + 1)..Len(b) : b[j] = c[j + d]
      BY <1>2, <2>8
    <3>. QED  BY <2>2, <2>6, <2>7, <3>1, <3>2, <3>3 DEF Tails
  <2>. QED  BY <1>2, <2>1, <2>2, <2>9
<1>. QED  BY <1>5, <1>6

\* Compaction repeats no message but its summary.
LEMMA TailsRepeatNothing ==
  ASSUME NEW b, NEW c \in Seq(Entry), NEW p \in Nat, NEW d \in Nat, Tails(b, c, p, d),
         NEW e \in Entry, e.kind # "system"
  PROVE  Cardinality(Positions(b, e)) <= Cardinality(Positions(c, e))
<1>. DEFINE f == [j \in Positions(b, e) |-> j + d]
<1>1. /\ Len(b) \in Nat /\ Len(c) = Len(b) + d /\ DOMAIN b = 1..Len(b) /\ DOMAIN c = 1..Len(c)
      /\ b \in Seq(Entry)
  BY DEF Tails
<1>2. ASSUME NEW j \in Positions(b, e) PROVE j \in Int /\ j + d \in Positions(c, e)
  <2>1. j \in (p + 1)..Len(b)
    BY <1>1 DEF Tails, Positions
  <2>2. b[j] = c[j + d] /\ j + d \in 1..Len(c)
    BY <1>1, <2>1 DEF Tails
  <2>. QED  BY <1>1, <2>1, <2>2 DEF Positions
<1>3. f \in Injection(Positions(b, e), Positions(c, e))
  BY <1>2 DEF Injection, IsInjective
<1>. QED  BY <1>3, PositionsAreFinite, FS_Injection

\* Nor does it take an answer away from a call that it keeps.
LEMMA TailsKeepAnswers ==
  ASSUME NEW b, NEW c \in Seq(Entry), NEW p \in Nat, NEW d \in Nat, Tails(b, c, p, d),
         NEW q, NEW n \in Nat, Owing(c, q, n)
  PROVE  Owing(b, q, n)
<1>1. /\ Len(b) \in Nat /\ Len(c) = Len(b) + d /\ DOMAIN b = 1..Len(b) /\ DOMAIN c = 1..Len(c)
      /\ b \in Seq(Entry)
  BY DEF Tails
<1>. SUFFICES ASSUME NEW i \in DOMAIN b, b[i].kind = "assistant", b[i].run = q
              PROVE  Cardinality(CallSet(b, q, i)) <= Cardinality(AnswerSet(b, q, i)) + n
  BY DEF Owing
<1>2. i \in (p + 1)..Len(b) /\ i \in Nat
  BY <1>1 DEF Tails
<1>3. i + d \in DOMAIN c /\ c[i + d].kind = "assistant" /\ c[i + d].run = q /\ i + d \in Nat
  BY <1>1, <1>2 DEF Tails
<1>4. \A j \in i..Len(b) : b[j] = c[j + d] /\ j + d \in (i + d)..Len(c)
  BY <1>1, <1>2 DEF Tails
<1>5. Cardinality(CallSet(b, q, i)) <= Cardinality(CallSet(c, q, i + d))
  <2>. DEFINE f == [z \in CallSet(b, q, i) |-> <<z[1] + d, z[2]>>]
  <2>1. ASSUME NEW z \in CallSet(b, q, i)
        PROVE  z = <<z[1], z[2]>> /\ z[1] \in Int /\ <<z[1] + d, z[2]>> \in CallSet(c, q, i + d)
    <3>1. PICK j \in i..Len(b), k \in 1..MaxCalls : z = <<j, k>>
      BY DEF CallSet
    <3>2. b[j].kind = "assistant" /\ b[j].run = q /\ k <= b[j].calls
      BY <3>1 DEF CallSet
    <3>3. <<j + d, k>> \in CallSet(c, q, i + d)
      BY <1>4, <3>2 DEF CallSet
    <3>4. j \in Int
      BY <1>1, <1>2
    <3>. QED  BY <3>1, <3>3, <3>4
  <2>2. f \in Injection(CallSet(b, q, i), CallSet(c, q, i + d))
    <3>1. f \in [CallSet(b, q, i) -> CallSet(c, q, i + d)]
      BY <2>1
    <3>2. ASSUME NEW y \in CallSet(b, q, i), NEW z \in CallSet(b, q, i), f[y] = f[z] PROVE y = z
      <4>0. <<y[1] + d, y[2]>> = <<z[1] + d, z[2]>>
        BY <3>2
      <4>1. y[1] + d = z[1] + d /\ y[2] = z[2]
        BY <4>0
      <4>2. y[1] \in Int /\ z[1] \in Int /\ y = <<y[1], y[2]>> /\ z = <<z[1], z[2]>>
        BY <2>1
      <4>3. y[1] = z[1]
        BY <4>1, <4>2
      <4>. QED  BY <4>1, <4>2, <4>3
    <3>3. DOMAIN f = CallSet(b, q, i)
      OBVIOUS
    <3>. HIDE DEF f
    <3>. QED  BY <3>1, <3>2, <3>3 DEF Injection, IsInjective
  <2>3. IsFiniteSet(CallSet(c, q, i + d))
    BY <1>3, CallsAndAnswersAreFinite
  <2>. QED  BY <2>2, <2>3, FS_Injection
<1>6. Cardinality(AnswerSet(c, q, i + d)) <= Cardinality(AnswerSet(b, q, i))
  <2>. DEFINE f == [j \in AnswerSet(c, q, i + d) |-> j - d]
  <2>1. ASSUME NEW j \in AnswerSet(c, q, i + d) PROVE j \in Int /\ j - d \in AnswerSet(b, q, i)
    <3>1. j \in Int /\ j - d \in (i + 1)..Len(b) /\ j - d \in i..Len(b) /\ (j - d) + d = j
      BY <1>1, <1>2 DEF AnswerSet
    <3>2. b[j - d] = c[j]
      BY <1>4, <3>1
    <3>. QED  BY <3>1, <3>2 DEF AnswerSet
  <2>2. f \in Injection(AnswerSet(c, q, i + d), AnswerSet(b, q, i))
    BY <2>1 DEF Injection, IsInjective
  <2>3. IsFiniteSet(AnswerSet(b, q, i))
    BY <1>1, <1>2, CallsAndAnswersAreFinite
  <2>. QED  BY <2>2, <2>3, FS_Injection
<1>7. Cardinality(CallSet(c, q, i + d)) <= Cardinality(AnswerSet(c, q, i + d)) + n
  BY <1>3 DEF Owing
<1>8. /\ Cardinality(CallSet(b, q, i)) \in Nat /\ Cardinality(AnswerSet(b, q, i)) \in Nat
      /\ Cardinality(CallSet(c, q, i + d)) \in Nat /\ Cardinality(AnswerSet(c, q, i + d)) \in Nat
  BY <1>1, <1>2, <1>3, CallsAndAnswersAreFinite
<1>. QED  BY <1>5, <1>6, <1>7, <1>8

-----------------------------------------------------------------------------
(* Types                                                                   *)

\* The run has not yet read its conversation.
Early == HandlerPCs \cup {"new", "refused", "conflict", "resolving", "loading"}

InTurn == {"sending", "chatting", "replied", "tools"}

RunTypeInv ==
  /\ ServerTypeOK
  /\ \A r \in Runs :
       /\ pc[r] # "new" => session[r] \in Sessions
       /\ pc[r] \in InTurn => turn[r] < limit[r]
       /\ pc[r] = "tools" => reply[r].calls > 0

LEMMA RunTypeInvInit == ServerInit => RunTypeInv
  BY RunnerAssumption, ServerAssumption
  DEF ServerInit, RunnerInit, RunTypeInv, ServerTypeOK, RunnerTypeOK, InTurn, NoReply, Reply

LEMMA RunStepKeepsTypes ==
  ASSUME RunTypeInv, NEW r \in Runs, RunStep(r)
  PROVE  /\ RunnerTypeOK' /\ pc' = [pc EXCEPT ![r] = pc'[r]] /\ pc'[r] \in RunnerPCs \cup {"leaked"}
         /\ \A q \in Runs :
              /\ pc'[q] # "new" => session'[q] \in Sessions
              /\ pc'[q] \in InTurn => turn'[q] < limit'[q]
              /\ pc'[q] = "tools" => reply'[q].calls > 0
<1>. USE RunnerAssumption DEF RunTypeInv, ServerTypeOK, RunnerTypeOK, InTurn, RunnerPCs, HandlerPCs, Goto
<1>0. /\ pc[r] # "new" /\ session[r] \in Sessions
      /\ transcript[session[r]] \in Seq(Entry) /\ context[r] \in Seq(Entry) /\ reply[r] \in Reply
  BY DEF RunStep, Load, LoadFails, SeeCancelled, PassCheck, BeginChat, CompactPanics, ChatReplies,
         ChatFails, AppendReply, RunTool, AppendFails, EndRun, EndAtLimit
<1>1. CASE Load(r) \/ LoadFails(r)
  BY <1>0, <1>1 DEF Load, LoadFails
<1>2. CASE SeeCancelled(r) \/ PassCheck(r)
  BY <1>0, <1>2 DEF SeeCancelled, PassCheck, FinishResult
<1>3. CASE BeginChat(r)
  <2>1. Compact(r, context[r]) \in Seq(Entry)
    BY <1>0, CompactKeepsTheTail DEF Tails
  <2>2. context' \in [Runs -> Seq(Entry)]
    BY <1>0, <1>3, <2>1 DEF BeginChat
  <2>. QED  BY <1>0, <1>3, <2>2 DEF BeginChat
<1>4. CASE CompactPanics(r) \/ ChatFails(r)
  BY <1>0, <1>4 DEF CompactPanics, ChatFails
<1>5. CASE ChatReplies(r)
  BY <1>0, <1>5 DEF ChatReplies
<1>6. CASE AppendReply(r)
  <2>1. [kind |-> "assistant", run |-> r, calls |-> reply[r].calls] \in Entry
    BY <1>0 DEF Entry, Reply
  <2>2. transcript' \in [Sessions -> Seq(Entry)] /\ context' \in [Runs -> Seq(Entry)]
    BY <1>0, <1>6, <2>1 DEF AppendReply, AppendEntry
  <2>3. reply[r].calls \in Nat
    BY <1>0 DEF Reply
  <2>4. RunnerTypeOK'
    BY <1>6, <2>2 DEF AppendReply
  <2>5. pc' = [pc EXCEPT ![r] = pc'[r]] /\ pc'[r] \in {"ending", "tools"} /\ pc[r] = "replied"
        /\ (pc'[r] = "tools" => reply[r].calls # 0) /\ session' = session /\ turn' = turn
        /\ limit' = limit /\ reply' = reply
    BY <1>6 DEF AppendReply
  <2>6. CASE pc'[r] = "ending"
    BY <1>0, <2>4, <2>5, <2>6
  <2>7. CASE pc'[r] = "tools"
    <3>1. reply[r].calls > 0 /\ turn[r] < limit[r]
      BY <2>3, <2>5, <2>7
    <3>2. \A q \in Runs \ {r} : pc'[q] = pc[q]
      BY <2>5
    <3>. QED  BY <1>0, <2>4, <2>5, <2>7, <3>1, <3>2
  <2>. QED  BY <2>5, <2>6, <2>7
<1>7. CASE RunTool(r)
  <2>1. [kind |-> "tool", run |-> r, calls |-> 0] \in Entry
    BY DEF Entry
  <2>2. transcript' \in [Sessions -> Seq(Entry)] /\ context' \in [Runs -> Seq(Entry)]
    BY <1>0, <1>7, <2>1 DEF RunTool, AppendEntry
  <2>3. reply[r].calls \in 1..MaxCalls
    BY <1>0, <1>7 DEF RunTool, Reply
  <2>4. PICK n \in 0..MaxCalls : n = reply[r].calls - 1
    BY <2>3
  <2>5. reply' = [reply EXCEPT ![r] = [reply[r] EXCEPT !.calls = n]]
    BY <1>7, <2>4 DEF RunTool
  <2>6. [reply[r] EXCEPT !.calls = n] \in Reply /\ [reply[r] EXCEPT !.calls = n].calls = n
    BY <1>0 DEF Reply
  <2>7. reply' \in [Runs -> Reply] /\ reply'[r].calls = n /\ \A q \in Runs \ {r} : reply'[q] = reply[q]
    BY <2>5, <2>6
  <2>8. turn[r] \in 0..MaxTurns /\ limit[r] \in 0..MaxTurns /\ turn[r] < limit[r] /\ pc[r] = "tools"
    BY <1>7 DEF RunTool
  <2>9. turn[r] + 1 \in 0..MaxTurns
    BY <2>8
  <2>10. turn' \in [Runs -> 0..MaxTurns] /\ \A q \in Runs \ {r} : turn'[q] = turn[q]
    BY <1>7, <2>9 DEF RunTool
  <2>11. RunnerTypeOK'
    BY <1>7, <2>2, <2>7, <2>10 DEF RunTool
  <2>12. \/ /\ pc' = [pc EXCEPT ![r] = pc'[r]] /\ pc'[r] \in {"turn", "ending"}
         \/ /\ pc' = pc /\ turn' = turn /\ n > 0
    BY <1>7, <2>3, <2>4 DEF RunTool
  <2>13. session' = session /\ limit' = limit
    BY <1>7 DEF RunTool
  <2>14. CASE pc' = [pc EXCEPT ![r] = pc'[r]] /\ pc'[r] \in {"turn", "ending"}
    BY <1>0, <2>7, <2>10, <2>11, <2>13, <2>14
  <2>15. CASE pc' = pc /\ turn' = turn /\ n > 0
    BY <1>0, <2>7, <2>8, <2>11, <2>13, <2>15
  <2>. QED  BY <2>12, <2>14, <2>15
<1>8. CASE AppendFails(r)
  BY <1>0, <1>8 DEF AppendFails
<1>9. CASE EndRun(r) \/ EndAtLimit(r)
  <2>1. PICK x \in Terminal : status' = [status EXCEPT ![session[r]] = x]
    BY <1>9 DEF EndRun, EndAtLimit, SetStatus, EndStatus, Terminal
  <2>2. status' \in [Sessions -> Terminal \cup {"absent", "active"}]
    BY <1>0, <2>1
  <2>3. /\ pc' = [pc EXCEPT ![r] = "removing"]
        /\ UNCHANGED <<transcript, turnsSaved, session, limit, turn, context, reply, faults>>
    BY <1>9 DEF EndRun, EndAtLimit, FinishResult
  <2>. QED  BY <1>0, <2>2, <2>3
<1>. QED
  BY <1>1, <1>2, <1>3, <1>4, <1>5, <1>6, <1>7, <1>8, <1>9 DEF RunStep

LEMMA RunTypeInvStep == RunTypeInv /\ [ServerNext]_serverVars => RunTypeInv'
<1>. SUFFICES ASSUME RunTypeInv, [ServerNext]_serverVars PROVE RunTypeInv'
  OBVIOUS
<1>. USE RunnerAssumption, ServerAssumption DEF HandlerPCs, RunnerPCs, Goto, cancelVars, loopVars
<1>1. ASSUME NEW r \in Runs, NEW s \in Sessions, ArriveNew(r, s) \/ ArriveResume(r, s) PROVE RunTypeInv'
  <2>1. /\ pc' = [pc EXCEPT ![r] = "prompting"] /\ session' = [session EXCEPT ![r] = s]
        /\ \E n \in 0..MaxTurns : limit' = [limit EXCEPT ![r] = n]
        /\ status' \in [Sessions -> Terminal \cup {"absent", "active"}]
        /\ UNCHANGED <<transcript, turnsSaved, turn, context, reply, faults, running, cancels,
                       cancelled, lateChats>>
    BY <1>1 DEF ArriveNew, ArriveResume, Arrive, RunTypeInv, ServerTypeOK, RunnerTypeOK
  <2>2. limit' \in [Runs -> 0..MaxTurns] /\ \A q \in Runs \ {r} : limit'[q] = limit[q]
    BY <2>1 DEF RunTypeInv, ServerTypeOK, RunnerTypeOK
  <2>3. session' \in [Runs -> Sessions \cup {NoSession}]
    BY <2>1 DEF RunTypeInv, ServerTypeOK, RunnerTypeOK
  <2>4. pc' \in [Runs -> HandlerPCs \cup RunnerPCs
                       \cup {"new", "refused", "conflict", "leaked", "done", "lost"}]
    BY <2>1 DEF RunTypeInv, ServerTypeOK
  <2>5. ServerTypeOK'
    BY <2>1, <2>2, <2>3, <2>4 DEF RunTypeInv, ServerTypeOK, RunnerTypeOK
  <2>6. ASSUME NEW q \in Runs
        PROVE  /\ pc'[q] # "new" => session'[q] \in Sessions
               /\ pc'[q] \in InTurn => turn'[q] < limit'[q]
               /\ pc'[q] = "tools" => reply'[q].calls > 0
    BY <2>1, <2>2 DEF RunTypeInv, ServerTypeOK, RunnerTypeOK, InTurn
  <2>. QED  BY <2>5, <2>6 DEF RunTypeInv
<1>2. ASSUME NEW r \in Runs, AppendPrompt(r) PROVE RunTypeInv'
  <2>1. [kind |-> "user", run |-> r, calls |-> 0] \in Entry /\ session[r] \in Sessions
    BY <1>2, RunnerAssumption DEF Entry, AppendPrompt, RunTypeInv
  <2>2. Append(transcript[session[r]], [kind |-> "user", run |-> r, calls |-> 0]) \in Seq(Entry)
    BY <2>1 DEF RunTypeInv, ServerTypeOK, RunnerTypeOK
  <2>2a. \/ transcript' = transcript
         \/ transcript' = [transcript EXCEPT ![session[r]] = Append(transcript[session[r]], [kind |-> "user", run |-> r, calls |-> 0])]
    BY <1>2 DEF AppendPrompt
  <2>2b. transcript' \in [Sessions -> Seq(Entry)]
    BY <2>1, <2>2, <2>2a DEF RunTypeInv, ServerTypeOK, RunnerTypeOK
  <2>3. pc' = [pc EXCEPT ![r] = pc'[r]] /\ pc'[r] \in {"refused", "checking"} /\ pc[r] # "new"
        /\ UNCHANGED <<status, session, faults, running, cancels, cancelled, lateChats, turnsSaved, limit, turn,
                       context, reply>>
    BY <1>2 DEF AppendPrompt, RunTypeInv, ServerTypeOK
  <2>. QED  BY <2>2b, <2>3 DEF RunTypeInv, ServerTypeOK, RunnerTypeOK, InTurn
<1>3. ASSUME NEW r \in Runs, CheckRunning(r) \/ Spawn(r) \/ Resolve(r) \/ ResolveFails(r) \/ FailRun(r) \/ Remove(r)
      PROVE  RunTypeInv'
  <2>1. session[r] \in Sessions
    BY <1>3 DEF CheckRunning, Spawn, Resolve, ResolveFails, FailRun, Remove, RunTypeInv
  <2>2. /\ pc' = [pc EXCEPT ![r] = pc'[r]]
        /\ pc'[r] \in {"conflict", "inserting", "resolving", "loading", "leaked", "removing", "done"}
        /\ running' \subseteq Sessions
        /\ status' \in [Sessions -> Terminal \cup {"absent", "active"}]
        /\ UNCHANGED <<transcript, session, faults, cancels, cancelled, lateChats, turnsSaved, limit, turn, context, reply>>
    BY <1>3, <2>1 DEF CheckRunning, Spawn, Resolve, ResolveFails, FailRun, Remove, SetStatus,
       RunTypeInv, ServerTypeOK, RunnerTypeOK, Terminal
  <2>. QED  BY <2>1, <2>2 DEF RunTypeInv, ServerTypeOK, RunnerTypeOK, InTurn
<1>4. ASSUME NEW r \in Runs, Advance(r) PROVE RunTypeInv'
  <2>1. RunStep(r) /\ UNCHANGED <<running, cancels, cancelled>>
    BY <1>4 DEF Advance
  <2>2. lateChats' \in [Runs -> Nat]
    BY <1>4 DEF Advance, RunTypeInv, ServerTypeOK
  <2>3. pc' = [pc EXCEPT ![r] = pc'[r]] /\ pc'[r] \in RunnerPCs \cup {"leaked"} /\ RunnerTypeOK'
    BY <2>1, RunStepKeepsTypes
  <2>4. \A q \in Runs :
              /\ pc'[q] # "new" => session'[q] \in Sessions
              /\ pc'[q] \in InTurn => turn'[q] < limit'[q]
              /\ pc'[q] = "tools" => reply'[q].calls > 0
    BY <2>1, RunStepKeepsTypes
  <2>. QED  BY <2>1, <2>2, <2>3, <2>4 DEF RunTypeInv, ServerTypeOK
<1>5. ASSUME NEW s \in Sessions, Cancel(s) PROVE RunTypeInv'
  BY <1>5 DEF Cancel, RunTypeInv, ServerTypeOK, RunnerTypeOK, InTurn, Terminal
<1>6. CASE Restart
  BY <1>6 DEF Restart, RunTypeInv, ServerTypeOK, RunnerTypeOK, InTurn
<1>7. CASE UNCHANGED serverVars
  BY <1>7 DEF serverVars, RunTypeInv, ServerTypeOK, RunnerTypeOK, InTurn
<1>. QED  BY <1>1, <1>2, <1>3, <1>4, <1>5, <1>6, <1>7 DEF ServerNext, TaskStep

-----------------------------------------------------------------------------
(* Messages: which steps move them                                         *)

InLoop == InTurn \cup {"turn"}

\* The tool calls of its last reply that the run has yet to execute.
Owed(r) == IF pc[r] = "tools" THEN reply[r].calls ELSE 0

\* As far as messages go the request or run stays where it is, or leaves.
Rests(q) ==
  /\ pc'[q] \in Early => pc[q] \in Early
  /\ pc[q] # "new" => pc'[q] # "new" /\ session'[q] = session[q]
  /\ pc'[q] \in InLoop => pc[q] \in InLoop /\ (pc[q] = "tools" => pc'[q] = "tools")
  /\ pc'[q] = "tools" => pc[q] = "tools" /\ reply'[q] = reply[q]
  /\ MaxFaults = 0 /\ pc[q] = "tools" => pc'[q] = "tools" /\ reply'[q] = reply[q]

\* No message is written or read.
Quiet == transcript' = transcript /\ context' = context /\ \A q \in Runs : Rests(q)

LEMMA RunStepsMoveMessages ==
  ASSUME RunTypeInv, NEW r \in Runs, RunStep(r)
  PROVE  Quiet \/ Load(r) \/ BeginChat(r) \/ AppendReply(r) \/ RunTool(r)
<1>. USE DEF Quiet, Rests, Early, InLoop, InTurn, HandlerPCs, Goto, RunTypeInv, ServerTypeOK,
             RunnerTypeOK
<1>1. CASE LoadFails(r) \/ SeeCancelled(r) \/ PassCheck(r)
  BY <1>1 DEF LoadFails, SeeCancelled, PassCheck
<1>2. CASE CompactPanics(r) \/ ChatFails(r)
  BY <1>2 DEF CompactPanics, ChatFails
<1>3. CASE ChatReplies(r)
  BY <1>3 DEF ChatReplies
<1>4. CASE AppendFails(r)
  BY <1>4 DEF AppendFails
<1>5. CASE EndRun(r) \/ EndAtLimit(r)
  BY <1>5 DEF EndRun, EndAtLimit
<1>. QED  BY <1>1, <1>2, <1>3, <1>4, <1>5 DEF RunStep

LEMMA StepsMoveMessages ==
  ASSUME RunTypeInv, [ServerNext]_serverVars
  PROVE  \/ Quiet
         \/ \E r \in Runs : AppendPrompt(r) \/ Load(r) \/ BeginChat(r) \/ AppendReply(r) \/ RunTool(r)
<1>1. ASSUME NEW r \in Runs, NEW s \in Sessions, ArriveNew(r, s) \/ ArriveResume(r, s) PROVE Quiet
  BY <1>1 DEF ArriveNew, ArriveResume, Arrive, Quiet, Rests, Early, InLoop, InTurn, HandlerPCs, Goto,
              RunTypeInv, ServerTypeOK, RunnerTypeOK
<1>2. ASSUME NEW r \in Runs,
             CheckRunning(r) \/ Spawn(r) \/ Resolve(r) \/ ResolveFails(r) \/ FailRun(r) \/ Remove(r)
      PROVE  Quiet
  BY <1>2 DEF CheckRunning, Spawn, Resolve, ResolveFails, FailRun, Remove, loopVars, Quiet, Rests,
              Early, InLoop, InTurn, HandlerPCs, Goto, RunTypeInv, ServerTypeOK, RunnerTypeOK
<1>3. ASSUME NEW r \in Runs, Advance(r)
      PROVE  Quiet \/ Load(r) \/ BeginChat(r) \/ AppendReply(r) \/ RunTool(r)
  <2>1. RunStep(r)
    BY <1>3 DEF Advance
  <2>. QED  BY <2>1, RunStepsMoveMessages
<1>4. ASSUME NEW s \in Sessions, Cancel(s) PROVE Quiet
  BY <1>4 DEF Cancel, loopVars, Quiet, Rests
<1>5. CASE Restart
  <2>1. MaxFaults # 0
    BY <1>5 DEF Restart, RunTypeInv, ServerTypeOK, RunnerTypeOK
  <2>. QED  BY <1>5, <2>1 DEF Restart, loopVars, Quiet, Rests, Early, InLoop, InTurn, HandlerPCs,
                              RunnerPCs, RunTypeInv, ServerTypeOK, RunnerTypeOK
<1>6. CASE UNCHANGED serverVars
  BY <1>6 DEF serverVars, Quiet, Rests
<1>. QED  BY <1>1, <1>2, <1>3, <1>4, <1>5, <1>6 DEF ServerNext, TaskStep

\* Run r adds x to the transcript of its session; the other requests rest.
Writes(r, x) ==
  /\ x \in Entry /\ x.run = r /\ session[r] \in Sessions
  /\ session' = session
  /\ transcript' = [transcript EXCEPT ![session[r]] = Append(transcript[session[r]], x)]
  /\ \A q \in Runs \ {r} : pc'[q] = pc[q] /\ context'[q] = context[q] /\ reply'[q] = reply[q]

LEMMA PromptWrites ==
  ASSUME RunTypeInv, NEW r \in Runs, AppendPrompt(r)
  PROVE  \/ Quiet
         \/ /\ pc[r] = "prompting" /\ pc'[r] = "checking" /\ context'[r] = context[r]
            /\ \E x \in Entry : x.kind = "user" /\ Writes(r, x)
<1>1. CASE status[session[r]] = "absent"
  BY <1>1 DEF AppendPrompt, loopVars, Quiet, Rests, Early, InLoop, InTurn, HandlerPCs, Goto,
              RunTypeInv, ServerTypeOK, RunnerTypeOK
<1>2. CASE status[session[r]] # "absent"
  <2>1. PICK x : x = [kind |-> "user", run |-> r, calls |-> 0]
    OBVIOUS
  <2>2. x \in Entry /\ x.kind = "user" /\ x.run = r
    BY <2>1, RunnerAssumption DEF Entry
  <2>3. session[r] \in Sessions /\ pc[r] = "prompting" /\ pc'[r] = "checking" /\ context' = context
    BY <1>2 DEF AppendPrompt, loopVars, Goto, RunTypeInv, ServerTypeOK
  <2>4. Writes(r, x)
    BY <1>2, <2>1, <2>2, <2>3 DEF AppendPrompt, Writes, loopVars, Goto, RunTypeInv, ServerTypeOK
  <2>. QED  BY <2>2, <2>3, <2>4
<1>. QED  BY <1>1, <1>2

LEMMA ReplyWrites ==
  ASSUME RunTypeInv, NEW r \in Runs, AppendReply(r)
  PROVE  /\ pc[r] = "replied" /\ pc'[r] \in {"tools", "ending"} /\ reply'[r] = reply[r]
         /\ \E x \in Entry : /\ x.kind = "assistant" /\ x.calls = reply[r].calls /\ Writes(r, x)
                              /\ context'[r] = Append(context[r], x)
         /\ pc'[r] = "ending" => reply[r].calls = 0
<1>1. PICK x : x = [kind |-> "assistant", run |-> r, calls |-> reply[r].calls]
  OBVIOUS
<1>2. reply[r].calls \in 0..MaxCalls
  BY DEF RunTypeInv, ServerTypeOK, RunnerTypeOK, Reply
<1>3. x \in Entry /\ x.kind = "assistant" /\ x.run = r /\ x.calls = reply[r].calls
  BY <1>1, <1>2 DEF Entry
<1>4. /\ session[r] \in Sessions /\ pc[r] = "replied" /\ pc'[r] \in {"tools", "ending"}
      /\ reply' = reply /\ (pc'[r] = "ending" => reply[r].calls = 0)
  BY DEF AppendReply, Goto, RunTypeInv, ServerTypeOK
<1>5. context'[r] = Append(context[r], x) /\ Writes(r, x)
  BY <1>1, <1>3, <1>4 DEF AppendReply, AppendEntry, Writes, Goto, RunTypeInv, ServerTypeOK, RunnerTypeOK
<1>. QED  BY <1>3, <1>4, <1>5

LEMMA ToolWrites ==
  ASSUME RunTypeInv, NEW r \in Runs, RunTool(r)
  PROVE  /\ pc[r] = "tools" /\ pc'[r] \in {"tools", "turn", "ending"}
         /\ reply[r].calls \in Nat \ {0} /\ Owed(r)' = reply[r].calls - 1
         /\ \E x \in Entry : /\ x.kind = "tool" /\ Writes(r, x)
                              /\ context'[r] = Append(context[r], x)
<1>1. PICK x : x = [kind |-> "tool", run |-> r, calls |-> 0]
  OBVIOUS
<1>2. x \in Entry /\ x.kind = "tool" /\ x.run = r
  BY <1>1, RunnerAssumption DEF Entry
<1>3. session[r] \in Sessions /\ pc[r] = "tools" /\ pc'[r] \in {"tools", "turn", "ending"}
  BY DEF RunTool, Goto, RunTypeInv, ServerTypeOK
<1>4. reply[r].calls \in Nat \ {0}
  BY <1>3, RunnerAssumption DEF RunTypeInv, ServerTypeOK, RunnerTypeOK, Reply
<1>5. reply'[r].calls = reply[r].calls - 1 /\ \A q \in Runs \ {r} : reply'[q] = reply[q]
  BY DEF RunTool, RunTypeInv, ServerTypeOK, RunnerTypeOK, Reply
<1>6. pc'[r] # "tools" => reply[r].calls = 1
  BY <1>3 DEF RunTool, RunTypeInv, ServerTypeOK
<1>7. Owed(r)' = reply[r].calls - 1
  BY <1>4, <1>5, <1>6 DEF Owed
<1>8. context'[r] = Append(context[r], x) /\ Writes(r, x)
  BY <1>1, <1>2, <1>3, <1>5 DEF RunTool, AppendEntry, Writes, Goto, RunTypeInv, ServerTypeOK, RunnerTypeOK
<1>. QED  BY <1>2, <1>3, <1>4, <1>7, <1>8

LEMMA LoadReads ==
  ASSUME RunTypeInv, NEW r \in Runs, Load(r)
  PROVE  /\ pc[r] = "loading" /\ pc'[r] = "turn" /\ session[r] \in Sessions
         /\ context'[r] = transcript[session[r]]
         /\ transcript' = transcript /\ session' = session
         /\ \A q \in Runs \ {r} : pc'[q] = pc[q] /\ context'[q] = context[q] /\ reply'[q] = reply[q]
  BY DEF Load, Goto, RunTypeInv, ServerTypeOK, RunnerTypeOK

LEMMA ChatShortens ==
  ASSUME RunTypeInv, NEW r \in Runs, BeginChat(r)
  PROVE  /\ pc[r] = "sending" /\ pc'[r] = "chatting" /\ session[r] \in Sessions
         /\ context'[r] = context[r] \/ \E p, d \in Nat : Tails(context'[r], context[r], p, d)
         /\ transcript' = transcript /\ session' = session
         /\ \A q \in Runs \ {r} : pc'[q] = pc[q] /\ context'[q] = context[q] /\ reply'[q] = reply[q]
<1>1. \E p, d \in Nat : Tails(Compact(r, context[r]), context[r], p, d)
  BY CompactKeepsTheTail DEF RunTypeInv, ServerTypeOK, RunnerTypeOK
<1>2. context'[r] = context[r] \/ context'[r] = Compact(r, context[r])
  BY DEF BeginChat, RunTypeInv, ServerTypeOK, RunnerTypeOK
<1>3. context'[r] = context[r] \/ \E p, d \in Nat : Tails(context'[r], context[r], p, d)
  BY <1>1, <1>2
<1>. QED  BY <1>3 DEF BeginChat, Goto, RunTypeInv, ServerTypeOK, RunnerTypeOK

-----------------------------------------------------------------------------
(* The context is durable                                                  *)

Durable(r) ==
  /\ pc[r] \in Early => context[r] = <<>>
  /\ pc[r] # "new" =>
       \A e \in Entry : e.kind # "system" =>
         Cardinality(Positions(context[r], e)) <= Cardinality(Positions(transcript[session[r]], e))

DurableInv == RunTypeInv /\ \A r \in Runs : Durable(r)

LEMMA WritingGrows ==
  ASSUME RunTypeInv, NEW r \in Runs, NEW x \in Entry, Writes(r, x), NEW s \in Sessions, NEW e \in Entry
  PROVE  Cardinality(Positions(transcript[s], e)) <= Cardinality(Positions(transcript'[s], e))
<1>1. transcript[s] \in Seq(Entry)
  BY DEF RunTypeInv, ServerTypeOK, RunnerTypeOK
<1>2. transcript'[s] = transcript[s] \/ transcript'[s] = Append(transcript[s], x)
  BY DEF Writes, RunTypeInv, ServerTypeOK, RunnerTypeOK
<1>3. Cardinality(Positions(transcript[s], e)) \in Nat
  BY <1>1, PositionsAreFinite
<1>4. Cardinality(Positions(Append(transcript[s], x), e))
        = Cardinality(Positions(transcript[s], e)) + (IF x = e THEN 1 ELSE 0)
  BY <1>1, PositionsAfterAppend
<1>5. Cardinality(Positions(transcript[s], e)) <= Cardinality(Positions(Append(transcript[s], x), e))
  BY <1>3, <1>4
<1>6. CASE transcript'[s] = transcript[s]
  BY <1>3, <1>6
<1>7. CASE transcript'[s] = Append(transcript[s], x)
  BY <1>5, <1>7
<1>. QED  BY <1>2, <1>6, <1>7

LEMMA NothingIsNowhere ==
  ASSUME NEW e, NEW c \in Seq(Entry)
  PROVE  Cardinality(Positions(<<>>, e)) <= Cardinality(Positions(c, e))
<1>1. Positions(<<>>, e) = {}
  BY DEF Positions
<1>2. Cardinality(Positions(<<>>, e)) = 0 /\ Cardinality(Positions(c, e)) \in Nat
  BY <1>1, FS_EmptySet, PositionsAreFinite
<1>. QED  BY <1>2

LEMMA WritersStayDurable ==
  ASSUME DurableInv, NEW r \in Runs, NEW x \in Entry, Writes(r, x), pc[r] # "new",
         \/ context'[r] = context[r] /\ (pc'[r] \in Early => pc[r] \in Early)
         \/ context'[r] = Append(context[r], x) /\ pc'[r] \notin Early,
         NEW q \in Runs
  PROVE  Durable(q)'
<1>1. CASE q # r
  <2>1. pc'[q] = pc[q] /\ context'[q] = context[q] /\ session'[q] = session[q]
    BY <1>1 DEF Writes
  <2>2. ASSUME pc'[q] # "new", NEW e \in Entry, e.kind # "system"
        PROVE  Cardinality(Positions(context'[q], e)) <= Cardinality(Positions(transcript'[session'[q]], e))
    <3>1. session[q] \in Sessions
      BY <2>1, <2>2 DEF DurableInv, RunTypeInv
    <3>2. Cardinality(Positions(transcript[session[q]], e)) <= Cardinality(Positions(transcript'[session[q]], e))
      BY <3>1, WritingGrows DEF DurableInv
    <3>3. Cardinality(Positions(context[q], e)) <= Cardinality(Positions(transcript[session[q]], e))
      BY <2>1, <2>2 DEF DurableInv, Durable
    <3>4. /\ transcript[session[q]] \in Seq(Entry) /\ context[q] \in Seq(Entry)
          /\ transcript'[session[q]] \in Seq(Entry)
      BY <3>1 DEF DurableInv, RunTypeInv, ServerTypeOK, RunnerTypeOK, Writes
    <3>5. /\ Cardinality(Positions(transcript[session[q]], e)) \in Nat
          /\ Cardinality(Positions(context[q], e)) \in Nat
          /\ Cardinality(Positions(transcript'[session[q]], e)) \in Nat
      BY <3>4, PositionsAreFinite
    <3>6. Cardinality(Positions(context[q], e)) <= Cardinality(Positions(transcript'[session[q]], e))
      BY <3>2, <3>3, <3>5
    <3>. QED  BY <2>1, <3>6
  <2>3. pc'[q] \in Early => context'[q] = <<>>
    BY <2>1 DEF DurableInv, Durable
  <2>. QED  BY <2>2, <2>3 DEF Durable
<1>2. CASE q = r
  <2>1. session'[r] = session[r] /\ session[r] \in Sessions
    BY DEF Writes
  <2>2. /\ transcript[session[r]] \in Seq(Entry) /\ context[r] \in Seq(Entry)
        /\ transcript'[session[r]] = Append(transcript[session[r]], x)
    BY <2>1 DEF DurableInv, RunTypeInv, ServerTypeOK, RunnerTypeOK, Writes
  <2>3. ASSUME NEW e \in Entry, e.kind # "system"
        PROVE  Cardinality(Positions(context'[r], e)) <= Cardinality(Positions(transcript'[session'[r]], e))
    <3>1. Cardinality(Positions(context[r], e)) <= Cardinality(Positions(transcript[session[r]], e))
      BY <2>3 DEF DurableInv, Durable
    <3>2. /\ Cardinality(Positions(transcript[session[r]], e)) \in Nat
          /\ Cardinality(Positions(context[r], e)) \in Nat
      BY <2>2, PositionsAreFinite
    <3>3. Cardinality(Positions(Append(transcript[session[r]], x), e))
            = Cardinality(Positions(transcript[session[r]], e)) + (IF x = e THEN 1 ELSE 0)
      BY <2>2, PositionsAfterAppend
    <3>4. Cardinality(Positions(Append(context[r], x), e))
            = Cardinality(Positions(context[r], e)) + (IF x = e THEN 1 ELSE 0)
      BY <2>2, PositionsAfterAppend
    <3>5. CASE context'[r] = context[r]
      BY <2>1, <2>2, <3>1, <3>2, <3>3, <3>5
    <3>6. CASE context'[r] = Append(context[r], x)
      BY <2>1, <2>2, <3>1, <3>2, <3>3, <3>4, <3>6
    <3>. QED  BY <3>5, <3>6
  <2>4. pc'[r] \in Early => context'[r] = <<>>
    BY DEF DurableInv, Durable
  <2>. QED  BY <1>2, <2>3, <2>4 DEF Durable
<1>. QED  BY <1>1, <1>2

LEMMA RestersStayDurable ==
  ASSUME DurableInv, NEW q \in Runs, Rests(q), context'[q] = context[q], transcript' = transcript,
         pc'[q] # "new" => session'[q] \in Sessions
  PROVE  Durable(q)'
<1>1. pc'[q] \in Early => context'[q] = <<>>
  BY DEF Rests, DurableInv, Durable
<1>2. CASE pc[q] = "new"
  <2>1. context'[q] = <<>>
    BY <1>2 DEF DurableInv, Durable, Early
  <2>2. ASSUME pc'[q] # "new", NEW e
        PROVE  Cardinality(Positions(context'[q], e)) <= Cardinality(Positions(transcript'[session'[q]], e))
    <3>1. transcript'[session'[q]] \in Seq(Entry)
      BY <2>2 DEF DurableInv, RunTypeInv, ServerTypeOK, RunnerTypeOK
    <3>. QED  BY <2>1, <3>1, NothingIsNowhere
  <2>. QED  BY <1>1, <2>2 DEF Durable
<1>3. CASE pc[q] # "new"
  <2>1. session'[q] = session[q]
    BY <1>3 DEF Rests
  <2>. QED  BY <1>1, <1>3, <2>1 DEF DurableInv, Durable
<1>. QED  BY <1>2, <1>3

LEMMA DurableInvInit == ServerInit => DurableInv
<1>. SUFFICES ASSUME ServerInit PROVE DurableInv
  OBVIOUS
<1>1. RunTypeInv
  BY RunTypeInvInit
<1>2. ASSUME NEW r \in Runs PROVE Durable(r)
  BY DEF ServerInit, RunnerInit, Durable
<1>. QED  BY <1>1, <1>2 DEF DurableInv

LEMMA DurableInvStep == DurableInv /\ [ServerNext]_serverVars => DurableInv'
<1>. SUFFICES ASSUME DurableInv, [ServerNext]_serverVars PROVE DurableInv'
  OBVIOUS
<1>1. RunTypeInv /\ RunTypeInv'
  BY RunTypeInvStep DEF DurableInv
<1>2. \A q \in Runs : pc'[q] # "new" => session'[q] \in Sessions
  BY <1>1 DEF RunTypeInv
<1>. SUFFICES ASSUME NEW q \in Runs PROVE Durable(q)'
  BY <1>1 DEF DurableInv
<1>3. CASE Quiet
  BY <1>2, <1>3, RestersStayDurable DEF Quiet
<1>4. ASSUME NEW r \in Runs, AppendPrompt(r) PROVE Durable(q)'
  <2>1. CASE Quiet
    BY <1>3, <2>1
  <2>2. CASE /\ pc[r] = "prompting" /\ pc'[r] = "checking" /\ context'[r] = context[r]
             /\ \E x \in Entry : x.kind = "user" /\ Writes(r, x)
    <3>1. PICK x \in Entry : Writes(r, x)
      BY <2>2
    <3>. QED  BY <2>2, <3>1, WritersStayDurable DEF Early, HandlerPCs
  <2>. QED  BY <1>1, <1>4, <2>1, <2>2, PromptWrites
<1>5. ASSUME NEW r \in Runs, AppendReply(r) PROVE Durable(q)'
  <2>1. PICK x \in Entry : Writes(r, x) /\ context'[r] = Append(context[r], x)
    BY <1>1, <1>5, ReplyWrites
  <2>2. pc[r] # "new" /\ pc'[r] \notin Early
    BY <1>1, <1>5, ReplyWrites DEF Early, HandlerPCs
  <2>. QED  BY <2>1, <2>2, WritersStayDurable
<1>6. ASSUME NEW r \in Runs, RunTool(r) PROVE Durable(q)'
  <2>1. PICK x \in Entry : Writes(r, x) /\ context'[r] = Append(context[r], x)
    BY <1>1, <1>6, ToolWrites
  <2>2. pc[r] # "new" /\ pc'[r] \notin Early
    BY <1>1, <1>6, ToolWrites DEF Early, HandlerPCs
  <2>. QED  BY <2>1, <2>2, WritersStayDurable
<1>7. ASSUME NEW r \in Runs, Load(r) PROVE Durable(q)'
  <2>1. /\ pc[r] = "loading" /\ pc'[r] = "turn" /\ context'[r] = transcript[session[r]]
        /\ transcript' = transcript /\ session' = session
        /\ \A p \in Runs \ {r} : pc'[p] = pc[p] /\ context'[p] = context[p] /\ reply'[p] = reply[p]
    BY <1>1, <1>7, LoadReads
  <2>2. CASE q # r
    BY <2>1, <2>2 DEF DurableInv, Durable
  <2>3. CASE q = r
    <3>1. transcript[session[r]] \in Seq(Entry)
      BY <1>1, <2>1 DEF RunTypeInv, ServerTypeOK, RunnerTypeOK
    <3>2. \A e \in Entry : Cardinality(Positions(transcript[session[r]], e)) \in Nat
      BY <3>1, PositionsAreFinite
    <3>3. \A e \in Entry : Cardinality(Positions(context'[r], e)) <= Cardinality(Positions(transcript'[session'[r]], e))
      BY <2>1, <3>2
    <3>. QED  BY <2>1, <2>3, <3>3 DEF Durable, Early, HandlerPCs
  <2>. QED  BY <2>2, <2>3
<1>8. ASSUME NEW r \in Runs, BeginChat(r) PROVE Durable(q)'
  <2>1. /\ pc[r] = "sending" /\ pc'[r] = "chatting"
        /\ context'[r] = context[r] \/ \E p, d \in Nat : Tails(context'[r], context[r], p, d)
        /\ transcript' = transcript /\ session' = session /\ session[r] \in Sessions
        /\ \A p \in Runs \ {r} : pc'[p] = pc[p] /\ context'[p] = context[p] /\ reply'[p] = reply[p]
    BY <1>1, <1>8, ChatShortens
  <2>2. CASE q # r
    BY <2>1, <2>2 DEF DurableInv, Durable
  <2>3. CASE q = r
    <3>1. ASSUME NEW e \in Entry, e.kind # "system"
          PROVE  Cardinality(Positions(context'[r], e)) <= Cardinality(Positions(transcript[session[r]], e))
      <4>1. Cardinality(Positions(context[r], e)) <= Cardinality(Positions(transcript[session[r]], e))
        BY <2>1, <3>1 DEF DurableInv, Durable
      <4>2. CASE context'[r] = context[r]
        BY <4>1, <4>2
      <4>3. CASE \E p, d \in Nat : Tails(context'[r], context[r], p, d)
        <5>1. PICK p \in Nat, d \in Nat : Tails(context'[r], context[r], p, d)
          BY <4>3
        <5>2. context[r] \in Seq(Entry) /\ transcript[session[r]] \in Seq(Entry) /\ context'[r] \in Seq(Entry)
          BY <1>1, <2>1, <5>1 DEF RunTypeInv, ServerTypeOK, RunnerTypeOK, Tails
        <5>3. Cardinality(Positions(context'[r], e)) <= Cardinality(Positions(context[r], e))
          BY <3>1, <5>1, <5>2, TailsRepeatNothing
        <5>4. /\ Cardinality(Positions(context'[r], e)) \in Nat /\ Cardinality(Positions(context[r], e)) \in Nat
              /\ Cardinality(Positions(transcript[session[r]], e)) \in Nat
          BY <5>2, PositionsAreFinite
        <5>. QED  BY <4>1, <5>3, <5>4
      <4>. QED  BY <2>1, <4>2, <4>3
    <3>. QED  BY <2>1, <2>3, <3>1 DEF Durable, Early, HandlerPCs
  <2>. QED  BY <2>2, <2>3
<1>. QED  BY <1>1, <1>3, <1>4, <1>5, <1>6, <1>7, <1>8, StepsMoveMessages

\* The state of the server keeps its shape, whatever number of requests is
\* handled at a time.
THEOREM ServerStaysTyped == ServerSpec => []ServerTypeOK
<1>1. RunTypeInv => ServerTypeOK
  BY DEF RunTypeInv
<1>. QED  BY RunTypeInvInit, RunTypeInvStep, <1>1, PTL DEF ServerSpec

\* What a run has in memory, summaries aside, is in the transcript of its
\* session: every append goes to the disk first, and compaction invents and
\* repeats nothing.
THEOREM ContextsAreDurable == ServerSpec => []ContextIsDurable
<1>1. DurableInv => ContextIsDurable
  <2>. SUFFICES ASSUME DurableInv, NEW r \in Runs, NEW i \in DOMAIN context[r], context[r][i].kind # "system"
                PROVE  Cardinality({j \in DOMAIN context[r] : context[r][j] = context[r][i]})
                         <= Cardinality({j \in DOMAIN transcript[session[r]] :
                                           transcript[session[r]][j] = context[r][i]})
    BY DEF ContextIsDurable
  <2>1. context[r] \in Seq(Entry)
    BY DEF DurableInv, RunTypeInv, ServerTypeOK, RunnerTypeOK
  <2>2. context[r] # <<>> /\ context[r][i] \in Entry
    BY <2>1
  <2>3. pc[r] # "new" /\ Durable(r)
    BY <2>2 DEF DurableInv, Durable, Early
  <2>. QED  BY <2>2, <2>3 DEF Durable, Positions
<1>. QED  BY DurableInvInit, DurableInvStep, <1>1, PTL DEF ServerSpec

-----------------------------------------------------------------------------
(* The calls of a run in its own context                                   *)

\* No session holds a reply of the run.
Unheard(r) ==
  \A s \in Sessions : \A i \in DOMAIN transcript[s] :
    transcript[s][i].kind = "assistant" => transcript[s][i].run # r

Own(r) ==
  /\ pc[r] \in Early => Unheard(r)
  /\ pc[r] \in InLoop => Owing(context[r], r, Owed(r))

OwnInv == RunTypeInv /\ \A r \in Runs : Own(r)

LEMMA OwedIsNat ==
  ASSUME RunTypeInv, NEW r \in Runs
  PROVE  Owed(r) \in Nat
  BY RunnerAssumption DEF Owed, RunTypeInv, ServerTypeOK, RunnerTypeOK, Reply

LEMMA WritersStayUnheard ==
  ASSUME OwnInv, NEW r \in Runs, NEW x \in Entry, Writes(r, x), NEW q \in Runs, Unheard(q),
         x.kind # "assistant" \/ q # r
  PROVE  Unheard(q)'
<1>. SUFFICES ASSUME NEW s \in Sessions, NEW i \in DOMAIN transcript'[s], transcript'[s][i].kind = "assistant"
              PROVE  transcript'[s][i].run # q
  BY DEF Unheard
<1>1. transcript[s] \in Seq(Entry)
  BY DEF OwnInv, RunTypeInv, ServerTypeOK, RunnerTypeOK
<1>2. transcript'[s] = transcript[s] \/ transcript'[s] = Append(transcript[s], x)
  BY DEF Writes, OwnInv, RunTypeInv, ServerTypeOK, RunnerTypeOK
<1>3. CASE transcript'[s] = transcript[s]
  BY <1>3 DEF Unheard
<1>4. CASE transcript'[s] = Append(transcript[s], x)
  <2>1. \/ i \in DOMAIN transcript[s] /\ transcript'[s][i] = transcript[s][i]
        \/ transcript'[s][i] = x
    BY <1>1, <1>4
  <2>2. x.run = r
    BY DEF Writes
  <2>. QED  BY <2>1, <2>2 DEF Unheard
<1>. QED  BY <1>2, <1>3, <1>4

LEMMA OwnInvInit == ServerInit => OwnInv
<1>. SUFFICES ASSUME ServerInit PROVE OwnInv
  OBVIOUS
<1>1. RunTypeInv
  BY RunTypeInvInit
<1>2. ASSUME NEW r \in Runs PROVE Own(r)
  BY DEF ServerInit, RunnerInit, Own, Unheard, InLoop, InTurn
<1>. QED  BY <1>1, <1>2 DEF OwnInv

LEMMA OwnInvStep == OwnInv /\ [ServerNext]_serverVars => OwnInv'
<1>. SUFFICES ASSUME OwnInv, [ServerNext]_serverVars PROVE OwnInv'
  OBVIOUS
<1>1. RunTypeInv /\ RunTypeInv'
  BY RunTypeInvStep DEF OwnInv
<1>. SUFFICES ASSUME NEW q \in Runs PROVE Own(q)'
  BY <1>1 DEF OwnInv
<1>2. Own(q)
  BY DEF OwnInv
<1>3. CASE Quiet
  <2>1. Rests(q) /\ transcript' = transcript /\ context' = context
    BY <1>3 DEF Quiet
  <2>2. pc'[q] \in Early => Unheard(q)'
    BY <1>2, <2>1 DEF Rests, Own, Unheard
  <2>3. ASSUME pc'[q] \in InLoop PROVE Owing(context'[q], q, Owed(q)')
    <3>1. Owing(context[q], q, Owed(q))
      BY <1>2, <2>1, <2>3 DEF Rests, Own
    <3>2. CASE pc'[q] = "tools"
      <4>1. Owed(q)' = Owed(q)
        BY <2>1, <3>2 DEF Rests, Owed
      <4>. QED  BY <2>1, <3>1, <4>1
    <3>3. CASE pc'[q] # "tools"
      <4>1. Owed(q)' = 0
        BY <3>3 DEF Owed
      <4>2. CASE pc[q] # "tools"
        <5>1. Owed(q) = 0
          BY <4>2 DEF Owed
        <5>. QED  BY <2>1, <3>1, <4>1, <5>1
      <4>3. CASE pc[q] = "tools"
        BY <2>1, <2>3, <3>3, <4>3 DEF Rests
      <4>. QED  BY <4>2, <4>3
    <3>. QED  BY <3>2, <3>3
  <2>. QED  BY <2>2, <2>3 DEF Own
\* Another run moves messages.
<1>4. ASSUME NEW r \in Runs \ {q}, pc'[q] = pc[q], context'[q] = context[q], reply'[q] = reply[q],
             pc[q] \in Early => Unheard(q)'
      PROVE  Own(q)'
  BY <1>2, <1>4 DEF Own, Owed
<1>5. ASSUME NEW r \in Runs, AppendPrompt(r) PROVE Own(q)'
  <2>1. CASE Quiet
    BY <1>3, <2>1
  <2>2. CASE /\ pc[r] = "prompting" /\ pc'[r] = "checking" /\ context'[r] = context[r]
             /\ \E x \in Entry : x.kind = "user" /\ Writes(r, x)
    <3>1. PICK x \in Entry : x.kind = "user" /\ Writes(r, x)
      BY <2>2
    <3>2. Unheard(q) => Unheard(q)'
      BY <3>1, WritersStayUnheard
    <3>3. CASE q # r
      BY <1>2, <1>4, <3>1, <3>2, <3>3 DEF Writes, Own
    <3>4. CASE q = r
      BY <1>2, <2>2, <3>2, <3>4 DEF Own, Early, InLoop, InTurn, HandlerPCs
    <3>. QED  BY <3>3, <3>4
  <2>. QED  BY <1>1, <1>5, <2>1, <2>2, PromptWrites
<1>6. ASSUME NEW r \in Runs, AppendReply(r) PROVE Own(q)'
  <2>1. PICK x \in Entry : /\ x.kind = "assistant" /\ x.calls = reply[r].calls /\ Writes(r, x)
                          /\ context'[r] = Append(context[r], x)
    BY <1>1, <1>6, ReplyWrites
  <2>2. pc[r] = "replied" /\ pc'[r] \in {"tools", "ending"} /\ reply'[r] = reply[r]
    BY <1>1, <1>6, ReplyWrites
  <2>3. CASE q # r
    <3>1. Unheard(q) => Unheard(q)'
      BY <2>1, <2>3, WritersStayUnheard
    <3>. QED  BY <1>2, <1>4, <2>1, <2>3, <3>1 DEF Writes, Own
  <2>4. CASE q = r
    <3>1. Owing(context[r], r, 0)
      BY <1>2, <2>2, <2>4 DEF Own, Owed, InLoop, InTurn
    <3>2. context[r] \in Seq(Entry) /\ x.run = r /\ reply[r].calls \in Nat
      BY <1>1, <2>1, RunnerAssumption DEF RunTypeInv, ServerTypeOK, RunnerTypeOK, Reply, Writes
    <3>3. Owing(Append(context[r], x), r, 0 + x.calls)
      BY <2>1, <3>1, <3>2, CallsOpen
    <3>4. 0 + x.calls = reply[r].calls
      BY <2>1, <3>2
    <3>5. pc'[r] = "tools" => Owed(r)' = reply[r].calls
      BY <2>2 DEF Owed
    <3>6. pc'[r] = "tools" => Owing(context'[r], r, Owed(r)')
      BY <2>1, <3>3, <3>4, <3>5
    <3>. QED  BY <2>2, <2>4, <3>6 DEF Own, Early, InLoop, InTurn, HandlerPCs
  <2>. QED  BY <2>3, <2>4
<1>7. ASSUME NEW r \in Runs, RunTool(r) PROVE Own(q)'
  <2>1. PICK x \in Entry : x.kind = "tool" /\ Writes(r, x) /\ context'[r] = Append(context[r], x)
    BY <1>1, <1>7, ToolWrites
  <2>2. /\ pc[r] = "tools" /\ pc'[r] \in {"tools", "turn", "ending"}
        /\ reply[r].calls \in Nat \ {0} /\ Owed(r)' = reply[r].calls - 1
    BY <1>1, <1>7, ToolWrites
  <2>3. CASE q # r
    <3>1. Unheard(q) => Unheard(q)'
      BY <2>1, WritersStayUnheard
    <3>. QED  BY <1>2, <1>4, <2>1, <2>3, <3>1 DEF Writes, Own
  <2>4. CASE q = r
    <3>1. Owing(context[r], r, reply[r].calls)
      BY <1>2, <2>2, <2>4 DEF Own, Owed, InLoop, InTurn
    <3>2. context[r] \in Seq(Entry) /\ x.run = r /\ reply[r].calls \in Nat /\ reply[r].calls > 0
      BY <1>1, <2>1, <2>2 DEF RunTypeInv, ServerTypeOK, RunnerTypeOK, Writes
    <3>3. Owing(Append(context[r], x), r, reply[r].calls - 1)
      BY <2>1, <3>1, <3>2, OthersDoNotOpen
    <3>. QED  BY <2>1, <2>2, <2>4, <3>3 DEF Own, Early, HandlerPCs
  <2>. QED  BY <2>3, <2>4
<1>8. ASSUME NEW r \in Runs, Load(r) PROVE Own(q)'
  <2>1. /\ pc[r] = "loading" /\ pc'[r] = "turn" /\ context'[r] = transcript[session[r]]
        /\ transcript' = transcript /\ session[r] \in Sessions
        /\ \A p \in Runs \ {r} : pc'[p] = pc[p] /\ context'[p] = context[p] /\ reply'[p] = reply[p]
    BY <1>1, <1>8, LoadReads
  <2>2. CASE q # r
    BY <1>2, <1>4, <2>1, <2>2 DEF Own, Unheard
  <2>3. CASE q = r
    <3>1. Unheard(r)
      BY <1>2, <2>1, <2>3 DEF Own, Early
    <3>2. Owing(context'[r], r, 0)
      BY <2>1, <3>1 DEF Unheard, Owing
    <3>3. Owed(r)' = 0
      BY <2>1 DEF Owed
    <3>. QED  BY <2>1, <2>3, <3>2, <3>3 DEF Own, Early, HandlerPCs
  <2>. QED  BY <2>2, <2>3
<1>9. ASSUME NEW r \in Runs, BeginChat(r) PROVE Own(q)'
  <2>1. /\ pc[r] = "sending" /\ pc'[r] = "chatting"
        /\ context'[r] = context[r] \/ \E p, d \in Nat : Tails(context'[r], context[r], p, d)
        /\ transcript' = transcript
        /\ \A p \in Runs \ {r} : pc'[p] = pc[p] /\ context'[p] = context[p] /\ reply'[p] = reply[p]
    BY <1>1, <1>9, ChatShortens
  <2>2. CASE q # r
    BY <1>2, <1>4, <2>1, <2>2 DEF Own, Unheard
  <2>3. CASE q = r
    <3>1. Owing(context[r], r, 0)
      BY <1>2, <2>1, <2>3 DEF Own, Owed, InLoop, InTurn
    <3>2. context[r] \in Seq(Entry)
      BY <1>1 DEF RunTypeInv, ServerTypeOK, RunnerTypeOK
    <3>3. Owing(context'[r], r, 0)
      <4>1. CASE context'[r] = context[r]
        BY <3>1, <4>1
      <4>2. CASE \E p, d \in Nat : Tails(context'[r], context[r], p, d)
        BY <3>1, <3>2, <4>2, TailsKeepAnswers
      <4>. QED  BY <2>1, <4>1, <4>2
    <3>4. Owed(r)' = 0
      BY <2>1 DEF Owed
    <3>. QED  BY <2>1, <2>3, <3>3, <3>4 DEF Own, Early, HandlerPCs
  <2>. QED  BY <2>2, <2>3
<1>. QED  BY <1>1, <1>3, <1>5, <1>6, <1>7, <1>8, <1>9, StepsMoveMessages

\* The part of SentCallsAreAnswered that is about a run's own calls.
OwnCallsAreAnswered ==
  \A r \in Runs : pc[r] = "chatting" =>
    \A i \in DOMAIN context[r] :
      context[r][i].kind = "assistant" /\ context[r][i].run = r
        => Answers(context[r], i) >= Calls(context[r], i)

\* Whatever failed and however many requests are handled at a time, a run
\* never sends one of its own calls without its result: a failed append ends
\* the run before the next provider call, and compaction drops a result only
\* with the call it answers.
THEOREM RunsAnswerTheirCalls == ServerSpec => []OwnCallsAreAnswered
<1>1. OwnInv => OwnCallsAreAnswered
  <2>. SUFFICES ASSUME OwnInv, NEW r \in Runs, pc[r] = "chatting", NEW i \in DOMAIN context[r],
                       context[r][i].kind = "assistant", context[r][i].run = r
                PROVE  Answers(context[r], i) >= Calls(context[r], i)
    BY DEF OwnCallsAreAnswered
  <2>1. Owing(context[r], r, 0)
    BY DEF OwnInv, Own, Owed, InLoop, InTurn
  <2>2. Cardinality(CallSet(context[r], r, i)) <= Cardinality(AnswerSet(context[r], r, i)) + 0
    BY <2>1 DEF Owing
  <2>3. /\ Answers(context[r], i) = Cardinality(AnswerSet(context[r], r, i))
        /\ Calls(context[r], i) = Cardinality(CallSet(context[r], r, i))
    BY DEF Answers, Calls, AnswerSet, CallSet
  <2>4. context[r] \in Seq(Entry) /\ i \in Nat
    BY DEF OwnInv, RunTypeInv, ServerTypeOK, RunnerTypeOK
  <2>5. /\ Cardinality(CallSet(context[r], r, i)) \in Nat
        /\ Cardinality(AnswerSet(context[r], r, i)) \in Nat
    BY <2>4, CallsAndAnswersAreFinite
  <2>. QED  BY <2>2, <2>3, <2>5
<1>. QED  BY OwnInvInit, OwnInvStep, <1>1, PTL DEF ServerSpec

-----------------------------------------------------------------------------
(* The calls of earlier runs                                               *)

\* Of other runs a run has read only calls that were answered, and in the
\* transcripts a run owes at most what it has yet to execute.
Settled(r) ==
  /\ pc[r] \in InLoop => \A q \in Runs \ {r} : Owing(context[r], q, 0)
  /\ \A s \in Sessions : Owing(transcript[s], r, IF session[r] = s THEN Owed(r) ELSE 0)

SettledInv == ServerInv /\ OwnInv /\ \A r \in Runs : Settled(r)

LEMMA WritersStaySettled ==
  ASSUME SettledInv, NEW r \in Runs, NEW x \in Entry, Writes(r, x),
         pc'[r] \in InLoop => pc[r] \in InLoop /\ context'[r] = Append(context[r], x),
         Owing(Append(transcript[session[r]], x), r, Owed(r)'),
         NEW q \in Runs
  PROVE  Settled(q)'
<1>1. RunTypeInv /\ Settled(q) /\ Settled(r)
  BY DEF SettledInv, OwnInv
<1>2. session[r] \in Sessions /\ session' = session /\ x.run = r
  BY DEF Writes
<1>3. \A s \in Sessions : transcript[s] \in Seq(Entry)
  BY <1>1 DEF RunTypeInv, ServerTypeOK, RunnerTypeOK
<1>4. /\ transcript'[session[r]] = Append(transcript[session[r]], x)
      /\ \A s \in Sessions \ {session[r]} : transcript'[s] = transcript[s]
  BY <1>1 DEF Writes, RunTypeInv, ServerTypeOK, RunnerTypeOK
<1>5. CASE q # r
  <2>1. pc'[q] = pc[q] /\ context'[q] = context[q] /\ Owed(q)' = Owed(q)
    BY <1>5 DEF Writes, Owed
  <2>2. ASSUME NEW s \in Sessions
        PROVE  Owing(transcript'[s], q, IF session[q] = s THEN Owed(q) ELSE 0)
    <3>1. PICK n : n = IF session[q] = s THEN Owed(q) ELSE 0
      OBVIOUS
    <3>2. Owing(transcript[s], q, n) /\ n \in Nat
      BY <1>1, <3>1, OwedIsNat DEF Settled
    <3>3. CASE s = session[r]
      <4>1. Owing(Append(transcript[s], x), q, n)
        BY <1>2, <1>3, <1>5, <3>2, OthersDoNotOpen
      <4>. QED  BY <1>4, <3>1, <3>3, <4>1
    <3>4. CASE s # session[r]
      BY <1>4, <3>1, <3>2, <3>4
    <3>. QED  BY <3>3, <3>4
  <2>. QED  BY <1>1, <1>2, <2>1, <2>2 DEF Settled
<1>6. CASE q = r
  <2>1. ASSUME NEW s \in Sessions
        PROVE  Owing(transcript'[s], r, IF session'[r] = s THEN Owed(r)' ELSE 0)
    <3>1. CASE s = session[r]
      BY <1>2, <1>4, <3>1
    <3>2. CASE s # session[r]
      <4>1. Owing(transcript[s], r, 0)
        BY <1>1, <3>2 DEF Settled
      <4>. QED  BY <1>2, <1>4, <3>2, <4>1
    <3>. QED  BY <3>1, <3>2
  <2>2. ASSUME pc'[r] \in InLoop, NEW p \in Runs \ {r} PROVE Owing(context'[r], p, 0)
    <3>1. Owing(context[r], p, 0) /\ context[r] \in Seq(Entry)
      BY <1>1, <2>2 DEF Settled, RunTypeInv, ServerTypeOK, RunnerTypeOK
    <3>2. x.run # p
      BY <1>2
    <3>3. Owing(Append(context[r], x), p, 0)
      BY <3>1, <3>2, OthersDoNotOpen
    <3>. QED  BY <2>2, <3>3
  <2>. QED  BY <1>6, <2>1, <2>2 DEF Settled
<1>. QED  BY <1>5, <1>6

LEMMA RestersStaySettled ==
  ASSUME SettledInv, MaxFaults = 0, NEW q \in Runs, Rests(q),
         transcript' = transcript, context' = context
  PROVE  Settled(q)'
<1>1. Settled(q) /\ RunTypeInv
  BY DEF SettledInv, OwnInv
<1>2. pc'[q] \in InLoop => \A p \in Runs \ {q} : Owing(context'[q], p, 0)
  BY <1>1 DEF Settled, Rests
<1>3. Owed(q)' = Owed(q)
  BY DEF Owed, Rests
<1>4. CASE pc[q] = "new"
  <2>1. Owed(q) = 0
    BY <1>4 DEF Owed
  <2>2. \A s \in Sessions : Owing(transcript[s], q, 0)
    BY <1>1, <2>1 DEF Settled
  <2>. QED  BY <1>2, <1>3, <2>1, <2>2 DEF Settled
<1>5. CASE pc[q] # "new"
  <2>1. session'[q] = session[q]
    BY <1>5 DEF Rests
  <2>. QED  BY <1>1, <1>2, <1>3, <2>1 DEF Settled
<1>. QED  BY <1>4, <1>5

LEMMA SettledInvInit == ServerInit => SettledInv
<1>. SUFFICES ASSUME ServerInit PROVE SettledInv
  OBVIOUS
<1>1. ServerInv /\ OwnInv
  BY ServerInvInit, OwnInvInit
<1>2. ASSUME NEW r \in Runs PROVE Settled(r)
  BY DEF ServerInit, RunnerInit, Settled, Owing, InLoop, InTurn
<1>. QED  BY <1>1, <1>2 DEF SettledInv

LEMMA SettledInvStep ==
  ASSUME HandlerLimit = 1, MaxFaults = 0
  PROVE  SettledInv /\ [ServerNext]_serverVars => SettledInv'
<1>. SUFFICES ASSUME SettledInv, [ServerNext]_serverVars PROVE SettledInv'
  OBVIOUS
<1>1. ServerInv' /\ OwnInv' /\ RunTypeInv
  BY ServerInvStep, OwnInvStep DEF SettledInv, OwnInv
<1>. SUFFICES ASSUME NEW q \in Runs PROVE Settled(q)'
  BY <1>1 DEF SettledInv
<1>2. Settled(q) /\ \A r \in Runs : Settled(r)
  BY DEF SettledInv
<1>3. CASE Quiet
  BY <1>3, RestersStaySettled DEF Quiet
<1>4. ASSUME NEW r \in Runs, AppendPrompt(r) PROVE Settled(q)'
  <2>1. CASE Quiet
    BY <1>3, <2>1
  <2>2. CASE /\ pc[r] = "prompting" /\ pc'[r] = "checking" /\ context'[r] = context[r]
             /\ \E x \in Entry : x.kind = "user" /\ Writes(r, x)
    <3>1. PICK x \in Entry : x.kind = "user" /\ Writes(r, x)
      BY <2>2
    <3>2. Owed(r) = 0 /\ Owed(r)' = 0 /\ session[r] \in Sessions
      BY <2>2, <3>1 DEF Owed, Writes
    <3>3. Owing(transcript[session[r]], r, 0) /\ transcript[session[r]] \in Seq(Entry)
      BY <1>1, <1>2, <3>2 DEF Settled, RunTypeInv, ServerTypeOK, RunnerTypeOK
    <3>4. Owing(Append(transcript[session[r]], x), r, 0)
      BY <3>1, <3>3, OthersDoNotOpen
    <3>5. pc'[r] \notin InLoop
      BY <2>2 DEF InLoop, InTurn
    <3>. QED  BY <3>1, <3>2, <3>4, <3>5, WritersStaySettled
  <2>. QED  BY <1>1, <1>4, <2>1, <2>2, PromptWrites
<1>5. ASSUME NEW r \in Runs, AppendReply(r) PROVE Settled(q)'
  <2>1. PICK x \in Entry : /\ x.kind = "assistant" /\ x.calls = reply[r].calls /\ Writes(r, x)
                          /\ context'[r] = Append(context[r], x)
    BY <1>1, <1>5, ReplyWrites
  <2>2. /\ pc[r] = "replied" /\ pc'[r] \in {"tools", "ending"} /\ reply'[r] = reply[r]
        /\ pc'[r] = "ending" => reply[r].calls = 0
    BY <1>1, <1>5, ReplyWrites
  <2>3. Owed(r) = 0 /\ session[r] \in Sessions /\ x.run = r /\ reply[r].calls \in Nat
    BY <1>1, <2>1, <2>2, RunnerAssumption DEF Owed, Writes, RunTypeInv, ServerTypeOK, RunnerTypeOK, Reply
  <2>4. Owing(transcript[session[r]], r, 0) /\ transcript[session[r]] \in Seq(Entry)
    BY <1>1, <1>2, <2>3 DEF Settled, RunTypeInv, ServerTypeOK, RunnerTypeOK
  <2>5. Owing(Append(transcript[session[r]], x), r, 0 + x.calls)
    BY <2>1, <2>3, <2>4, CallsOpen
  <2>6. 0 + x.calls = reply[r].calls
    BY <2>1, <2>3
  <2>7. Owed(r)' = reply[r].calls
    BY <2>2 DEF Owed
  <2>8. Owing(Append(transcript[session[r]], x), r, Owed(r)')
    BY <2>5, <2>6, <2>7
  <2>9. pc[r] \in InLoop
    BY <2>2 DEF InLoop, InTurn
  <2>. QED  BY <2>1, <2>8, <2>9, WritersStaySettled
<1>6. ASSUME NEW r \in Runs, RunTool(r) PROVE Settled(q)'
  <2>1. PICK x \in Entry : x.kind = "tool" /\ Writes(r, x) /\ context'[r] = Append(context[r], x)
    BY <1>1, <1>6, ToolWrites
  <2>2. /\ pc[r] = "tools" /\ reply[r].calls \in Nat \ {0} /\ Owed(r)' = reply[r].calls - 1
    BY <1>1, <1>6, ToolWrites
  <2>3. Owed(r) = reply[r].calls /\ session[r] \in Sessions /\ x.run = r /\ pc[r] \in InLoop
    BY <2>1, <2>2 DEF Owed, Writes, InLoop, InTurn
  <2>4. Owing(transcript[session[r]], r, reply[r].calls) /\ transcript[session[r]] \in Seq(Entry)
    BY <1>1, <1>2, <2>3 DEF Settled, RunTypeInv, ServerTypeOK, RunnerTypeOK
  <2>5. reply[r].calls \in Nat /\ reply[r].calls > 0
    BY <2>2
  <2>6. Owing(Append(transcript[session[r]], x), r, reply[r].calls - 1)
    BY <2>1, <2>3, <2>4, <2>5, OthersDoNotOpen
  <2>. QED  BY <2>1, <2>2, <2>3, <2>6, WritersStaySettled
\* The run reads what the earlier runs of its session have left.
<1>7. ASSUME NEW r \in Runs, Load(r) PROVE Settled(q)'
  <2>1. /\ pc[r] = "loading" /\ pc'[r] = "turn" /\ context'[r] = transcript[session[r]]
        /\ transcript' = transcript /\ session' = session /\ session[r] \in Sessions
        /\ \A p \in Runs \ {r} : pc'[p] = pc[p] /\ context'[p] = context[p] /\ reply'[p] = reply[p]
    BY <1>1, <1>7, LoadReads
  <2>2. Owed(q)' = Owed(q)
    BY <2>1 DEF Owed
  <2>3. \A s \in Sessions : Owing(transcript'[s], q, IF session'[q] = s THEN Owed(q)' ELSE 0)
    BY <1>2, <2>1, <2>2 DEF Settled
  <2>4. CASE q # r
    BY <1>2, <2>1, <2>3, <2>4 DEF Settled
  <2>5. CASE q = r
    <3>1. ASSUME NEW p \in Runs \ {r} PROVE Owing(transcript[session[r]], p, 0)
      <4>1. Owing(transcript[session[r]], p, IF session[p] = session[r] THEN Owed(p) ELSE 0)
        BY <1>2, <2>1 DEF Settled
      <4>2. session[p] = session[r] => pc[p] # "tools"
        BY <2>1 DEF SettledInv, ServerInv, RunsApart, Occupies, RunnerPCs
      <4>3. (IF session[p] = session[r] THEN Owed(p) ELSE 0) = 0
        BY <4>2 DEF Owed
      <4>. QED  BY <4>1, <4>3
    <3>. QED  BY <2>1, <2>3, <2>5, <3>1 DEF Settled
  <2>. QED  BY <2>4, <2>5
<1>8. ASSUME NEW r \in Runs, BeginChat(r) PROVE Settled(q)'
  <2>1. /\ pc[r] = "sending" /\ pc'[r] = "chatting"
        /\ context'[r] = context[r] \/ \E p, d \in Nat : Tails(context'[r], context[r], p, d)
        /\ transcript' = transcript /\ session' = session
        /\ \A p \in Runs \ {r} : pc'[p] = pc[p] /\ context'[p] = context[p] /\ reply'[p] = reply[p]
    BY <1>1, <1>8, ChatShortens
  <2>2. Owed(q)' = Owed(q)
    BY <2>1 DEF Owed
  <2>3. \A s \in Sessions : Owing(transcript'[s], q, IF session'[q] = s THEN Owed(q)' ELSE 0)
    BY <1>2, <2>1, <2>2 DEF Settled
  <2>4. CASE q # r
    BY <1>2, <2>1, <2>3, <2>4 DEF Settled
  <2>5. CASE q = r
    <3>1. ASSUME NEW p \in Runs \ {r} PROVE Owing(context'[r], p, 0)
      <4>1. Owing(context[r], p, 0) /\ context[r] \in Seq(Entry)
        BY <1>1, <1>2, <2>1 DEF Settled, InLoop, InTurn, RunTypeInv, ServerTypeOK, RunnerTypeOK
      <4>2. CASE context'[r] = context[r]
        BY <4>1, <4>2
      <4>3. CASE \E l, d \in Nat : Tails(context'[r], context[r], l, d)
        BY <4>1, <4>3, TailsKeepAnswers
      <4>. QED  BY <2>1, <4>2, <4>3
    <3>. QED  BY <2>1, <2>3, <2>5, <3>1 DEF Settled
  <2>. QED  BY <2>4, <2>5
<1>. QED  BY <1>1, <1>3, <1>4, <1>5, <1>6, <1>7, <1>8, StepsMoveMessages

\* Every call a run sends to its provider, its own or one an earlier run left
\* in the transcript, comes with its result.
THEOREM SentCallsHaveAnswers ==
  ASSUME HandlerLimit = 1, MaxFaults = 0
  PROVE  ServerSpec => []SentCallsAreAnswered
<1>1. SettledInv => SentCallsAreAnswered
  <2>. SUFFICES ASSUME SettledInv, NEW r \in Runs, pc[r] = "chatting", NEW i \in DOMAIN context[r],
                       context[r][i].kind = "assistant"
                PROVE  Answers(context[r], i) >= Calls(context[r], i)
    BY DEF SentCallsAreAnswered
  <2>1. context[r] \in Seq(Entry) /\ i \in Nat
    BY DEF SettledInv, OwnInv, RunTypeInv, ServerTypeOK, RunnerTypeOK
  <2>2. PICK q : q = context[r][i].run
    OBVIOUS
  <2>3. q \in Runs
    <3>1. context[r][i] \in Entry
      BY <2>1
    <3>. QED  BY <2>2, <3>1 DEF Entry
  <2>4. Owing(context[r], q, 0)
    <3>1. CASE q = r
      BY <3>1 DEF SettledInv, OwnInv, Own, Owed, InLoop, InTurn
    <3>2. CASE q # r
      BY <2>3, <3>2 DEF SettledInv, Settled, InLoop, InTurn
    <3>. QED  BY <3>1, <3>2
  <2>5. Cardinality(CallSet(context[r], q, i)) <= Cardinality(AnswerSet(context[r], q, i)) + 0
    BY <2>2, <2>4 DEF Owing
  <2>6. /\ Answers(context[r], i) = Cardinality(AnswerSet(context[r], q, i))
        /\ Calls(context[r], i) = Cardinality(CallSet(context[r], q, i))
    BY <2>2 DEF Answers, Calls, AnswerSet, CallSet
  <2>7. /\ Cardinality(CallSet(context[r], q, i)) \in Nat
        /\ Cardinality(AnswerSet(context[r], q, i)) \in Nat
    BY <2>1, CallsAndAnswersAreFinite
  <2>. QED  BY <2>5, <2>6, <2>7
<1>2. SettledInv /\ [ServerNext]_serverVars => SettledInv'
  BY SettledInvStep
<1>. QED  BY SettledInvInit, <1>1, <1>2, PTL DEF ServerSpec
=============================================================================
