------------------------------ MODULE RunServer -----------------------------
(***************************************************************************)
(* The session part of kn-code-server: POST /v1/run (routes/run.rs), which *)
(* stores the prompt, checks that the session is not running and spawns an *)
(* AgentRunner, and POST /v1/sessions/{id}/cancel (routes/sessions.rs).    *)
(*                                                                         *)
(* A request is an element of Runs.  Its pc goes through the handler, then *)
(* through the spawned task; a handler whose client disconnects simply     *)
(* stops where it is, so handlers have no fairness.  At most HandlerLimit  *)
(* requests are between their first step and their answer: 1 is a client   *)
(* that waits for each answer before it sends the next request.            *)
(***************************************************************************)
EXTENDS AgentRunner

CONSTANTS
  HandlerLimit,   \* requests being handled at a time
  MaxCancels      \* bound on cancel requests

ASSUME ServerAssumption == HandlerLimit \in Nat \ {0} /\ MaxCancels \in Nat

VARIABLES
  running,     \* RunState.running_sessions
  cancels,     \* cancel requests answered
  cancelled,   \* runs that were live when a cancel of their session was answered
  lateChats    \* provider calls such a run has begun since

serverVars ==
  <<status, transcript, turnsSaved, pc, session, limit, turn, context, reply, faults,
    running, cancels, cancelled, lateChats>>

HandlerPCs == {"prompting", "checking", "inserting"}

InHandler == {r \in Runs : pc[r] \in HandlerPCs}

\* The spawned task of the request exists.
Live(r) == pc[r] \in RunnerPCs

ServerTypeOK ==
  /\ RunnerTypeOK
  /\ pc \in [Runs -> HandlerPCs \cup RunnerPCs
                       \cup {"new", "refused", "conflict", "leaked", "done", "lost"}]
  /\ running \subseteq Sessions
  /\ cancels \in 0..MaxCancels
  /\ cancelled \subseteq Runs
  /\ lateChats \in [Runs -> Nat]

ServerInit ==
  /\ RunnerInit
  /\ pc = [r \in Runs |-> "new"]
  /\ running = {}
  /\ cancels = 0
  /\ cancelled = {}
  /\ lateChats = [r \in Runs |-> 0]

\* The bookkeeping of cancels, and all but pc of the runner's state.
cancelVars == <<cancels, cancelled, lateChats>>

loopVars == <<turnsSaved, limit, turn, context, reply>>

-----------------------------------------------------------------------------
(* POST /v1/run                                                            *)

Arrive(r, s) ==
  /\ pc[r] = "new" /\ Cardinality(InHandler) < HandlerLimit
  /\ session' = [session EXCEPT ![r] = s]
  /\ \E n \in 0..MaxTurns : limit' = [limit EXCEPT ![r] = n]
  /\ Goto(r, "prompting")

\* No session_id in the request: create_session.
ArriveNew(r, s) ==
  /\ Arrive(r, s)
  /\ status[s] = "absent"
  /\ status' = [status EXCEPT ![s] = "active"]
  /\ UNCHANGED <<transcript, turnsSaved, turn, context, reply, faults, running, cancelVars>>

\* A session_id in the request; nothing checks that it exists.
ArriveResume(r, s) ==
  /\ Arrive(r, s)
  /\ UNCHANGED <<status, transcript, turnsSaved, turn, context, reply, faults, running,
                 cancelVars>>

\* append_message of the prompt; without the session's directory it fails.
AppendPrompt(r) ==
  /\ pc[r] = "prompting"
  /\ IF status[session[r]] = "absent"
     THEN Goto(r, "refused") /\ UNCHANGED transcript
     ELSE /\ transcript' = [transcript EXCEPT ![session[r]] =
                              Append(@, [kind |-> "user", run |-> r, calls |-> 0])]
          /\ Goto(r, "checking")
  /\ UNCHANGED <<status, session, faults, running, cancelVars, loopVars>>

\* Mutant: the answer of contains() is ignored.
CheckRunning_Ignored(r) ==
  /\ pc[r] = "checking"
  /\ Goto(r, "inserting")
  /\ UNCHANGED <<status, transcript, session, faults, running, cancelVars, loopVars>>

\* running_sessions.read().contains: CONFLICT, or go on without the lock.
CheckRunning(r) ==
  /\ pc[r] = "checking"
  /\ Goto(r, IF session[r] \in running THEN "conflict" ELSE "inserting")
  /\ UNCHANGED <<status, transcript, session, faults, running, cancelVars, loopVars>>

\* running_sessions.write().insert, tokio::spawn, and the ACCEPTED answer.
Spawn(r) ==
  /\ pc[r] = "inserting"
  /\ running' = running \cup {session[r]}
  /\ Goto(r, "resolving")
  /\ UNCHANGED <<status, transcript, session, faults, cancelVars, loopVars>>

-----------------------------------------------------------------------------
(* The spawned task                                                        *)

Resolve(r) ==
  /\ pc[r] = "resolving"
  /\ Goto(r, "loading")
  /\ UNCHANGED <<status, transcript, session, faults, running, cancelVars, loopVars>>

\* No provider for the model: the state becomes "error" and the task returns
\* without taking the session out of running_sessions.
ResolveFails(r) ==
  /\ pc[r] = "resolving"
  /\ SetStatus(r, "error")
  /\ Goto(r, "leaked")
  /\ UNCHANGED <<transcript, session, faults, running, cancelVars, loopVars>>

\* A step of the runner; a provider call begun after a cancel is counted.
Advance(r) ==
  /\ RunStep(r)
  /\ lateChats' = IF r \in cancelled /\ pc'[r] = "chatting"
                  THEN [lateChats EXCEPT ![r] = @ + 1] ELSE lateChats
  /\ UNCHANGED <<running, cancels, cancelled>>

\* Mutant: the failed run leaves the state as it was.
FailRun_Silent(r) ==
  /\ pc[r] = "failing"
  /\ Goto(r, "removing")
  /\ UNCHANGED <<status, transcript, session, faults, running, cancelVars, loopVars>>

\* The run returned Err.
FailRun(r) ==
  /\ pc[r] = "failing"
  /\ SetStatus(r, "error")
  /\ Goto(r, "removing")
  /\ UNCHANGED <<transcript, session, faults, running, cancelVars, loopVars>>

\* Mutant: the task asks for the write lock while it still reads the set.
Remove_SelfDeadlock(r) ==
  /\ pc[r] = "removing"
  /\ session[r] \notin running
  /\ Goto(r, "done")
  /\ UNCHANGED <<status, transcript, session, faults, running, cancelVars, loopVars>>

\* Mutant: the session is not removed.
Remove_Forgotten(r) ==
  /\ pc[r] = "removing"
  /\ Goto(r, "done")
  /\ UNCHANGED <<status, transcript, session, faults, running, cancelVars, loopVars>>

\* running_sessions.write().remove, whoever inserted the session.
Remove(r) ==
  /\ pc[r] = "removing"
  /\ running' = running \ {session[r]}
  /\ Goto(r, "done")
  /\ UNCHANGED <<status, transcript, session, faults, cancelVars, loopVars>>

TaskStep(r) == Resolve(r) \/ ResolveFails(r) \/ Advance(r) \/ FailRun(r) \/ Remove(r)

-----------------------------------------------------------------------------
(* Cancel, and the end of the process                                      *)

\* cancel_session: whatever the state is, it becomes "cancelled".
Cancel(s) ==
  /\ cancels < MaxCancels
  /\ status[s] # "absent"
  /\ status' = [status EXCEPT ![s] = "cancelled"]
  /\ cancels' = cancels + 1
  /\ cancelled' = cancelled \cup {r \in Runs : Live(r) /\ session[r] = s}
  /\ UNCHANGED <<transcript, pc, session, faults, running, lateChats, loopVars>>

\* Crash, or the end of graceful shutdown, which does not wait for spawned
\* tasks: every handler, every run and running_sessions are gone.
Restart ==
  /\ faults < MaxFaults /\ faults' = faults + 1
  /\ pc' = [r \in Runs |-> IF pc[r] \in HandlerPCs \cup RunnerPCs \cup {"leaked"}
                           THEN "lost" ELSE pc[r]]
  /\ running' = {}
  /\ UNCHANGED <<status, transcript, session, cancelVars, loopVars>>

ServerNext ==
  \/ \E r \in Runs :
       \/ \E s \in Sessions : ArriveNew(r, s) \/ ArriveResume(r, s)
       \/ AppendPrompt(r)
       \/ CheckRunning(r)
       \/ Spawn(r)
       \/ TaskStep(r)
  \/ \E s \in Sessions : Cancel(s)
  \/ Restart

ServerSpec == ServerInit /\ [][ServerNext]_serverVars

\* A spawned task is polled until it returns: the provider call has a request
\* timeout, the tools have theirs.
ServerFairSpec == ServerSpec /\ \A r \in Runs : WF_serverVars(TaskStep(r))

-----------------------------------------------------------------------------
(* Properties                                                              *)

\* No session has two live runs.
OneRunPerSession ==
  \A r, q \in Runs : Live(r) /\ Live(q) /\ session[r] = session[q] => r = q

\* The session of a live run is in running_sessions, so that the next request
\* for it is answered CONFLICT.
LiveRunsAreRegistered == \A r \in Runs : Live(r) => session[r] \in running

\* After a cancel has been answered, a run that was live then begins at most
\* one more provider call: the one whose turn had already passed the check.
CancelStopsTheLoop == \A r \in Runs : lateChats[r] <= 1

\* A run that came to its end left a terminal state in the record.
FinishedRunsAreTerminal ==
  \A r \in Runs : pc[r] = "done" => status[session[r]] \in Terminal

\* The number of results of a message's tool calls that come after it.
Answers(c, i) ==
  Cardinality({j \in (i + 1)..Len(c) : c[j].kind = "tool" /\ c[j].run = c[i].run})

\* The number of tool calls its run makes in that message and in later ones.
Calls(c, i) ==
  Cardinality({call \in (i..Len(c)) \X (1..MaxCalls) :
                 LET m == c[call[1]]
                 IN  m.kind = "assistant" /\ m.run = c[i].run /\ call[2] <= m.calls})

\* Every tool call in the conversation sent to the provider has its result
\* after it, however many messages compaction removed.
SentCallsAreAnswered ==
  \A r \in Runs : pc[r] = "chatting" =>
    \A i \in DOMAIN context[r] :
      context[r][i].kind = "assistant" => Answers(context[r], i) >= Calls(context[r], i)

\* Everything a run has in memory besides compaction summaries is in the
\* transcript, so nothing was sent to the provider that a restart forgets.
ContextIsDurable ==
  \A r \in Runs : \A i \in DOMAIN context[r] :
    context[r][i].kind # "system" =>
      Cardinality({j \in DOMAIN context[r] : context[r][j] = context[r][i]})
        <= Cardinality({j \in DOMAIN transcript[session[r]] :
                          transcript[session[r]][j] = context[r][i]})

\* A spawned task comes to its end, or is lost with the process.
RunsFinish == \A r \in Runs : Live(r) ~> ~Live(r)

\* A request is answered CONFLICT only if a run of its session is live, or has
\* left the set without taking the session out: no provider for its model, or
\* a panic.
ConflictMeansRunning ==
  [][\A r \in Runs : pc[r] # "conflict" /\ pc'[r] = "conflict"
       => \E q \in Runs : session[q] = session[r] /\ (Live(q) \/ pc[q] = "leaked")]_serverVars

\* The record of a session counts the turns its finished runs completed.  The
\* code does not have this property: see FinishResult.
TurnsAreSaved ==
  \A r \in Runs : pc[r] = "done" /\ turn[r] > 0 => turnsSaved[session[r]] > 0
=============================================================================
