----------------------------- MODULE AgentRunner ----------------------------
(***************************************************************************)
(* AgentRunner::run of kn-code-session/src/runner.rs: the loop that sends  *)
(* a session's conversation to the provider, executes the tool calls of    *)
(* the reply, and repeats until the reply has none, a limit is reached or  *)
(* the session is cancelled.  One action per await that touches shared     *)
(* state.                                                                  *)
(*                                                                         *)
(* The session records and transcripts are those of SessionStore and       *)
(* Transcript, whose operations are taken here as the atomic steps they    *)
(* implement.  RunServer starts the runs and composes the steps.           *)
(***************************************************************************)
EXTENDS Integers, Sequences, FiniteSets

CONSTANTS
  Runs,          \* POST /v1/run requests, each with the run it may spawn
  Sessions,      \* session ids
  MaxTurns,      \* MAX_TURNS, and the validated bound of max_turns
  MaxCalls,      \* bound on the tool calls in one reply
  KeepRecent,    \* messages Compactor::compact keeps verbatim
  MaxFaults,     \* bound on storage failures and process crashes
  NoSession      \* a request not yet made

ASSUME RunnerAssumption ==
  /\ IsFiniteSet(Runs)
  /\ MaxTurns \in Nat /\ MaxCalls \in Nat /\ KeepRecent \in Nat /\ MaxFaults \in Nat
  /\ NoSession \notin Sessions

VARIABLES
  status,      \* SessionRecord.state, "absent" before create_session
  transcript,  \* messages.jsonl
  turnsSaved,  \* SessionRecord.turns_completed
  pc,          \* where each request, then its run, is
  session,     \* the run's session_id
  limit,       \* the run's max_turns
  turn,        \* turns_completed of the loop
  context,     \* all_messages: the run's copy of the conversation
  reply,       \* the provider's last reply: tool calls left, stop_reason
  faults

runnerVars ==
  <<status, transcript, turnsSaved, pc, session, limit, turn, context, reply, faults>>

Terminal == {"completed", "max_tokens_reached", "max_turns_reached", "cancelled", "error"}

\* A message: who wrote it, in which run, with how many tool calls.
Entry == [kind : {"user", "assistant", "tool", "system"}, run : Runs, calls : 0..MaxCalls]

Reply == [calls : 0..MaxCalls, stop : {"tool_use", "end_turn", "max_tokens"}]

NoReply == [calls |-> 0, stop |-> "end_turn"]

RunnerPCs ==
  {"resolving", "loading", "turn", "sending", "chatting", "replied", "tools", "ending", "failing",
   "removing"}

RunnerTypeOK ==
  /\ status \in [Sessions -> Terminal \cup {"absent", "active"}]
  /\ transcript \in [Sessions -> Seq(Entry)]
  /\ turnsSaved \in [Sessions -> Nat]
  /\ session \in [Runs -> Sessions \cup {NoSession}]
  /\ limit \in [Runs -> 0..MaxTurns]
  /\ turn \in [Runs -> 0..MaxTurns]
  /\ context \in [Runs -> Seq(Entry)]
  /\ reply \in [Runs -> Reply]
  /\ faults \in 0..MaxFaults

RunnerInit ==
  /\ status = [s \in Sessions |-> "absent"]
  /\ transcript = [s \in Sessions |-> <<>>]
  /\ turnsSaved = [s \in Sessions |-> 0]
  /\ session = [r \in Runs |-> NoSession]
  /\ limit = [r \in Runs |-> 0]
  /\ turn = [r \in Runs |-> 0]
  /\ context = [r \in Runs |-> <<>>]
  /\ reply = [r \in Runs |-> NoReply]
  /\ faults = 0

Goto(r, label) == pc' = [pc EXCEPT ![r] = label]

\* Mutant: the run's copy only.
AppendEntry_MemoryOnly(r, e) ==
  /\ context' = [context EXCEPT ![r] = Append(@, e)]
  /\ UNCHANGED transcript

\* Appends to the transcript first, then to the run's own copy.
AppendEntry(r, e) ==
  /\ transcript' = [transcript EXCEPT ![session[r]] = Append(@, e)]
  /\ context' = [context EXCEPT ![r] = Append(@, e)]

SetStatus(r, value) == status' = [status EXCEPT ![session[r]] = value]

\* finish_result: the future of update_session_stats is dropped unpolled, so
\* the record keeps its turns.
FinishResult(r) == UNCHANGED turnsSaved

-----------------------------------------------------------------------------
(* Compaction                                                              *)

Summary(r) == [kind |-> "system", run |-> r, calls |-> 0]

LeadingSystem(c) == Cardinality({i \in DOMAIN c : \A j \in 1..i : c[j].kind = "system"})

SmallerOf(m, n) == IF m <= n THEN m ELSE n

\* Compactor::compact: leading system messages, one summary of what follows
\* them, and the most recent messages as they are.
Compact(r, c) ==
  LET first == LeadingSystem(c)
      keep == SmallerOf(KeepRecent, Len(c) - first)
      condensed == Len(c) - first - keep
  IN  IF Len(c) <= 2 \/ condensed = 0 THEN c
      ELSE SubSeq(c, 1, first) \o <<Summary(r)>> \o SubSeq(c, Len(c) - keep + 1, Len(c))

-----------------------------------------------------------------------------
(* The run                                                                 *)

\* load_session, load_messages and the credentials; the conversation is read
\* once and never again.
Load(r) ==
  /\ pc[r] = "loading"
  /\ transcript[session[r]] # <<>>
  /\ context' = [context EXCEPT ![r] = transcript[session[r]]]
  /\ Goto(r, "turn")
  /\ UNCHANGED <<status, transcript, turnsSaved, session, limit, turn, reply, faults>>

\* No credentials for the provider.
LoadFails(r) ==
  /\ pc[r] = "loading"
  /\ Goto(r, "failing")
  /\ UNCHANGED <<status, transcript, turnsSaved, session, limit, turn, context, reply, faults>>

\* Top of the loop: the record says "cancelled".
SeeCancelled(r) ==
  /\ pc[r] = "turn" /\ turn[r] < limit[r]
  /\ status[session[r]] = "cancelled"
  /\ FinishResult(r)
  /\ Goto(r, "removing")
  /\ UNCHANGED <<status, transcript, session, limit, turn, context, reply, faults>>

\* Mutant: the record is looked at in the first turn only.
PassCheck_FirstTurnOnly(r) ==
  /\ pc[r] = "turn" /\ turn[r] < limit[r]
  /\ turn[r] = 0 => status[session[r]] # "cancelled"
  /\ Goto(r, "sending")
  /\ UNCHANGED <<status, transcript, turnsSaved, session, limit, turn, context, reply, faults>>

\* Top of the loop: the record read says something else.
PassCheck(r) ==
  /\ pc[r] = "turn" /\ turn[r] < limit[r]
  /\ status[session[r]] # "cancelled"
  /\ Goto(r, "sending")
  /\ UNCHANGED <<status, transcript, turnsSaved, session, limit, turn, context, reply, faults>>

\* The conversation is compacted if the estimate is over the threshold, and
\* the provider is called.
BeginChat(r) ==
  /\ pc[r] = "sending"
  /\ \E c \in {context[r], Compact(r, context[r])} : context' = [context EXCEPT ![r] = c]
  /\ Goto(r, "chatting")
  /\ UNCHANGED <<status, transcript, turnsSaved, session, limit, turn, reply, faults>>

\* Slicing a preview of a message inside a character panics, and the spawned
\* task is gone.
CompactPanics(r) ==
  /\ pc[r] = "sending"
  /\ Compact(r, context[r]) # context[r]
  /\ Goto(r, "leaked")
  /\ UNCHANGED <<status, transcript, turnsSaved, session, limit, turn, context, reply, faults>>

ChatReplies(r) ==
  /\ pc[r] = "chatting"
  /\ \E answer \in Reply : reply' = [reply EXCEPT ![r] = answer]
  /\ Goto(r, "replied")
  /\ UNCHANGED <<status, transcript, turnsSaved, session, limit, turn, context, faults>>

ChatFails(r) ==
  /\ pc[r] = "chatting"
  /\ Goto(r, "failing")
  /\ UNCHANGED <<status, transcript, turnsSaved, session, limit, turn, context, reply, faults>>

\* The reply is stored; with no tool calls the run is over.
AppendReply(r) ==
  /\ pc[r] = "replied"
  /\ AppendEntry(r, [kind |-> "assistant", run |-> r, calls |-> reply[r].calls])
  /\ Goto(r, IF reply[r].calls = 0 THEN "ending" ELSE "tools")
  /\ UNCHANGED <<status, turnsSaved, session, limit, turn, reply, faults>>

\* Mutant: only the first tool call of a reply is executed.
RunTool_StopsEarly(r) ==
  /\ pc[r] = "tools"
  /\ AppendEntry(r, [kind |-> "tool", run |-> r, calls |-> 0])
  /\ reply' = [reply EXCEPT ![r].calls = @ - 1]
  /\ turn' = [turn EXCEPT ![r] = @ + 1]
  /\ Goto(r, IF reply[r].stop = "tool_use" THEN "turn" ELSE "ending")
  /\ UNCHANGED <<status, turnsSaved, session, limit, faults>>

\* One tool call is executed and its result, or its error, stored; after the
\* last one the turn is complete.
RunTool(r) ==
  /\ pc[r] = "tools"
  /\ AppendEntry(r, [kind |-> "tool", run |-> r, calls |-> 0])
  /\ reply' = [reply EXCEPT ![r].calls = @ - 1]
  /\ IF reply[r].calls = 1
     THEN /\ turn' = [turn EXCEPT ![r] = @ + 1]
          /\ Goto(r, IF reply[r].stop = "tool_use" THEN "turn" ELSE "ending")
     ELSE UNCHANGED <<turn, pc>>
  /\ UNCHANGED <<status, turnsSaved, session, limit, faults>>

\* append_message fails (size limit, I/O): the run returns the error, with
\* whatever it had appended before.
AppendFails(r) ==
  /\ pc[r] \in {"replied", "tools"}
  /\ faults < MaxFaults /\ faults' = faults + 1
  /\ Goto(r, "failing")
  /\ UNCHANGED <<status, transcript, turnsSaved, session, limit, turn, context, reply>>

\* Mutant: the provider's stop_reason is stored as the state.
EndStatus_Raw(r) == reply[r].stop

EndStatus(r) == IF reply[r].stop = "max_tokens" THEN "max_tokens_reached" ELSE "completed"

\* The reply without tool calls, or the one with a terminal stop_reason.
EndRun(r) ==
  /\ pc[r] = "ending"
  /\ SetStatus(r, EndStatus(r))
  /\ FinishResult(r)
  /\ Goto(r, "removing")
  /\ UNCHANGED <<transcript, session, limit, turn, context, reply, faults>>

\* The loop ran out of turns.
EndAtLimit(r) ==
  /\ pc[r] = "turn" /\ turn[r] >= limit[r]
  /\ SetStatus(r, "max_turns_reached")
  /\ FinishResult(r)
  /\ Goto(r, "removing")
  /\ UNCHANGED <<transcript, session, limit, turn, context, reply, faults>>

RunStep(r) ==
  \/ Load(r)
  \/ LoadFails(r)
  \/ SeeCancelled(r)
  \/ PassCheck(r)
  \/ BeginChat(r)
  \/ CompactPanics(r)
  \/ ChatReplies(r)
  \/ ChatFails(r)
  \/ AppendReply(r)
  \/ RunTool(r)
  \/ AppendFails(r)
  \/ EndRun(r)
  \/ EndAtLimit(r)
=============================================================================
