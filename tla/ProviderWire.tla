---------------------------- MODULE ProviderWire ----------------------------
(***************************************************************************)
(* What the clients of kn-code-providers put on the wire and read from it: *)
(* build_messages, parse_response and the parsers of streamed lines.       *)
(* openai.rs, compatible.rs and github_copilot.rs hold the same code.      *)
(*                                                                         *)
(* A message is [role, blocks], a block [kind, id].  A streamed byte is    *)
(* one character: "d" stands for the prefix "data: ", "n" for a newline,   *)
(* "t", "k", "c" and "u" start a JSON field that gives a text, thinking,   *)
(* tool call or usage event, "p" one that gives none, "b" breaks the JSON, *)
(* and "w" "v" are the two bytes of one character of a text.               *)
(***************************************************************************)
EXTENDS Naturals, Sequences, SequencesExt

Bytes == {"d", "n", "t", "k", "c", "u", "p", "b", "w", "v"}

Block(kind, id) == [kind |-> kind, id |-> id]
EmptyText == Block("text", "empty")

Each(seq, F(_)) == FlattenSeq([i \in DOMAIN seq |-> F(seq[i])])

OfKind(blocks, kinds) == Each(blocks, LAMBDA b : IF b.kind \in kinds THEN <<b>> ELSE <<>>)

Message(role, blocks) == <<[role |-> role, blocks |-> blocks]>>

\* A user's block of a kind the service does not take becomes an empty text.
UserBlocks(blocks, kinds) ==
  [i \in DOMAIN blocks |-> IF blocks[i].kind \in kinds THEN blocks[i] ELSE EmptyText]

-----------------------------------------------------------------------------
(* Requests                                                                *)

\* anthropic.rs: system messages go to a field of their own, and results to
\* a message of the user.
AnthropicMessage(m) ==
  CASE m.role = "user" -> Message("user", UserBlocks(m.blocks, {"text", "tool_result"}))
    [] m.role = "assistant" ->
         Message("assistant", OfKind(m.blocks, {"text", "tool_use", "thinking"}))
    [] m.role = "tool" -> Message("user", OfKind(m.blocks, {"tool_result"}))
    [] m.role = "system" -> <<>>

AnthropicRequest(conversation) ==
  [system |-> Each(conversation,
                   LAMBDA m : IF m.role = "system" THEN OfKind(m.blocks, {"text"}) ELSE <<>>),
   messages |-> Each(conversation, AnthropicMessage)]

\* Mutant: an assistant message that starts with a text is sent as that text.
CompletionMessage_TextOnly(m) ==
  IF m.role = "assistant" /\ m.blocks[1].kind = "text"
  THEN Message("assistant", SubSeq(m.blocks, 1, 1))
  ELSE Message(m.role, m.blocks)

\* openai.rs: a message per result and per system text; thinking is left out.
CompletionMessage(m) ==
  CASE m.role = "user" -> Message("user", UserBlocks(m.blocks, {"text"}))
    [] m.role = "assistant" -> Message("assistant", OfKind(m.blocks, {"text", "tool_use"}))
    [] m.role = "tool" ->
         Each(OfKind(m.blocks, {"tool_result"}), LAMBDA b : Message("tool", <<b>>))
    [] m.role = "system" ->
         Each(OfKind(m.blocks, {"text"}), LAMBDA b : Message("system", <<b>>))

CompletionRequest(conversation) ==
  [system |-> <<>>, messages |-> Each(conversation, CompletionMessage)]

OpenAIRequest(conversation) == CompletionRequest(conversation)
CompatibleRequest(conversation) == CompletionRequest(conversation)
CopilotRequest(conversation) == CompletionRequest(conversation)

-----------------------------------------------------------------------------
(* Responses                                                               *)

Failed(error) == [error |-> error, blocks |-> <<>>, stop |-> "none"]
Reply(blocks, stop) == [error |-> "none", blocks |-> blocks, stop |-> stop]

\* A body is [valid, choices, blocks, stop]: whether it is JSON, whether it
\* has a choice, the kinds of its blocks and its reason to stop.
AnthropicResponse(body) ==
  IF ~body.valid THEN Failed("Serialization")
  ELSE Reply(SelectSeq(body.blocks, LAMBDA k : k \in {"text", "empty", "tool_use", "thinking"}),
             body.stop)

\* finish_reason is looked for inside the message, where the service does not
\* put it.
CompletionResponse(body) ==
  IF ~body.valid THEN Failed("Serialization")
  ELSE IF ~body.choices THEN Failed("Internal")
  ELSE Reply(SelectSeq(body.blocks, LAMBDA k : k \in {"text", "tool_use"}), "none")

OpenAIResponse(body) == CompletionResponse(body)
CompatibleResponse(body) == CompletionResponse(body)
CopilotResponse(body) == CompletionResponse(body)

-----------------------------------------------------------------------------
(* Streams                                                                 *)

\* String::from_utf8_lossy of one chunk: half a character is replaced.
Lossy(chunk) ==
  [i \in DOMAIN chunk |->
     IF \/ chunk[i] = "w" /\ ~(i < Len(chunk) /\ chunk[i + 1] = "v")
        \/ chunk[i] = "v" /\ ~(i > 1 /\ chunk[i - 1] = "w")
     THEN "?" ELSE chunk[i]]

IsData(line) == line # <<>> /\ line[1] = "d"

\* What one JSON document gives: an error, nothing, or the first of its fields
\* that give events, with its text up to the next one.
Event(payload) ==
  LET starts == {i \in DOMAIN payload : payload[i] \in {"t", "k", "c", "u"}}
      later == {i \in starts : i > Min(starts)}
  IN  IF "b" \in Range(payload) THEN <<<<"Serialization">>>>
      ELSE IF starts = {} THEN <<>>
      ELSE <<SubSeq(payload, Min(starts), IF later = {} THEN Len(payload) ELSE Min(later) - 1)>>

\* parse_stream_event: the data lines of one event, joined; two documents
\* joined are no JSON.
AnthropicEvent(lines) ==
  CASE lines = <<>> -> <<>>
    [] Len(lines) = 1 -> Event(Tail(lines[1]))
    [] OTHER -> Event(<<"b">>)

\* parse_stream_line: only the first event of a line is returned.
CompletionLine(line) == IF IsData(line) THEN Event(Tail(line)) ELSE <<>>

OpenAILine(line) == CompletionLine(line)
CompatibleLine(line) == CompletionLine(line)
CopilotLine(line) == CompletionLine(line)
=============================================================================
