--------------------------- MODULE ProviderClient ---------------------------
(***************************************************************************)
(* One call to a client of kn-code-providers: chat with its retries, or    *)
(* chat_stream with the task that reads the response and the channel its   *)
(* events go through.  Calls share nothing, so one is enough; the hard     *)
(* part is the network that fails at any point, the chunks that cut the    *)
(* bytes anywhere, and a receiver that leaves.                             *)
(***************************************************************************)
EXTENDS ProviderWire, FiniteSets

CONSTANTS
  Conversations,       \* histories a request is built from
  ResponseBodies,      \* answers to chat
  AnthropicStreams, CompletionStreams,   \* answers to chat_stream
  MaxRetries,          \* max_retries
  Capacity             \* of the channel

\* session_messages_to_provider gives a message blocks of these kinds only;
\* thinking is what another user of the library may keep in its history.
KindsOf(role) ==
  CASE role \in {"user", "system"} -> {"text"}
    [] role = "assistant" -> {"text", "thinking", "tool_use"}
    [] role = "tool" -> {"tool_result"}

IsHistory(c) ==
  /\ c \in Seq(Range(c))
  /\ \A m \in Range(c) :
       /\ m.role \in {"user", "assistant", "tool", "system"}
       /\ m.blocks \in Seq(Range(m.blocks))
       /\ \A b \in Range(m.blocks) : b.kind \in KindsOf(m.role)

ASSUME ConversationsAssumption == \A c \in Conversations : IsHistory(c)

ASSUME ProviderAssumption ==
  /\ MaxRetries \in Nat /\ Capacity \in Nat \ {0}
  /\ AnthropicStreams \cup CompletionStreams \subseteq Seq(Bytes)

VARIABLES
  provider,     \* the client that is called
  doing,        \* idle, chat, connecting, streaming or over
  attempt,      \* of the retry loop
  authorised,   \* the credentials give the header this service asks for
  request,      \* the body built once per call
  conversation, \* what it was built from
  result,       \* what chat or verify_credentials returned
  stream,       \* the bytes the service sends
  heard,        \* how many of them arrived
  buffer,       \* decoded characters without a complete line
  eventLines,   \* data lines of the event being read
  pending,      \* events the task is sending
  channel,      \* events sent and not yet received
  received,     \* events the receiver has
  attended      \* the receiver was not dropped

providerVars == <<provider, doing, attempt, authorised, request, conversation, result,
                  stream, heard, buffer, eventLines, pending, channel, received, attended>>

callVars == <<provider, authorised, request, conversation>>
streamVars == <<stream, heard, buffer, eventLines, pending, channel, received, attended>>

Clients == {"anthropic", "openai", "compatible", "github_copilot"}

NoResult == [error |-> "pending", blocks |-> <<>>, stop |-> "none"]

\* An error of the network ends a stream, so does the status of a refusal.
Ends == {<<"Network">>, <<"Internal">>} \cup {<<"Status", s>> : s \in {401, 429, 529}}

ProviderTypeOK ==
  /\ provider \in Clients
  /\ doing \in {"idle", "chat", "connecting", "streaming", "over"}
  /\ attempt \in 0..MaxRetries
  /\ authorised \in BOOLEAN /\ attended \in BOOLEAN
  /\ conversation \in Conversations
  /\ DOMAIN request = {"system", "messages"}
  /\ DOMAIN result = {"error", "blocks", "stop"}
  /\ stream \in AnthropicStreams \cup CompletionStreams \cup {<<>>}
  /\ heard \in 0..Len(stream) /\ Len(buffer) <= heard
  /\ Len(pending) <= 1 /\ Len(channel) <= Capacity

ProviderInit ==
  /\ provider \in Clients /\ doing = "idle" /\ attempt = 0 /\ authorised = TRUE
  /\ conversation \in Conversations
  /\ request = [system |-> <<>>, messages |-> <<>>] /\ result = NoResult
  /\ stream = <<>> /\ heard = 0 /\ buffer = <<>> /\ eventLines = <<>>
  /\ pending = <<>> /\ channel = <<>> /\ received = <<>> /\ attended = TRUE

-----------------------------------------------------------------------------
(* Calls                                                                   *)

\* required_headers: the credential kinds that give a client its header.
AnthropicHeader(credential) == credential \in {"key", "token"}
OpenAIHeader(credential) == credential \in {"key", "token"}
CompatibleHeader(credential) == credential = "key"
CopilotHeader(credential) == credential \in {"key", "token"}

\* resolve_provider: the part of the model before the slash, "anthropic"
\* without one.  Nothing resolves to the compatible client, which only a
\* program using the library builds.
ResolvesTo(prefix) ==
  CASE prefix = "none" -> {"anthropic"}
    [] prefix \in {"anthropic", "openai", "github_copilot"} -> {prefix}
    [] OTHER -> {}

Start(operation, wire, header) ==
  /\ doing = "idle" /\ doing' = operation
  /\ request' = wire
  /\ \E credential \in {"key", "token", "none"} : authorised' = header[credential]
  /\ UNCHANGED <<provider, attempt, conversation, result>> /\ UNCHANGED streamVars

Operations == {"chat", "connecting"}
Credentials == {"key", "token", "none"}

CallAnthropic(operation) ==
  /\ \E prefix \in {"none", "anthropic"} : provider \in ResolvesTo(prefix)
  /\ Start(operation, AnthropicRequest(conversation),
           [c \in Credentials |-> AnthropicHeader(c)])

CallOpenAI(operation) ==
  /\ provider = "openai" /\ provider \in ResolvesTo(provider)
  /\ Start(operation, OpenAIRequest(conversation), [c \in Credentials |-> OpenAIHeader(c)])

CallCompatible(operation) ==
  /\ provider = "compatible"
  /\ Start(operation, CompatibleRequest(conversation),
           [c \in Credentials |-> CompatibleHeader(c)])

CallCopilot(operation) ==
  /\ provider = "github_copilot" /\ provider \in ResolvesTo(provider)
  /\ Start(operation, CopilotRequest(conversation), [c \in Credentials |-> CopilotHeader(c)])

-----------------------------------------------------------------------------
(* chat                                                                    *)

Return(outcome) == result' = outcome /\ doing' = "over" /\ UNCHANGED attempt

Retryable == {"RateLimited", "Network"}

\* with_retry: only a rate limit or the network is tried again.
FailAttempt(error) ==
  /\ \/ /\ error \in Retryable /\ attempt < MaxRetries
        /\ attempt' = attempt + 1 /\ UNCHANGED <<doing, result>>
     \/ /\ error \notin Retryable \/ attempt = MaxRetries
        /\ Return(Failed(error))

\* One attempt: the headers are refused locally, the network fails before or
\* after the service answered, the service refuses, or it answers.
Chat(answers) ==
  /\ doing = "chat"
  /\ \/ \E error \in {"Internal", "Network"} : FailAttempt(error)
     \/ ~authorised /\ FailAttempt("Status401")
     \/ authorised /\ \E error \in {"RateLimited", "Status529"} : FailAttempt(error)
     \/ authorised /\ \E answer \in answers : Return(answer)
  /\ UNCHANGED callVars /\ UNCHANGED streamVars

\* verify_credentials: one request, no retry.
Verify ==
  /\ doing = "idle" /\ doing' = "over"
  /\ \E error \in {"none", "Network", "Status401"} : result' = Failed(error)
  /\ UNCHANGED attempt /\ UNCHANGED callVars /\ UNCHANGED streamVars

-----------------------------------------------------------------------------
(* chat_stream: the task                                                   *)

Clean == eventLines' = <<>> /\ pending' = <<>> /\ buffer' = <<>> /\ heard' = 0

\* Sends its last event and ends.
EndWith(event) == pending' = <<event>> /\ doing' = "over" /\ UNCHANGED attempt

RetryConnect ==
  /\ attempt < MaxRetries /\ attempt' = attempt + 1
  /\ UNCHANGED <<doing, pending>>

\* One attempt to connect: a failure to connect, a timeout and status 429 are
\* tried again, other failures end the stream.
Connect(bodies) ==
  /\ doing = "connecting"
  /\ \/ /\ EndWith(<<"Internal">>) /\ UNCHANGED stream
     \/ /\ RetryConnect /\ UNCHANGED stream
     \/ /\ EndWith(<<"Network">>) /\ UNCHANGED stream
     \/ /\ authorised /\ attempt = MaxRetries /\ EndWith(<<"Status", 429>>)
        /\ UNCHANGED stream
     \/ /\ EndWith(<<"Status", IF authorised THEN 529 ELSE 401>>) /\ UNCHANGED stream
     \/ /\ authorised /\ stream' \in bodies /\ doing' = "streaming"
        /\ UNCHANGED <<attempt, pending>>
  /\ UNCHANGED callVars
  /\ UNCHANGED <<result, heard, buffer, eventLines, channel, received, attended>>

Reading == doing = "streaming" /\ pending = <<>>

HasLine == "n" \in Range(buffer)

\* Mutant: the rest of the last chunk is forgotten.
Chunk_Fresh(size) ==
  /\ heard + size <= Len(stream)
  /\ heard' = heard + size
  /\ buffer' = Lossy(SubSeq(stream, heard + 1, heard + size))

Chunk(size) ==
  /\ heard + size <= Len(stream)
  /\ heard' = heard + size
  /\ buffer' = buffer \o Lossy(SubSeq(stream, heard + 1, heard + size))

\* The next chunk arrives, of any size.
ReadChunk ==
  /\ Reading /\ ~HasLine
  /\ \E size \in 1..Len(stream) : Chunk(size)
  /\ UNCHANGED callVars
  /\ UNCHANGED <<doing, attempt, result, stream, eventLines, pending, channel, received, attended>>

\* Mutant: the request is sent again.
ChunkFails_Retry ==
  /\ Reading /\ ~HasLine
  /\ \/ /\ attempt < MaxRetries /\ attempt' = attempt + 1
        /\ doing' = "connecting" /\ Clean
     \/ /\ attempt = MaxRetries /\ EndWith(<<"Network">>) /\ UNCHANGED <<heard, buffer, eventLines>>
  /\ UNCHANGED callVars
  /\ UNCHANGED <<result, stream, channel, received, attended>>

\* The connection breaks, or the ten minutes of the client are over.
ChunkFails ==
  /\ Reading /\ ~HasLine
  /\ EndWith(<<"Network">>)
  /\ UNCHANGED callVars
  /\ UNCHANGED <<result, stream, heard, buffer, eventLines, channel, received, attended>>

FirstNewline == CHOOSE i \in DOMAIN buffer : buffer[i] = "n" /\ "n" \notin Range(SubSeq(buffer, 1, i - 1))
Line == SubSeq(buffer, 1, FirstNewline - 1)

TakeLine ==
  /\ Reading /\ HasLine
  /\ buffer' = SubSeq(buffer, FirstNewline + 1, Len(buffer))
  /\ UNCHANGED callVars
  /\ UNCHANGED <<doing, attempt, result, stream, heard, channel, received, attended>>

\* anthropic.rs gathers data lines until an empty one.
AnthropicTakeLine ==
  /\ TakeLine
  /\ \/ IsData(Line) /\ eventLines' = Append(eventLines, Line) /\ UNCHANGED pending
     \/ /\ Line = <<>> /\ eventLines # <<>>
        /\ pending' = AnthropicEvent(eventLines) /\ eventLines' = <<>>
     \/ /\ ~IsData(Line) /\ (Line # <<>> \/ eventLines = <<>>)
        /\ UNCHANGED <<eventLines, pending>>

\* The other clients read an event off every line.
CompletionTakeLine(events) ==
  TakeLine /\ pending' = events /\ UNCHANGED eventLines

\* The body ends; whatever is left without a newline is forgotten.
EndOfBody(last) ==
  /\ Reading /\ ~HasLine /\ heard = Len(stream)
  /\ pending' = last /\ doing' = "over"
  /\ UNCHANGED callVars
  /\ UNCHANGED <<attempt, result, stream, heard, buffer, eventLines, channel, received, attended>>

-----------------------------------------------------------------------------
(* The channel                                                             *)

\* Mutant: the channel is unbounded.
HasRoom_Unbounded == attended
HasRoom == attended /\ Len(channel) < Capacity

\* tx.send: waits for room; a receiver that left ends the task.
Send ==
  /\ pending # <<>> /\ pending' = <<>>
  /\ \/ /\ HasRoom
        /\ channel' = channel \o pending /\ UNCHANGED doing
     \/ ~attended /\ doing' = "over" /\ UNCHANGED channel
  /\ UNCHANGED callVars
  /\ UNCHANGED <<attempt, result, stream, heard, buffer, eventLines, received, attended>>

Receive ==
  /\ attended /\ channel # <<>>
  /\ received' = Append(received, Head(channel)) /\ channel' = Tail(channel)
  /\ UNCHANGED callVars
  /\ UNCHANGED <<doing, attempt, result, stream, heard, buffer, eventLines, pending, attended>>

\* The receiver is dropped; what is in the channel is never received.
Leave ==
  /\ doing \in {"connecting", "streaming"} /\ attended
  /\ attended' = FALSE
  /\ UNCHANGED callVars
  /\ UNCHANGED <<doing, attempt, result, stream, heard, buffer, eventLines, pending, channel,
                 received>>

-----------------------------------------------------------------------------
(* The clients                                                             *)

AnthropicChat == provider = "anthropic" /\ Chat({AnthropicResponse(body) : body \in ResponseBodies})
OpenAIChat == provider = "openai" /\ Chat({OpenAIResponse(body) : body \in ResponseBodies})
CompatibleChat == provider = "compatible" /\ Chat({CompatibleResponse(body) : body \in ResponseBodies})
CopilotChat == provider = "github_copilot" /\ Chat({CopilotResponse(body) : body \in ResponseBodies})

AnthropicStream ==
  /\ provider = "anthropic"
  /\ Connect(AnthropicStreams) \/ AnthropicTakeLine \/ EndOfBody(AnthropicEvent(eventLines))

CompletionStream(events) ==
  Connect(CompletionStreams) \/ CompletionTakeLine(events) \/ EndOfBody(<<>>)

OpenAIStream == provider = "openai" /\ CompletionStream(OpenAILine(Line))
CompatibleStream == provider = "compatible" /\ CompletionStream(CompatibleLine(Line))
CopilotStream == provider = "github_copilot" /\ CompletionStream(CopilotLine(Line))

AnthropicVerify == provider = "anthropic" /\ Verify
OpenAIVerify == provider = "openai" /\ Verify
CompatibleVerify == provider = "compatible" /\ Verify
CopilotVerify == provider = "github_copilot" /\ Verify

ProviderNext ==
  \/ \E operation \in Operations :
       \/ CallAnthropic(operation) \/ CallOpenAI(operation)
       \/ CallCompatible(operation) \/ CallCopilot(operation)
  \/ AnthropicChat \/ OpenAIChat \/ CompatibleChat \/ CopilotChat
  \/ AnthropicVerify \/ OpenAIVerify \/ CompatibleVerify \/ CopilotVerify
  \/ AnthropicStream \/ OpenAIStream \/ CompatibleStream \/ CopilotStream
  \/ ReadChunk \/ ChunkFails \/ Send \/ Receive \/ Leave

ProviderSpec == ProviderInit /\ [][ProviderNext]_providerVars

-----------------------------------------------------------------------------
(* Properties                                                              *)

\* What stands before position k of seq, after the last separator before it.
Piece(seq, separator, k) ==
  LET separators == {j \in 1..(k - 1) : seq[j] = separator}
  IN  SubSeq(seq, Max({0} \cup separators) + 1, k - 1)

\* The pieces of seq that a separator ends, and what no separator ends.
Terminated(seq, separator) ==
  FlattenSeq([k \in DOMAIN seq |->
                IF seq[k] = separator THEN <<Piece(seq, separator, k)>> ELSE <<>>])
Unterminated(seq, separator) == Piece(seq, separator, Len(seq) + 1)

\* What a whole body says, however it is cut: its terminated lines ...
LinesOf(bytes) == Terminated(bytes, "n")

DataLines(lines) == Each(lines, LAMBDA line : IF IsData(line) THEN <<line>> ELSE <<>>)

\* ... and the events of those lines, an Anthropic one being the data lines
\* between two empty lines or the ends of the body.
AnthropicEvents(bytes) ==
  LET lines == LinesOf(bytes)
      groups == Append(Terminated(lines, <<>>), Unterminated(lines, <<>>))
  IN  Each(groups, LAMBDA group : AnthropicEvent(DataLines(group)))

CompletionEvents(bytes) == Each(LinesOf(bytes), CompletionLine)

\* Equal but for characters of a text that a chunk boundary cut.
Alike(e, f) ==
  /\ Len(e) = Len(f)
  /\ \A i \in DOMAIN e : e[i] = f[i] \/ (e[i] = "?" /\ f[i] \in {"w", "v"})

Emitted == received \o channel \o pending
Delivered == Each(Emitted, LAMBDA e : IF e \in Ends THEN <<>> ELSE <<e>>)
Ended == doing = "over" /\ pending = <<>>

\* Wherever the chunks cut the bytes, the receiver gets the events of the body
\* in their order; when the task is over it has all of them, or an error of
\* the network or a status as the last one: a stream cut short never looks
\* like a complete one.
StreamsAreFaithful ==
  LET expected == IF provider = "anthropic" THEN AnthropicEvents(stream)
                  ELSE CompletionEvents(stream)
  IN  /\ Len(Delivered) <= Len(expected)
      /\ \A i \in DOMAIN Delivered : Alike(Delivered[i], expected[i])
      /\ (Ended /\ attended /\ result = NoResult) =>
           \/ /\ stream \in AnthropicStreams \cup CompletionStreams
              /\ Len(Delivered) = Len(expected)
           \/ Emitted # <<>> /\ Emitted[Len(Emitted)] \in Ends

\* A request is sent again only while its caller has seen nothing of it, so no
\* answer is given twice, and never more than max_retries times.
RetriesAreUnseen ==
  [][attempt' # attempt =>
       /\ attempt' = attempt + 1 /\ attempt' <= MaxRetries
       /\ result' = NoResult /\ received' = <<>> /\ channel' = <<>>]_providerVars

\* Every tool call and result of a conversation is in the request, in its
\* order, and so is every text that is not moved to the system prompt.
RequestsKeepTheConversation ==
  request.messages # <<>> =>
    LET moved == IF provider = "anthropic" THEN {"system"} ELSE {}
        kept(m) == IF m.role \in moved THEN <<>> ELSE OfKind(m.blocks, {"text", "tool_use", "tool_result"})
    IN  Each(request.messages, LAMBDA m : OfKind(m.blocks, {"text", "tool_use", "tool_result"}))
          = Each(conversation, kept)
=============================================================================
