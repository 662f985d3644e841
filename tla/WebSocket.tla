------------------------------ MODULE WebSocket ------------------------------
(***************************************************************************)
(* One connection of kn-code-server/src/ws.rs: the task that receives, the *)
(* task that sends, the bounded channel between them, and a client that    *)
(* may write without reading.  Connections share nothing but the session   *)
(* store, which they read.  A message is its place in what the client      *)
(* wrote; a reply is named by the message it answers.                      *)
(***************************************************************************)
EXTENDS Naturals, Sequences, SequencesExt

CONSTANTS
  ReplyRoom,         \* capacity of the channel
  PerMinuteLimit,    \* MAX_WS_MESSAGES_PER_MINUTE
  WireRoom,          \* messages the network holds in one direction
  MaxWritten         \* bound

ASSUME SocketAssumption ==
  /\ ReplyRoom \in Nat \ {0} /\ WireRoom \in Nat \ {0}
  /\ PerMinuteLimit \in Nat /\ MaxWritten \in Nat

VARIABLES
  written,     \* kinds of the messages the client wrote
  read,        \* how many of them the receiving task has
  counted,     \* message_count
  minuteOver,  \* more than 60 seconds since last_reset
  replying,    \* the reply the receiving task is sending
  replies,     \* the channel
  writing,     \* the reply the sending task is writing
  wire,        \* replies the network holds
  seen,        \* replies the client has read
  peer,        \* open or gone
  connection   \* open or closed

socketVars == <<written, read, counted, minuteOver, replying, replies, writing, wire, seen,
                peer, connection>>

peerVars == <<written, peer>>
minuteVars == <<counted, minuteOver>>
replyVars == <<replying, replies, writing>>

MessageKinds == {"text", "ping", "other", "close"}

SocketTypeOK ==
  /\ written \in Seq(MessageKinds) /\ read \in 0..Len(written)
  /\ counted \in 0..MaxWritten /\ minuteOver \in BOOLEAN
  /\ Len(replying) <= 1 /\ Len(replies) <= ReplyRoom /\ Len(writing) <= 1
  /\ Len(wire) <= WireRoom
  /\ peer \in {"open", "gone"} /\ connection \in {"open", "closed"}

SocketInit ==
  /\ written = <<>> /\ read = 0 /\ counted = 0 /\ minuteOver = FALSE
  /\ replying = <<>> /\ replies = <<>> /\ writing = <<>> /\ wire = <<>> /\ seen = <<>>
  /\ peer = "open" /\ connection = "open"

-----------------------------------------------------------------------------
(* The client                                                              *)

Write(kind) ==
  /\ peer = "open" /\ connection = "open"
  /\ Len(written) < MaxWritten /\ Len(written) - read < WireRoom
  /\ written' = Append(written, kind)
  /\ UNCHANGED <<read, wire, seen, peer, connection>>
  /\ UNCHANGED minuteVars /\ UNCHANGED replyVars

See ==
  /\ peer = "open" /\ wire # <<>>
  /\ seen' = Append(seen, Head(wire)) /\ wire' = Tail(wire)
  /\ UNCHANGED <<read, connection>>
  /\ UNCHANGED peerVars /\ UNCHANGED minuteVars /\ UNCHANGED replyVars

GoAway ==
  /\ peer = "open" /\ peer' = "gone"
  /\ UNCHANGED <<written, read, wire, seen, connection>>
  /\ UNCHANGED minuteVars /\ UNCHANGED replyVars

-----------------------------------------------------------------------------
(* The receiving task                                                      *)

\* One task ended: the other is aborted, with the replies it still had.
CloseConnection ==
  /\ connection' = "closed"
  /\ replying' = <<>> /\ replies' = <<>> /\ writing' = <<>>

Receiving == connection = "open" /\ replying = <<>>

Now == IF minuteOver THEN 1 ELSE counted + 1

\* The limit comes first: a message above it, whatever its kind, is answered
\* with an error.  Every text has one answer, be it an error; a ping a pong.
ReadMessage ==
  /\ Receiving /\ read < Len(written) /\ read' = read + 1
  /\ counted' = Now /\ minuteOver' = FALSE
  /\ LET kind == written[read + 1]
     IN  \/ /\ Now > PerMinuteLimit \/ kind \in {"text", "ping"}
            /\ replying' = <<read + 1>>
            /\ UNCHANGED <<replies, writing, connection>>
         \/ /\ Now <= PerMinuteLimit /\ kind = "other"
            /\ UNCHANGED replyVars /\ UNCHANGED connection
         \/ /\ Now <= PerMinuteLimit /\ kind = "close"
            /\ CloseConnection
  /\ UNCHANGED peerVars /\ UNCHANGED <<wire, seen>>

MinutePasses ==
  /\ connection = "open" /\ ~minuteOver /\ counted > 0 /\ minuteOver' = TRUE
  /\ UNCHANGED <<read, counted, wire, seen, connection>>
  /\ UNCHANGED peerVars /\ UNCHANGED replyVars

\* Nothing for WS_IDLE_TIMEOUT_SECS, the end of the connection, or an error.
StopReceiving ==
  /\ Receiving /\ (read = Len(written) \/ peer = "gone")
  /\ CloseConnection
  /\ UNCHANGED peerVars /\ UNCHANGED minuteVars /\ UNCHANGED <<read, wire, seen>>

\* Mutant: a reply the channel has no room for is dropped.
PushReply_Try ==
  /\ replying # <<>> /\ replying' = <<>>
  /\ replies' = IF Len(replies) < ReplyRoom THEN replies \o replying ELSE replies
  /\ UNCHANGED <<read, writing, wire, seen, connection>>
  /\ UNCHANGED peerVars /\ UNCHANGED minuteVars

\* tx.send: the receiving task reads nothing while the channel is full.
PushReply ==
  /\ replying # <<>> /\ Len(replies) < ReplyRoom
  /\ replies' = replies \o replying /\ replying' = <<>>
  /\ UNCHANGED <<read, writing, wire, seen, connection>>
  /\ UNCHANGED peerVars /\ UNCHANGED minuteVars

-----------------------------------------------------------------------------
(* The sending task                                                        *)

TakeReply ==
  /\ connection = "open" /\ writing = <<>> /\ replies # <<>>
  /\ writing' = <<Head(replies)>> /\ replies' = Tail(replies)
  /\ UNCHANGED <<read, replying, wire, seen, connection>>
  /\ UNCHANGED peerVars /\ UNCHANGED minuteVars

\* The write waits for the network, and fails once the client is gone.
WriteReply ==
  /\ writing # <<>>
  /\ \/ /\ peer = "open" /\ Len(wire) < WireRoom
        /\ wire' = wire \o writing /\ writing' = <<>>
        /\ UNCHANGED <<replying, replies, connection>>
     \/ /\ peer = "gone" /\ CloseConnection /\ UNCHANGED wire
  /\ UNCHANGED peerVars /\ UNCHANGED minuteVars /\ UNCHANGED <<read, seen>>

SocketNext ==
  \/ \E kind \in MessageKinds : Write(kind)
  \/ See \/ GoAway
  \/ ReadMessage \/ MinutePasses \/ StopReceiving \/ PushReply
  \/ TakeReply \/ WriteReply

SocketSpec == SocketInit /\ [][SocketNext]_socketVars

-----------------------------------------------------------------------------
(* Properties                                                              *)

Said == seen \o wire \o writing \o replies \o replying

\* The replies follow the messages: each text and each ping that was read is
\* answered once and in its turn, also when the client does not read and the
\* channel is full; a connection that closes loses only the last replies.
RepliesFollowMessages ==
  /\ \A i, j \in DOMAIN Said : i < j => Said[i] < Said[j]
  /\ \A m \in 1..read :
       written[m] \in {"text", "ping"} =>
         m \in Range(Said) \/ (connection = "closed" /\ \A i \in DOMAIN Said : Said[i] < m)
=============================================================================
