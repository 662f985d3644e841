-------------------------- MODULE NatsSubscriptions -------------------------
(***************************************************************************)
(* The connection to NATS and what listens on it: NatsConnection           *)
(* (connection.rs), NatsTransport (nats_transport.rs), and the queue group *)
(* subscriptions of subscribe.rs through which agent_claim takes tasks.    *)
(*                                                                         *)
(* The client and the JetStream context sit behind two locks, each held    *)
(* for one step; the broker delivers a message of a queue group to one of  *)
(* the members it has then, and never again.                               *)
(***************************************************************************)
EXTENDS Naturals, Sequences, SequencesExt

CONSTANTS
  Users,           \* callers of connect and disconnect
  Subjects,        \* in.command, in.task and startup_subs
  Claimers,        \* callers of agent_claim
  TaskMessages,    \* messages published to the claimed subject
  MaxLinkCalls     \* bound on connects and disconnects

ASSUME SubscriptionAssumption == MaxLinkCalls \in Nat

VARIABLES
  client,       \* the client others use: the number of its connect, 0 for none
  jetstream,    \* and the JetStream context
  stage,        \* where each user's call is
  connected,    \* the client a user's connect made, or subscribes on
  missing,      \* subjects its connect has still to subscribe to
  linkCalls,    \* connects and disconnects so far
  cancelled,    \* the transport's cancel token
  listening,    \* subscription tasks alive: [subject, client]
  listed,       \* and those the transport's list holds
  claiming,     \* whether a claimer's subscription is open
  inbox,        \* messages its subscription holds
  slot,         \* the one message its channel holds
  claimed,      \* tasks its calls returned
  unsent        \* messages not published yet

linkVars == <<client, jetstream, stage, connected, missing, linkCalls, cancelled, listening,
              listed>>
claimVars == <<claiming, inbox, slot, claimed, unsent>>
subscriptionVars == <<client, jetstream, stage, connected, missing, linkCalls, cancelled,
                      listening, listed, claiming, inbox, slot, claimed, unsent>>

Task == [subject : Subjects, client : 1 .. MaxLinkCalls]

SubscriptionTypeOK ==
  /\ client \in 0 .. MaxLinkCalls /\ jetstream \in 0 .. MaxLinkCalls
  /\ stage \in [Users -> {"idle", "client", "jetstream", "subscribing", "starting",
                          "draining", "taking", "clearing"}]
  /\ connected \in [Users -> 0 .. MaxLinkCalls]
  /\ missing \in [Users -> SUBSET Subjects]
  /\ linkCalls \in 0 .. MaxLinkCalls /\ cancelled \in BOOLEAN
  /\ listening \subseteq Task /\ listed \subseteq Task
  /\ claiming \in [Claimers -> BOOLEAN]
  /\ \A c \in Claimers : Len(slot[c]) <= 1 /\ inbox[c] \in Seq(TaskMessages)
  /\ claimed \in [Claimers -> SUBSET TaskMessages]
  /\ unsent \subseteq TaskMessages

SubscriptionInit ==
  /\ client = 0 /\ jetstream = 0
  /\ stage = [u \in Users |-> "idle"]
  /\ connected = [u \in Users |-> 0]
  /\ missing = [u \in Users |-> {}]
  /\ linkCalls = 0 /\ cancelled = FALSE /\ listening = {} /\ listed = {}
  /\ claiming = [c \in Claimers |-> FALSE]
  /\ inbox = [c \in Claimers |-> <<>>] /\ slot = [c \in Claimers |-> <<>>]
  /\ claimed = [c \in Claimers |-> {}]
  /\ unsent = TaskMessages

-----------------------------------------------------------------------------
(* NatsTransport::connect and disconnect                                   *)

To(u, next) == stage' = [stage EXCEPT ![u] = next]

\* The connection is made before the first lock is taken.
BeginConnect(u) ==
  /\ stage[u] = "idle" /\ linkCalls < MaxLinkCalls
  /\ linkCalls' = linkCalls + 1
  /\ connected' = [connected EXCEPT ![u] = linkCalls + 1] /\ To(u, "client")
  /\ UNCHANGED <<client, jetstream, missing, cancelled, listening, listed>>

SetClient(u) ==
  /\ stage[u] = "client" /\ client' = connected[u] /\ To(u, "jetstream")
  /\ UNCHANGED <<jetstream, connected, missing, linkCalls, cancelled, listening, listed>>

SetJetstream(u) ==
  /\ stage[u] = "jetstream" /\ jetstream' = connected[u] /\ To(u, "subscribing")
  /\ missing' = [missing EXCEPT ![u] = Subjects]
  /\ UNCHANGED <<client, connected, linkCalls, cancelled, listening, listed>>

\* subscribe: takes the client that is there by now and waits for it; a later
\* step starts the task and lists it.
Subscribe(u) ==
  /\ stage[u] = "subscribing" /\ missing[u] # {} /\ client # 0
  /\ connected' = [connected EXCEPT ![u] = client] /\ To(u, "starting")
  /\ UNCHANGED <<client, jetstream, missing, linkCalls, cancelled, listening, listed>>

StartTask(u, s) ==
  /\ stage[u] = "starting" /\ s \in missing[u]
  /\ LET task == [subject |-> s, client |-> connected[u]]
     IN  listening' = listening \cup {task} /\ listed' = listed \cup {task}
  /\ missing' = [missing EXCEPT ![u] = @ \ {s}] /\ To(u, "subscribing")
  /\ UNCHANGED <<client, jetstream, connected, linkCalls, cancelled>>

\* connect returns, with an error if the client is gone.
EndConnect(u) ==
  /\ stage[u] = "subscribing" /\ (missing[u] = {} \/ client = 0)
  /\ missing' = [missing EXCEPT ![u] = {}] /\ To(u, "idle")
  /\ UNCHANGED <<client, jetstream, connected, linkCalls, cancelled, listening, listed>>

\* The token is cancelled for good: a later connect starts tasks that end.
BeginDisconnect(u) ==
  /\ stage[u] = "idle" /\ linkCalls < MaxLinkCalls
  /\ linkCalls' = linkCalls + 1 /\ cancelled' = TRUE /\ To(u, "draining")
  /\ UNCHANGED <<client, jetstream, connected, missing, listening, listed>>

AbortTasks(u) ==
  /\ stage[u] = "draining" /\ listening' = listening \ listed /\ listed' = {}
  /\ To(u, "taking")
  /\ UNCHANGED <<client, jetstream, connected, missing, linkCalls, cancelled>>

TakeClient(u) ==
  /\ stage[u] = "taking" /\ client' = 0 /\ To(u, "clearing")
  /\ UNCHANGED <<jetstream, connected, missing, linkCalls, cancelled, listening, listed>>

ClearJetstream(u) ==
  /\ stage[u] = "clearing" /\ jetstream' = 0 /\ To(u, "idle")
  /\ UNCHANGED <<client, connected, missing, linkCalls, cancelled, listening, listed>>

\* A task sees the token or the end of its subscription.
TaskEnds ==
  /\ \E t \in listening : cancelled /\ listening' = listening \ {t}
  /\ UNCHANGED <<client, jetstream, stage, connected, missing, linkCalls, cancelled, listed>>

-----------------------------------------------------------------------------
(* agent_claim                                                             *)

\* subscribe_with_queue_group, with a channel of one message.
OpenClaim(c) ==
  /\ ~claiming[c] /\ client # 0
  /\ claiming' = [claiming EXCEPT ![c] = TRUE]
  /\ UNCHANGED <<inbox, slot, claimed, unsent>>

Members == {c \in Claimers : claiming[c]}

\* Mutant: a plain subscription, so every member gets the message.
DeliverTo_All(m, c) ==
  inbox' = [d \in Claimers |-> IF claiming[d] THEN Append(inbox[d], m) ELSE inbox[d]]

\* The broker picks one member of the group.
DeliverTo(m, c) == inbox' = [inbox EXCEPT ![c] = Append(@, m)]

\* Published to nobody, the message is gone.
Publish(m) ==
  /\ m \in unsent /\ unsent' = unsent \ {m}
  /\ IF Members = {} THEN UNCHANGED inbox ELSE \E c \in Members : DeliverTo(m, c)
  /\ UNCHANGED <<claiming, slot, claimed>>

\* message_loop passes a message on as long as the channel has room.
PassOn(c) ==
  /\ claiming[c] /\ inbox[c] # <<>> /\ slot[c] = <<>>
  /\ slot' = [slot EXCEPT ![c] = <<Head(inbox[c])>>]
  /\ inbox' = [inbox EXCEPT ![c] = Tail(@)]
  /\ UNCHANGED <<claiming, claimed, unsent>>

\* The call returns: its subscription goes, with every message it still holds.
CloseClaim(c) ==
  /\ claiming' = [claiming EXCEPT ![c] = FALSE]
  /\ inbox' = [inbox EXCEPT ![c] = <<>>] /\ slot' = [slot EXCEPT ![c] = <<>>]
  /\ UNCHANGED unsent

TakeClaim(c) ==
  /\ claiming[c] /\ slot[c] # <<>>
  /\ claimed' = [claimed EXCEPT ![c] = @ \cup {slot[c][1]}] /\ CloseClaim(c)

\* The timeout passes, or the call is dropped.
GiveUpClaim(c) == claiming[c] /\ CloseClaim(c) /\ UNCHANGED claimed

-----------------------------------------------------------------------------
LinkNext ==
  \/ \E u \in Users :
       \/ BeginConnect(u) \/ SetClient(u) \/ SetJetstream(u) \/ EndConnect(u)
       \/ Subscribe(u) \/ \E s \in Subjects : StartTask(u, s)
       \/ BeginDisconnect(u) \/ AbortTasks(u) \/ TakeClient(u) \/ ClearJetstream(u)
  \/ TaskEnds

ClaimNext ==
  \/ \E c \in Claimers : OpenClaim(c) \/ PassOn(c) \/ TakeClaim(c) \/ GiveUpClaim(c)
  \/ \E m \in TaskMessages : Publish(m)

SubscriptionNext ==
  \/ LinkNext /\ UNCHANGED claimVars
  \/ ClaimNext /\ UNCHANGED linkVars

SubscriptionSpec == SubscriptionInit /\ [][SubscriptionNext]_subscriptionVars

-----------------------------------------------------------------------------
(* Properties                                                              *)

\* The prompt of agent_claim: "only one agent gets each task", whoever joins
\* or leaves the group while the tasks arrive.
OneAgentGetsATask ==
  \A c, d \in Claimers : c # d =>
    /\ claimed[c] \cap claimed[d] = {}
    /\ claimed[c] \cap Range(inbox[d] \o slot[d]) = {}
=============================================================================
