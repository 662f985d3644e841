----------------------------- MODULE NatsAgents -----------------------------
(***************************************************************************)
(* The tools of kn-code-server/src/nats_tools.rs and what they call in     *)
(* kn-code-nats: the agent registry with its heartbeat (agent.rs), the     *)
(* key-value store (kv.rs), JetStream (jetstream.rs), publish and request  *)
(* (publish.rs) and the permission gate (permission.rs).                   *)
(*                                                                         *)
(* agent_claim is in NatsSubscriptions.  Each agent runs its own registry; *)
(* the broker, its buckets and its streams are shared.                     *)
(***************************************************************************)
EXTENDS Naturals, Sequences, FiniteSets

CONSTANTS
  Instances, Capabilities,   \* agents, and what they may announce
  Ids,                    \* msg_id of js_publish
  Batch,                  \* of js_consume
  MaxAnnounces, MaxBeats, MaxPublishes, MaxConsumes, MaxBrokerFaults,  \* bounds
  Nothing                 \* no record, no announcement

ASSUME AgentsAssumption ==
  /\ Nothing \notin Capabilities /\ Batch \in Nat
  /\ MaxAnnounces \in Nat /\ MaxBeats \in Nat /\ MaxPublishes \in Nat
  /\ MaxConsumes \in Nat /\ MaxBrokerFaults \in Nat

VARIABLES
  announced,    \* announced_capabilities of each agent
  announcing,   \* per agent, the announces waiting to write the bucket
  heartbeat,    \* the heartbeat task: off, idle, reading, or writing
  beat,         \* what the heartbeat is about to write
  bucket,       \* agents-registry: the record of each agent
  found,        \* what the last agent_discover returned
  looking,      \* keys agent_discover has still to get
  log,          \* the stream: the id each message was published with
  acknowledged, \* messages of the stream the consumer acknowledged
  collecting,   \* whether js_consume runs
  collected,    \* the messages it has so far
  returned,     \* messages a js_consume returned
  forgotten,    \* acknowledged messages of calls that failed or were dropped
  approval,     \* of request_permission: idle, asked, approved, denied or failed
  answered,     \* what the supervisor answered
  usage         \* how often each bounded thing happened

registryVars == <<announced, announcing, heartbeat, beat, bucket, found, looking>>
streamLogVars == <<log, acknowledged, collecting, collected, returned, forgotten>>
gateVars == <<approval, answered>>
natsVars == <<announced, announcing, heartbeat, beat, bucket, found, looking, log, acknowledged,
              collecting, collected, returned, forgotten, approval, answered, usage>>

Used == {"announces", "beats", "publishes", "consumes", "faults"}
Records == Capabilities \cup {Nothing}
Empty == "empty"    \* a record without capabilities

NatsTypeOK ==
  /\ announced \in [Instances -> Capabilities \cup {Empty}]
  /\ announcing \in [Instances -> Seq(Capabilities)]
  /\ heartbeat \in [Instances -> {"off", "idle", "reading", "writing"}]
  /\ beat \in [Instances -> Capabilities \cup {Empty}]
  /\ bucket \in [Instances -> Records \cup {Empty}]
  /\ found \subseteq Instances /\ looking \subseteq Instances
  /\ log \in Seq(Ids)
  /\ acknowledged \subseteq DOMAIN log /\ collecting \in BOOLEAN
  /\ Len(collected) <= Batch
  /\ returned \subseteq DOMAIN log /\ forgotten \subseteq DOMAIN log
  /\ approval \in {"idle", "asked", "approved", "denied", "failed"}
  /\ answered \in {"none", "approved", "denied"}
  /\ usage \in [Used -> Nat]

NatsInit ==
  /\ announced = [a \in Instances |-> Empty]
  /\ announcing = [a \in Instances |-> <<>>]
  /\ heartbeat = [a \in Instances |-> "off"] /\ beat = [a \in Instances |-> Empty]
  /\ bucket = [a \in Instances |-> Nothing]
  /\ found = {} /\ looking = {}
  /\ log = <<>> /\ acknowledged = {} /\ collecting = FALSE /\ collected = <<>>
  /\ returned = {} /\ forgotten = {}
  /\ approval = "idle" /\ answered = "none"
  /\ usage = [u \in Used |-> 0]

Use(u, bound) == usage[u] < bound /\ usage' = [usage EXCEPT ![u] = @ + 1]

-----------------------------------------------------------------------------
(* AgentRegistry                                                           *)

\* Mutant: the heartbeat gives its lock back before it writes.
HoldsCapabilities_WhileReading(a) == heartbeat[a] = "reading"

\* The heartbeat keeps its read lock until the bucket is written.
HoldsCapabilities(a) == heartbeat[a] \in {"reading", "writing"}

\* announce: the capabilities first, under the write lock, ...
BeginAnnounce(a, new) ==
  /\ ~HoldsCapabilities(a) /\ Use("announces", MaxAnnounces)
  /\ announced' = [announced EXCEPT ![a] = new]
  /\ announcing' = [announcing EXCEPT ![a] = Append(@, new)]
  /\ UNCHANGED <<heartbeat, beat, bucket, found, looking>>

Without(seq, i) == [j \in 1 .. Len(seq) - 1 |-> IF j < i THEN seq[j] ELSE seq[j + 1]]

\* ... then the bucket, without it; two announces may write in either order.
EndAnnounce(a, i) ==
  /\ announcing' = [announcing EXCEPT ![a] = Without(@, i)]
  /\ \/ bucket' = [bucket EXCEPT ![a] = announcing[a][i]] /\ UNCHANGED usage
     \/ Use("faults", MaxBrokerFaults) /\ UNCHANGED bucket
  /\ UNCHANGED <<announced, heartbeat, beat, found, looking>>

StartHeartbeat(a) ==
  /\ heartbeat[a] = "off" /\ heartbeat' = [heartbeat EXCEPT ![a] = "idle"]
  /\ UNCHANGED <<announced, announcing, beat, bucket, found, looking, usage>>

Tick(a) ==
  /\ heartbeat[a] = "idle" /\ heartbeat' = [heartbeat EXCEPT ![a] = "reading"]
  /\ Use("beats", MaxBeats)
  /\ UNCHANGED <<announced, announcing, beat, bucket, found, looking>>

BuildBeat(a) ==
  /\ heartbeat[a] = "reading" /\ heartbeat' = [heartbeat EXCEPT ![a] = "writing"]
  /\ beat' = [beat EXCEPT ![a] = announced[a]]
  /\ UNCHANGED <<announced, announcing, bucket, found, looking, usage>>

WriteBeat(a) ==
  /\ heartbeat[a] = "writing" /\ heartbeat' = [heartbeat EXCEPT ![a] = "idle"]
  /\ \/ bucket' = [bucket EXCEPT ![a] = beat[a]] /\ UNCHANGED usage
     \/ Use("faults", MaxBrokerFaults) /\ UNCHANGED bucket
  /\ UNCHANGED <<announced, announcing, beat, found, looking>>

\* The task is aborted; a write it sent reaches the bucket before any later one.
StopHeartbeat(a) ==
  /\ heartbeat[a] # "off" /\ heartbeat' = [heartbeat EXCEPT ![a] = "off"]
  /\ \/ heartbeat[a] = "writing" /\ bucket' = [bucket EXCEPT ![a] = beat[a]]
     \/ UNCHANGED bucket
  /\ UNCHANGED <<announced, announcing, beat, found, looking, usage>>

\* discover lists the keys, then gets them one at a time; nothing removes the
\* record of an agent that is gone.
BeginDiscover ==
  /\ looking = {} /\ looking' = {a \in Instances : bucket[a] # Nothing} /\ looking' # {}
  /\ found' = {}
  /\ UNCHANGED <<announced, announcing, heartbeat, beat, bucket, usage>>

GetRecord(a, wanted) ==
  /\ a \in looking /\ looking' = looking \ {a}
  /\ found' = IF wanted = Nothing \/ bucket[a] = wanted THEN found \cup {a} ELSE found
  /\ UNCHANGED <<announced, announcing, heartbeat, beat, bucket, usage>>

AgentAnnounceTool(a) ==
  \/ \E new \in Capabilities : BeginAnnounce(a, new)
  \/ \E i \in DOMAIN announcing[a] : EndAnnounce(a, i)

AgentDiscoverTool ==
  BeginDiscover \/ \E a \in Instances, wanted \in Records : GetRecord(a, wanted)

Heartbeat(a) ==
  StartHeartbeat(a) \/ Tick(a) \/ BuildBeat(a) \/ WriteBeat(a) \/ StopHeartbeat(a)

RegistryNext ==
  \/ \E a \in Instances : AgentAnnounceTool(a) \/ Heartbeat(a)
  \/ AgentDiscoverTool

-----------------------------------------------------------------------------
(* JetStream                                                               *)

\* js_publish stores a message and waits for the acknowledgement of the
\* broker; without it the call fails, with the message stored.  msg_id is not
\* sent.
JetStreamPublishTool(id) ==
  /\ Use("publishes", MaxPublishes)
  /\ log' = Append(log, id)
  /\ UNCHANGED <<acknowledged, collecting, collected, returned, forgotten>>

BeginConsume ==
  /\ ~collecting /\ Use("consumes", MaxConsumes)
  /\ collecting' = TRUE /\ collected' = <<>>
  /\ UNCHANGED <<log, acknowledged, returned, forgotten>>

\* Messages the broker still has for the consumer.
Waiting == {m \in DOMAIN log : m \notin acknowledged /\ \A i \in DOMAIN collected : collected[i] # m}

EndConsume == collecting' = FALSE /\ collected' = <<>>

\* Mutant: the message is acknowledged before it is looked at.
InfoFails_Acknowledged(m) == acknowledged' = acknowledged \cup {m}

\* info() fails: the call returns at once, and what it collected is gone.
InfoFails(m) == UNCHANGED acknowledged

\* The next message is collected and acknowledged; a failed acknowledgement
\* goes unnoticed.
Collect(m) ==
  /\ collecting /\ Len(collected) < Batch /\ m \in Waiting
  /\ \/ /\ collected' = Append(collected, m)
        /\ \/ acknowledged' = acknowledged \cup {m} /\ UNCHANGED usage
           \/ Use("faults", MaxBrokerFaults) /\ UNCHANGED acknowledged
        /\ UNCHANGED <<collecting, forgotten>>
     \/ /\ Use("faults", MaxBrokerFaults) /\ InfoFails(m) /\ EndConsume
        /\ forgotten' = forgotten \cup {collected[i] : i \in DOMAIN collected}
  /\ UNCHANGED <<log, returned>>

\* The batch is full, or no message came in time.
ReturnBatch ==
  /\ collecting /\ (Len(collected) = Batch \/ Waiting = {})
  /\ returned' = returned \cup {collected[i] : i \in DOMAIN collected} /\ EndConsume
  /\ UNCHANGED <<log, acknowledged, forgotten, usage>>

\* The call is dropped with its run.
DropConsume ==
  /\ collecting /\ EndConsume
  /\ forgotten' = forgotten \cup {collected[i] : i \in DOMAIN collected}
  /\ UNCHANGED <<log, acknowledged, returned, usage>>

JetStreamConsumeTool ==
  BeginConsume \/ (\E m \in DOMAIN log : Collect(m)) \/ ReturnBatch \/ DropConsume

StreamNext == JetStreamConsumeTool \/ \E id \in Ids : JetStreamPublishTool(id)

-----------------------------------------------------------------------------
(* request_permission                                                      *)

\* The request goes to the subject of the supervisors.
RequestPermissionTool ==
  /\ approval = "idle" /\ approval' = "asked" /\ UNCHANGED <<answered, usage>>

\* Whatever the answer says is the result; without one in time, or without one
\* that parses, the call fails.
PermissionAnswered ==
  /\ approval = "asked" /\ approval' \in {"failed"} \cup {verdict \in {"approved", "denied"} : answered = verdict}
  /\ UNCHANGED <<answered, usage>>

\* The next request has an inbox of its own: a late answer is never seen.
NextRequest ==
  /\ approval \notin {"idle", "asked"} /\ approval' = "idle" /\ answered' = "none" /\ UNCHANGED usage

\* The supervisor answers, in time or late.
SupervisorAnswers ==
  /\ approval \in {"asked", "failed"} /\ answered = "none" /\ answered' \in {"approved", "denied"}
  /\ UNCHANGED <<approval, usage>>

GateNext == RequestPermissionTool \/ PermissionAnswered \/ NextRequest \/ SupervisorAnswers

NatsNext ==
  \/ RegistryNext /\ UNCHANGED streamLogVars /\ UNCHANGED gateVars
  \/ StreamNext /\ UNCHANGED registryVars /\ UNCHANGED gateVars
  \/ GateNext /\ UNCHANGED registryVars /\ UNCHANGED streamLogVars

NatsSpec == NatsInit /\ [][NatsNext]_natsVars

-----------------------------------------------------------------------------
(* Properties                                                              *)

\* A heartbeat never puts capabilities back into the registry that were
\* replaced before it wrote, however it interleaves with announces.
HeartbeatsAreFresh ==
  [][\A a \in Instances :
       heartbeat[a] = "writing" /\ announcing'[a] = announcing[a] /\ bucket'[a] # bucket[a]
         => bucket'[a] = announced[a]]_natsVars

\* A message is acknowledged only once its call has it: it is returned, about
\* to be, or was collected before the call failed or was dropped.
AcknowledgedIsCollected ==
  acknowledged \subseteq returned \cup forgotten \cup {collected[i] : i \in DOMAIN collected}
=============================================================================
