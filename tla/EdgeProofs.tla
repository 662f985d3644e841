----------------------------- MODULE EdgeProofs ------------------------------
(***************************************************************************)
(* Proofs about the edges of the program: NATS, the rate limiter, a        *)
(* WebSocket connection and the Telegram bot.                              *)
(*                                                                         *)
(* Agents: for any number of agents, announces, beats, messages and        *)
(* failures of the broker, HeartbeatsAreFresh rests on the guard the       *)
(* heartbeat keeps: from where it built its record until the bucket has    *)
(* it, no announce can replace the capabilities.                           *)
(*                                                                         *)
(* agent_claim: for any number of claimers and tasks, a task is in one     *)
(* place at a time: not yet published, in the inbox, in the channel or     *)
(* among the claimed tasks of one claimer, or gone.  The broker alone      *)
(* moves it between claimers' places, and only once.                       *)
(*                                                                         *)
(* The ways in: for any clients, rate and time to live, any messages and   *)
(* any room in the channel and on the wire, any updates and restarts.      *)
(* What a peer sees is decided several steps before it sees it.  So each   *)
(* invariant speaks of the whole way at once: what a bucket is worth       *)
(* whether or not it was forgotten; the replies seen, on the wire, in the  *)
(* channel and in hand as one sequence; and the updates newer than         *)
(* everything taken.                                                       *)
(***************************************************************************)
EXTENDS NatsAgents, NatsSubscriptions, RateLimiter, WebSocket, Telegram, SequenceTheorems, TLAPS

\* What the heartbeat is about to write is what the agent announces.
RegistryInv ==
  /\ announced \in [Instances -> Capabilities \cup {Empty}]
  /\ announcing \in [Instances -> Seq(Capabilities)]
  /\ heartbeat \in [Instances -> {"off", "idle", "reading", "writing"}]
  /\ beat \in [Instances -> Capabilities \cup {Empty}]
  /\ bucket \in [Instances -> Records \cup {Empty}]
  /\ \A a \in Instances : heartbeat[a] = "writing" => beat[a] = announced[a]

\* The messages of the call in progress.
Collected == {collected[i] : i \in DOMAIN collected}

StreamInv ==
  /\ log \in Seq(Ids)
  /\ collected \in Seq(Nat)
  /\ ~collecting => collected = <<>>
  /\ acknowledged \subseteq returned \cup forgotten \cup Collected

AgentsInv == RegistryInv /\ StreamInv

-----------------------------------------------------------------------------
(* The registry                                                            *)

\* Taking an element out of a sequence leaves one that is shorter.
LEMMA WithoutIsShorter ==
  ASSUME NEW S, NEW seq \in Seq(S), NEW i \in DOMAIN seq
  PROVE  Without(seq, i) \in Seq(S) /\ Without(seq, i) # seq
<1>1. Len(seq) \in Nat /\ DOMAIN seq = 1..Len(seq) /\ i \in 1..Len(seq)
  OBVIOUS
<1>2. Len(seq) - 1 \in Nat
  BY <1>1
<1>3. \A j \in 1..(Len(seq) - 1) : (IF j < i THEN seq[j] ELSE seq[j + 1]) \in S
  BY <1>1
<1>4. DOMAIN Without(seq, i) = 1..(Len(seq) - 1)
  BY DEF Without
<1>5. Len(seq) \in DOMAIN seq /\ Len(seq) \notin 1..(Len(seq) - 1)
  BY <1>1
<1>6. Without(seq, i) # seq
  BY <1>4, <1>5
<1>7. Without(seq, i) \in Seq(S)
  BY <1>2, <1>3 DEF Without
<1>. QED
  BY <1>6, <1>7

LEMMA BeginAnnounceKeepsInv ==
  ASSUME RegistryInv, NEW a \in Instances, NEW new \in Capabilities, BeginAnnounce(a, new)
  PROVE  RegistryInv' /\ bucket' = bucket
<1>1. heartbeat[a] # "writing"
  BY DEF BeginAnnounce, HoldsCapabilities
<1>2. Append(announcing[a], new) \in Seq(Capabilities)
  BY DEF RegistryInv
<1>. QED
  BY <1>1, <1>2 DEF BeginAnnounce, RegistryInv

LEMMA EndAnnounceKeepsInv ==
  ASSUME RegistryInv, NEW a \in Instances, NEW i \in DOMAIN announcing[a], EndAnnounce(a, i)
  PROVE  /\ RegistryInv'
         /\ announcing'[a] # announcing[a]
         /\ \A b \in Instances : b # a => bucket'[b] = bucket[b]
<1>1. announcing[a] \in Seq(Capabilities)
  BY DEF RegistryInv
<1>2. Without(announcing[a], i) \in Seq(Capabilities) /\ Without(announcing[a], i) # announcing[a]
  BY <1>1, WithoutIsShorter
<1>3. announcing[a][i] \in Capabilities
  BY <1>1
<1>4. announcing' = [announcing EXCEPT ![a] = Without(announcing[a], i)]
  BY DEF EndAnnounce
<1>5. announcing'[a] # announcing[a] /\ announcing' \in [Instances -> Seq(Capabilities)]
  BY <1>2, <1>4 DEF RegistryInv
<1>6. /\ bucket' \in [Instances -> Records \cup {Empty}]
      /\ \A b \in Instances : b # a => bucket'[b] = bucket[b]
  BY <1>3 DEF EndAnnounce, RegistryInv, Records
<1>. QED
  BY <1>5, <1>6 DEF EndAnnounce, RegistryInv

LEMMA HeartbeatKeepsInv ==
  ASSUME RegistryInv, NEW a \in Instances, Heartbeat(a)
  PROVE  /\ RegistryInv'
         /\ announced' = announced
         /\ \A b \in Instances :
              bucket'[b] # bucket[b] => b = a /\ bucket'[b] = beat[b]
<1>1. CASE StartHeartbeat(a)
  BY <1>1 DEF StartHeartbeat, RegistryInv
<1>2. CASE Tick(a)
  BY <1>2 DEF Tick, RegistryInv
<1>3. CASE BuildBeat(a)
  BY <1>3 DEF BuildBeat, RegistryInv
<1>4. CASE WriteBeat(a)
  BY <1>4 DEF WriteBeat, RegistryInv, Records
<1>5. CASE StopHeartbeat(a)
  BY <1>5 DEF StopHeartbeat, RegistryInv, Records
<1>. QED
  BY <1>1, <1>2, <1>3, <1>4, <1>5 DEF Heartbeat

LEMMA DiscoverKeepsInv ==
  ASSUME RegistryInv, AgentDiscoverTool
  PROVE  RegistryInv' /\ bucket' = bucket
  BY DEF AgentDiscoverTool, BeginDiscover, GetRecord, RegistryInv

\* A step of the registry keeps the invariant and writes nothing stale.
LEMMA RegistryStep ==
  ASSUME RegistryInv, RegistryNext
  PROVE  /\ RegistryInv'
         /\ \A a \in Instances :
              heartbeat[a] = "writing" /\ announcing'[a] = announcing[a] /\ bucket'[a] # bucket[a]
                => bucket'[a] = announced[a]
<1>1. ASSUME NEW a \in Instances, NEW new \in Capabilities, BeginAnnounce(a, new)
      PROVE  RegistryInv' /\ bucket' = bucket
  BY <1>1, BeginAnnounceKeepsInv
<1>2. ASSUME NEW a \in Instances, NEW i \in DOMAIN announcing[a], EndAnnounce(a, i)
      PROVE  /\ RegistryInv' /\ announcing'[a] # announcing[a]
             /\ \A b \in Instances : b # a => bucket'[b] = bucket[b]
  BY <1>2, EndAnnounceKeepsInv
<1>3. ASSUME NEW a \in Instances, Heartbeat(a)
      PROVE  /\ RegistryInv'
             /\ \A b \in Instances :
                  heartbeat[b] = "writing" /\ bucket'[b] # bucket[b] => bucket'[b] = announced[b]
  BY <1>3, HeartbeatKeepsInv DEF RegistryInv
<1>4. CASE AgentDiscoverTool
  BY <1>4, DiscoverKeepsInv
<1>. QED
  BY <1>1, <1>2, <1>3, <1>4 DEF RegistryNext, AgentAnnounceTool

-----------------------------------------------------------------------------
(* JetStream                                                               *)

LEMMA CollectKeepsInv ==
  ASSUME StreamInv, NEW m \in DOMAIN log, Collect(m)
  PROVE  StreamInv'
<1>1. m \in Nat
  BY DEF StreamInv
<1>2. ASSUME collected' = Append(collected, m)
      PROVE  collected' \in Seq(Nat) /\ Collected' = Collected \cup {m}
  <2>1. /\ collected' \in Seq(Nat)
        /\ Len(collected') = Len(collected) + 1 /\ collected'[Len(collected) + 1] = m
        /\ \A i \in 1..Len(collected) : collected'[i] = collected[i]
    BY <1>1, <1>2 DEF StreamInv
  <2>2. /\ DOMAIN collected = 1..Len(collected)
        /\ DOMAIN collected' = 1..Len(collected) \cup {Len(collected) + 1}
    BY <2>1 DEF StreamInv
  <2>. QED
    BY <2>1, <2>2 DEF Collected
<1>3. CASE collected' = Append(collected, m) /\ UNCHANGED <<collecting, forgotten>>
  <2>1. collected' \in Seq(Nat) /\ Collected' = Collected \cup {m}
    BY <1>2, <1>3
  <2>2. collecting /\ acknowledged' \subseteq acknowledged \cup {m} /\ UNCHANGED <<log, returned>>
    BY DEF Collect, InfoFails
  <2>. QED
    BY <1>3, <2>1, <2>2 DEF StreamInv
<1>4. CASE InfoFails(m) /\ EndConsume /\ forgotten' = forgotten \cup Collected
  BY <1>4 DEF Collect, InfoFails, EndConsume, StreamInv, Collected
<1>. QED
  BY <1>3, <1>4 DEF Collect, Collected

\* A step of the stream keeps the invariant.
LEMMA StreamStep ==
  ASSUME StreamInv, StreamNext
  PROVE  StreamInv'
<1>1. CASE BeginConsume
  BY <1>1 DEF BeginConsume, StreamInv, Collected
<1>2. ASSUME NEW m \in DOMAIN log, Collect(m)
      PROVE  StreamInv'
  BY <1>2, CollectKeepsInv
<1>3. CASE ReturnBatch
  BY <1>3 DEF ReturnBatch, EndConsume, StreamInv, Collected
<1>4. CASE DropConsume
  BY <1>4 DEF DropConsume, EndConsume, StreamInv, Collected
<1>5. ASSUME NEW id \in Ids, JetStreamPublishTool(id)
      PROVE  StreamInv'
  BY <1>5 DEF JetStreamPublishTool, StreamInv, Collected
<1>. QED
  BY <1>1, <1>2, <1>3, <1>4, <1>5 DEF StreamNext, JetStreamConsumeTool

-----------------------------------------------------------------------------
(* The specification                                                       *)

LEMMA AgentsInvInit == NatsInit => AgentsInv
<1>1. NatsInit => RegistryInv
  BY DEF NatsInit, RegistryInv, Records
<1>2. NatsInit => StreamInv
  BY DEF NatsInit, StreamInv, Collected
<1>. QED
  BY <1>1, <1>2 DEF AgentsInv

LEMMA AgentsStep ==
  ASSUME AgentsInv, [NatsNext]_natsVars
  PROVE  AgentsInv'
<1>1. CASE RegistryNext /\ UNCHANGED streamLogVars
  <2>1. RegistryInv'
    BY <1>1, RegistryStep DEF AgentsInv
  <2>2. StreamInv'
    BY <1>1 DEF AgentsInv, StreamInv, Collected, streamLogVars
  <2>. QED
    BY <2>1, <2>2 DEF AgentsInv
<1>2. CASE StreamNext /\ UNCHANGED registryVars
  <2>1. StreamInv'
    BY <1>2, StreamStep DEF AgentsInv
  <2>2. RegistryInv'
    BY <1>2 DEF AgentsInv, RegistryInv, registryVars
  <2>. QED
    BY <2>1, <2>2 DEF AgentsInv
<1>3. CASE UNCHANGED registryVars /\ UNCHANGED streamLogVars
  BY <1>3 DEF AgentsInv, RegistryInv, StreamInv, Collected, registryVars, streamLogVars
<1>4. CASE UNCHANGED natsVars
  BY <1>4, <1>3 DEF natsVars, registryVars, streamLogVars
<1>. QED
  BY <1>1, <1>2, <1>3, <1>4 DEF NatsNext

-----------------------------------------------------------------------------
(* Types                                                                   *)

AgentsTypeInv ==
  /\ NatsTypeOK /\ collected \in Seq(Nat)
  /\ \A i \in DOMAIN collected : collected[i] \in DOMAIN log

LEMMA UseCounts ==
  ASSUME usage \in [Used -> Nat], NEW u \in Used, NEW bound, Use(u, bound)
  PROVE  usage' \in [Used -> Nat]
  BY DEF Use

LEMMA RegistryTypes ==
  ASSUME NatsTypeOK, RegistryNext, RegistryInv'
  PROVE  found' \subseteq Instances /\ looking' \subseteq Instances /\ usage' \in [Used -> Nat]
<1>. USE UseCounts DEF NatsTypeOK, Used
<1>1. ASSUME NEW a \in Instances, AgentAnnounceTool(a)
      PROVE  UNCHANGED <<found, looking>> /\ usage' \in [Used -> Nat]
  BY <1>1 DEF AgentAnnounceTool, BeginAnnounce, EndAnnounce
<1>2. ASSUME NEW a \in Instances, Heartbeat(a)
      PROVE  UNCHANGED <<found, looking>> /\ usage' \in [Used -> Nat]
  BY <1>2 DEF Heartbeat, StartHeartbeat, Tick, BuildBeat, WriteBeat, StopHeartbeat
<1>3. CASE AgentDiscoverTool
  BY <1>3 DEF AgentDiscoverTool, BeginDiscover, GetRecord
<1>. QED  BY <1>1, <1>2, <1>3 DEF RegistryNext

LEMMA StreamTypes ==
  ASSUME AgentsTypeInv, StreamNext
  PROVE  /\ log' \in Seq(Ids) /\ acknowledged' \subseteq DOMAIN log' /\ collecting' \in BOOLEAN
         /\ Len(collected') <= Batch /\ collected' \in Seq(Nat)
         /\ \A i \in DOMAIN collected' : collected'[i] \in DOMAIN log'
         /\ returned' \subseteq DOMAIN log' /\ forgotten' \subseteq DOMAIN log'
         /\ usage' \in [Used -> Nat]
<1>. USE AgentsAssumption, UseCounts DEF AgentsTypeInv, NatsTypeOK, Used
<1>0. ASSUME collected' = <<>>
      PROVE  /\ Len(collected') <= Batch /\ collected' \in Seq(Nat)
             /\ \A i \in DOMAIN collected' : collected'[i] \in DOMAIN log
  BY <1>0
<1>a. {collected[i] : i \in DOMAIN collected} \subseteq DOMAIN log
  OBVIOUS
<1>1. CASE BeginConsume
  <2>1. collected' = <<>> /\ collecting' \in BOOLEAN /\ usage' \in [Used -> Nat]
        /\ UNCHANGED <<log, acknowledged, returned, forgotten>>
    BY <1>1 DEF BeginConsume
  <2>. QED  BY <1>0, <2>1
<1>2. ASSUME NEW m \in DOMAIN log, Collect(m)
      PROVE  /\ acknowledged' \subseteq DOMAIN log /\ collecting' \in BOOLEAN
             /\ Len(collected') <= Batch /\ collected' \in Seq(Nat)
             /\ \A i \in DOMAIN collected' : collected'[i] \in DOMAIN log
             /\ forgotten' \subseteq DOMAIN log /\ usage' \in [Used -> Nat]
             /\ UNCHANGED <<log, returned>>
  <2>1. m \in Nat /\ Len(collected) \in Nat /\ Len(collected) < Batch
    BY <1>2 DEF Collect
  <2>2. CASE collected' = Append(collected, m)
    <3>1. /\ collected' \in Seq(Nat) /\ Len(collected') = Len(collected) + 1
          /\ \A i \in DOMAIN collected' :
               collected'[i] = m \/ (i \in DOMAIN collected /\ collected'[i] = collected[i])
      BY <2>1, <2>2
    <3>2. Len(collected') <= Batch
      BY <2>1, <3>1
    <3>3. UNCHANGED <<collecting, forgotten, log, returned>> \/ collected' = <<>>
      BY <1>2 DEF Collect, EndConsume
    <3>4. collected' # <<>>
      BY <2>1, <3>1
    <3>5. acknowledged' \subseteq DOMAIN log /\ usage' \in [Used -> Nat]
      BY <1>2 DEF Collect, InfoFails
    <3>. QED  BY <3>1, <3>2, <3>3, <3>4, <3>5
  <2>3. CASE EndConsume /\ InfoFails(m)
             /\ forgotten' = forgotten \cup {collected[i] : i \in DOMAIN collected}
             /\ Use("faults", MaxBrokerFaults)
    <3>1. UNCHANGED <<log, returned>>
      BY <1>2 DEF Collect
    <3>2. collected' = <<>> /\ collecting' = FALSE /\ acknowledged' = acknowledged
          /\ usage' \in [Used -> Nat] /\ forgotten' \subseteq DOMAIN log
      BY <1>a, <2>3 DEF EndConsume, InfoFails
    <3>. QED  BY <1>0, <3>1, <3>2
  <2>. QED  BY <1>2, <2>2, <2>3 DEF Collect
<1>3. CASE ReturnBatch
  <2>1. collected' = <<>> /\ collecting' = FALSE /\ returned' \subseteq DOMAIN log
        /\ UNCHANGED <<log, acknowledged, forgotten, usage>>
    BY <1>a, <1>3 DEF ReturnBatch, EndConsume
  <2>. QED  BY <1>0, <2>1
<1>4. CASE DropConsume
  <2>1. collected' = <<>> /\ collecting' = FALSE /\ forgotten' \subseteq DOMAIN log
        /\ UNCHANGED <<log, acknowledged, returned, usage>>
    BY <1>a, <1>4 DEF DropConsume, EndConsume
  <2>. QED  BY <1>0, <2>1
<1>5. ASSUME NEW id \in Ids, JetStreamPublishTool(id)
      PROVE  /\ log' \in Seq(Ids) /\ DOMAIN log \subseteq DOMAIN log' /\ usage' \in [Used -> Nat]
             /\ UNCHANGED <<acknowledged, collecting, collected, returned, forgotten>>
  <2>1. log' = Append(log, id) /\ usage' \in [Used -> Nat]
        /\ UNCHANGED <<acknowledged, collecting, collected, returned, forgotten>>
    BY <1>5 DEF JetStreamPublishTool
  <2>. QED  BY <2>1
<1>. QED
  BY <1>1, <1>2, <1>3, <1>4, <1>5 DEF StreamNext, JetStreamConsumeTool

LEMMA GateTypes ==
  ASSUME NatsTypeOK, GateNext
  PROVE  /\ approval' \in {"idle", "asked", "approved", "denied", "failed"}
         /\ answered' \in {"none", "approved", "denied"} /\ usage' = usage
  BY DEF GateNext, RequestPermissionTool, PermissionAnswered, NextRequest, SupervisorAnswers, NatsTypeOK

LEMMA AgentsTypeInit == NatsInit => AgentsTypeInv
<1>. SUFFICES ASSUME NatsInit PROVE AgentsTypeInv
  OBVIOUS
<1>1. RegistryInv
  BY AgentsInvInit DEF AgentsInv
<1>2. log = <<>> /\ collected = <<>> /\ Batch \in Nat
  BY AgentsAssumption DEF NatsInit
<1>3. log \in Seq(Ids) /\ collected \in Seq(Nat) /\ Len(collected) <= Batch /\ DOMAIN collected = {}
  BY <1>2
<1>. QED  BY <1>1, <1>3 DEF NatsInit, RegistryInv, AgentsTypeInv, NatsTypeOK

LEMMA AgentsTypeStep ==
  ASSUME AgentsInv, AgentsTypeInv, [NatsNext]_natsVars
  PROVE  AgentsTypeInv'
<1>. USE DEF AgentsTypeInv, NatsTypeOK
<1>1. CASE RegistryNext /\ UNCHANGED streamLogVars /\ UNCHANGED gateVars
  <2>1. RegistryInv'
    BY <1>1, RegistryStep DEF AgentsInv
  <2>2. found' \subseteq Instances /\ looking' \subseteq Instances /\ usage' \in [Used -> Nat]
    BY <1>1, <2>1, RegistryTypes
  <2>. QED  BY <1>1, <2>1, <2>2 DEF streamLogVars, gateVars, RegistryInv
<1>2. CASE StreamNext /\ UNCHANGED registryVars /\ UNCHANGED gateVars
  <2>1. /\ log' \in Seq(Ids) /\ acknowledged' \subseteq DOMAIN log' /\ collecting' \in BOOLEAN
        /\ Len(collected') <= Batch /\ collected' \in Seq(Nat)
        /\ \A i \in DOMAIN collected' : collected'[i] \in DOMAIN log'
        /\ returned' \subseteq DOMAIN log' /\ forgotten' \subseteq DOMAIN log'
        /\ usage' \in [Used -> Nat]
    BY <1>2, StreamTypes
  <2>. QED  BY <1>2, <2>1 DEF registryVars, gateVars
<1>3. CASE GateNext /\ UNCHANGED registryVars /\ UNCHANGED streamLogVars
  <2>1. /\ approval' \in {"idle", "asked", "approved", "denied", "failed"}
        /\ answered' \in {"none", "approved", "denied"} /\ usage' = usage
    BY <1>3, GateTypes
  <2>. QED  BY <1>3, <2>1 DEF registryVars, streamLogVars
<1>4. CASE UNCHANGED natsVars
  BY <1>4 DEF natsVars
<1>. QED  BY <1>1, <1>2, <1>3, <1>4 DEF NatsNext

\* The heartbeat holds what it is about to write, and what was acknowledged is
\* in somebody's hands: the invariant of agent.rs and jetstream.rs.
THEOREM AgentsInvariant == NatsSpec => []AgentsInv
<1>1. AgentsInv /\ [NatsNext]_natsVars => AgentsInv'
  BY AgentsStep
<1>. QED
  BY AgentsInvInit, <1>1, PTL DEF NatsSpec

\* For any number of agents, announces and failures of the broker, a heartbeat
\* puts no capabilities back that were replaced before it wrote.
THEOREM BeatsAreFresh == NatsSpec => HeartbeatsAreFresh
<1> DEFINE Fresh ==
      \A a \in Instances :
        heartbeat[a] = "writing" /\ announcing'[a] = announcing[a] /\ bucket'[a] # bucket[a]
          => bucket'[a] = announced[a]
<1>1. AgentsInv /\ [NatsNext]_natsVars => [Fresh]_natsVars
  <2>1. SUFFICES ASSUME AgentsInv, NatsNext
                 PROVE  Fresh
    OBVIOUS
  <2>2. CASE RegistryNext
    BY <2>1, <2>2, RegistryStep DEF AgentsInv
  <2>3. CASE UNCHANGED registryVars
    BY <2>3 DEF registryVars
  <2>. QED
    BY <2>1, <2>2, <2>3 DEF NatsNext
<1>2. NatsSpec => [][Fresh]_natsVars
  BY AgentsInvariant, <1>1, PTL DEF NatsSpec
<1>. QED
  BY <1>2 DEF HeartbeatsAreFresh

\* Whatever fails, a message is acknowledged only once its call has it.
THEOREM NothingIsAcknowledgedUnseen == NatsSpec => []AcknowledgedIsCollected
<1>1. AgentsInv => AcknowledgedIsCollected
  BY DEF AgentsInv, StreamInv, Collected, AcknowledgedIsCollected
<1>. QED
  BY AgentsInvariant, <1>1, PTL

\* The registry, the stream and the gate keep their shape; no call collects
\* more than its batch, and what is acknowledged was published.
THEOREM AgentsStayTyped == NatsSpec => []NatsTypeOK
<1>1. NatsInit => AgentsInv /\ AgentsTypeInv
  BY AgentsInvInit, AgentsTypeInit
<1>2. AgentsInv /\ AgentsTypeInv /\ [NatsNext]_natsVars => (AgentsInv /\ AgentsTypeInv)'
  BY AgentsStep, AgentsTypeStep
<1>3. AgentsTypeInv => NatsTypeOK
  BY DEF AgentsTypeInv
<1>. QED
  BY <1>1, <1>2, <1>3, PTL DEF NatsSpec

-----------------------------------------------------------------------------
(* The claims                                                              *)

Elements(seq) == {seq[i] : i \in DOMAIN seq}

\* The tasks a claimer has, or has had.
Has(c) == claimed[c] \cup Elements(inbox[c]) \cup Elements(slot[c])

ClaimInv ==
  /\ claimed \in [Claimers -> SUBSET TaskMessages]
  /\ inbox \in [Claimers -> Seq(TaskMessages)]
  /\ slot \in [Claimers -> Seq(TaskMessages)]
  /\ \A c, d \in Claimers : c # d => Has(c) \cap Has(d) = {}
  /\ \A c \in Claimers : Has(c) \cap unsent = {}

-----------------------------------------------------------------------------
(* Sequences                                                               *)

LEMMA ElementsOfAppend ==
  ASSUME NEW S, NEW seq \in Seq(S), NEW e \in S
  PROVE  Append(seq, e) \in Seq(S) /\ Elements(Append(seq, e)) = Elements(seq) \cup {e}
<1>1. /\ Len(seq) \in Nat /\ DOMAIN seq = 1..Len(seq)
      /\ DOMAIN Append(seq, e) = 1..(Len(seq) + 1)
      /\ Append(seq, e)[Len(seq) + 1] = e
      /\ \A i \in 1..Len(seq) : Append(seq, e)[i] = seq[i]
  OBVIOUS
<1>2. 1..(Len(seq) + 1) = 1..Len(seq) \cup {Len(seq) + 1}
  BY <1>1
<1>. QED
  BY <1>1, <1>2 DEF Elements

LEMMA ElementsOfParts ==
  ASSUME NEW S, NEW seq \in Seq(S), seq # <<>>
  PROVE  /\ Head(seq) \in S /\ Head(seq) \in Elements(seq)
         /\ Tail(seq) \in Seq(S) /\ Elements(Tail(seq)) \subseteq Elements(seq)
<1>1. /\ Len(seq) \in Nat /\ Len(seq) >= 1 /\ DOMAIN seq = 1..Len(seq)
      /\ Tail(seq) \in Seq(S) /\ DOMAIN Tail(seq) = 1..(Len(seq) - 1)
      /\ \A i \in 1..(Len(seq) - 1) : Tail(seq)[i] = seq[i + 1]
      /\ Head(seq) = seq[1] /\ seq[1] \in S
  OBVIOUS
<1>2. \A i \in 1..(Len(seq) - 1) : i + 1 \in 1..Len(seq)
  BY <1>1
<1>. QED
  BY <1>1, <1>2 DEF Elements

LEMMA ElementsOfOne ==
  ASSUME NEW S, NEW e \in S
  PROVE  <<e>> \in Seq(S) /\ Elements(<<e>>) = {e}
  BY DEF Elements

LEMMA ElementsOfNone == Elements(<<>>) = {}
  BY DEF Elements

LEMMA RangeIsElements ==
  ASSUME NEW S, NEW left \in Seq(S), NEW right \in Seq(S)
  PROVE  Range(left \o right) \subseteq Elements(left) \cup Elements(right)
<1>1. /\ Len(left) \in Nat /\ Len(right) \in Nat
      /\ DOMAIN left = 1..Len(left) /\ DOMAIN right = 1..Len(right)
      /\ DOMAIN (left \o right) = 1..(Len(left) + Len(right))
      /\ \A i \in 1..(Len(left) + Len(right)) :
           (left \o right)[i] = IF i <= Len(left) THEN left[i] ELSE right[i - Len(left)]
  OBVIOUS
<1>2. \A i \in 1..(Len(left) + Len(right)) :
        i \in 1..Len(left) \/ i - Len(left) \in 1..Len(right)
  BY <1>1
<1>3. \A i \in 1..(Len(left) + Len(right)) :
        (left \o right)[i] \in Elements(left) \cup Elements(right)
  BY <1>1, <1>2 DEF Elements
<1>. QED
  BY <1>1, <1>3 DEF Range

-----------------------------------------------------------------------------
(* The steps                                                               *)

\* A step of one claimer that gains nothing keeps the tasks apart.
LEMMA LosingKeepsInv ==
  ASSUME ClaimInv, NEW c \in Claimers,
         claimed' \in [Claimers -> SUBSET TaskMessages],
         inbox' \in [Claimers -> Seq(TaskMessages)],
         slot' \in [Claimers -> Seq(TaskMessages)],
         Has(c)' \subseteq Has(c),
         \A d \in Claimers \ {c} : Has(d)' = Has(d),
         unsent' = unsent
  PROVE  ClaimInv'
<1>1. \A d \in Claimers : Has(d)' \subseteq Has(d)
  OBVIOUS
<1>. QED
  BY <1>1 DEF ClaimInv

LEMMA OthersKeepTheirs ==
  ASSUME NEW d, claimed'[d] = claimed[d], inbox'[d] = inbox[d], slot'[d] = slot[d]
  PROVE  Has(d)' = Has(d)
  BY DEF Has, Elements

LEMMA PublishKeepsInv ==
  ASSUME ClaimInv, NEW m \in TaskMessages, Publish(m)
  PROVE  ClaimInv'
<1>1. m \in unsent /\ unsent' = unsent \ {m} /\ UNCHANGED <<slot, claimed>>
  BY DEF Publish
<1>2. CASE UNCHANGED inbox
  <2>1. \A d \in Claimers : Has(d)' = Has(d)
    BY <1>1, <1>2, OthersKeepTheirs
  <2>. QED
    BY <1>1, <1>2, <2>1 DEF ClaimInv
<1>3. ASSUME NEW c \in Claimers, DeliverTo(m, c)
      PROVE  ClaimInv'
  <2>1. inbox' = [inbox EXCEPT ![c] = Append(inbox[c], m)]
    BY <1>3 DEF DeliverTo
  <2>2. /\ Append(inbox[c], m) \in Seq(TaskMessages)
        /\ Elements(Append(inbox[c], m)) = Elements(inbox[c]) \cup {m}
    BY ElementsOfAppend DEF ClaimInv
  <2>3. /\ inbox' \in [Claimers -> Seq(TaskMessages)] /\ inbox'[c] = Append(inbox[c], m)
        /\ \A d \in Claimers \ {c} : inbox'[d] = inbox[d]
    BY <2>1, <2>2 DEF ClaimInv
  <2>4. Has(c)' = Has(c) \cup {m}
    <3>1. Has(c)' = claimed[c] \cup Elements(Append(inbox[c], m)) \cup Elements(slot[c])
      BY <1>1, <2>3 DEF Has, Elements
    <3>. QED
      BY <2>2, <3>1 DEF Has
  <2>5. \A d \in Claimers \ {c} : Has(d)' = Has(d)
    BY <1>1, <2>3, OthersKeepTheirs
  <2>6. \A d \in Claimers : Has(d)' = Has(d) \cup (IF d = c THEN {m} ELSE {})
    BY <2>4, <2>5
  <2>7. \A d \in Claimers : m \notin Has(d)
    BY <1>1 DEF ClaimInv
  <2>8. ASSUME NEW d \in Claimers, NEW e \in Claimers, d # e
        PROVE  Has(d)' \cap Has(e)' = {}
    <3>1. Has(d) \cap Has(e) = {} /\ m \notin Has(d) /\ m \notin Has(e)
      BY <2>7, <2>8 DEF ClaimInv
    <3>2. /\ d # c => Has(d)' = Has(d)
          /\ e # c => Has(e)' = Has(e)
          /\ Has(d)' \subseteq Has(d) \cup {m} /\ Has(e)' \subseteq Has(e) \cup {m}
      BY <2>6
    <3>3. CASE d # c
      BY <3>1, <3>2, <3>3
    <3>4. CASE e # c
      BY <3>1, <3>2, <3>4
    <3>. QED
      BY <2>8, <3>3, <3>4
  <2>9. \A d \in Claimers : Has(d)' \cap unsent' = {}
    BY <1>1, <2>6 DEF ClaimInv
  <2>. QED
    BY <1>1, <2>3, <2>8, <2>9 DEF ClaimInv
<1>. QED
  BY <1>2, <1>3 DEF Publish, Members

LEMMA PassOnKeepsInv ==
  ASSUME ClaimInv, NEW c \in Claimers, PassOn(c)
  PROVE  ClaimInv'
<1>1. /\ inbox[c] \in Seq(TaskMessages) /\ inbox[c] # <<>>
      /\ slot' = [slot EXCEPT ![c] = <<Head(inbox[c])>>]
      /\ inbox' = [inbox EXCEPT ![c] = Tail(inbox[c])]
      /\ claimed' = claimed /\ unsent' = unsent
  BY DEF PassOn, ClaimInv
<1>2. /\ Head(inbox[c]) \in TaskMessages /\ Head(inbox[c]) \in Elements(inbox[c])
      /\ Tail(inbox[c]) \in Seq(TaskMessages)
      /\ Elements(Tail(inbox[c])) \subseteq Elements(inbox[c])
  BY <1>1, ElementsOfParts
<1>3. /\ <<Head(inbox[c])>> \in Seq(TaskMessages)
      /\ Elements(<<Head(inbox[c])>>) = {Head(inbox[c])}
  BY <1>2, ElementsOfOne
<1>4. /\ slot' \in [Claimers -> Seq(TaskMessages)] /\ slot'[c] = <<Head(inbox[c])>>
      /\ inbox' \in [Claimers -> Seq(TaskMessages)] /\ inbox'[c] = Tail(inbox[c])
      /\ \A d \in Claimers \ {c} : slot'[d] = slot[d] /\ inbox'[d] = inbox[d]
  BY <1>1, <1>2, <1>3 DEF ClaimInv
<1>5. Has(c)' = claimed[c] \cup Elements(Tail(inbox[c])) \cup Elements(<<Head(inbox[c])>>)
  BY <1>1, <1>4 DEF Has, Elements
<1>6. Has(c)' \subseteq Has(c)
  BY <1>2, <1>3, <1>5 DEF Has
<1>7. \A d \in Claimers \ {c} : Has(d)' = Has(d)
  BY <1>1, <1>4, OthersKeepTheirs
<1>8. claimed' \in [Claimers -> SUBSET TaskMessages]
  BY <1>1 DEF ClaimInv
<1>. QED
  BY <1>1, <1>4, <1>6, <1>7, <1>8, LosingKeepsInv

LEMMA CloseKeepsInv ==
  ASSUME ClaimInv, NEW c \in Claimers, CloseClaim(c),
         \/ claimed' = claimed
         \/ slot[c] # <<>> /\ claimed' = [claimed EXCEPT ![c] = @ \cup {slot[c][1]}]
  PROVE  ClaimInv'
<1>1. /\ inbox' = [inbox EXCEPT ![c] = <<>>] /\ slot' = [slot EXCEPT ![c] = <<>>]
      /\ unsent' = unsent
  BY DEF CloseClaim
<1>2. /\ inbox' \in [Claimers -> Seq(TaskMessages)] /\ inbox'[c] = <<>>
      /\ slot' \in [Claimers -> Seq(TaskMessages)] /\ slot'[c] = <<>>
      /\ \A d \in Claimers \ {c} : slot'[d] = slot[d] /\ inbox'[d] = inbox[d]
  BY <1>1 DEF ClaimInv
<1>3. slot[c] # <<>> => slot[c][1] \in TaskMessages /\ slot[c][1] \in Elements(slot[c])
  BY DEF ClaimInv, Elements
<1>4. /\ claimed' \in [Claimers -> SUBSET TaskMessages]
      /\ claimed'[c] \subseteq claimed[c] \cup Elements(slot[c])
      /\ \A d \in Claimers \ {c} : claimed'[d] = claimed[d]
  BY <1>3 DEF ClaimInv
<1>5. Has(c)' = claimed'[c]
  BY <1>2 DEF Has, Elements
<1>6. Has(c)' \subseteq Has(c)
  BY <1>4, <1>5 DEF Has
<1>7. \A d \in Claimers \ {c} : Has(d)' = Has(d)
  BY <1>2, <1>4, OthersKeepTheirs
<1>. QED
  BY <1>1, <1>2, <1>4, <1>6, <1>7, LosingKeepsInv

LEMMA ClaimStep ==
  ASSUME ClaimInv, [SubscriptionNext]_subscriptionVars
  PROVE  ClaimInv'
<1>1. CASE UNCHANGED <<inbox, slot, claimed, unsent>>
  <2>1. \A c \in Claimers : Has(c)' = Has(c)
    BY <1>1, OthersKeepTheirs
  <2>. QED
    BY <1>1, <2>1 DEF ClaimInv
<1>2. ASSUME NEW c \in Claimers, OpenClaim(c)
      PROVE  ClaimInv'
  BY <1>1, <1>2 DEF OpenClaim
<1>3. ASSUME NEW c \in Claimers, PassOn(c)
      PROVE  ClaimInv'
  BY <1>3, PassOnKeepsInv
<1>4. ASSUME NEW c \in Claimers, TakeClaim(c) \/ GiveUpClaim(c)
      PROVE  ClaimInv'
  BY <1>4, CloseKeepsInv DEF TakeClaim, GiveUpClaim
<1>5. ASSUME NEW m \in TaskMessages, Publish(m)
      PROVE  ClaimInv'
  BY <1>5, PublishKeepsInv
<1>6. CASE UNCHANGED claimVars \/ UNCHANGED subscriptionVars
  BY <1>1, <1>6 DEF claimVars, subscriptionVars
<1>. QED
  BY <1>2, <1>3, <1>4, <1>5, <1>6 DEF SubscriptionNext, ClaimNext

-----------------------------------------------------------------------------
(* The specification                                                       *)

LEMMA ClaimInvInit == SubscriptionInit => ClaimInv
<1> SUFFICES ASSUME SubscriptionInit PROVE ClaimInv
  OBVIOUS
<1>1. \A c \in Claimers : claimed[c] = {} /\ inbox[c] = <<>> /\ slot[c] = <<>>
  BY DEF SubscriptionInit
<1>2. \A c \in Claimers : Has(c) = {}
  BY <1>1, ElementsOfNone DEF Has
<1>. QED
  BY <1>2 DEF SubscriptionInit, ClaimInv

\* A task is with one claimer at most, or not yet published (subscribe.rs and
\* agent_claim of nats_tools.rs).
THEOREM ClaimInvariant == SubscriptionSpec => []ClaimInv
<1>1. ClaimInv /\ [SubscriptionNext]_subscriptionVars => ClaimInv'
  BY ClaimStep
<1>. QED
  BY ClaimInvInit, <1>1, PTL DEF SubscriptionSpec

\* For any number of claimers that open, take, time out and give up in any
\* order, two of them never get one task.
THEOREM TasksAreClaimedOnce == SubscriptionSpec => []OneAgentGetsATask
<1>1. ASSUME ClaimInv
      PROVE  OneAgentGetsATask
  <2>1. ASSUME NEW c \in Claimers, NEW d \in Claimers, c # d
        PROVE  /\ claimed[c] \cap claimed[d] = {}
               /\ claimed[c] \cap Range(inbox[d] \o slot[d]) = {}
    <3>1. Range(inbox[d] \o slot[d]) \subseteq Elements(inbox[d]) \cup Elements(slot[d])
      BY <1>1, RangeIsElements DEF ClaimInv
    <3>2. Has(c) \cap Has(d) = {}
      BY <1>1, <2>1 DEF ClaimInv
    <3>. QED
      BY <3>1, <3>2 DEF Has
  <2>. QED
    BY <2>1 DEF OneAgentGetsATask
<1>. QED
  BY ClaimInvariant, <1>1, PTL

-----------------------------------------------------------------------------
(* Types                                                                   *)

LinkInv == \A u \in Users : stage[u] = "starting" => connected[u] # 0

\* The link as a whole, as a step of it may leave it.
LinkTypes ==
  /\ client \in 0 .. MaxLinkCalls /\ jetstream \in 0 .. MaxLinkCalls
  /\ stage \in [Users -> {"idle", "client", "jetstream", "subscribing", "starting",
                          "draining", "taking", "clearing"}]
  /\ connected \in [Users -> 0 .. MaxLinkCalls]
  /\ missing \in [Users -> SUBSET Subjects]
  /\ linkCalls \in 0 .. MaxLinkCalls /\ cancelled \in BOOLEAN
  /\ listening \subseteq Task /\ listed \subseteq Task
  /\ LinkInv

LEMMA LinkStep ==
  ASSUME LinkTypes, LinkNext
  PROVE  LinkTypes'
<1>. USE SubscriptionAssumption DEF LinkTypes, LinkInv, To
<1>1. ASSUME NEW u \in Users, BeginConnect(u)
      PROVE  LinkTypes'
  <2>1. linkCalls + 1 \in 0 .. MaxLinkCalls
    BY <1>1 DEF BeginConnect
  <2>. QED  BY <1>1, <2>1 DEF BeginConnect
<1>2. ASSUME NEW u \in Users, SetClient(u) \/ SetJetstream(u) \/ EndConnect(u)
      PROVE  LinkTypes'
  BY <1>2 DEF SetClient, SetJetstream, EndConnect
<1>3. ASSUME NEW u \in Users, Subscribe(u)
      PROVE  LinkTypes'
  BY <1>3 DEF Subscribe
<1>4. ASSUME NEW u \in Users, NEW s \in Subjects, StartTask(u, s)
      PROVE  LinkTypes'
  <2>1. connected[u] \in 1 .. MaxLinkCalls
    BY <1>4 DEF StartTask
  <2>2. [subject |-> s, client |-> connected[u]] \in Task
    BY <2>1 DEF Task
  <2>. QED  BY <1>4, <2>2 DEF StartTask
<1>5. ASSUME NEW u \in Users, BeginDisconnect(u)
      PROVE  LinkTypes'
  <2>1. linkCalls + 1 \in 0 .. MaxLinkCalls
    BY <1>5 DEF BeginDisconnect
  <2>. QED  BY <1>5, <2>1 DEF BeginDisconnect
<1>6. ASSUME NEW u \in Users, AbortTasks(u) \/ TakeClient(u) \/ ClearJetstream(u)
      PROVE  LinkTypes'
  BY <1>6 DEF AbortTasks, TakeClient, ClearJetstream
<1>7. CASE TaskEnds
  BY <1>7 DEF TaskEnds
<1>. QED  BY <1>1, <1>2, <1>3, <1>4, <1>5, <1>6, <1>7 DEF LinkNext

SlotTypes == claiming \in [Claimers -> BOOLEAN] /\ unsent \subseteq TaskMessages
             /\ \A c \in Claimers : Len(slot[c]) <= 1

LEMMA ClaimTypes ==
  ASSUME ClaimInv, SlotTypes, ClaimNext
  PROVE  SlotTypes'
<1>. USE DEF ClaimInv, SlotTypes
<1>1. ASSUME NEW c \in Claimers, OpenClaim(c)
      PROVE  SlotTypes'
  BY <1>1 DEF OpenClaim
<1>2. ASSUME NEW c \in Claimers, PassOn(c)
      PROVE  SlotTypes'
  <2>1. slot' = [slot EXCEPT ![c] = <<Head(inbox[c])>>] /\ UNCHANGED <<claiming, unsent>>
    BY <1>2 DEF PassOn
  <2>2. Len(<<Head(inbox[c])>>) = 1
    OBVIOUS
  <2>. QED  BY <2>1, <2>2
<1>3. ASSUME NEW c \in Claimers, CloseClaim(c)
      PROVE  SlotTypes'
  <2>1. slot' = [slot EXCEPT ![c] = <<>>] /\ claiming' = [claiming EXCEPT ![c] = FALSE] /\ unsent' = unsent
    BY <1>3 DEF CloseClaim
  <2>2. Len(<<>>) = 0
    OBVIOUS
  <2>. QED  BY <2>1, <2>2
<1>4. ASSUME NEW m \in TaskMessages, Publish(m)
      PROVE  SlotTypes'
  BY <1>4 DEF Publish
<1>. QED  BY <1>1, <1>2, <1>3, <1>4 DEF ClaimNext, TakeClaim, GiveUpClaim

\* The connection and the claims keep their shape; a task of the transport
\* always listens on a client that was made.
THEOREM SubscriptionsStayTyped == SubscriptionSpec => []SubscriptionTypeOK
<1>1. SubscriptionInit => ClaimInv /\ LinkTypes /\ SlotTypes
  <2>1. SubscriptionInit => LinkTypes
    <3>. SUFFICES ASSUME SubscriptionInit PROVE LinkTypes
      OBVIOUS
    <3>1. 0 \in 0 .. MaxLinkCalls
      BY SubscriptionAssumption
    <3>2. /\ stage \in [Users -> {"idle", "client", "jetstream", "subscribing", "starting",
                                  "draining", "taking", "clearing"}]
          /\ LinkInv
      BY DEF SubscriptionInit, LinkInv
    <3>3. missing \in [Users -> SUBSET Subjects] /\ connected \in [Users -> 0 .. MaxLinkCalls]
      BY <3>1 DEF SubscriptionInit
    <3>. QED  BY <3>1, <3>2, <3>3 DEF SubscriptionInit, LinkTypes
  <2>2. Len(<<>>) = 0
    OBVIOUS
  <2>3. SubscriptionInit => SlotTypes
    BY <2>2 DEF SubscriptionInit, SlotTypes
  <2>. QED  BY <2>1, <2>3, ClaimInvInit
<1>2. ClaimInv /\ LinkTypes /\ SlotTypes /\ [SubscriptionNext]_subscriptionVars
        => (ClaimInv /\ LinkTypes /\ SlotTypes)'
  <2>. SUFFICES ASSUME ClaimInv, LinkTypes, SlotTypes, [SubscriptionNext]_subscriptionVars
                PROVE  ClaimInv' /\ LinkTypes' /\ SlotTypes'
    OBVIOUS
  <2>1. ClaimInv'
    BY ClaimStep
  <2>2. CASE LinkNext /\ UNCHANGED claimVars
    <3>1. LinkTypes'
      BY <2>2, LinkStep
    <3>. QED  BY <2>1, <2>2, <3>1 DEF claimVars, SlotTypes
  <2>3. CASE ClaimNext /\ UNCHANGED linkVars
    <3>1. SlotTypes'
      BY <2>3, ClaimTypes
    <3>. QED  BY <2>1, <2>3, <3>1 DEF linkVars, LinkTypes, LinkInv
  <2>4. CASE UNCHANGED subscriptionVars
    BY <2>1, <2>4 DEF subscriptionVars, LinkTypes, LinkInv, SlotTypes
  <2>. QED  BY <2>2, <2>3, <2>4 DEF SubscriptionNext
<1>3. ClaimInv /\ LinkTypes /\ SlotTypes => SubscriptionTypeOK
  BY DEF ClaimInv, LinkTypes, SlotTypes, SubscriptionTypeOK
<1>. QED
  BY <1>1, <1>2, <1>3, PTL DEF SubscriptionSpec

-----------------------------------------------------------------------------
(* The rate limiter                                                        *)

\* What the entry of a client is worth, forgotten or not.
Worth(c) == AtMost(tokens[c] + age[c], Full)

\* RateIsBounded is not inductive: a client that was refused many times must not
\* have gained by it.  The invariant compares what the limiter would grant now
\* with a bucket that is never forgotten, from above, and with the time since a
\* request passed, from below.
RateInv ==
  /\ RateTypeOK
  /\ \A c \in Callers :
       /\ credit[c] >= Worth(c)
       /\ credit[c] <= Full
       /\ age[c] >= ClientTtl \/ tokens[c] + age[c] >= waited[c]

LEMMA FullHoldsOneToken == Full \in Nat /\ Full >= TokenTime
<1>1. PerMinute \in Nat /\ PerMinute >= 1 /\ TokenTime \in Nat /\ TokenTime >= 1
  BY RateAssumption
<1>2. (PerMinute - 1) * TokenTime \in Nat
  BY <1>1
<1>3. PerMinute * TokenTime = (PerMinute - 1) * TokenTime + TokenTime
  BY <1>1
<1>. QED
  BY <1>1, <1>2, <1>3 DEF Full

\* What the limiter grants is never more than what the entry is worth, which is
\* where a forgotten client comes in: it waited longer than a token takes.
LEMMA AvailableIsWorth ==
  ASSUME RateTypeOK, NEW c \in Callers
  PROVE  /\ Available(c) \in 0..Full
         /\ Available(c) <= Worth(c)
         /\ age[c] < ClientTtl => Available(c) = Worth(c)
  BY RateAssumption, FullHoldsOneToken DEF Available, Worth, AtMost, RateTypeOK

LEMMA RateInvInit == RateInit => RateInv
  BY RateAssumption, FullHoldsOneToken DEF RateInit, RateInv, RateTypeOK, Worth, AtMost

LEMMA PassKeepsInv ==
  ASSUME RateInv, NEW c \in Callers, PassRequest(c)
  PROVE  RateInv'
<1>1. Available(c) \in 0..Full /\ Available(c) <= Worth(c) /\ Available(c) >= TokenTime
  BY AvailableIsWorth DEF RateInv, PassRequest, MayPass
<1>2. RateTypeOK'
  BY <1>1, RateAssumption, FullHoldsOneToken DEF RateInv, RateTypeOK, PassRequest
<1>3. ASSUME NEW d \in Callers
      PROVE  /\ credit'[d] >= Worth(d)' /\ credit'[d] <= Full
             /\ age'[d] >= ClientTtl \/ tokens'[d] + age'[d] >= waited'[d]
  <2>1. CASE d = c
    BY <1>1, <2>1, RateAssumption, FullHoldsOneToken
    DEF RateInv, RateTypeOK, PassRequest, Worth, AtMost
  <2>2. CASE d # c
    BY <2>2 DEF RateInv, RateTypeOK, PassRequest, Worth
  <2>. QED
    BY <2>1, <2>2
<1>. QED
  BY <1>2, <1>3 DEF RateInv

LEMMA RefuseKeepsInv ==
  ASSUME RateInv, NEW c \in Callers, RefuseRequest(c)
  PROVE  RateInv'
<1>1. Available(c) \in 0..Full /\ Available(c) <= Worth(c)
  BY AvailableIsWorth DEF RateInv
<1>2. age[c] < ClientTtl /\ Available(c) = Worth(c)
  BY AvailableIsWorth, RateAssumption DEF RateInv, RateTypeOK, RefuseRequest, MayPass, Available
<1>3. RateTypeOK'
  BY <1>1, RateAssumption DEF RateInv, RateTypeOK, RefuseRequest
<1>4. ASSUME NEW d \in Callers
      PROVE  /\ credit'[d] >= Worth(d)' /\ credit'[d] <= Full
             /\ age'[d] >= ClientTtl \/ tokens'[d] + age'[d] >= waited'[d]
  <2>1. CASE d = c
    BY <1>1, <1>2, <2>1, RateAssumption, FullHoldsOneToken
    DEF RateInv, RateTypeOK, RefuseRequest, Worth, AtMost
  <2>2. CASE d # c
    BY <2>2 DEF RateInv, RateTypeOK, RefuseRequest, Worth
  <2>. QED
    BY <2>1, <2>2
<1>. QED
  BY <1>3, <1>4 DEF RateInv

LEMMA TickKeepsInv ==
  ASSUME RateInv, ClockTicks
  PROVE  RateInv'
<1>1. RateTypeOK'
  BY RateAssumption, FullHoldsOneToken DEF RateInv, RateTypeOK, ClockTicks, AtMost
<1>2. ASSUME NEW d \in Callers
      PROVE  /\ credit'[d] >= Worth(d)' /\ credit'[d] <= Full
             /\ age'[d] >= ClientTtl \/ tokens'[d] + age'[d] >= waited'[d]
  BY RateAssumption, FullHoldsOneToken DEF RateInv, RateTypeOK, ClockTicks, Worth, AtMost
<1>. QED
  BY <1>1, <1>2 DEF RateInv

\* However requests, refusals and the clock interleave, what an entry is worth
\* lies between the time since a request passed and a bucket never forgotten.
THEOREM RateInvariant == RateSpec => []RateInv
<1>1. RateInit => RateInv
  BY RateInvInit
<1>2. RateInv /\ [RateNext]_rateVars => RateInv'
  <2> SUFFICES ASSUME RateInv, [RateNext]_rateVars PROVE RateInv'
    OBVIOUS
  <2>1. CASE \E c \in Callers : PassRequest(c)
    BY <2>1, PassKeepsInv
  <2>2. CASE \E c \in Callers : RefuseRequest(c)
    BY <2>2, RefuseKeepsInv
  <2>3. CASE ClockTicks
    BY <2>3, TickKeepsInv
  <2>4. CASE UNCHANGED rateVars
    BY <2>4 DEF rateVars, RateInv, RateTypeOK, Worth
  <2>. QED
    BY <2>1, <2>2, <2>3, <2>4 DEF RateNext
<1>. QED
  BY <1>1, <1>2, PTL DEF RateSpec

\* check_rate_limit lets no more through in any interval than a full bucket and
\* the refill of that interval, and refuses nobody who waited for a token.
THEOREM RatesAreExact == RateSpec => []RateIsExact
<1>1. RateInv => RateIsExact
  <2> SUFFICES ASSUME RateInv, NEW c \in Callers
               PROVE  credit[c] >= 0 /\ (waited[c] >= TokenTime => MayPass(c))
    BY DEF RateIsExact, RateIsBounded, WaitingIsEnough
  <2>1. credit[c] >= 0
    BY FullHoldsOneToken DEF RateInv, RateTypeOK, Worth, AtMost
  <2>2. waited[c] >= TokenTime => MayPass(c)
    BY RateAssumption, FullHoldsOneToken DEF RateInv, RateTypeOK, MayPass, Available, AtMost
  <2>. QED
    BY <2>1, <2>2
<1>. QED
  BY <1>1, RateInvariant, PTL

-----------------------------------------------------------------------------
(* A WebSocket connection                                                  *)

\* Replies in the order of their messages, which are among the first n.
Ordered(s, n) ==
  /\ s \in Seq(Nat)
  /\ \A i \in DOMAIN s : s[i] \in 1..n
  /\ \A i, j \in DOMAIN s : i < j => s[i] < s[j]

\* Message m has its reply in s, or comes after all that s was cut down to.
Answered(s, m, cut) == m \in Range(s) \/ (cut /\ \A i \in DOMAIN s : s[i] < m)

Expected(m) == written[m] \in {"text", "ping"}

SocketInv ==
  /\ SocketTypeOK
  /\ Len(written) <= MaxWritten /\ counted <= read
  /\ seen \in Seq(Nat) /\ wire \in Seq(Nat) /\ writing \in Seq(Nat)
  /\ replies \in Seq(Nat) /\ replying \in Seq(Nat)
  /\ connection = "closed" => replying = <<>> /\ replies = <<>> /\ writing = <<>>
  /\ Ordered(Said, read)
  /\ \A m \in 1..read : Expected(m) => Answered(Said, m, connection = "closed")

LEMMA RepliesConcatenate ==
  ASSUME NEW s \in Seq(Nat), NEW t \in Seq(Nat)
  PROVE  s \o t \in Seq(Nat)
  BY ConcatProperties

LEMMA RepliesAssociate ==
  ASSUME NEW s \in Seq(Nat), NEW t \in Seq(Nat), NEW u \in Seq(Nat)
  PROVE  (s \o t) \o u = s \o (t \o u)
  BY ConcatAssociative

LEMMA NothingToConcatenate ==
  ASSUME NEW s \in Seq(Nat)
  PROVE  s \o <<>> = s
  BY ConcatEmptySeq

LEMMA HeadMoves ==
  ASSUME NEW s \in Seq(Nat), NEW t \in Seq(Nat), t # <<>>
  PROVE  /\ Head(t) \in Nat /\ Tail(t) \in Seq(Nat)
         /\ <<Head(t)>> \o Tail(t) = t
         /\ Append(s, Head(t)) \o Tail(t) = s \o t
<1>1. Head(t) \in Nat /\ Tail(t) \in Seq(Nat) /\ Len(Tail(t)) = Len(t) - 1
  BY HeadTailProperties
<1>2. <<Head(t)>> \in Seq(Nat) /\ Len(<<Head(t)>>) = 1
  BY <1>1
<1>3. Len(t) \in Nat \ {0} /\ Len(t) = 1 + (Len(t) - 1)
  BY EmptySeq
<1>4. /\ <<Head(t)>> \o Tail(t) \in Seq(Nat) /\ Len(<<Head(t)>> \o Tail(t)) = Len(t)
      /\ \A i \in 1..Len(t) : (<<Head(t)>> \o Tail(t))[i] = IF i <= 1 THEN <<Head(t)>>[i] ELSE Tail(t)[i - 1]
  BY <1>1, <1>2, <1>3, ConcatProperties
<1>5. \A i \in 1..Len(t) : (<<Head(t)>> \o Tail(t))[i] = t[i]
  <2>1. \A i \in 1..(Len(t) - 1) : Tail(t)[i] = t[i + 1]
    BY <1>1, HeadTailProperties
  <2>2. Head(t) = t[1]
    OBVIOUS
  <2>3. SUFFICES ASSUME NEW i \in 1..Len(t) PROVE (<<Head(t)>> \o Tail(t))[i] = t[i]
    OBVIOUS
  <2>4. CASE i = 1
    BY <1>4, <2>2, <2>4
  <2>5. CASE i > 1
    <3>1. i - 1 \in 1..(Len(t) - 1) /\ (i - 1) + 1 = i /\ ~(i <= 1)
      BY <1>3, <2>5
    <3>2. Tail(t)[i - 1] = t[i]
      BY <2>1, <3>1
    <3>. QED
      BY <1>4, <3>1, <3>2
  <2>. QED
    BY <1>3, <2>4, <2>5
<1>6. <<Head(t)>> \o Tail(t) = t
  BY <1>4, <1>5, SeqEqual
<1>7. Append(s, Head(t)) \o Tail(t) = s \o (<<Head(t)>> \o Tail(t))
  BY <1>1, <1>2, AppendIsConcat, ConcatAssociative
<1>. QED
  BY <1>1, <1>6, <1>7

LEMMA PrefixStaysOrdered ==
  ASSUME NEW s \in Seq(Nat), NEW t \in Seq(Nat), NEW n, Ordered(s \o t, n)
  PROVE  /\ Ordered(s, n)
         /\ \A m, cut : Answered(s \o t, m, cut) => Answered(s, m, TRUE)
<1>1. /\ DOMAIN s = 1..Len(s) /\ DOMAIN t = 1..Len(t) /\ Len(s) \in Nat /\ Len(t) \in Nat
      /\ DOMAIN (s \o t) = 1..(Len(s) + Len(t))
      /\ \A i \in 1..(Len(s) + Len(t)) : (s \o t)[i] = IF i <= Len(s) THEN s[i] ELSE t[i - Len(s)]
  BY ConcatProperties, LenProperties
<1>2. \A i \in 1..Len(s) : i \in DOMAIN (s \o t) /\ (s \o t)[i] = s[i]
  BY <1>1
<1>3. Ordered(s, n)
  BY <1>1, <1>2 DEF Ordered
<1>4. ASSUME NEW m, NEW cut, Answered(s \o t, m, cut) PROVE Answered(s, m, TRUE)
  <2>1. CASE \A i \in DOMAIN (s \o t) : (s \o t)[i] < m
    BY <1>1, <1>2, <2>1 DEF Answered
  <2>2. CASE m \in Range(s \o t)
    <3>1. PICK p \in DOMAIN (s \o t) : (s \o t)[p] = m
      BY <2>2 DEF Range
    <3>2. CASE p <= Len(s)
      BY <1>1, <1>2, <3>1, <3>2 DEF Answered, Range
    <3>3. CASE p > Len(s)
      <4>1. \A i \in 1..Len(s) : (s \o t)[i] < m
        <5>1. SUFFICES ASSUME NEW i \in 1..Len(s) PROVE (s \o t)[i] < m
          OBVIOUS
        <5>2. i \in DOMAIN (s \o t) /\ i < p
          BY <1>1, <3>1, <3>3
        <5>. QED
          BY <3>1, <5>2 DEF Ordered
      <4>. QED
        BY <1>1, <1>2, <4>1 DEF Answered
    <3>4. p \in Int /\ Len(s) \in Int
      BY <1>1, <3>1
    <3>5. p <= Len(s) \/ p > Len(s)
      BY <3>4
    <3>. QED
      BY <3>2, <3>3, <3>5
  <2>. QED
    BY <1>4, <2>1, <2>2 DEF Answered
<1>. QED
  BY <1>3, <1>4

LEMMA NextReplyIsOrdered ==
  ASSUME NEW n \in Nat, NEW s, Ordered(s, n)
  PROVE  /\ Ordered(s \o <<n + 1>>, n + 1)
         /\ \A m : Answered(s, m, FALSE) \/ m = n + 1 => Answered(s \o <<n + 1>>, m, FALSE)
<1>1. s \in Seq(Nat) /\ <<n + 1>> \in Seq(Nat) /\ Len(<<n + 1>>) = 1
  BY DEF Ordered
<1>2. /\ DOMAIN s = 1..Len(s) /\ Len(s) \in Nat
      /\ s \o <<n + 1>> \in Seq(Nat) /\ Len(s \o <<n + 1>>) = Len(s) + 1
      /\ \A i \in 1..(Len(s) + 1) : (s \o <<n + 1>>)[i] = IF i <= Len(s) THEN s[i] ELSE <<n + 1>>[i - Len(s)]
  BY <1>1, ConcatProperties, LenProperties
<1>3. DOMAIN (s \o <<n + 1>>) = 1..(Len(s) + 1)
  BY <1>2, LenProperties
<1>4. /\ \A i \in 1..Len(s) : (s \o <<n + 1>>)[i] = s[i]
      /\ (s \o <<n + 1>>)[Len(s) + 1] = n + 1
  BY <1>2
<1>5. \A i \in 1..Len(s) : s[i] \in 1..n
  BY <1>2 DEF Ordered
<1>6. Ordered(s \o <<n + 1>>, n + 1)
  <2>1. ASSUME NEW i \in 1..(Len(s) + 1) PROVE (s \o <<n + 1>>)[i] \in 1..(n + 1)
    BY <1>2, <1>4, <1>5
  <2>2. ASSUME NEW i \in 1..(Len(s) + 1), NEW j \in 1..(Len(s) + 1), i < j
        PROVE  (s \o <<n + 1>>)[i] < (s \o <<n + 1>>)[j]
    <3>1. CASE j <= Len(s)
      <4>1. i \in DOMAIN s /\ j \in DOMAIN s
        BY <1>2, <2>2, <3>1
      <4>2. s[i] < s[j]
        BY <2>2, <4>1 DEF Ordered
      <4>. QED
        BY <1>2, <1>4, <4>1, <4>2
    <3>2. CASE j = Len(s) + 1
      BY <1>2, <1>4, <1>5, <2>2, <3>2
    <3>. QED
      BY <1>2, <3>1, <3>2
  <2>. QED
    BY <1>2, <1>3, <2>1, <2>2 DEF Ordered
<1>7. Range(s) \cup {n + 1} \subseteq Range(s \o <<n + 1>>)
  BY <1>2, <1>3, <1>4 DEF Range
<1>. QED
  BY <1>6, <1>7 DEF Answered

LEMMA SocketInvInit == SocketInit => SocketInv
<1>. SUFFICES ASSUME SocketInit PROVE SocketInv
  OBVIOUS
<1>1. <<>> \in Seq(Nat) /\ <<>> \in Seq(MessageKinds) /\ Len(<<>>) = 0
  BY EmptySeq
<1>2. Said = <<>>
  <2>1. <<>> \o <<>> = <<>>
    BY <1>1, ConcatEmptySeq
  <2>. QED
    BY <2>1 DEF SocketInit, Said
<1>3. Ordered(Said, read)
  BY <1>1, <1>2 DEF Ordered, SocketInit
<1>4. /\ read = 0 /\ counted = 0 /\ Len(written) = 0 /\ Len(replying) = 0 /\ Len(replies) = 0
      /\ Len(writing) = 0 /\ Len(wire) = 0 /\ written \in Seq(MessageKinds)
  BY <1>1 DEF SocketInit
<1>6. minuteOver \in BOOLEAN /\ peer \in {"open", "gone"} /\ connection \in {"open", "closed"}
  BY DEF SocketInit
<1>5. SocketTypeOK
  BY <1>4, <1>6, SocketAssumption DEF SocketTypeOK
<1>. QED
  BY <1>1, <1>3, <1>4, <1>5, SocketAssumption DEF SocketInv, SocketInit

LEMMA SaidIsCutAtTheWire ==
  ASSUME SocketInv
  PROVE  /\ seen \o wire \in Seq(Nat) /\ (writing \o replies) \o replying \in Seq(Nat)
         /\ Said = (seen \o wire) \o ((writing \o replies) \o replying)
<1>1. /\ seen \in Seq(Nat) /\ wire \in Seq(Nat) /\ writing \in Seq(Nat)
      /\ replies \in Seq(Nat) /\ replying \in Seq(Nat)
  BY DEF SocketInv
<1>2. seen \o wire \in Seq(Nat)
  BY <1>1, RepliesConcatenate, Zenon
<1>3. writing \o replies \in Seq(Nat)
  BY <1>1, RepliesConcatenate, Zenon
<1>4. (writing \o replies) \o replying \in Seq(Nat)
  BY <1>1, <1>3, RepliesConcatenate, Zenon
<1>5. ((seen \o wire) \o writing) \o replies = (seen \o wire) \o (writing \o replies)
  BY <1>1, <1>2, RepliesAssociate, Zenon
<1>6. ((seen \o wire) \o (writing \o replies)) \o replying
        = (seen \o wire) \o ((writing \o replies) \o replying)
  <2>1. replying \in Seq(Nat)
    BY <1>1
  <2>. QED
    BY <1>2, <1>3, <2>1, RepliesAssociate, Zenon
<1>. QED
  BY <1>2, <1>4, <1>5, <1>6, Zenon DEF Said

\* What only moves replies along leaves what was said as it is.
LEMMA MovesKeepWhatIsSaid ==
  ASSUME SocketInv, See \/ PushReply \/ TakeReply \/ (WriteReply /\ peer = "open")
  PROVE  /\ Said' = Said
         /\ seen' \in Seq(Nat) /\ wire' \in Seq(Nat) /\ writing' \in Seq(Nat)
         /\ replies' \in Seq(Nat) /\ replying' \in Seq(Nat)
<1>1. /\ seen \in Seq(Nat) /\ wire \in Seq(Nat) /\ writing \in Seq(Nat)
      /\ replies \in Seq(Nat) /\ replying \in Seq(Nat) /\ <<>> \in Seq(Nat)
  BY EmptySeq DEF SocketInv
<1>2. seen \o wire \in Seq(Nat)
  BY <1>1, RepliesConcatenate, Zenon
<1>3. (seen \o wire) \o writing \in Seq(Nat)
  BY <1>1, <1>2, RepliesConcatenate, Zenon
<1>4. CASE See
  <2>1. seen' = Append(seen, Head(wire)) /\ wire' = Tail(wire) /\ wire # <<>> /\ UNCHANGED replyVars
    BY <1>4 DEF See
  <2>2. Head(wire) \in Nat /\ Tail(wire) \in Seq(Nat) /\ Append(seen, Head(wire)) \o Tail(wire) = seen \o wire
    BY <1>1, <2>1, HeadMoves, Zenon
  <2>3. Append(seen, Head(wire)) \in Seq(Nat)
    BY <1>1, <2>2, AppendProperties
  <2>. QED
    BY <1>1, <2>1, <2>2, <2>3 DEF Said, replyVars
<1>5. CASE PushReply
  <2>1. replies' = replies \o replying /\ replying' = <<>> /\ UNCHANGED <<seen, wire, writing>>
    BY <1>5 DEF PushReply
  <2>2. replies \o replying \in Seq(Nat)
    BY <1>1, RepliesConcatenate, Zenon
  <2>3. ((seen \o wire) \o writing) \o (replies \o replying) = (((seen \o wire) \o writing) \o replies) \o replying
    BY <1>1, <1>3, RepliesAssociate, Zenon
  <2>4. ((seen \o wire) \o writing) \o (replies \o replying) \in Seq(Nat)
    BY <1>3, <2>2, RepliesConcatenate, Zenon
  <2>5. (((seen \o wire) \o writing) \o (replies \o replying)) \o <<>>
          = ((seen \o wire) \o writing) \o (replies \o replying)
    BY <2>4, NothingToConcatenate, Zenon
  <2>. QED
    BY <1>1, <2>1, <2>2, <2>3, <2>5, Zenon DEF Said
<1>6. CASE TakeReply
  <2>1. /\ writing = <<>> /\ replies # <<>> /\ writing' = <<Head(replies)>> /\ replies' = Tail(replies)
        /\ UNCHANGED <<replying, wire, seen>>
    BY <1>6 DEF TakeReply
  <2>2. Head(replies) \in Nat /\ Tail(replies) \in Seq(Nat) /\ <<Head(replies)>> \o Tail(replies) = replies
    BY <1>1, <2>1, HeadMoves, Zenon
  <2>3. <<Head(replies)>> \in Seq(Nat)
    BY <2>2
  <2>6. Tail(replies) \in Seq(Nat)
    BY <2>2
  <2>7. ((seen \o wire) \o <<Head(replies)>>) \o Tail(replies)
          = (seen \o wire) \o (<<Head(replies)>> \o Tail(replies))
    BY <1>2, <2>3, <2>6, RepliesAssociate, Zenon
  <2>4. ((seen \o wire) \o <<Head(replies)>>) \o Tail(replies) = (seen \o wire) \o replies
    BY <2>2, <2>7
  <2>5. (seen \o wire) \o writing = seen \o wire
    BY <1>2, <2>1, NothingToConcatenate, Zenon
  <2>. QED
    BY <1>1, <2>1, <2>2, <2>3, <2>4, <2>5, Zenon DEF Said
<1>7. CASE WriteReply /\ peer = "open"
  <2>1. wire' = wire \o writing /\ writing' = <<>> /\ UNCHANGED <<replying, replies, seen>>
    BY <1>7 DEF WriteReply
  <2>2. wire \o writing \in Seq(Nat)
    BY <1>1, RepliesConcatenate, Zenon
  <2>3. (seen \o wire) \o writing = seen \o (wire \o writing)
    <3>1. seen \in Seq(Nat) /\ wire \in Seq(Nat) /\ writing \in Seq(Nat)
      BY <1>1
    <3>. QED
      BY ONLY <3>1, RepliesAssociate
  <2>4. ((seen \o wire) \o writing) \o <<>> = (seen \o wire) \o writing
    BY <1>3, NothingToConcatenate, Zenon
  <2>. QED
    BY <1>1, <2>1, <2>2, <2>3, <2>4, Zenon DEF Said
<1>. QED
  BY <1>4, <1>5, <1>6, <1>7

LEMMA MovesKeepInv ==
  ASSUME SocketInv, See \/ PushReply \/ TakeReply \/ (WriteReply /\ peer = "open")
  PROVE  SocketInv'
<1>1. /\ Said' = Said
      /\ seen' \in Seq(Nat) /\ wire' \in Seq(Nat) /\ writing' \in Seq(Nat)
      /\ replies' \in Seq(Nat) /\ replying' \in Seq(Nat)
  BY MovesKeepWhatIsSaid
<1>2. /\ UNCHANGED <<written, read, counted, minuteOver, peer, connection>>
      /\ connection = "closed" => UNCHANGED replyVars
  BY DEF See, PushReply, TakeReply, WriteReply, peerVars, minuteVars, replyVars, SocketInv
<1>3. Len(replying') <= 1 /\ Len(replies') <= ReplyRoom /\ Len(writing') <= 1 /\ Len(wire') <= WireRoom
  <2>1. /\ Len(replying) \in Nat /\ Len(replies) \in Nat /\ Len(writing) \in Nat /\ Len(wire) \in Nat
        /\ Len(replying) <= 1 /\ Len(replies) <= ReplyRoom /\ Len(writing) <= 1 /\ Len(wire) <= WireRoom
        /\ ReplyRoom \in Nat \ {0} /\ WireRoom \in Nat \ {0}
        /\ Len(<<>>) = 0
    BY LenProperties, SocketAssumption DEF SocketInv, SocketTypeOK
  <2>2. CASE See
    <3>1. wire # <<>> /\ wire' = Tail(wire) /\ UNCHANGED <<replying, replies, writing>>
      BY <2>2 DEF See, replyVars
    <3>2. Len(wire') = Len(wire) - 1
      BY <3>1, HeadTailProperties DEF SocketInv
    <3>. QED
      BY <2>1, <3>1, <3>2
  <2>3. CASE PushReply
    <3>1. /\ replies' = replies \o replying /\ replying' = <<>> /\ Len(replies) < ReplyRoom
          /\ UNCHANGED <<wire, writing>>
      BY <2>3 DEF PushReply
    <3>2. Len(replies') = Len(replies) + Len(replying)
      BY <3>1, ConcatProperties DEF SocketInv
    <3>. QED
      BY <2>1, <3>1, <3>2
  <2>4. CASE TakeReply
    <3>1. /\ replies # <<>> /\ writing' = <<Head(replies)>> /\ replies' = Tail(replies)
          /\ UNCHANGED <<replying, wire>>
      BY <2>4 DEF TakeReply
    <3>2. Len(replies') = Len(replies) - 1 /\ Len(writing') = 1
      BY <3>1, HeadTailProperties DEF SocketInv
    <3>. QED
      BY <2>1, <3>1, <3>2
  <2>5. CASE WriteReply /\ peer = "open"
    <3>1. /\ wire' = wire \o writing /\ writing' = <<>> /\ Len(wire) < WireRoom
          /\ UNCHANGED <<replying, replies>>
      BY <2>5 DEF WriteReply
    <3>2. Len(wire') = Len(wire) + Len(writing)
      BY <3>1, ConcatProperties DEF SocketInv
    <3>. QED
      BY <2>1, <3>1, <3>2
  <2>. QED
    BY <2>2, <2>3, <2>4, <2>5
<1>4. SocketTypeOK'
  BY <1>2, <1>3 DEF SocketInv, SocketTypeOK
<1>. QED
  BY <1>1, <1>2, <1>4 DEF SocketInv, Expected, replyVars

LEMMA ClosedKeepsInv ==
  ASSUME SocketInv, CloseConnection, UNCHANGED <<seen, wire, peer, written>>,
         read' \in read..Len(written), counted' \in 0..read', minuteOver' \in BOOLEAN,
         \A m \in 1..read' : Expected(m) => m <= read
  PROVE  SocketInv'
<1>1. /\ seen \in Seq(Nat) /\ wire \in Seq(Nat) /\ writing \in Seq(Nat)
      /\ replies \in Seq(Nat) /\ replying \in Seq(Nat) /\ <<>> \in Seq(Nat)
      /\ read \in Nat /\ Len(written) \in Nat /\ read <= Len(written) /\ Len(written) <= MaxWritten
      /\ written \in Seq(MessageKinds) /\ MaxWritten \in Nat
  BY EmptySeq, LenProperties, SocketAssumption DEF SocketInv, SocketTypeOK
<1>2. /\ seen \o wire \in Seq(Nat) /\ (writing \o replies) \o replying \in Seq(Nat)
      /\ Said = (seen \o wire) \o ((writing \o replies) \o replying)
  BY SaidIsCutAtTheWire
<1>3. Said' = seen \o wire
  <2>1. (seen \o wire) \o <<>> = seen \o wire
    BY <1>2, NothingToConcatenate, Zenon
  <2>2. Said' = (((seen \o wire) \o <<>>) \o <<>>) \o <<>>
    BY DEF Said, CloseConnection
  <2>. QED
    BY <2>1, <2>2
<1>4. /\ Ordered(seen \o wire, read)
      /\ \A m, cut : Answered(Said, m, cut) => Answered(seen \o wire, m, TRUE)
  BY <1>2, PrefixStaysOrdered DEF SocketInv
<1>5. Ordered(Said', read')
  <2>1. read' \in Int /\ read <= read' /\ read \in Int
    BY <1>1
  <2>2. \A i \in 1..read : i \in 1..read'
    BY <2>1
  <2>3. Ordered(seen \o wire, read')
    BY ONLY <1>4, <2>2 DEF Ordered
  <2>. QED
    BY <1>3, <2>3
<1>6. \A m \in 1..read' : Expected(m)' => Answered(Said', m, TRUE)
  <2>1. SUFFICES ASSUME NEW m \in 1..read', Expected(m)' PROVE Answered(Said', m, TRUE)
    OBVIOUS
  <2>2. Expected(m)
    BY <2>1 DEF Expected
  <2>3. m \in 1..read
    BY <1>1, <2>1, <2>2
  <2>4. Answered(Said, m, connection = "closed")
    BY <2>2, <2>3 DEF SocketInv
  <2>. QED
    BY <1>3, <1>4, <2>4
<1>7. SocketTypeOK'
  <2>1. Len(<<>>) = 0 /\ ReplyRoom \in Nat
    BY SocketAssumption
  <2>2. counted' \in 0..MaxWritten /\ read' \in 0..Len(written)
    BY <1>1
  <2>. QED
    BY <2>1, <2>2 DEF SocketInv, SocketTypeOK, CloseConnection
<1>8. counted' <= read'
  BY <1>1
<1>. QED
  BY <1>1, <1>5, <1>6, <1>7, <1>8 DEF SocketInv, CloseConnection

LEMMA ReadKeepsInv ==
  ASSUME SocketInv, ReadMessage
  PROVE  SocketInv'
<1>8. /\ seen \in Seq(Nat) /\ wire \in Seq(Nat) /\ writing \in Seq(Nat)
      /\ replies \in Seq(Nat) /\ replying \in Seq(Nat)
  BY DEF SocketInv
<1>9. SocketTypeOK
  BY DEF SocketInv
<1>1. /\ read \in Nat /\ Len(written) \in Nat /\ read + 1 <= Len(written) /\ Len(written) <= MaxWritten
      /\ MaxWritten \in Nat /\ read' = read + 1 /\ connection = "open" /\ replying = <<>>
      /\ UNCHANGED <<written, peer, wire, seen>>
  BY LenProperties, SocketAssumption
  DEF SocketInv, SocketTypeOK, ReadMessage, Receiving, peerVars
<1>2. counted' \in 0..read' /\ minuteOver' = FALSE
  BY <1>1 DEF SocketInv, SocketTypeOK, ReadMessage, Now
<1>10. minuteOver' \in BOOLEAN
  BY <1>2
<1>3. counted' \in 0..MaxWritten /\ read' \in 0..Len(written)
  BY <1>1, <1>2
<1>4. \A m \in 1..read' : m \in 1..read \/ m = read + 1
  BY <1>1
<1>5. CASE replying' = <<read + 1>> /\ UNCHANGED <<replies, writing, connection>>
  <2>1. Said' = Said \o <<read + 1>>
    <3>1. (((seen \o wire) \o writing) \o replies) \in Seq(Nat)
      BY <1>8, RepliesConcatenate, Zenon
    <3>2. Said = ((seen \o wire) \o writing) \o replies
      BY <1>1, <3>1, NothingToConcatenate, Zenon DEF Said
    <3>. QED
      BY <1>1, <1>5, <3>2, Zenon DEF Said
  <2>2. /\ Ordered(Said', read')
        /\ \A m : Answered(Said, m, FALSE) \/ m = read + 1 => Answered(Said', m, FALSE)
    BY <1>1, <2>1, NextReplyIsOrdered DEF SocketInv
  <2>3. \A m \in 1..read' : Expected(m)' => Answered(Said', m, FALSE)
    BY <1>1, <1>4, <2>2 DEF SocketInv, Expected
  <2>4. Len(replying') = 1 /\ replying' \in Seq(Nat)
    BY <1>1, <1>5
  <2>5. SocketTypeOK'
    BY ONLY <1>1, <1>3, <1>5, <1>9, <1>10, <2>4 DEF SocketTypeOK
  <2>6. Len(written') <= MaxWritten /\ counted' <= read' /\ connection' = "open"
    BY <1>1, <1>2, <1>5
  <2>7. /\ seen' \in Seq(Nat) /\ wire' \in Seq(Nat) /\ writing' \in Seq(Nat) /\ replies' \in Seq(Nat)
    BY <1>1, <1>5, <1>8
  <2>. QED
    BY ONLY <2>2, <2>3, <2>4, <2>5, <2>6, <2>7 DEF SocketInv, Answered
<1>6. CASE written[read + 1] = "other" /\ UNCHANGED replyVars /\ UNCHANGED connection
  <2>1. Said' = Said
    BY <1>1, <1>6 DEF Said, replyVars
  <2>2. Ordered(Said', read')
    BY <1>1, <2>1 DEF SocketInv, Ordered
  <2>3. \A m \in 1..read' : Expected(m)' => Answered(Said', m, FALSE)
    BY <1>1, <1>4, <1>6, <2>1 DEF SocketInv, Expected
  <2>4. SocketTypeOK'
    BY ONLY <1>1, <1>3, <1>6, <1>9, <1>10 DEF SocketTypeOK, replyVars
  <2>5. Len(written') <= MaxWritten /\ counted' <= read' /\ connection' = "open"
    BY <1>1, <1>2, <1>6
  <2>6. /\ seen' \in Seq(Nat) /\ wire' \in Seq(Nat) /\ writing' \in Seq(Nat) /\ replies' \in Seq(Nat)
        /\ replying' \in Seq(Nat)
    BY <1>1, <1>6, <1>8 DEF replyVars
  <2>. QED
    BY ONLY <2>2, <2>3, <2>4, <2>5, <2>6 DEF SocketInv, Answered
<1>7. CASE written[read + 1] = "close" /\ CloseConnection
  <2>1. \A m \in 1..read' : Expected(m) => m <= read
    <3>1. ~Expected(read + 1)
      BY <1>7 DEF Expected
    <3>. QED
      BY <1>1, <1>4, <3>1
  <2>2. read' \in read..Len(written)
    BY <1>1
  <2>. QED
    BY <1>1, <1>2, <1>7, <1>10, <2>1, <2>2, ClosedKeepsInv
<1>. QED
  BY <1>5, <1>6, <1>7 DEF ReadMessage

LEMMA ClientKeepsInv ==
  ASSUME SocketInv, (\E kind \in MessageKinds : Write(kind)) \/ GoAway \/ MinutePasses
  PROVE  SocketInv'
<1>1. Said' = Said /\ UNCHANGED <<seen, wire, writing, replies, replying, read, connection, counted>>
  BY DEF Write, GoAway, MinutePasses, peerVars, minuteVars, replyVars, Said
<1>2. written \in Seq(MessageKinds) /\ Len(written) \in Nat /\ read \in 0..Len(written)
  BY LenProperties DEF SocketInv, SocketTypeOK
<1>3. /\ written' \in Seq(MessageKinds) /\ Len(written') <= MaxWritten /\ Len(written) <= Len(written')
      /\ \A m \in 1..Len(written) : written'[m] = written[m]
  <2>1. CASE written' = written
    BY <1>2, <2>1 DEF SocketInv
  <2>2. CASE \E kind \in MessageKinds : Write(kind)
    <3>1. PICK kind \in MessageKinds : written' = Append(written, kind) /\ Len(written) < MaxWritten
      BY <2>2 DEF Write
    <3>2. /\ written' \in Seq(MessageKinds) /\ Len(written') = Len(written) + 1
          /\ \A m \in 1..Len(written) : written'[m] = written[m]
      BY <1>2, <3>1, AppendProperties
    <3>. QED
      BY <1>2, <3>1, <3>2, SocketAssumption
  <2>. QED
    BY <2>1, <2>2 DEF GoAway, MinutePasses, peerVars
<1>4. Len(written') \in Nat
  BY <1>3, LenProperties
<1>5. read' \in 0..Len(written')
  BY <1>1, <1>2, <1>3, <1>4
<1>6. minuteOver' \in BOOLEAN /\ peer' \in {"open", "gone"}
  BY DEF Write, GoAway, MinutePasses, peerVars, minuteVars, SocketInv, SocketTypeOK
<1>9. SocketTypeOK
  BY DEF SocketInv
<1>7. SocketTypeOK'
  BY ONLY <1>1, <1>3, <1>5, <1>6, <1>9 DEF SocketTypeOK
<1>8. \A m \in 1..read' : Expected(m)' => Answered(Said', m, connection' = "closed")
  <2>1. SUFFICES ASSUME NEW m \in 1..read, Expected(m)' PROVE Answered(Said, m, connection = "closed")
    BY <1>1
  <2>2. written'[m] = written[m]
    BY <1>2, <1>3
  <2>. QED
    BY <2>1, <2>2 DEF SocketInv, Expected
<1>. QED
  BY <1>1, <1>3, <1>7, <1>8 DEF SocketInv

LEMMA StopKeepsInv ==
  ASSUME SocketInv, StopReceiving \/ (WriteReply /\ peer = "gone")
  PROVE  SocketInv'
<1>1. CloseConnection /\ UNCHANGED <<seen, wire, peer, written, read, counted, minuteOver>>
  BY DEF StopReceiving, WriteReply, peerVars, minuteVars
<1>2. read \in Nat /\ Len(written) \in Nat /\ read <= Len(written) /\ counted \in Nat
      /\ counted <= read /\ minuteOver \in BOOLEAN
  BY LenProperties DEF SocketInv, SocketTypeOK
<1>3. read' \in read..Len(written) /\ counted' \in 0..read' /\ minuteOver' \in BOOLEAN
      /\ \A m \in 1..read' : Expected(m) => m <= read
  BY <1>1, <1>2
<1>. QED
  BY <1>1, <1>3, ClosedKeepsInv

\* However the client writes, reads and leaves and the two tasks of a connection
\* interleave, its replies stay in the order of its messages.
THEOREM SocketInvariant == SocketSpec => []SocketInv
<1>1. SocketInv /\ [SocketNext]_socketVars => SocketInv'
  <2>. SUFFICES ASSUME SocketInv, [SocketNext]_socketVars PROVE SocketInv'
    OBVIOUS
  <2>1. CASE UNCHANGED socketVars
    BY <2>1 DEF socketVars, SocketInv, SocketTypeOK, Said, Expected
  <2>2. peer \in {"open", "gone"}
    BY DEF SocketInv, SocketTypeOK
  <2>. QED
    BY <2>1, <2>2, MovesKeepInv, ReadKeepsInv, ClientKeepsInv, StopKeepsInv DEF SocketNext
<1>. QED
  BY <1>1, SocketInvInit, PTL DEF SocketSpec

\* The channel, the network and the counters of a connection stay in their bounds.
THEOREM SocketStaysTyped == SocketSpec => []SocketTypeOK
<1>1. SocketInv => SocketTypeOK
  BY DEF SocketInv
<1>. QED
  BY <1>1, SocketInvariant, PTL

\* Each text and each ping that was read has one reply, in its turn, or came after
\* all that a closed connection sent.
THEOREM RepliesAreFaithful == SocketSpec => []RepliesFollowMessages
<1>1. SocketInv => RepliesFollowMessages
  BY DEF SocketInv, Ordered, Answered, Expected, RepliesFollowMessages
<1>. QED
  BY <1>1, SocketInvariant, PTL

-----------------------------------------------------------------------------
(* The Telegram bot                                                        *)

UpdateKinds == {"text", "silent", "malformed"}

\* What is newer than everything taken is either in the batch or after it; what is
\* not newer was answered, or is being handled.
TelegramInv ==
  /\ updates \in Seq(UpdateKinds)
  /\ confirmed \in 0..Len(updates) /\ lastUpdateId \in 0..Len(updates)
  /\ batch \subseteq 1..Len(updates)
  /\ handling \in 0..Len(updates) /\ restarts \in 0..MaxRestarts
  /\ answers \in [1..Len(updates) -> Nat]
  /\ \A b \in batch : b > Newest
  /\ \A b \in batch : \A u \in 1..b : u > Newest /\ updates[u] = "text" => u \in batch
  /\ handling # 0 => handling = lastUpdateId /\ handling > confirmed
  /\ \A u \in 1..Newest : updates[u] = "text" => answers[u] > 0 \/ u = handling
  /\ \A u \in 1..Len(updates) :
       answers[u] <= restarts + (IF u <= Newest /\ u # handling THEN 1 ELSE 0)

LEMMA TelegramInvInit == TelegramInit => TelegramInv
<1>. SUFFICES ASSUME TelegramInit PROVE TelegramInv
  OBVIOUS
<1>1. updates \in Seq(UpdateKinds) /\ Len(updates) = 0 /\ 1..Len(updates) = {}
  BY EmptySeq DEF TelegramInit
<1>2. answers \in [1..Len(updates) -> Nat]
  BY <1>1 DEF TelegramInit
<1>3. Newest = 0 /\ 1..0 = {}
  BY DEF TelegramInit, Newest
<1>. QED
  BY <1>1, <1>2, <1>3, TelegramAssumption DEF TelegramInit, TelegramInv

LEMMA ArrivalKeepsInv ==
  ASSUME TelegramInv, NEW kind \in UpdateKinds, UpdateArrives(kind)
  PROVE  TelegramInv'
<1>1. Len(updates) \in Nat /\ DOMAIN updates = 1..Len(updates)
  BY LenProperties DEF TelegramInv
<1>2. /\ updates' \in Seq(UpdateKinds) /\ Len(updates') = Len(updates) + 1
      /\ \A u \in 1..Len(updates) : updates'[u] = updates[u]
  BY AppendProperties DEF TelegramInv, UpdateArrives
<1>3. /\ answers' \in [1..(Len(updates) + 1) -> Nat]
      /\ \A u \in 1..Len(updates) : answers'[u] = answers[u]
      /\ answers'[Len(updates) + 1] = 0
  <2>1. answers \in Seq(Nat) /\ Len(answers) = Len(updates)
    BY <1>1 DEF TelegramInv
  <2>2. answers' = Append(answers, 0)
    BY DEF UpdateArrives
  <2>3. /\ answers' \in Seq(Nat) /\ Len(answers') = Len(updates) + 1
        /\ \A u \in 1..Len(updates) : answers'[u] = answers[u]
        /\ answers'[Len(updates) + 1] = 0
    BY <2>1, <2>2, AppendProperties
  <2>. QED
    BY <2>3, LenProperties
<1>4. /\ UNCHANGED <<confirmed, lastUpdateId, batch, handling, restarts>> /\ Newest' = Newest
      /\ Newest \in 0..Len(updates) /\ restarts \in Nat
      /\ 0..Len(updates) \subseteq 0..Len(updates') /\ 1..Len(updates) \subseteq 1..Len(updates')
      /\ \A u \in 1..Len(updates') : u \in 1..Len(updates) \/ u = Len(updates) + 1
  BY <1>1, <1>2 DEF UpdateArrives, Newest, TelegramInv
<1>5. \A b \in batch' : \A u \in 1..b : u > Newest' /\ updates'[u] = "text" => u \in batch'
  <2>1. SUFFICES ASSUME NEW b \in batch, NEW u \in 1..b, u > Newest, updates'[u] = "text"
                 PROVE  u \in batch
    BY <1>4
  <2>2. u \in 1..Len(updates)
    BY <1>1 DEF TelegramInv
  <2>. QED
    BY <1>2, <2>1, <2>2 DEF TelegramInv
<1>6. \A u \in 1..Newest' : updates'[u] = "text" => answers'[u] > 0 \/ u = handling'
  <2>1. SUFFICES ASSUME NEW u \in 1..Newest, updates'[u] = "text" PROVE answers'[u] > 0 \/ u = handling
    BY <1>4
  <2>2. u \in 1..Len(updates)
    BY <1>1, <1>4
  <2>. QED
    BY <1>2, <1>3, <2>1, <2>2 DEF TelegramInv
<1>7. \A u \in 1..Len(updates') :
       answers'[u] <= restarts' + (IF u <= Newest' /\ u # handling' THEN 1 ELSE 0)
  BY <1>3, <1>4 DEF TelegramInv
<1>8. batch' \subseteq 1..Len(updates')
  BY <1>4 DEF TelegramInv
<1>. QED
  BY <1>2, <1>3, <1>4, <1>5, <1>6, <1>7, <1>8 DEF TelegramInv

LEMMA GetUpdatesKeepsInv ==
  ASSUME TelegramInv, GetUpdates
  PROVE  TelegramInv'
<1>1. Len(updates) \in Nat /\ confirmed \in 0..Len(updates) /\ lastUpdateId \in 0..Len(updates)
  BY LenProperties DEF TelegramInv
<1>2. Newest \in 0..Len(updates) /\ Newest >= lastUpdateId
  BY <1>1 DEF Newest
<1>3. PICK last \in Newest .. Len(updates) :
        batch' = {u \in Newest + 1 .. last : updates[u] # "malformed"}
  BY DEF GetUpdates
<1>4. /\ handling = 0 /\ confirmed' = Newest
      /\ UNCHANGED <<updates, lastUpdateId, handling, answers, restarts>>
  BY DEF GetUpdates, MayPoll
<1>5. Newest' = Newest
  BY <1>1, <1>2, <1>4 DEF Newest
<1>6. batch' \subseteq 1..Len(updates) /\ \A b \in batch' : b > Newest
  BY <1>1, <1>2, <1>3
<1>7. \A b \in batch' : \A u \in 1..b : u > Newest /\ updates[u] = "text" => u \in batch'
  BY <1>1, <1>2, <1>3
<1>. QED
  BY <1>2, <1>4, <1>5, <1>6, <1>7 DEF TelegramInv

LEMMA TakeKeepsInv ==
  ASSUME TelegramInv, TakeUpdate
  PROVE  TelegramInv'
<1>1. Len(updates) \in Nat /\ confirmed \in 0..Len(updates) /\ lastUpdateId \in 0..Len(updates)
  BY LenProperties DEF TelegramInv
<1>2. Newest \in 0..Len(updates) /\ Newest >= lastUpdateId /\ Newest >= confirmed
  BY <1>1 DEF Newest
<1>3. PICK next \in batch :
        /\ \A u \in batch : next <= u
        /\ batch' = batch \ {next}
        /\ lastUpdateId' = IF next > lastUpdateId THEN next ELSE lastUpdateId
        /\ handling' = IF next > lastUpdateId /\ updates[next] = "text" THEN next ELSE 0
  BY DEF TakeUpdate
<1>4. handling = 0 /\ UNCHANGED <<updates, confirmed, answers, restarts>>
  BY DEF TakeUpdate
<1>5. next \in 1..Len(updates) /\ next > Newest
  BY DEF TelegramInv
<1>6. lastUpdateId' = next /\ handling' = IF updates[next] = "text" THEN next ELSE 0
  BY <1>1, <1>2, <1>3, <1>5
<1>7. Newest' = next
  BY <1>1, <1>2, <1>4, <1>5, <1>6 DEF Newest
<1>8. batch' \subseteq 1..Len(updates) /\ \A b \in batch' : b > next
  BY <1>1, <1>3 DEF TelegramInv
<1>9. \A b \in batch' : \A u \in 1..b : u > next /\ updates[u] = "text" => u \in batch'
  <2>1. SUFFICES ASSUME NEW b \in batch', NEW u \in 1..b, u > next, updates[u] = "text"
                 PROVE  u \in batch'
    OBVIOUS
  <2>2. b \in batch /\ u > Newest
    BY <1>1, <1>2, <1>3, <1>5, <1>8, <2>1
  <2>3. u \in batch
    BY <2>1, <2>2 DEF TelegramInv
  <2>. QED
    BY <1>3, <1>5, <2>1, <2>3
<1>10. \A u \in 1..next : updates[u] = "text" => answers[u] > 0 \/ u = handling'
  <2>1. SUFFICES ASSUME NEW u \in 1..next, updates[u] = "text" PROVE answers[u] > 0 \/ u = handling'
    OBVIOUS
  <2>2. CASE u = next
    BY <1>6, <2>1, <2>2
  <2>3. CASE u <= Newest
    <3>1. u \in 1..Newest /\ u # 0
      BY <1>2, <1>5, <2>3
    <3>. QED
      BY <1>4, <2>1, <3>1 DEF TelegramInv
  <2>4. CASE u > Newest /\ u # next
    <3>1. u \in batch
      BY <2>1, <2>4 DEF TelegramInv
    <3>. QED
      BY <1>3, <1>5, <2>4, <3>1
  <2>. QED
    BY <1>2, <1>5, <2>2, <2>3, <2>4
<1>11. \A u \in 1..Len(updates) :
         answers[u] <= restarts + (IF u <= next /\ u # handling' THEN 1 ELSE 0)
  <2>1. SUFFICES ASSUME NEW u \in 1..Len(updates)
                 PROVE  answers[u] <= restarts + (IF u <= next /\ u # handling' THEN 1 ELSE 0)
    OBVIOUS
  <2>2. /\ answers[u] <= restarts + (IF u <= Newest THEN 1 ELSE 0)
        /\ answers[u] \in Nat /\ restarts \in Nat
    BY <1>1, <1>4 DEF TelegramInv
  <2>3. u <= Newest => u <= next /\ u # handling'
    BY <1>2, <1>5, <1>6
  <2>. QED
    BY <2>2, <2>3
<1>12. handling' \in 0..Len(updates) /\ lastUpdateId' \in 0..Len(updates)
       /\ (handling' # 0 => handling' = lastUpdateId' /\ handling' > confirmed)
  BY <1>1, <1>2, <1>5, <1>6
<1>. QED
  BY <1>4, <1>7, <1>8, <1>9, <1>10, <1>11, <1>12 DEF TelegramInv

LEMMA HandleKeepsInv ==
  ASSUME TelegramInv, HandleMessage
  PROVE  TelegramInv'
<1>1. Len(updates) \in Nat /\ confirmed \in 0..Len(updates) /\ lastUpdateId \in 0..Len(updates)
      /\ restarts \in Nat
  BY LenProperties DEF TelegramInv
<1>2. /\ handling # 0 /\ handling' = 0 /\ answers' = [answers EXCEPT ![handling] = @ + 1]
      /\ UNCHANGED <<updates, confirmed, lastUpdateId, batch, restarts>> /\ Newest' = Newest
  BY DEF HandleMessage, Newest
<1>3. handling \in 1..Newest /\ handling \in 1..Len(updates)
  BY <1>1, <1>2 DEF TelegramInv, Newest
<1>4. /\ answers' \in [1..Len(updates) -> Nat]
      /\ answers'[handling] = answers[handling] + 1
      /\ \A u \in 1..Len(updates) : u # handling => answers'[u] = answers[u]
  BY <1>2, <1>3 DEF TelegramInv
<1>5. answers[handling] <= restarts /\ answers[handling] \in Nat
  BY <1>1, <1>3 DEF TelegramInv
<1>6. Newest \in 0..Len(updates)
  BY <1>1 DEF Newest
<1>7. \A u \in 1..Newest : updates[u] = "text" => answers'[u] > 0 \/ u = handling'
  <2>1. SUFFICES ASSUME NEW u \in 1..Newest, updates[u] = "text" PROVE answers'[u] > 0
    OBVIOUS
  <2>2. u \in 1..Len(updates)
    BY <1>1, <1>6
  <2>3. CASE u = handling
    BY <1>4, <1>5, <2>3
  <2>4. CASE u # handling
    BY <1>4, <2>1, <2>2, <2>4 DEF TelegramInv
  <2>. QED
    BY <2>3, <2>4
<1>8. \A u \in 1..Len(updates) :
        answers'[u] <= restarts + (IF u <= Newest /\ u # handling' THEN 1 ELSE 0)
  <2>1. SUFFICES ASSUME NEW u \in 1..Len(updates)
                 PROVE  answers'[u] <= restarts + (IF u <= Newest /\ u # 0 THEN 1 ELSE 0)
    BY <1>2
  <2>2. CASE u = handling
    BY <1>1, <1>3, <1>4, <1>5, <2>2
  <2>3. CASE u # handling
    BY <1>1, <1>4, <2>1, <2>3 DEF TelegramInv
  <2>. QED
    BY <2>2, <2>3
<1>. QED
  BY <1>1, <1>2, <1>4, <1>7, <1>8 DEF TelegramInv

LEMMA RestartKeepsInv ==
  ASSUME TelegramInv, Restart
  PROVE  TelegramInv'
<1>1. Len(updates) \in Nat /\ confirmed \in 0..Len(updates) /\ lastUpdateId \in 0..Len(updates)
      /\ restarts \in 0..MaxRestarts /\ MaxRestarts \in Nat
  BY LenProperties, TelegramAssumption DEF TelegramInv
<1>2. /\ restarts < MaxRestarts /\ restarts' = restarts + 1
      /\ lastUpdateId' = 0 /\ batch' = {} /\ handling' = 0
      /\ UNCHANGED <<updates, confirmed, answers>>
  BY DEF Restart
<1>3. Newest' = confirmed
  BY <1>1, <1>2 DEF Newest
<1>4. \A u \in 1..confirmed : updates[u] = "text" => answers[u] > 0
  <2>1. SUFFICES ASSUME NEW u \in 1..confirmed, updates[u] = "text" PROVE answers[u] > 0
    OBVIOUS
  <2>2. u \in 1..Newest /\ ~(handling # 0 /\ u = handling) /\ u # 0
    BY <1>1 DEF Newest, TelegramInv
  <2>. QED
    BY <2>1, <2>2 DEF TelegramInv
<1>5. \A u \in 1..Len(updates) : answers[u] <= restarts + 1 /\ answers[u] \in Nat
  <2>1. SUFFICES ASSUME NEW u \in 1..Len(updates) PROVE answers[u] <= restarts + 1 /\ answers[u] \in Nat
    OBVIOUS
  <2>2. /\ answers[u] \in Nat
        /\ answers[u] <= restarts + (IF u <= Newest /\ u # handling THEN 1 ELSE 0)
    BY DEF TelegramInv
  <2>. QED
    BY <1>1, <2>2
<1>6. \A u \in 1..Len(updates) :
        answers[u] <= restarts' + (IF u <= Newest' /\ u # handling' THEN 1 ELSE 0)
  BY <1>1, <1>2, <1>5
<1>. QED
  BY <1>1, <1>2, <1>3, <1>4, <1>6 DEF TelegramInv

\* However updates arrive, calls fail and the bot restarts, what is newer than
\* everything taken is still to come, and what is not newer was answered.
THEOREM TelegramInvariant == TelegramSpec => []TelegramInv
<1>1. TelegramInv /\ [TelegramNext]_telegramVars => TelegramInv'
  <2>. SUFFICES ASSUME TelegramInv, [TelegramNext]_telegramVars PROVE TelegramInv'
    OBVIOUS
  <2>1. CASE UNCHANGED telegramVars
    BY <2>1 DEF telegramVars, TelegramInv, Newest
  <2>. QED
    BY <2>1, ArrivalKeepsInv, GetUpdatesKeepsInv, TakeKeepsInv, HandleKeepsInv, RestartKeepsInv
    DEF TelegramNext, UpdateKinds
<1>. QED
  BY <1>1, TelegramInvInit, PTL DEF TelegramSpec

\* The ids that start_polling and the service keep are ids of updates.
THEOREM BotStaysTyped == TelegramSpec => []TelegramTypeOK
<1>1. TelegramInv => TelegramTypeOK
  BY LenProperties DEF TelegramInv, TelegramTypeOK, UpdateKinds
<1>. QED
  BY <1>1, TelegramInvariant, PTL

\* No text of an allowed user is dropped by the service before the bot handled it,
\* and none is answered again but after a restart.
THEOREM ConfirmedWereHandled == TelegramSpec => []ConfirmedAreHandled
<1>1. TelegramInv => ConfirmedAreHandled
  <2>. SUFFICES ASSUME TelegramInv, NEW u \in DOMAIN updates
                PROVE  /\ u <= confirmed /\ updates[u] = "text" => answers[u] > 0
                       /\ answers[u] <= 1 + restarts
    BY DEF ConfirmedAreHandled
  <2>1. u \in 1..Len(updates) /\ Len(updates) \in Nat
    BY LenProperties DEF TelegramInv
  <2>2. ASSUME u <= confirmed, updates[u] = "text" PROVE answers[u] > 0
    <3>1. u \in 1..Newest /\ ~(handling # 0 /\ u = handling) /\ u # 0
      BY <2>1, <2>2 DEF Newest, TelegramInv
    <3>. QED
      BY <2>2, <3>1 DEF TelegramInv
  <2>3. answers[u] <= restarts + (IF u <= Newest /\ u # handling THEN 1 ELSE 0)
        /\ answers[u] \in Nat /\ restarts \in Nat
    BY <2>1 DEF TelegramInv
  <2>. QED
    BY <2>2, <2>3
<1>. QED
  BY <1>1, TelegramInvariant, PTL
=============================================================================
