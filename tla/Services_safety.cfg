\* Permissions: two rules of any kind, from two sources, in every mode.
\* Bash: two callers, three processes, a limit of two in the background.
\* Provider: one call to each client, two retries, chunks of every size, a channel of two.
\* Subscriptions: two users of the connection, two claimers, two tasks.
\* Limiter: two clients, a bucket of two tokens, half a token per tick, forgotten after three.
\* Socket: four messages, two a minute, room for one reply. Telegram: four updates, a restart.
\* Registry, stream and gate: two announces beside two beats, three messages in two batches.
CONSTANTS
  git = git
  dir = dir
  expr = expr
  edit = edit
  glob = glob
  remote = remote
  linear = linear
  cli = cli
  local = local
  ToolNames = {edit, glob, remote}
  FileLike = {edit, glob}
  ReadOnly = {glob}
  Destructive = {edit}
  Servers = {linear}
  Owned <- McpTools
  Prefixed <- McpTools
  ArgumentPrefixes = {git}
  Patterns = {dir}
  Expressions = {expr}
  Broken = {}
  Sources = {cli, local}
  Priority <- Priorities
  RuleSet <- SomeRules
  RequestSet <- SomeRequests
  MaxRules = 2
  Shells = {h1, h2}
  Children = {x1, x2, x3}
  BackgroundLimit = 2
  MaxSpawnFailures = 1
  MaxKillAlls = 1
  Conversations <- History
  ResponseBodies <- Bodies
  AnthropicStreams <- EventStreams
  CompletionStreams <- LineStreams
  MaxRetries = 2
  Capacity = 2
  Users = {u1, u2}
  Subjects = {s1}
  Claimers = {c1, c2}
  TaskMessages = {m1, m2}
  MaxLinkCalls = 2
  Instances = {i1}
  Capabilities = {k1, k2}
  Ids = {d1}
  Batch = 2
  MaxAnnounces = 2
  MaxBeats = 2
  MaxPublishes = 3
  MaxConsumes = 2
  MaxBrokerFaults = 1
  Callers = {a1, a2}
  PerMinute = 2
  TokenTime = 2
  ClientTtl = 6
  ReplyRoom = 1
  PerMinuteLimit = 2
  WireRoom = 1
  MaxWritten = 4
  MaxUpdates = 4
  MaxRestarts = 1
  Nothing = Nothing
SPECIFICATION ServicesSpec
CHECK_DEADLOCK FALSE
INVARIANTS
  ServicesTypeOK
  ProcessesAreAccounted
  StreamsAreFaithful
  
  
  OneAgentGetsATask
  AcknowledgedIsCollected
  ConfirmedAreHandled
  RateIsExact
PROPERTIES
  
  RetriesAreUnseen
  HeartbeatsAreFresh
