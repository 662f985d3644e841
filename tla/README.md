# kn-code in TLA+

A verification development for kn-code, the agent server in `src/`: TLA+
modules of the parts whose behaviour over time is the program's own, TLC
configurations that check them on small instances, and proofs, checked by
TLAPS, that the most important properties hold for every instance.

Paths below are relative to `src/crates/` unless they begin with `specs/` (the
repository's own design documents). "Line" numbers are those of the commit in
`src/`.

## 1. The system

kn-code runs coding agents. A client posts a prompt; the server stores it in a
session on disk, spawns a task that talks to a model provider, executes the
tools the model asks for, and appends everything to the session's transcript.
Around that core there are an atomic multi-file edit library, a NATS bridge
between agents, a permission engine, a token store, and front ends (Telegram,
voice, WebSocket, CLI).

### Inventory

| Component | State it keeps | Operations | Interacts with | What is hard |
|---|---|---|---|---|
| Session store, locks (`kn-code-session/src/store.rs` 37-60) | table session -> `Arc<Mutex>`, pruned above 10 000 entries | `get_session_lock`, guard drop | every store operation | pruning races with clones; futures dropped while waiting or holding |
| Session store, records (167-243) | `session.json`, `session.json.tmp` | `create_session`, `load_session`, `update_session_state`, `update_session_stats` | run and cancel routes, runner | read-modify-write; write job that outlives its future; crash before the rename |
| Session store, transcript (101-165) | `messages.jsonl` | `append_message`, `load_messages` | runner, run route | append is not atomic; size limit; readers beside a writer |
| Agent runner (`kn-code-session/src/runner.rs`) | the run's copy of the conversation, turn counter | `run` | store, provider, tools, compactor | cancel at any moment; errors in the middle of a turn; resume |
| Compactor (`compact.rs`) | none | `compact` | runner | the cut between a tool call and its result |
| Run and session routes (`kn-code-server/src/routes/run.rs`, `sessions.rs`) | `running_sessions` | `run_agent`, `cancel_session`, reads | store, runner | check-then-insert; early returns and panics of the spawned task |
| Staging area (`kn-code-atomic/src/staging.rs`) | staged changes, staged files, backups | `stage`, `commit`, `rollback` | file tools | a copy fails, then the copy back fails; interruption between files |
| Journal (`kn-code-atomic/src/journal.rs`) | one file per transaction, marker files | `write`, `mark_committed`, `mark_rolled_back`, `load_incomplete`, `purge_old` | whoever runs transactions | purge and load beside writers, no lock; crash |
| File tools (`kn-code-tools/src/file_edit.rs`, `file_write.rs`, `file_read.rs`) | files of the working directory, temporary files | edit, write, read | runners of several sessions | read-modify-write by two sessions; interrupted writes; offsets and limits a model chose |
| Bash tool (`bash.rs`) | list of background tasks, child processes | foreground and background calls, reaping, `kill_background_tasks`, `Drop` | runners | the limit under concurrent calls; a timeout whose child runs on |
| Permission rules (`kn-code-permissions/src/rules.rs`) | mode, three lists of rules | `add_*_rule`, `resolve_permission` | tools | which rule wins |
| Token store (`kn-code-auth/src/token_store.rs`) | salt file, one encrypted file per provider | open, `store`, `load`, `delete` | server and CLI, separate processes | two processes that start together; a write that is cut short |
| Providers (`kn-code-providers/`) | one call: attempt, buffer, channel | `chat`, `chat_stream`, `verify_credentials` | runner | retry after a partial answer; chunks that cut lines and characters; conversion of the conversation |
| NATS connection, subscriptions, transport (`connection.rs`, `subscribe.rs`, `nats_transport.rs`) | client and stream handles, subscription tasks, cancel token | connect, disconnect, subscribe, `agent_claim` | broker, other agents | two locks for one connection; a task delivered as its claimer gives up |
| NATS registry, streams, gate (`agent.rs`, `jetstream.rs`, `permission.rs`, `nats_tools.rs`) | capabilities, heartbeat task, consumer | announce, heartbeat, discover, `js_publish`, `js_consume`, `request_permission` | broker, supervisor | heartbeat against announce; acknowledged and lost; a late answer |
| Rate limiter (`middleware/rate_limit.rs`) | token bucket per client | `rate_limit_middleware` | every route | boundary at one token, forgotten clients |
| WebSocket handler (`ws.rs`) | two tasks around a bounded channel | receive, reply, close | client, session store | a client that does not read |
| Telegram (`telegram.rs`) | last update id | poll, handle | Telegram's service | failed polls, restarts |
| File history, recovery manager, headless control, voice, plugins, OAuth, classifiers, settings, CLI, SDK | see section 7 | | | |

`PROJECT.json` has the same inventory with the source files of each component
and what is modelled of it, and a list of hazards: every place we found where
something hard to test can go wrong, with the property that watches it.

### What makes each modelled component correct

* **Locks.** No two operations of one session overlap, although its entry in
  the table may be pruned and made again; the table stays bounded; every
  operation returns.
* **Records.** An update that returns `Ok` is the one that took effect;
  concurrent updates behave as if each were one step; `session.json` is whole at
  every moment.
* **Transcript.** An interrupted append costs at most one acknowledged message;
  a reader never sees half an append; the size limit holds within one line.
* **Runner.** Cancel stops the loop; what is sent to the provider is complete
  (each tool call answered) and durable; the record ends in a terminal state;
  the run ends.
* **Routes.** One run per session; CONFLICT only when there is a reason.
* **Staging.** All or nothing on errors, and no original destroyed by an
  interruption; a rollback that fails itself loses one file, not all.
* **Journal.** Recovery finds all that is unresolved and revives nothing that
  is resolved.
* **File tools.** No target ever holds part of a write; a call that returns `ok`
  installed its own content; a read returns the lines asked for.
* **Bash tool.** Every running child is known to somebody who can kill it or was
  told to die, except commands that outlived their call; the background is
  bounded however calls overlap.
* **Permissions.** A rule that denies or asks never makes a request more
  permissive, one that allows never makes one less so, from whatever source.
* **Token store.** What a process loads is what the last store of any process
  left, while no two wrote at once.
* **Providers.** However the network cuts and ends a stream, its events arrive in
  order and an incomplete one does not look complete; nothing is retried of which
  the caller has seen a part; each call and each result of a conversation is sent.
* **NATS.** One agent gets a task; a heartbeat does not bring replaced
  capabilities back; a message is acknowledged only when its call has it.
* **Rate limiter.** No interval lets through more than a full bucket and its
  refill; whoever waits for a token is let through.
* **WebSocket.** Each text and ping is answered once and in its turn.
* **Telegram.** Only handled updates are confirmed.

## 2. Modules

| Module | Models | Composition |
|---|---|---|
| `SessionLocks` | the lock table of `store.rs` | base of the two below; has a `Spec` of its own |
| `SessionRecords` | what `session.json` promises: atomic operations on a function from sessions to records | abstract specification |
| `SessionStore` | record operations, one action per `await`; dropped futures; crashes | EXTENDS `SessionLocks`, implements `SessionRecords` |
| `Transcript` | `append_message`, `load_messages` | EXTENDS `SessionLocks` |
| `AgentRunner` | `AgentRunner::run` with the compactor | the store's operations as single steps |
| `RunServer` | run and cancel routes, the spawned task, restart | EXTENDS `AgentRunner`, the whole of it being one disjunct of `TaskStep` |
| `StagingArea` | stage, commit, rollback | |
| `Journal` | the journal | |
| `FileTools` | `FileEdit`, `FileWrite`, `FileRead` of several sessions | |
| `TokenStore` | `FileTokenStore` in several processes | |
| `Permissions` | rules, modes, `resolve_permission` | |
| `BashTasks` | foreground and background commands | |
| `ProviderWire` | requests and responses of the four clients, parsers of streamed lines | operators only |
| `ProviderClient` | a call with its retries, its stream, its channel | EXTENDS `ProviderWire` |
| `NatsSubscriptions` | connect, disconnect, subscribe; `agent_claim` | |
| `NatsAgents` | registry and heartbeat; JetStream; permission gate | three independent parts |
| `RateLimiter` | token buckets in discrete time | |
| `WebSocket` | one connection, client and two tasks | |
| `Telegram` | the polling loop and the service | |
| `MCFiles` | composes `Transcript`, `StagingArea`, `Journal`, `FileTools`, `TokenStore` for one run | EXTENDS them (through `MCStagingArea`, `MCFileTools`) |
| `MCServices` | composes the parts from `Permissions` to `Telegram` for one run | EXTENDS them |
| other `MC*` | symmetry sets and the like for TLC | each EXTENDS its module |
| `*Proofs` | theorems, one module per group of components | each EXTENDS what it is about and `TLAPS` |

The two composed modules hold parts that share no file, no lock and no channel.
What another part does is therefore a stutter for each of them, and a property
of one part holds in the product exactly if it holds in the part: a behaviour of
`FilesSpec` or `ServicesSpec` picks the one part that moves (the variable
`part`), and the others keep an initial state. That explores the sum of the
parts' state spaces in place of their product, and loses nothing. That the
composed specification implies the specification of each part is proved
(`FilePartsKeepToThemselves`, `PartsKeepToThemselves`), so what is proved of a part
holds of the composition (`FilesKeepTheirPromises`, `ServicesKeepTheirPromises`).

The runner uses the store's operations as single steps. For the records that is
what `ImplementsRecords` is about (proved when no future is dropped, section 5);
for the transcript it is what `ReadersSeeWholeLines` and `LossIsBounded` are
about. The runner's own future is a spawned task, which nothing drops, so the
`Droppable` futures of the store are those of HTTP handlers.

### State and actions against the code

**SessionLocks.** `locks` is `write_locks`; `arc[t]` the `Arc` clone in the
local `lock` of an operation; `owner[l]` says whose `MutexGuard` is alive.
`GetSessionLock` is the whole of `get_session_lock`: insert, count the
references, prune half of the table (any stale half, for a `HashMap` iterates
in any order). `DropFuture` is the end of an operation, by return or by drop.
An element of `LockIds` nothing refers to is a mutex not yet allocated.

**SessionStore.** `Begin`, `Enter`, `ReadRecord`, `WriteTmp`, `RenameTmp` are
the awaits of `update_session_state` and `update_session_stats`. `Drop` is the
drop of a handler's future by `TimeoutLayer` or a disconnect; the job it had
handed to a blocking thread goes into `orphans` and runs later. `Crash` loses
locks and tasks, keeps the disk, and may tear the temporary file being written.
`tokio::fs::write` is one step: it truncates and writes, and nothing else looks
at the temporary file in between unless an orphan does, which is why
`RecordFileIsWhole` is claimed only without dropped futures.

**Transcript.** A file is a sequence of chunks: bodies, newlines, broken
pieces. A line that fits the `BufWriter` is one write; a longer one is two.
`cuts` counts interrupted appends, for `LossIsBounded`.

**AgentRunner, RunServer.** One `pc` per request: it walks through the handler
(`prompting`, `checking`, `inserting`), then through the spawned task. `context`
is `all_messages`; `transcript` is the file. A message is who wrote it, in
which run, and how many tool calls it has; `Compact` works on those. A panic in
the compactor (a slice inside a character) and an unknown provider both leave
the task's session in `running_sessions`: `leaked`. `cancelled` and `lateChats`
are history variables for `CancelStopsTheLoop`.

**StagingArea.** `disk` and `area` are the targets and `base_dir`; `backup` the
backup files, `order` and `next` the loops. Every copy may fail and leave its
destination torn. `start`, `lost` and `result` are history variables: what the
targets held before the commit, and the targets whose copy back failed.

**Journal.** The directory is a set of files; a load and a purge walk it entry
by entry while others write and mark. A directory that is being read may or may
not return an entry made or removed meanwhile. `old` is what lies before the
cutoff; `before` is a history variable.

**FileTools.** One call per agent at a time; `fpc` is its await: read, open the
temporary file, write it, rename. `tree` is the working directory, `temp` the
temporary files, each named by a fresh UUID. `Shutdown` ends all calls wherever
they are, `Change` is an editor or a command, `known` what a session last saw. A
file is a sequence of tokens, so that `replace` and `replacen`, the count of
occurrences and the slice of lines are what they are in the code. `Targets`
includes paths outside the directory and ones without a parent, which
`normalize_path` refuses.

**TokenStore.** Paths name inodes, since a process may hold a file that another
has renamed: `CreateSalt` and `FillSalt` are the two halves of a write,
`InstallSalt` the rename, `RereadSalt` the reading again after a failed
installation. A token is the salt its key was made from and its value: it can be
read with that salt only.

**BashTasks.** `Reap` forgets the tasks that have exited and kills those older
than an hour; `Register` checks the limit, spawns and lists under the mutex;
between the two other calls come in. `ForegroundLeft` is the timeout or the drop of
a foreground call: its child runs on, in `escaped`. `KillAll`, `KillOne`, `Killed`
are `kill_background_tasks`, which keeps the mutex while it waits for each exit.

**Permissions.** `Resolve` is `resolve_permission`: a list of conditions with
their verdicts, the first that applies deciding, as the early returns do. A
request is what the matching looks at: what arguments start with, what the path
contains, what expressions match.

**ProviderWire, ProviderClient.** A message is a role and a list of blocks; a
streamed body a sequence of bytes, of which those that matter to the parsers
have their own letter, two bytes of one character among them. `ReadChunk` takes
any number of bytes; `ChunkFails` ends the body; `Send`, `Receive`, `Leave` are the
bounded channel. The four clients have an action each where their code differs
and share the definition where it is the same text.

**NatsSubscriptions.** `stage` is where a user's connect or disconnect is, one
step per lock. A claimer's subscription holds an inbox, its task a channel with one
place. The broker gives a message to one member of the group it has then, and
forgets it.

**NatsAgents.** `Heartbeat` reads the capabilities under the guard it keeps
until the bucket is written; an announce waits for it. `JetStreamConsumeTool`
fetches a batch, and each message is collected, then acknowledged; a failing
`info()` or a dropped call leaves what was acknowledged in `forgotten`.

**RateLimiter.** A tick is a part of the time a token takes to be refilled and
tokens are counted in ticks. `credit` and `waited` are history variables: what a
bucket that is never forgotten would hold, and the time since a request passed.

**WebSocket.** `ReadMessage`, `PushReply` are the receiving task, `TakeReply`,
`WriteReply` the sending one; `Write`, `See`, `GoAway` the client. The network
has room for `WireRoom` replies.

**Telegram.** `GetUpdates` confirms what is below its offset and returns any
prefix of the rest, none if the answer is lost. A restart forgets the offset; the
service remembers what was confirmed.

## 3. Runs

| Run | Question | Instance |
|---|---|---|
| `store_safety` | do locking, pruning and rename make updates atomic, over a crash? | 3 sessions, 2 tasks, prune above 1 entry, 2 states x 2 turn counts, 1 crash |
| `store_liveness` | does every operation return? | 2 sessions, a droppable task, 1 drop, 1 crash |
| `store_dropped` | does an update that returns `Ok` take effect although another was dropped? **No** | 1 session, 2 tasks, 1 drop |
| `server_safety` | runs, cancels, compaction, every reply | 2 requests for 1 session, 2 turns of 2 calls, 2 messages kept, 1 cancel |
| `server_faults` | do runs end? | 2 requests, 2 sessions, 1 storage failure or restart |
| `server_double` | one run per session with two requests at once? **No** | 2 requests |
| `server_turns_saved` | are the statistics of a run saved? **No** | 1 run, 1 turn |
| `files_safety` | is what is kept in files whole, found again and the caller's own, with errors, interruptions and crashes? | transcript: 3 messages, one longer than the buffer, limit 3 chunks, 2 faults; staging: 2 files, write or delete, 1 failing stage, 2 failing copies, 1 interruption; journal: 2 transactions, 2 loads, 1 purge, 1 crash; file tools: 2 sessions, 3 paths, 2 calls, 1 failing write, 1 change from outside, 1 shutdown; token store: 2 processes, 2 stores, 1 delete, 1 disk error |
| `services_safety` | do the parts around a turn, and the ways in, keep their promises? | permissions: 2 rules of 6 kinds from 2 sources, 8 requests, every mode; bash: 2 callers, 3 processes, limit 2; provider: 4 clients, 2 retries, chunks of every size, channel of 2; NATS: 2 users of the connection, 2 claimers, 2 tasks; 2 announces beside 2 beats; 3 messages in batches of 2; limiter: 2 clients, 2 tokens; WebSocket: 4 messages, 2 a minute, room for 1 reply; Telegram: 4 updates, 1 restart |
| `staging_restore` | does the rollback keep the original when it fails itself? **No** | 2 failing copies |
| `file_tools_stale` | does a write replace only what its session has read? **No** | 2 sessions |
| `token_salt` | do two stores opened together have one salt? **No** | 2 processes |

Runs with **No** are expected to find a violation; see section 6.

### Bounds, and why they are enough

* Three sessions and `PruneLimit = 1` make the table overflow while two
  operations are in flight: entries held, entries stale, and a session that
  comes back after its entry was pruned. At most three mutexes are referred to
  at a time with these values, so a fourth lock identity adds no state.
* `MaxCrashes`, `MaxDrops`, `MaxFaults`, `MaxInterrupts` bound how often trouble
  happens in one behaviour. One crash is enough to reach each state a crash can
  leave, because all volatile state is reset by it; a second would start again
  from such a state with one file more or less torn.
* Two transcript faults glue two lines in both possible ways, one after the
  other and to one another; the limit of three chunks is passed by both kinds of
  line.
* Two turns of two calls, keeping two messages, put the compactor's cut at every
  place relative to a call and its results, and the second run of a session
  starts from what the first left.
* Two paths are the first size at which a commit fails with one file done and
  one to come.
* None of these sizes is in a theorem: every invariant and action property of the
  passing runs is proved for all of them (section 5). The bounds matter for the
  properties listed there as only model-checked, and for the mutants.
* `MaxToolCalls = 2` with a change from outside interleaves a call at every await
  with another call, and with a change, on the same file. `UsizeLimit` is 3, so
  that offset and limit take every value and their sum overflows.
* Two processes at one salt file, each with two tries, reach each order of
  probing, writing and renaming; a file that is made gets the next inode.
* The streams of the provider's instances hold each kind of line once, an empty
  and an invalid event among them, and are cut at every place, by chunks of every
  size; a channel of two is filled by the events of one chunk.
* A token of two ticks makes half a token a state of its own; six ticks to
  forget a client are longer than a bucket takes to fill.
* Two claimers and two tasks are the first size at which one could get both, or
  both get one.
* `HandlerLimit = 1` is a client that waits for each answer before it sends the
  next request; `server_double` lifts that.
* Deadlock is checked in the runs of the store. It is not in the others: their
  requests, calls, loads and messages are bounded, and the system may stop because
  everything asked of it is done.

### Fairness

* `StoreFairSpec`: weak fairness of each await inside an operation (Tokio polls
  a woken task; a file operation returns) and strong fairness of `Enter`, since
  Tokio's `Mutex` is documented to queue its waiters in order. No fairness for
  calls, drops, orphans and crashes.
* `ServerFairSpec`: weak fairness of the spawned task only. Its provider call
  has a request timeout and its tools have theirs, so each await ends. Handlers
  have none: a client may disconnect at any await.

## 4. Mutants

Each property is paired in `PROJECT.json` with a mutant: the definition of a
plausible bug (a dropped guard, an off-by-one, a reset that is missing) that
takes the place of a definition of the model, and with which TLC finds the
property violated. Mutants stand beside the definition they replace, under a
name such as `Remove_Forgotten`, and are used nowhere else.

## 5. What is proved

The theorems hold for every value of the constants that satisfies the named
`ASSUME`s: any finite number of sessions, tasks, runs and transactions, any
limit, any length of what is written. Hypotheses beyond those `ASSUME`s are named
below, with what the code does where they fail. Each component has an inductive
invariant (`LocksInv`, `StoreInv`, ... ; the theorems called `...Invariant`), from
which its properties follow; `...StaysTyped` are the type invariants.

* **`SessionLocksProofs`**: `SessionsAreExclusive` (`MutualExclusion`),
  `PruningKeepsHeldLocks`. Mutual exclusion is not inductive: two tasks exclude one
  another only if they hold the *same* mutex. `LocksInv` therefore says that every
  clone is the one in the table for its session (`ClonesAreMapped`), that distinct
  sessions have distinct mutexes, and that a guard belongs to a task that still has
  its clone. The key lemma is about pruning: an entry with a strong count of at most
  one has no clone, so removing it disturbs nobody (this is where finite
  cardinalities are needed, cited from `FiniteSetTheorems`). `TableStaysBounded`
  (`TableIsBounded`) adds the counting: an entry that is not stale has a task of its
  own, which gives an injection from the live entries to the tasks; so either all
  that is stale goes and at most `Cardinality(Tasks)` remain, or half the table goes,
  which is more than the one entry the call added.
* **`SessionStoreProofs`**: `StoreIsTyped`, `StoreUsesLocks` (each step of the
  store is a step of the lock specification or a stutter), `StoreExcludes`,
  `StoreTableIsBounded`; and
  under `Droppable = {}` `RecordFilesAreWhole`, `NoUpdateIsLost` and
  `StoreImplementsRecords`, the refinement of `SessionRecords`. The argument:
  `StoreInv` ties the program counter to the guard (a task past `Enter` owns its
  mutex), from which, with mutual exclusion, `FreshInv` says that what a task
  has read is still the record on disk with its one field changed, and that the
  temporary file is its own when it renames. Without `Droppable = {}` the last
  is false, as `store_dropped` shows.
* **`TranscriptProofs`**: `EveryLossIsPaid` (`LossIsBounded`),
  `ReadersOnlySeeWholeLines`, `TranscriptsStayInTheirLimit`, with drops, failing
  writes, orphaned jobs and crashes, any number of each. `TranscriptInv` adds the
  locks' invariant (a task past `Enter` owns the mutex of its file), that nobody else
  has a message that is being appended, and, per session, an account (`LossAt`): the
  acknowledged messages that cannot be read back, the orphaned writes that may still
  spoil a line, and the line the next append would be glued to are together no more
  than the cuts, so that one interrupted append costs one acknowledged line at most.
* **`RunServerProofs`**: for any number of handlers `ServerStaysTyped` and
  `ContextsAreDurable`, and `RunsAnswerTheirCalls`, the part of
  `SentCallsAreAnswered` that a run can promise for itself: no call of its *own* is
  sent without its answer, which a restart or a failing write of another run cannot
  disturb. Under `HandlerLimit = 1` `SessionsRunOnce`, `RunsAreRegistered`,
  `CancelsStop`, `EndsAreRecorded`, `ConflictsAreReal` (two handlers at once break the
  first of these, as `server_double` shows), and with `MaxFaults = 0` also
  `SentCallsHaveAnswers`: a run that fails in the middle of a turn leaves its calls
  unanswered in the transcript, and the run that resumes the session sends them.
  `ServerInv` says that live runs are registered and distinct, that a request
  about to insert is the only one in a handler and its session is not registered,
  and that a run that was cancelled finds the terminal state in the record at its
  next check, so that one late provider call is the most there can be. `OwnInv`
  counts for each run the answers still to come at each `pc`. The key lemma about
  the compactor (`CompactKeepsTheTail`) says that what it returns is a lead of system
  messages followed by a tail of what it was given: such a context repeats no
  message and keeps, with each call, all the answers after it.
* **`AtomicProofs`**: of the journal `MarkersAreSeen` (`ResolvedStaysResolved`) and
  `IncompleteAreFound` (`LoadIsComplete`): a marker exists, or is old and swept,
  for each resolved transaction, and each written, unresolved, young transaction
  of the load's beginning is unseen, found, or being read. Of the staging area
  `OriginalsAreKept` (`OnlyFailedRestoresLose`) and `FailedCommitRestores`
  (`FailureRestores`), for any files and any number of failing copies and
  interruptions: per path, the target is untouched, or its backup holds what it had
  held, or it is in `lost`. `SuccessfulCommitInstalls` (`CommitInstallsStaged`) needs
  that no two targets have one file name (`IsInjective(NameOf)`): otherwise they
  share a staged file (section 6), and the second is installed for both.
* **`EdgeProofs`**: `BeatsAreFresh` (`HeartbeatsAreFresh`: the guard the heartbeat
  keeps makes "what is about to be written is what is announced" inductive),
  `NothingIsAcknowledgedUnseen` (`AcknowledgedIsCollected`), `TasksAreClaimedOnce`
  (`OneAgentGetsATask`: the tasks each claimer has, in its inbox, in its channel or
  claimed, are apart from those of the others and from the unpublished ones),
  `RatesAreExact` (`RateIsExact`: what an entry is worth lies between the time since
  a request passed and the credit of a bucket that is never forgotten; forgetting
  one keeps that because a new one holds a single token and the client waited longer
  than a token takes, the assumption `ClientTtl >= TokenTime`), `RepliesAreFaithful`
  (`RepliesFollowMessages`: what was written, what is in flight and what is queued
  are the answers to what was read, in that order) and `ConfirmedWereHandled`
  (`ConfirmedAreHandled`: the offset is one past the last update handled, and all
  updates of a batch up to it were handled, before and after a restart).
* **`ServicesProofs`**: `RulesPullTheirWay` (`RulesAreMonotone`, for every set of
  rules, sources and requests: a case for each early return of
  `resolve_permission`), `TasksAreAccounted` (`ProcessesAreAccounted`, with the bound
  on background tasks as a cardinality), `NothingIsSaidTwice` (`RetriesAreUnseen`),
  `NothingIsLeftOut` (`RequestsKeepTheConversation`) and the composition. A request
  is made of a conversation message by message and compared with it block by block:
  `Each` inside `Each`. The lemmas about `Bind`, which is `Each` for an operation
  given as data, say that it distributes over appended sequences and that two of
  them are one (`BindTwice`), so that the comparison is one message at a time, with
  a case for each role. `ConversationsAssumption` says of the conversations what
  `session_messages_to_provider` (`runner.rs` 457) makes: the kinds of blocks a
  message of each role has. A `tool_result` in a message of the user, say, would be
  replaced by an empty text in an OpenAI request, and the theorem would be false.
  `StreamsStayFaithful` (`StreamsAreFaithful`) is about bodies, chunks and channels of
  any length. The property says of a body what its lines are, and the code never sees
  a body: it has a buffer that chunks of any size fill. `FaithInv` cuts the body in
  three (`IsRead`): whole lines that were read, the bytes the buffer holds, and those
  ahead. What was sent are the events of the first part, the data lines kept are those
  of its last, open event, and the buffer is the second part but for characters a
  chunk boundary cut. A chunk moves bytes from the third part to the second, a line
  from the second to the first, and `LinesAddEvents` says what that line adds to the
  events. What was sent while the body is read is the beginning of what the whole body
  says (`EventsGrow`: bytes that follow never change the events of the lines before
  them), and all of it at the end of the body. Characters that were cut differ in the
  text of an event only: newlines, the marks of data and of fields are single bytes,
  so that lines and fields stand where they stood (`LinesAreAlike`, `EventsAreAlike`).
  After the task is over its events are followed by one error or complete, and a
  receiver that left is the one case in which the last event is dropped.
* **`FilesProofs`**: `CallsInstall` (`OkCallIsInstalled`). `CallsInv` carries the
  content from the await that chose it to the rename: the draft is the content
  given, or the replacement in what was read; from `renaming` on it is what the
  temporary file holds, which needs that no other call's temporary file has that
  name. Each action is one of three things, a call that returns, one that goes on or
  one that only touches its own temporary file, and each of these is one lemma.
  `TargetsAreWhole` (`FilesAreWhole`) and `ReadsAreExact` (`ReadReturnsTheLines`)
  add that every draft is a sequence of tokens, never a torn file. `StoredIsLoaded`
  (`LoadsReturnWhatWasStored`): `TokenInv` says which paths may hold a whole salt,
  which a piece of one, that a store uses the salt it installed or read, and that
  what a token was encrypted with is the salt of the store that made it, all as long
  as no two processes wrote at once and the disk held (`~raced`, the condition of the
  property: `token_salt` shows what happens otherwise). And the composition.

Induction over data cannot use the library's induction theorems, whose parameter
is an operator. Where a fact about a sequence of any length was needed, it is shown
by the least counterexample instead: the set of lengths at which it fails, if not
empty, has a minimum (`NatLessThanWellFounded`, `WFMin`), and the step before that
one contradicts it. `FlattenedIsASequence`, on which `TargetsAreWhole` rests, and
`SequencesAreAppended`, on which `NothingIsLeftOut` and `StreamsStayFaithful` do, are
of this kind: the latter is induction on a sequence, with the set of those that have a property in
place of the property.

Only model-checked:

* the liveness properties (`OperationsReturn`, `RunsFinish`), which TLAPS cannot
  prove;
* `SentCallsAreAnswered` with faults or several handlers, which is false there, and
  the properties of the runs expected to find a violation.

## 6. What the checks found

Disagreements that a run shows (`findings` in `PROJECT.json`):

1. `store.rs` 190: a dropped update leaves a write job behind that replaces the
   temporary file of the next update, whose caller is told `Ok`
   (`store_dropped`).
2. `routes/run.rs` 209: the check and the insert take the lock separately, so
   two requests start two runs of one session (`server_double`).
3. `runner.rs` 404: the future that saves the statistics is never awaited
   (`server_turns_saved`).
4. `staging.rs` 81: a rollback whose copy back fails removes the backup all the
   same (`staging_restore`).
5. `file_edit.rs` 172: `FileEdit` and `FileWrite` replace files their session has
   not read, or that changed since, against `specs/003` 487, 488 and 520
   (`file_tools_stale`).
6. `token_store.rs` 133: two processes that find no salt keep different ones,
   against the comment at 130 (`token_salt`). What one encrypts the others cannot
   read.

Others met while modelling. The model has the behaviour; no run is spent on it:

* A cancel answered during the last turn is overwritten by the run's own final
  state (`runner.rs` 236, 369, 382 against `specs/004` 150), and a resumed
  session keeps its old terminal state until the run ends (`run.rs` 263,
  `specs/004` 165).
* A session stays marked as running when its provider is unknown or the
  compactor panics (`run.rs` 223). `ConflictMeansRunning` names the case.
* A resumed run sends tool calls that were never answered if the first one
  failed in the middle of a turn; `RecoveryManager` (`recovery.rs` 112), written
  for that, is never called. `SentCallsAreAnswered` is checked without storage
  failures for that reason.
* An append is not atomic (`store.rs` 132 against `specs/007` 170); an
  interrupted one spoils the next. `LossIsBounded` says by how much.
* Two targets with one file name share a staged file (`staging.rs` 31), a stage
  that fails spoils an earlier one of the same file (33), deletion leaves an empty
  file (75 against `specs/005` 138), backups are left behind after an
  interruption (78 against `specs/005` 173), and the hash taken at staging is
  never compared (`specs/005` 134).
* A purge may remove a marker before its entry, so that a resolved transaction
  comes back (`journal.rs` 117 against `specs/005` 103), and removes unresolved
  ones (115 against `specs/005` 104). `ResolvedStaysResolved` and
  `LoadIsComplete` state exactly what is left.
* **File tools.** `normalize_path` makes an absolute path relative when its parent
  does not exist, so a write there is refused (`specs/003`: "Creates parent
  directories if needed"). The sum of `offset` and `limit` of a read overflows: a
  panic in a debug build. A temporary file is left behind by a write that fails or
  is dropped.
* **Permissions.** The sources' priorities decide nothing: any rule that denies
  wins (`rules.rs` 72: "Higher-priority sources override lower ones"). Mode `auto`
  denies whether a classifier is there or not (298: "Use classifier if enabled,
  otherwise allow"), and `acceptEdits` asks for destructive file tools (14:
  "Auto-accept file edits"). The runner never calls `resolve_permission`, and the
  updates a decision suggests are applied by nobody.
* **Bash.** A foreground command that times out runs on, known to nobody.
  `kill_background_tasks` has no caller; if its future were dropped, the children
  it had taken off the list would run on.
* **Token store.** The salt file is `tokens.enc`, which would also be the file of a
  provider called "tokens".
* **Providers.** The streams of the OpenAI-style clients give only the first event
  of a line, lose a last line without a newline and replace a character that a
  chunk cuts. `finish_reason` is looked for inside the message, where it is not, so
  the runner always takes the answer for the end of a turn. A status 529 is not
  retried (`specs/002`: "On 529: retry with backoff"). `chat_stream`,
  `verify_credentials` and `refresh_credentials` have no callers.
* **NATS.** `connect` beside `disconnect` may leave the client of one and the stream
  context of the other (`connection.rs` 70); after a disconnect the cancel token
  stays cancelled, so the tasks of the next connect end at once. `agent_claim` may
  give up with a task already on its way, which is then lost. `_msg_id` is not sent
  (`jetstream.rs` 110; `nats_tools.rs` 294 calls it the deduplication id). An answer
  to a permission request that comes late goes to an inbox nobody reads. Agents that
  are gone are discovered for ever. A second `start_heartbeat` would leave the first
  task running. Nothing in the repository constructs the transport or its tools.
* **Rate limiter.** The server does not give the middleware the clients' addresses
  (`server.rs` 228), so all share the bucket "unknown". A full bucket and its refill
  let nearly twice the configured number through in a minute (`specs/004` section 7:
  "Max requests per minute per client"). `max_concurrent` is read by nothing.
* **WebSocket.** A client that writes without reading blocks both tasks, and the
  idle timeout does not apply to that. Replies still queued are lost on a close. The
  messages are not those of `specs/004` section 4.
* **Telegram.** Updates are repeated after a restart rather than lost; an answer
  whose sending fails is not sent again. The requests have no timeout. Nothing
  starts the bot.

## 7. What is left out

* Power failures: a crash here is the death of the process, and what was written
  is on disk.
* Other programs that edit the files of a commit, or the session directory (the
  CLI on the store of a running server).
* In the journal, two owners of one transaction and two purges at a time.
* Text: prompts, summaries, hashes, paths, JSON, logging, the schemas of tools, the
  lists of models, what a reply on a WebSocket says, the output of commands.
* An empty `old_string`, files that are not UTF-8, and the rounding of the
  limiter's floating point.
* In NATS, the creation and deletion of streams and consumers, and `publish`,
  `request`, `kv_get`, `kv_put`, which pass one call on and keep nothing.

Components not modelled (`not_modelled` in `PROJECT.json`), and why:

* Nothing in the repository calls them, and each does one thing at a time: the
  recovery manager, the file history, headless control (its queue has no consumer).
* No behaviour of their own over time: session manager and prompt builder, the other
  routes and middleware, OAuth (one exchange per call), classifiers and sandbox (text
  patterns), other tools, settings, CLI, SDK, plugins (mostly stubs).
* Voice: nothing constructs a `VoiceManager`, and what it does is in programs it
  starts for recording, recognition and speech. A reading of it shows that an error
  in transcription or speech returns before the state goes back to idle
  (`manager.rs` 162-181, 187-204), so `is_available` stays false; that the listener
  task of the wake word is spawned before `active` is set (`wake_word.rs` 140,
  169-175) and may end at once; that a stop and a start within one chunk of 5
  seconds leave two listeners; and that both operations block once 100 events are
  queued that nobody takes.

## 8. Plan

Done, in this order: locks and records with their refinement; transcript; runner and
server; staging; journal; then file tools, token store, shell processes, permission
rules, provider calls, NATS, rate limiter, WebSocket and Telegram, with the two
composed runs; and the proofs of section 5.

What would come next, should the code grow there:

1. The connection handles of NATS, once the repository says what two callers of
   `connect` and `disconnect` may expect (the module has the interleaving already).
2. Voice, once something constructs a `VoiceManager`.
