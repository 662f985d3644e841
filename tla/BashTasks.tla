----------------------------- MODULE BashTasks -----------------------------
(***************************************************************************)
(* BashTool of kn-code-tools/src/bash.rs: the processes it starts, and the *)
(* list of background tasks behind its mutex.  The server holds one tool   *)
(* for all its runs, so calls overlap.  kill_background_tasks keeps the    *)
(* mutex across its awaits; everything else holds it for one step.  The    *)
(* list is the set of its tasks, whose order decides nothing but which of  *)
(* the drained ones is killed next.                                        *)
(***************************************************************************)
EXTENDS Naturals, FiniteSets

CONSTANTS
  Shells,            \* callers of the tool, one call at a time each
  Children,          \* processes, each spawned once
  BackgroundLimit,   \* MAX_BACKGROUND_TASKS
  MaxSpawnFailures, MaxKillAlls   \* bounds

ASSUME BashAssumption ==
  BackgroundLimit \in Nat \ {0} /\ MaxSpawnFailures \in Nat /\ MaxKillAlls \in Nat

VARIABLES
  process,    \* unborn, running or exited, per child
  tracked,    \* background_tasks
  stale,      \* the tracked tasks started more than an hour ago
  signalled,  \* the children a SIGKILL was sent to
  killing,    \* kill_background_tasks: the drained tasks it has not killed yet
  awaited,    \* kill_background_tasks: whose exit it waits for, {} if none
  call,       \* where each caller is
  child,      \* the child of a foreground call
  escaped,    \* foreground children whose call returned, or was dropped, before them
  background, \* the children started in the background, for the properties
  dropped,    \* the tool is gone
  used        \* how often each bounded thing happened

bashVars == <<process, tracked, stale, signalled, killing, awaited, call, child,
              escaped, background, dropped, used>>

Running == {x \in Children : process[x] = "running"}
Unborn == {x \in Children : process[x] = "unborn"}

BashTypeOK ==
  /\ process \in [Children -> {"unborn", "running", "exited"}]
  /\ tracked \subseteq Children /\ stale \subseteq tracked
  /\ signalled \subseteq Children /\ escaped \subseteq Children /\ background \subseteq Children
  /\ killing \subseteq Children /\ awaited \subseteq Children
  /\ Cardinality(awaited) <= 1
  /\ call \in [Shells -> {"idle", "reaping", "registering", "waiting"}]
  /\ child \in [Shells -> SUBSET Children] /\ \A s \in Shells : Cardinality(child[s]) <= 1
  /\ dropped \in BOOLEAN
  /\ used \in [{"failures", "kills"} -> Nat]

BashInit ==
  /\ process = [x \in Children |-> "unborn"]
  /\ tracked = {} /\ stale = {} /\ signalled = {}
  /\ killing = {} /\ awaited = {}
  /\ call = [s \in Shells |-> "idle"] /\ child = [s \in Shells |-> {}]
  /\ escaped = {} /\ background = {} /\ dropped = FALSE
  /\ used = [failures |-> 0, kills |-> 0]

KillsInProgress == killing # {} \/ awaited # {}
LockFree == ~KillsInProgress

killVars == <<killing, awaited>>

----------------------------------------------------------------------------
(* run_in_background *)

StartBackground(s) ==
  /\ ~dropped /\ call[s] = "idle"
  /\ call' = [call EXCEPT ![s] = "reaping"]
  /\ UNCHANGED <<process, tracked, stale, signalled, killVars, child, escaped, background,
                 dropped, used>>

\* Mutant: a stale task is forgotten without being killed.
Reaped_Alive == {}

\* The stale tasks that reap_dead_tasks kills: start_kill, without waiting.
Reaped == stale

\* reap_dead_tasks: retain_mut over the list.
Reap(s) ==
  /\ call[s] = "reaping" /\ LockFree
  /\ signalled' = signalled \cup Reaped
  /\ tracked' = (tracked \ stale) \cap Running
  /\ stale' = {}
  /\ call' = [call EXCEPT ![s] = "registering"]
  /\ UNCHANGED <<process, killVars, child, escaped, background, dropped, used>>

Answer(s) == call' = [call EXCEPT ![s] = "idle"]

\* Mutant: one more than the limit.
MayRegister_OneMore == Cardinality(tracked) <= BackgroundLimit

MayRegister == Cardinality(tracked) < BackgroundLimit

\* Too many tasks, a failing spawn, or a new child in the list.
Register(s) ==
  /\ call[s] = "registering" /\ LockFree /\ Answer(s)
  /\ \/ /\ ~MayRegister
        /\ UNCHANGED <<process, tracked, background, used>>
     \/ /\ MayRegister /\ used.failures < MaxSpawnFailures
        /\ used' = [used EXCEPT !.failures = @ + 1]
        /\ UNCHANGED <<process, tracked, background>>
     \/ /\ MayRegister
        /\ \E x \in Unborn :
             /\ process' = [process EXCEPT ![x] = "running"]
             /\ tracked' = tracked \cup {x}
             /\ background' = background \cup {x}
        /\ UNCHANGED used
  /\ UNCHANGED <<stale, signalled, killVars, child, escaped, dropped>>

----------------------------------------------------------------------------
(* A foreground command: output() under a timeout *)

StartForeground(s) ==
  /\ ~dropped /\ call[s] = "idle"
  /\ \E x \in Unborn :
       /\ process' = [process EXCEPT ![x] = "running"]
       /\ child' = [child EXCEPT ![s] = {x}]
  /\ call' = [call EXCEPT ![s] = "waiting"]
  /\ UNCHANGED <<tracked, stale, signalled, killVars, escaped, background, dropped, used>>

ForegroundEnds(s) ==
  /\ call[s] = "waiting" /\ child[s] \cap Running = {}
  /\ child' = [child EXCEPT ![s] = {}] /\ Answer(s)
  /\ UNCHANGED <<process, tracked, stale, signalled, killVars, escaped, background,
                 dropped, used>>

\* The timeout expires, or the run's task is dropped: output() is dropped with
\* its child, which runs on because kill_on_drop is not set.
ForegroundLeft(s) ==
  /\ call[s] = "waiting"
  /\ escaped' = escaped \cup (child[s] \cap Running)
  /\ child' = [child EXCEPT ![s] = {}] /\ Answer(s)
  /\ UNCHANGED <<process, tracked, stale, signalled, killVars, background, dropped, used>>

----------------------------------------------------------------------------
(* kill_background_tasks *)

KillAll ==
  /\ ~dropped /\ LockFree /\ tracked # {} /\ used.kills < MaxKillAlls
  /\ used' = [used EXCEPT !.kills = @ + 1]
  /\ killing' = tracked /\ tracked' = {} /\ stale' = {}
  /\ UNCHANGED <<process, signalled, awaited, call, child, escaped, background, dropped>>

\* kill(): the signal; the await on the exit follows.
KillOne ==
  /\ awaited = {}
  /\ \E x \in killing :
       signalled' = signalled \cup {x} /\ awaited' = {x} /\ killing' = killing \ {x}
  /\ UNCHANGED <<process, tracked, stale, call, child, escaped, background, dropped, used>>

Killed ==
  /\ awaited # {} /\ awaited \cap Running = {} /\ awaited' = {}
  /\ UNCHANGED <<process, tracked, stale, signalled, killing, call, child, escaped,
                 background, dropped, used>>

----------------------------------------------------------------------------
(* The rest *)

ChildExits(x) ==
  /\ process[x] = "running" /\ process' = [process EXCEPT ![x] = "exited"]
  /\ UNCHANGED <<tracked, stale, signalled, killVars, call, child, escaped, background,
                 dropped, used>>

HourPasses(x) ==
  /\ x \in tracked \ stale /\ stale' = stale \cup {x}
  /\ UNCHANGED <<process, tracked, signalled, killVars, call, child, escaped, background,
                 dropped, used>>

\* Drop of the tool, after the last call: nobody can hold the mutex then, so
\* try_lock succeeds.
DropTool ==
  /\ ~dropped /\ LockFree /\ \A s \in Shells : call[s] = "idle"
  /\ dropped' = TRUE
  /\ signalled' = signalled \cup tracked /\ tracked' = {} /\ stale' = {}
  /\ UNCHANGED <<process, killVars, call, child, escaped, background, used>>

BashNext ==
  \/ \E s \in Shells :
       StartBackground(s) \/ Reap(s) \/ Register(s) \/ StartForeground(s)
         \/ ForegroundEnds(s) \/ ForegroundLeft(s)
  \/ KillAll \/ KillOne \/ Killed
  \/ \E x \in Children : ChildExits(x) \/ HourPasses(x)
  \/ DropTool

BashSpec == BashInit /\ [][BashNext]_bashVars

----------------------------------------------------------------------------
(* Properties *)

\* A process that runs and was not sent a SIGKILL is in the list, in the hands of
\* kill_background_tasks or of a call that waits for it; the only ones out of
\* reach are foreground commands that outlived their call (bash.rs: the list, its
\* reaping, its limit and Drop).
OnlyTimeoutsEscape ==
  Running \subseteq signalled \cup escaped \cup tracked \cup killing
                      \cup UNION {child[s] : s \in Shells}

\* With calls that check the limit while others reap and register, never more than
\* BackgroundLimit commands started in the background run unkilled, the ones no
\* longer listed included (bash.rs: MAX_BACKGROUND_TASKS).
BackgroundIsBounded ==
  Cardinality((Running \cap background) \ signalled) <= BackgroundLimit

\* The tool always knows the processes it has to answer for, and they are few.
ProcessesAreAccounted == OnlyTimeoutsEscape /\ BackgroundIsBounded
============================================================================
