----------------------------- MODULE MCServices -----------------------------
(* Instances for TLC of the parts around an agent's turn: the permission    *)
(* rules, the processes of the Bash tool, a call to a provider; NATS: the   *)
(* connection with agent_claim, the agent registry, JetStream, and the      *)
(* permission gate; and the ways in: the rate limiter, a WebSocket and the  *)
(* Telegram bot.  They share no state, so a behaviour here moves one part;  *)
(* the others keep one of their initial states.                             *)
EXTENDS Permissions, BashTasks, ProviderClient, NatsSubscriptions, NatsAgents,
        RateLimiter, WebSocket, Telegram, TLC

CONSTANTS git, dir, expr, edit, glob, remote, linear, cli, local

McpTools == {<<linear, remote>>}
Priorities == (cli :> 70) @@ (local :> 10)

\* A rule of every kind, ...
SomeRules ==
  {[kind |-> "tool_name", tool |-> edit], [kind |-> "tool_name", tool |-> glob],
   [kind |-> "tool_with_args", tool |-> edit, prefix |-> git],
   [kind |-> "path", tool |-> edit, pattern |-> dir],
   [kind |-> "regex", tool |-> remote, expression |-> expr],
   [kind |-> "mcp_wildcard", server |-> linear]}

Plain(tool) ==
  [tool |-> tool, object |-> TRUE, starts |-> {}, path |-> {}, matches |-> {}, headless |-> TRUE]

\* ... and requests that each of them matches and misses.
SomeRequests ==
  {Plain(tool) : tool \in ToolNames}
    \cup {[Plain(edit) EXCEPT !.starts = {git}], [Plain(edit) EXCEPT !.path = {{}}],
          [Plain(edit) EXCEPT !.object = FALSE, !.headless = FALSE],
          [Plain(edit) EXCEPT !.path = {{dir}}], [Plain(remote) EXCEPT !.matches = {expr}]}

\* A turn that thinks, speaks and calls two tools, and their results.
History ==
  {<<[role |-> "system", blocks |-> <<Block("text", 1)>>],
     [role |-> "user", blocks |-> <<Block("text", 2)>>],
     [role |-> "assistant", blocks |-> <<Block("text", 3), Block("thinking", 4),
                                        Block("tool_use", 5), Block("tool_use", 6)>>],
     [role |-> "tool", blocks |-> <<Block("tool_result", 5)>>],
     [role |-> "tool", blocks |-> <<Block("tool_result", 6)>>],
     [role |-> "assistant", blocks |-> <<Block("text", 7)>>]>>}

Bodies ==
  {[valid |-> FALSE, choices |-> FALSE, blocks |-> <<>>, stop |-> "none"],
   [valid |-> TRUE, choices |-> FALSE, blocks |-> <<>>, stop |-> "none"],
   [valid |-> TRUE, choices |-> TRUE, blocks |-> <<"empty", "tool_use">>, stop |-> "tool_use"]}

\* Streams with a ping, a wide character, an empty and an invalid event, a tool
\* call, a last line without its newline.
EventStreams ==
  {<<"p", "n", "d", "t", "w", "v", "n", "n", "d", "c", "n">>,
   <<"d", "b", "n", "n", "d", "p", "n", "n", "d", "u", "n", "n">>}
LineStreams ==
  {<<"d", "t", "w", "v", "n", "n", "d", "b", "n", "d", "c", "c", "n">>,
   <<"p", "n", "d", "t", "u", "n", "d", "u">>}

VARIABLE part   \* the part that moves

entryVars == <<rateVars, socketVars, telegramVars>>
turnVars == <<permissionVars, bashVars, providerVars, subscriptionVars, natsVars>>
servicesVars == <<part, turnVars, entryVars>>

ServicesTypeOK ==
  /\ PermissionsTypeOK /\ BashTypeOK /\ ProviderTypeOK /\ SubscriptionTypeOK /\ NatsTypeOK
  /\ RateTypeOK /\ SocketTypeOK /\ TelegramTypeOK

ServicesInit ==
  /\ part \in {"permissions", "bash", "provider", "subscriptions", "registry", "stream", "gate",
               "limiter", "socket", "telegram"}
  /\ PermissionsInit /\ BashInit /\ ProviderInit /\ SubscriptionInit /\ NatsInit
  /\ RateInit /\ SocketInit /\ TelegramInit
  /\ part # "permissions" => mode = "ask" /\ avoidPrompts
  /\ part # "provider" => provider = "anthropic"

TurnNext ==
  /\ UNCHANGED entryVars
  /\ \/ /\ part = "permissions" /\ PermissionsNext
        /\ UNCHANGED <<bashVars, providerVars, subscriptionVars, natsVars>>
     \/ /\ part = "bash" /\ BashNext
        /\ UNCHANGED <<permissionVars, providerVars, subscriptionVars, natsVars>>
     \/ /\ part = "provider" /\ ProviderNext
        /\ UNCHANGED <<permissionVars, bashVars, subscriptionVars, natsVars>>
     \/ /\ part = "subscriptions" /\ SubscriptionNext
        /\ UNCHANGED <<permissionVars, bashVars, providerVars, natsVars>>
     \/ /\ \/ part = "registry" /\ RegistryNext /\ UNCHANGED <<streamLogVars, gateVars>>
           \/ part = "stream" /\ StreamNext /\ UNCHANGED <<registryVars, gateVars>>
           \/ part = "gate" /\ GateNext /\ UNCHANGED <<registryVars, streamLogVars>>
        /\ UNCHANGED <<permissionVars, bashVars, providerVars, subscriptionVars>>

EntryNext ==
  /\ UNCHANGED turnVars
  /\ \/ part = "limiter" /\ RateNext /\ UNCHANGED <<socketVars, telegramVars>>
     \/ part = "socket" /\ SocketNext /\ UNCHANGED <<rateVars, telegramVars>>
     \/ part = "telegram" /\ TelegramNext /\ UNCHANGED <<rateVars, socketVars>>

ServicesNext == UNCHANGED part /\ (TurnNext \/ EntryNext)

ServicesSpec == ServicesInit /\ [][ServicesNext]_servicesVars
=============================================================================
