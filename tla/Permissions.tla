---------------------------- MODULE Permissions ----------------------------
(***************************************************************************)
(* PermissionContext of kn-code-permissions/src/rules.rs: the rules and    *)
(* the mode of a session, the updates a decision suggests, and             *)
(* resolve_permission.  The order of the checks there decides between      *)
(* rules that disagree, wherever the rules came from.                      *)
(*                                                                         *)
(* A request is what the checks read of a tool call: its tool, the         *)
(* prefixes its string arguments start with, the patterns its path         *)
(* contains and the expressions its input matches.                         *)
(***************************************************************************)
EXTENDS Naturals, FiniteSets, Sequences

CONSTANTS
  ToolNames,
  FileLike,          \* the tools named File..., Glob and Grep
  ReadOnly, Destructive,     \* what the tools say of themselves
  Servers, Owned, Prefixed,  \* MCP servers; <<server, tool>> whose name starts with
                             \* mcp__<server>__, and with mcp__<server>
  ArgumentPrefixes, Patterns, Expressions,
  Broken,            \* the expressions that do not compile
  Sources,           \* PermissionRuleSource
  Priority,          \* PermissionRuleSource::priority
  RuleSet, RequestSet,   \* the rules and the requests of an instance
  MaxRules           \* bound on the rules of a context

VARIABLES
  mode,      \* PermissionContext::mode
  allowing, denying, asking,   \* the three lists of <<rule, source>>
  avoidPrompts   \* should_avoid_permission_prompts

permissionVars == <<mode, allowing, denying, asking, avoidPrompts>>

Modes == {"ask", "acceptEdits", "auto", "plan", "bypassPermissions"}

Rules ==
  [kind : {"tool_name"}, tool : ToolNames]
    \cup [kind : {"tool_with_args"}, tool : ToolNames, prefix : ArgumentPrefixes]
    \cup [kind : {"mcp_server", "mcp_wildcard"}, server : Servers]
    \cup [kind : {"path"}, tool : ToolNames, pattern : Patterns]
    \cup [kind : {"regex"}, tool : ToolNames, expression : Expressions]

\* path is the set of patterns contained in file_path, or in path; {} of it
\* when the input has neither.
Requests ==
  [tool : ToolNames, object : BOOLEAN, starts : SUBSET ArgumentPrefixes,
   path : {{}} \cup {{p} : p \in SUBSET Patterns}, matches : SUBSET Expressions,
   headless : BOOLEAN]

ASSUME PermissionsAssumption ==
  /\ FileLike \cup ReadOnly \cup Destructive \subseteq ToolNames
  /\ Owned \subseteq Prefixed /\ Prefixed \subseteq Servers \X ToolNames
  /\ Broken \subseteq Expressions
  /\ Priority \in [Sources -> Nat] /\ MaxRules \in Nat
  /\ RuleSet \subseteq Rules /\ RequestSet \subseteq Requests

PermissionsTypeOK ==
  /\ mode \in Modes
  /\ allowing \subseteq Rules \X Sources
  /\ denying \subseteq Rules \X Sources
  /\ asking \subseteq Rules \X Sources
  /\ avoidPrompts \in BOOLEAN

----------------------------------------------------------------------------
(* Matching *)

MatchesTool(rule, tool) ==
  CASE rule.kind = "mcp_server" -> <<rule.server, tool>> \in Prefixed
    [] rule.kind = "mcp_wildcard" -> <<rule.server, tool>> \in Owned
    [] OTHER -> rule.tool = tool

\* An input that is no object, or names no path, matches.
MatchesArgs(rule, request) ==
  CASE rule.kind = "tool_with_args" -> request.object => rule.prefix \in request.starts
    [] rule.kind = "path" -> \A patterns \in request.path : rule.pattern \in patterns
    [] rule.kind = "regex" -> rule.expression \in request.matches \ Broken
    [] OTHER -> TRUE

Matching(list, request) ==
  {entry \in list : MatchesTool(entry[1], request.tool) /\ MatchesArgs(entry[1], request)}

\* Mutant: only the deny rules of the highest source present are looked at, as
\* the comment on PermissionRuleSource has it.
IsDenied_ByPriority(request) ==
  \E entry \in Matching(denying, request) :
    \A other \in denying : Priority[other[2]] <= Priority[entry[2]]

\* The rules are sorted by the priority of their source, and any of them denies.
IsDenied(request) == Matching(denying, request) # {}
IsAlwaysAsk(request) == Matching(asking, request) # {}
IsExplicitlyAllowed(request) == Matching(allowing, request) # {}

----------------------------------------------------------------------------
(* resolve_permission: the first check that applies decides.  In auto mode  *)
(* the branches with and without the classifier both deny.                 *)

Checks(request) ==
  << [when |-> mode = "bypassPermissions", verdict |-> "allow"],
     [when |-> IsDenied(request), verdict |-> "deny"],
     [when |-> IsAlwaysAsk(request), verdict |-> "ask"],
     [when |-> request.tool \in ReadOnly, verdict |-> "allow"],
     [when |-> IsExplicitlyAllowed(request), verdict |-> "allow"],
     [when |-> mode = "plan", verdict |-> "deny"],
     [when |-> mode = "acceptEdits" /\ request.tool \in FileLike \ Destructive,
      verdict |-> "allow"],
     [when |-> mode = "auto", verdict |-> "deny"],
     [when |-> request.headless /\ avoidPrompts, verdict |-> "passthrough"],
     [when |-> TRUE, verdict |-> "ask"] >>

Resolve(request) ==
  LET checks == Checks(request)
      first == CHOOSE i \in DOMAIN checks :
                 checks[i].when /\ \A j \in 1..(i - 1) : ~checks[j].when
  IN checks[first].verdict

Allowed(request) == Resolve(request) = "allow"

----------------------------------------------------------------------------

PermissionsInit ==
  /\ mode \in Modes /\ avoidPrompts \in BOOLEAN
  /\ allowing = {} /\ denying = {} /\ asking = {}

Room == Cardinality(allowing) + Cardinality(denying) + Cardinality(asking) < MaxRules

\* PermissionUpdate
AddAllowRule(entry) ==
  Room /\ allowing' = allowing \cup {entry} /\ UNCHANGED <<mode, denying, asking, avoidPrompts>>
AddDenyRule(entry) ==
  Room /\ denying' = denying \cup {entry} /\ UNCHANGED <<mode, allowing, asking, avoidPrompts>>
AddAlwaysAskRule(entry) ==
  Room /\ asking' = asking \cup {entry} /\ UNCHANGED <<mode, allowing, denying, avoidPrompts>>
SetMode(m) == mode' = m /\ UNCHANGED <<allowing, denying, asking, avoidPrompts>>

PermissionsNext ==
  \/ \E entry \in RuleSet \X Sources :
       AddAllowRule(entry) \/ AddDenyRule(entry) \/ AddAlwaysAskRule(entry)
  \/ \E m \in Modes : SetMode(m)

PermissionsSpec == PermissionsInit /\ [][PermissionsNext]_permissionVars

----------------------------------------------------------------------------
(* Properties *)

\* The list that grew decides which way a request may go.
ChangePullsItsWay ==
  mode' = mode /\ <<allowing, denying, asking>>' # <<allowing, denying, asking>> =>
    \A request \in RequestSet :
      /\ allowing' = allowing /\ Allowed(request)' => Allowed(request)
      /\ denying' = denying /\ asking' = asking =>
           /\ Allowed(request) => Allowed(request)'
           /\ ~Allowed(request) /\ Matching(denying \cup asking, request) # {}
                => ~Allowed(request)'

\* Rules only pull their own way, whatever their source and the ones there
\* already: a deny or ask rule makes no request allowed that was not, an allow
\* rule makes none refused that was allowed and overrules no rule that denies or
\* asks (rules.rs: is_denied and the order in resolve_permission).
RulesAreMonotone == [][ChangePullsItsWay]_permissionVars
============================================================================
