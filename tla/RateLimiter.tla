----------------------------- MODULE RateLimiter -----------------------------
(***************************************************************************)
(* kn-code-server/src/middleware/rate_limit.rs: a bucket of tokens per     *)
(* client, behind one mutex.  Time is counted in parts of the time a token *)
(* takes to be refilled, and tokens in the same parts, so that a fraction  *)
(* of a token is a number.                                                 *)
(*                                                                         *)
(* A client is the address of a connection, or "unknown"; server.rs serves *)
(* the router without the addresses, so the server has one client.         *)
(***************************************************************************)
EXTENDS Integers

CONSTANTS
  Callers,      \* clients
  PerMinute,    \* requests_per_minute: what a bucket holds
  TokenTime,    \* ticks of the clock per token
  ClientTtl     \* CLIENT_TTL_SECS, in ticks

\* 600 seconds are longer than one token takes, unless there are none.
ASSUME RateAssumption ==
  /\ PerMinute \in Nat \ {0} /\ TokenTime \in Nat \ {0}
  /\ ClientTtl \in Nat /\ ClientTtl >= TokenTime

VARIABLES
  tokens,   \* of each client, when it last asked
  age,      \* ticks since then; ClientTtl if there is no entry
  credit,   \* what a bucket that was full at first and is never forgotten holds
  waited    \* ticks since a request of the client passed, up to TokenTime

rateVars == <<tokens, age, credit, waited>>

Full == PerMinute * TokenTime
AtMost(n, bound) == IF n < bound THEN n ELSE bound

RateTypeOK ==
  /\ tokens \in [Callers -> 0..Full]
  /\ age \in [Callers -> 0..ClientTtl]
  /\ credit \in [Callers -> Int]
  /\ waited \in [Callers -> 0..TokenTime]

RateInit ==
  /\ tokens = [c \in Callers |-> 0]
  /\ age = [c \in Callers |-> ClientTtl]
  /\ credit = [c \in Callers |-> Full]
  /\ waited = [c \in Callers |-> TokenTime]

-----------------------------------------------------------------------------
(* Requests                                                                *)

\* check_rate_limit forgets a client, and gives a new one a single token; what
\* it keeps, allow_request refills up to requests_per_minute.
Available(c) ==
  IF age[c] >= ClientTtl THEN TokenTime ELSE AtMost(tokens[c] + age[c], Full)

MayPass(c) == Available(c) >= TokenTime

PassRequest(c) ==
  /\ MayPass(c)
  /\ tokens' = [tokens EXCEPT ![c] = Available(c) - TokenTime]
  /\ age' = [age EXCEPT ![c] = 0]
  /\ credit' = [credit EXCEPT ![c] = @ - TokenTime]
  /\ waited' = [waited EXCEPT ![c] = 0]

\* Mutant: what was refilled is counted, and the time it took counts again.
RefuseRequest_Keeps(c) ==
  /\ ~MayPass(c)
  /\ tokens' = [tokens EXCEPT ![c] = Available(c)]
  /\ UNCHANGED <<age, credit, waited>>

\* Mutant: a refused request starts the refill again.
RefuseRequest_Restarts(c) ==
  /\ ~MayPass(c)
  /\ age' = [age EXCEPT ![c] = 0]
  /\ UNCHANGED <<tokens, credit, waited>>

\* TOO_MANY_REQUESTS; the refill and the time of the access are kept.
RefuseRequest(c) ==
  /\ ~MayPass(c)
  /\ tokens' = [tokens EXCEPT ![c] = Available(c)]
  /\ age' = [age EXCEPT ![c] = 0]
  /\ UNCHANGED <<credit, waited>>

ClockTicks ==
  /\ age' = [c \in Callers |-> AtMost(age[c] + 1, ClientTtl)]
  /\ credit' = [c \in Callers |-> AtMost(credit[c] + 1, Full)]
  /\ waited' = [c \in Callers |-> AtMost(waited[c] + 1, TokenTime)]
  /\ UNCHANGED tokens

RateNext ==
  \/ \E c \in Callers : PassRequest(c) \/ RefuseRequest(c)
  \/ ClockTicks

RateSpec == RateInit /\ [][RateNext]_rateVars

-----------------------------------------------------------------------------
(* Properties                                                              *)

\* However requests, refusals and forgotten entries follow one another, the
\* requests of a client that pass in any interval are no more than a full
\* bucket and what is refilled in the interval ...
RateIsBounded == \A c \in Callers : credit[c] >= 0

\* ... and a client is not refused once a token's time has passed since its
\* last request that passed, however often it was refused meanwhile.
WaitingIsEnough == \A c \in Callers : waited[c] >= TokenTime => MayPass(c)

RateIsExact == RateIsBounded /\ WaitingIsEnough
=============================================================================
