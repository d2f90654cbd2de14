------------------------------ MODULE HttpClient ------------------------------
(***************************************************************************)
(* The request policy of the network gates (core/httpclient.py): attempts, *)
(* back-off, Retry-After and the minimum interval between two requests.    *)
(*                                                                         *)
(* One client of one task.  Its user begins a request with Call; every     *)
(* Send is one attempt, and what came of it is for the user's action to    *)
(* pick up.  Time is counted in seconds that Pass.                         *)
(***************************************************************************)
EXTENDS Integers, FiniteSetsExt

CONSTANTS
  MaxAttempts,    \* Gate.max_attempts
  MinInterval,    \* Gate.min_interval_s
  MaxBackoff,     \* MAX_BACKOFF_S
  RetryAfter      \* the delays an upstream may name in Retry-After

ASSUME HttpClientAssumption ==
  /\ MaxAttempts \in Nat \ {0}
  /\ MinInterval \in Nat
  /\ MaxBackoff \in Nat
  /\ RetryAfter \subseteq Nat

VARIABLES
  attempt,        \* attempt of the request in progress, 0 if there is none
  since,          \* seconds since the last call, counted up to MinInterval
  pause           \* seconds left of the sleep before the next attempt

httpVars == <<attempt, since, pause>>

HttpInit ==
  /\ attempt = 0
  /\ since = MinInterval
  /\ pause = 0

\* What an attempt may meet: an answer the caller can use, no connection or a
\* timeout, a status in RETRY_STATUS, any other status or an answer that is
\* not what was asked for (markup in place of JSON or CSV).
Outcome == {"ok", "unreachable", "busy", "refused"}

\* How a gate requests: at most `tries` attempts, another one after an outcome
\* in `again`, `spaced` by the minimum interval.  HttpClient is the rule ...
HttpPolicy == [tries |-> MaxAttempts, again |-> {"unreachable", "busy"}, spaced |-> TRUE]

\* ... and these are the gates with requests of their own: a bare session or
\* driver, Nord Pool's loop, and Open-Meteo's decorated function.
BarePolicy == [tries |-> 1, again |-> {}, spaced |-> FALSE]
NordPoolPolicy == [tries |-> 3, again |-> {"busy"}, spaced |-> TRUE]
OpenMeteoPolicy == [tries |-> 4, again |-> {"unreachable", "busy"}, spaced |-> FALSE]

Retries(policy, outcome) == outcome \in policy.again /\ attempt < policy.tries

Throttled(policy) == ~policy.spaced \/ since >= MinInterval

Call ==
  /\ attempt = 0
  /\ attempt' = 1
  /\ UNCHANGED <<since, pause>>

\* 2 ** attempt, or what the upstream asked for: never above MAX_BACKOFF_S.
Backoff(outcome) ==
  {Min({d, MaxBackoff}) :
     d \in {2 ^ attempt} \cup (IF outcome = "busy" THEN RetryAfter ELSE {})}

\* One attempt.  With none left the last failure is raised.
Send(policy, outcome) ==
  /\ attempt > 0
  /\ pause = 0
  /\ Throttled(policy)
  /\ since' = 0
  /\ IF Retries(policy, outcome)
     THEN /\ attempt' = attempt + 1
          /\ pause' \in Backoff(outcome)
     ELSE /\ attempt' = 0
          /\ pause' = 0

Pass ==
  /\ pause > 0 \/ since < MinInterval
  /\ pause' = IF pause > 0 THEN pause - 1 ELSE 0
  /\ since' = Min({since + 1, MinInterval})
  /\ UNCHANGED attempt
===============================================================================
