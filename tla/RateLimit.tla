------------------------------- MODULE RateLimit -------------------------------
(***************************************************************************)
(* The request limiter of internal/middleware/ratelimit.go.  Every request *)
(* increments a Redis counter and restarts its expiry, in one pipeline     *)
(* that Redis runs back to back.  The limiter is mounted before the        *)
(* authentication, so its key is the address of the client; clients share  *)
(* nothing, and this is one of them.                                       *)
(*                                                                         *)
(* Time is counted in ticks, a fraction of the window.                     *)
(***************************************************************************)
EXTENDS Integers, Sequences, FiniteSets

CONSTANTS Limit,      \* requests allowed per window (100 in main.go)
          Window,     \* ticks of the window (one minute in main.go)
          MaxPassed,  \* bound: requests that get through in a behaviour
          RedisFails  \* whether Redis may be down

ASSUME RateAssumption ==
  /\ Limit \in Nat \ {0} /\ Window \in Nat \ {0} /\ MaxPassed \in Nat
  /\ RedisFails \in BOOLEAN

VARIABLES count,    \* value of the key, 0 when Redis has no such key
          ttl,      \* ticks until it expires
          passed,   \* age in ticks of each request that got through
          silence,  \* ticks since the client's last request, at most Window
          failed    \* whether Redis was down for some request

limiterVars == <<count, ttl, passed, silence, failed>>

LimiterTypeOK ==
  /\ count \in 0 .. Limit + 1
  /\ ttl \in 0 .. Window
  /\ passed \in Seq(0 .. Window)
  /\ silence \in 0 .. Window
  /\ failed \in BOOLEAN

LimiterInit == count = 0 /\ ttl = 0 /\ passed = <<>> /\ silence = Window /\ failed = FALSE

\* A counter above the limit acts like Limit + 1 (a bound of the model).
Incr == IF count > Limit THEN count ELSE count + 1

Allows(n) == n <= Limit

\* Mutant: the expiry is set with the first request only (a fixed window).
Bug_Prolong == IF count = 0 THEN Window ELSE ttl

\* EXPIRE key window, on every request.
Prolong == Window

Request ==
  /\ count' = Incr
  /\ ttl' = Prolong
  /\ silence' = 0
  /\ IF Allows(count')
     THEN Len(passed) < MaxPassed /\ passed' = Append(passed, 0)
     ELSE UNCHANGED passed
  /\ UNCHANGED failed

\* Redis is down: the request passes, counted only if just the answer was lost.
FailOpen ==
  /\ RedisFails
  /\ (count' = Incr /\ ttl' = Prolong) \/ UNCHANGED <<count, ttl>>
  /\ Len(passed) < MaxPassed /\ passed' = Append(passed, 0)
  /\ silence' = 0
  /\ failed' = TRUE

Older(n) == IF n = Window THEN Window ELSE n + 1

\* Mutant: the key never expires.
Bug_Alive(t) == t >= 0

\* Whether Redis still has the key when t ticks are left.
Alive(t) == t > 0

Tick ==
  /\ ttl' = IF ttl = 0 THEN 0 ELSE ttl - 1
  /\ count' = IF Alive(ttl') THEN count ELSE 0
  /\ passed' = [i \in DOMAIN passed |-> Older(passed[i])]
  /\ silence' = Older(silence)
  /\ UNCHANGED failed

LimiterNext == Request \/ FailOpen \/ Tick

LimiterSpec == LimiterInit /\ [][LimiterNext]_limiterVars

-------------------------------------------------------------------------------
(* What the code is meant to guarantee.                                       *)

Recent == {i \in DOMAIN passed : passed[i] < Window}

\* "limit = max requests; window = rolling time window" (ratelimit.go:14): no
\* window of any position lets more than Limit requests through, unless Redis
\* was down.
AtMostLimitPerWindow == LimiterTypeOK /\ (~failed => Cardinality(Recent) <= Limit)

\* The Retry-After of a refusal is honest: a client that was silent for a
\* whole window is let through again.
RetryAfterIsHonest ==
  [][silence = Window /\ silence' = 0 /\ Len(passed) < MaxPassed => Len(passed') = Len(passed) + 1]_limiterVars
===============================================================================
