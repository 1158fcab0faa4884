----------------------------- MODULE Degradation -----------------------------
(* The two parts of the degradation system that threads share without a    *)
(* lock around a whole call: the circuit breaker, atomic by atomic, and    *)
(* the throttler, lock by lock.                                            *)
EXTENDS Integers, FiniteSets

CONSTANTS
  Users,           \* the threads that call
  OpenThreshold, HalfOpenAttempts,
  MaxResets,       \* bound: calls of reset, of each of the two
  RateLimit, BurstSize,
  MaxClock         \* bound: time units the throttler sees pass

ASSUME DegradationBounds ==
  /\ OpenThreshold \in Nat \ {0} /\ HalfOpenAttempts \in Nat \ {0}
  /\ RateLimit \in Nat \ {0} /\ BurstSize \in Nat /\ BurstSize <= RateLimit
  /\ MaxResets \in Nat /\ MaxClock \in Nat

------------------------------------------------------------------------------
(* circuit_breaker_call.  A counter is only ever compared with its          *)
(* threshold, so it is kept up to the threshold.                            *)

VARIABLES
  circuit,         \* "Closed", "Open", "HalfOpen"
  failures, successes,
  lastFailure,     \* "none", "recent", "old": older than the timeout
  at,              \* user -> the step of its call
  resetAt,         \* the step of a reset in progress
  healthy,         \* whether the guarded service answers
  breakerResets

breakerVars == <<circuit, failures, successes, lastFailure, at, resetAt, healthy, breakerResets>>
counters == <<failures, successes>>

CallSteps == {"idle", "timeout", "half", "zero", "op",
              "succeeded", "clearFailures", "isHalf", "enough", "close",
              "failed", "clearSuccesses", "stamp", "tooMany", "wasHalf", "trip"}

BreakerInit ==
  /\ circuit = "Closed" /\ failures = 0 /\ successes = 0 /\ lastFailure = "none"
  /\ at = [u \in Users |-> "idle"] /\ resetAt = "idle"
  /\ healthy = TRUE /\ breakerResets = 0

Step(u, from, to) == at[u] = from /\ at' = [at EXCEPT ![u] = to]
UpTo(n, limit) == IF n > limit THEN limit ELSE n
Elsewhere == <<resetAt, healthy, breakerResets>>

(* allow_request: the state is loaded; if Open, the time of the last failure *)
(* is looked up, and the switch to HalfOpen is two stores.                   *)
Allow(u) ==
  /\ Step(u, "idle", IF circuit = "Open" THEN "timeout" ELSE "op")
  /\ UNCHANGED <<circuit, counters, lastFailure, Elsewhere>>

CheckTimeout(u) ==
  /\ Step(u, "timeout", IF lastFailure = "old" THEN "half" ELSE "idle")
  /\ UNCHANGED <<circuit, counters, lastFailure, Elsewhere>>

SetHalfOpen(u) ==
  /\ Step(u, "half", "zero")
  /\ circuit' = "HalfOpen"
  /\ UNCHANGED <<counters, lastFailure, Elsewhere>>

ZeroSuccesses(u) ==
  /\ Step(u, "zero", "op")
  /\ successes' = 0
  /\ UNCHANGED <<circuit, failures, lastFailure, Elsewhere>>

Operate(u) ==
  /\ Step(u, "op", IF healthy THEN "succeeded" ELSE "failed")
  /\ UNCHANGED <<circuit, counters, lastFailure, Elsewhere>>

(* record_success, and the switch back to Closed. *)
RecordSuccess(u) ==
  \/ /\ Step(u, "succeeded", "clearFailures")
     /\ successes' = UpTo(successes + 1, HalfOpenAttempts)
     /\ UNCHANGED <<circuit, failures, lastFailure, Elsewhere>>
  \/ /\ Step(u, "clearFailures", "isHalf")
     /\ failures' = 0
     /\ UNCHANGED <<circuit, successes, lastFailure, Elsewhere>>

CloseIfHalfOpen(u) ==
  \/ /\ Step(u, "isHalf", IF circuit = "HalfOpen" THEN "enough" ELSE "idle")
     /\ UNCHANGED <<circuit, counters, lastFailure, Elsewhere>>
  \/ /\ Step(u, "enough", IF successes >= HalfOpenAttempts THEN "close" ELSE "idle")
     /\ UNCHANGED <<circuit, counters, lastFailure, Elsewhere>>
  \/ /\ Step(u, "close", "idle")
     /\ circuit' = "Closed"
     /\ UNCHANGED <<counters, lastFailure, Elsewhere>>

(* record_failure, and the trip. *)
RecordFailure_NoStamp(u) ==
  \/ /\ Step(u, "failed", "clearSuccesses")
     /\ failures' = UpTo(failures + 1, OpenThreshold)
     /\ UNCHANGED <<circuit, successes, lastFailure, Elsewhere>>
  \/ /\ Step(u, "clearSuccesses", "tooMany")
     /\ successes' = 0
     /\ UNCHANGED <<circuit, failures, lastFailure, Elsewhere>>

RecordFailure(u) ==
  \/ /\ Step(u, "failed", "clearSuccesses")
     /\ failures' = UpTo(failures + 1, OpenThreshold)
     /\ UNCHANGED <<circuit, successes, lastFailure, Elsewhere>>
  \/ /\ Step(u, "clearSuccesses", "stamp")
     /\ successes' = 0
     /\ UNCHANGED <<circuit, failures, lastFailure, Elsewhere>>
  \/ /\ Step(u, "stamp", "tooMany")
     /\ lastFailure' = "recent"
     /\ UNCHANGED <<circuit, counters, Elsewhere>>

TripIfDue(u) ==
  \/ /\ Step(u, "tooMany", IF failures >= OpenThreshold THEN "trip" ELSE "wasHalf")
     /\ UNCHANGED <<circuit, counters, lastFailure, Elsewhere>>
  \/ /\ Step(u, "wasHalf", IF circuit = "HalfOpen" THEN "trip" ELSE "idle")
     /\ UNCHANGED <<circuit, counters, lastFailure, Elsewhere>>
  \/ /\ Step(u, "trip", "idle")
     /\ circuit' = "Open"
     /\ UNCHANGED <<counters, lastFailure, Elsewhere>>

(* reset: four stores. *)
ResetBreaker ==
  /\ \/ /\ resetAt = "idle" /\ breakerResets < MaxResets
        /\ breakerResets' = breakerResets + 1
        /\ circuit' = "Closed" /\ resetAt' = "failures" /\ UNCHANGED <<counters, lastFailure>>
     \/ /\ resetAt = "failures" /\ failures' = 0 /\ resetAt' = "successes"
        /\ UNCHANGED <<circuit, successes, lastFailure, breakerResets>>
     \/ /\ resetAt = "successes" /\ successes' = 0 /\ resetAt' = "time"
        /\ UNCHANGED <<circuit, failures, lastFailure, breakerResets>>
     \/ /\ resetAt = "time" /\ lastFailure' = "none" /\ resetAt' = "idle"
        /\ UNCHANGED <<circuit, counters, breakerResets>>
  /\ UNCHANGED <<at, healthy>>

(* The timeout since the last failure passes; the service comes and goes. *)
Elapse ==
  /\ lastFailure = "recent" /\ lastFailure' = "old"
  /\ UNCHANGED <<circuit, counters, at, Elsewhere>>

ServiceChanges ==
  /\ healthy' = ~healthy
  /\ UNCHANGED <<circuit, counters, lastFailure, at, resetAt, breakerResets>>

CallStep(u) ==
  \/ Allow(u) \/ CheckTimeout(u) \/ SetHalfOpen(u) \/ ZeroSuccesses(u) \/ Operate(u)
  \/ RecordSuccess(u) \/ CloseIfHalfOpen(u) \/ RecordFailure(u) \/ TripIfDue(u)

BreakerNext == (\E u \in Users : CallStep(u)) \/ ResetBreaker \/ Elapse \/ ServiceChanges

(* Calls go on being made and, once begun, run on; time passes. *)
BreakerFairness == (\A u \in Users : WF_breakerVars(CallStep(u))) /\ WF_breakerVars(Elapse)

(* An open circuit is not open for good: unless reset interfered (it may     *)
(* clear the time of the last failure just before a failing call trips the   *)
(* circuit, which then never times out), a request is let through again,     *)
(* with the callers' loads and stores interleaved in any way.                *)
OpenIsTemporary ==
  (circuit = "Open" /\ breakerResets = 0)
    ~> (circuit # "Open" \/ breakerResets > 0)

(* Once the service answers for good, the circuit is closed for good: stale  *)
(* trips and stale switches to HalfOpen by slower callers included.          *)
RecoversWhenHealthy ==
  <>[](healthy /\ breakerResets = 0) => <>[](circuit = "Closed")

(* The breaker neither stays open for good nor open once all is well.      *)
BreakerRecovers == OpenIsTemporary /\ RecoversWhenHealthy

------------------------------------------------------------------------------
(* The throttler's token bucket.  A caller takes the elapsed time under one *)
(* lock, adds the tokens under a second acquisition and spends them under a *)
(* third.  A reservation is consumed, cancelled or dropped later.           *)

VARIABLES
  tokens,
  unclaimed,       \* time since last_refill
  turn,            \* user -> the step of its acquire or reserve
  claim,           \* user -> the elapsed time it has taken and not yet added
  reserved,        \* user -> tokens of the reservation it holds
  used,            \* history: tokens spent by operations that went ahead
  clock,           \* history: time passed
  bucketResets

bucketVars == <<tokens, unclaimed, turn, claim, reserved, used, clock, bucketResets>>

Cost == 1..BurstSize

BucketInit ==
  /\ tokens = BurstSize /\ unclaimed = 0
  /\ turn = [u \in Users |-> "idle"]
  /\ claim = [u \in Users |-> 0] /\ reserved = [u \in Users |-> 0]
  /\ used = 0 /\ clock = 0 /\ bucketResets = 0

Tick ==
  /\ clock < MaxClock
  /\ clock' = clock + 1 /\ unclaimed' = unclaimed + 1
  /\ UNCHANGED <<tokens, turn, claim, reserved, used, bucketResets>>

RefillClaim_Keep(u) ==
  /\ turn[u] = "idle" /\ reserved[u] = 0
  /\ turn' = [turn EXCEPT ![u] = "refill"]
  /\ claim' = [claim EXCEPT ![u] = unclaimed]
  /\ UNCHANGED <<tokens, unclaimed, reserved, used, clock, bucketResets>>

RefillClaim(u) ==
  /\ turn[u] = "idle" /\ reserved[u] = 0
  /\ turn' = [turn EXCEPT ![u] = "refill"]
  /\ claim' = [claim EXCEPT ![u] = unclaimed] /\ unclaimed' = 0
  /\ UNCHANGED <<tokens, reserved, used, clock, bucketResets>>

RefillAdd_NoCap(u) ==
  /\ turn[u] = "refill"
  /\ turn' = [turn EXCEPT ![u] = "spend"]
  /\ tokens' = tokens + claim[u] * RateLimit
  /\ claim' = [claim EXCEPT ![u] = 0]
  /\ UNCHANGED <<unclaimed, reserved, used, clock, bucketResets>>

RefillAdd(u) ==
  /\ turn[u] = "refill"
  /\ turn' = [turn EXCEPT ![u] = "spend"]
  /\ tokens' = UpTo(tokens + claim[u] * RateLimit, BurstSize)
  /\ claim' = [claim EXCEPT ![u] = 0]
  /\ UNCHANGED <<unclaimed, reserved, used, clock, bucketResets>>

(* throttler_acquire and throttler_reserve: the end of both. *)
Acquire(u, cost) ==
  /\ turn[u] = "spend"
  /\ turn' = [turn EXCEPT ![u] = "idle"]
  /\ IF tokens >= cost THEN tokens' = tokens - cost /\ used' = used + cost
     ELSE UNCHANGED <<tokens, used>>
  /\ UNCHANGED <<unclaimed, claim, reserved, clock, bucketResets>>

Reserve(u, cost) ==
  /\ turn[u] = "spend"
  /\ turn' = [turn EXCEPT ![u] = "idle"]
  /\ IF tokens >= cost THEN tokens' = tokens - cost /\ reserved' = [reserved EXCEPT ![u] = cost]
     ELSE UNCHANGED <<tokens, reserved>>
  /\ UNCHANGED <<unclaimed, claim, used, clock, bucketResets>>

Consume(u) ==
  /\ reserved[u] > 0
  /\ used' = used + reserved[u] /\ reserved' = [reserved EXCEPT ![u] = 0]
  /\ UNCHANGED <<tokens, unclaimed, turn, claim, clock, bucketResets>>

(* cancel, or a drop that finds the tokens unlocked. *)
Cancel(u) ==
  /\ reserved[u] > 0
  /\ tokens' = UpTo(tokens + reserved[u], BurstSize)
  /\ reserved' = [reserved EXCEPT ![u] = 0]
  /\ UNCHANGED <<unclaimed, turn, claim, used, clock, bucketResets>>

(* A drop whose try_lock fails, another user being at the tokens: they are lost. *)
DropLocked(u) ==
  /\ reserved[u] > 0
  /\ \E v \in Users \ {u} : turn[v] \in {"refill", "spend"} \/ reserved[v] > 0
  /\ reserved' = [reserved EXCEPT ![u] = 0]
  /\ UNCHANGED <<tokens, unclaimed, turn, claim, used, clock, bucketResets>>

ResetBucket ==
  /\ bucketResets < MaxResets /\ bucketResets' = bucketResets + 1
  /\ tokens' = BurstSize /\ unclaimed' = 0
  /\ UNCHANGED <<turn, claim, reserved, used, clock>>

BucketNext ==
  \/ \E u \in Users :
       \/ RefillClaim(u) \/ RefillAdd(u) \/ Consume(u) \/ Cancel(u) \/ DropLocked(u)
       \/ \E cost \in Cost : Acquire(u, cost) \/ Reserve(u, cost)
  \/ Tick \/ ResetBucket

BucketSpec == BucketInit /\ [][BucketNext]_bucketVars

DegradationTypeOK ==
  /\ circuit \in {"Closed", "Open", "HalfOpen"}
  /\ failures \in 0..OpenThreshold /\ successes \in 0..HalfOpenAttempts
  /\ lastFailure \in {"none", "recent", "old"}
  /\ at \in [Users -> CallSteps]
  /\ tokens \in 0..BurstSize /\ unclaimed \in 0..MaxClock
  /\ turn \in [Users -> {"idle", "refill", "spend"}]
  /\ claim \in [Users -> 0..MaxClock] /\ reserved \in [Users -> 0..BurstSize]
  /\ used \in Nat /\ clock \in 0..MaxClock /\ bucketResets \in 0..MaxResets

(* What went ahead, and what may still go ahead on a reservation, never     *)
(* exceeds the burst plus the rate times the time passed (and a burst for   *)
(* each reset): no interleaving of the three critical sections, and no      *)
(* cancelled reservation, credits a moment twice.                           *)
RateRespected ==
  /\ used <= BurstSize * (1 + bucketResets) + RateLimit * clock
  /\ \A u \in Users : used + reserved[u] <= BurstSize * (1 + bucketResets) + RateLimit * clock

==============================================================================
