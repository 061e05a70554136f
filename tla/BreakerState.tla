---------------------------- MODULE BreakerState ----------------------------
(***************************************************************************)
(* What the methods of a circuit breaker do to its fields.  The Python SDK *)
(* (sdk/python/costorah/reliability/circuit_breaker.py) and the JavaScript *)
(* SDK (sdk/javascript/src/reliability/circuitBreaker.ts) have the same    *)
(* class; who calls it, and in which interleavings, is in CircuitBreaker   *)
(* and JsSdk.                                                              *)
(***************************************************************************)
EXTENDS Naturals

CONSTANTS
    FailureThreshold,  \* consecutive failures that open the circuit
    HalfOpenMaxCalls   \* probes admitted in one half-open period

ASSUME ThresholdAssumption == FailureThreshold \in Nat \ {0}
ASSUME ProbeLimitAssumption == HalfOpenMaxCalls \in Nat \ {0}

CircuitState == {"closed", "open", "half_open"}

(* timer is "over" once monotonic() - _opened_at >= _recovery_timeout.     *)
(* failures is only ever compared with the threshold, so it stops there.   *)
Breaker == [state     : CircuitState,
            failures  : 0..FailureThreshold,
            probes    : 0..HalfOpenMaxCalls,
            successes : 0..HalfOpenMaxCalls,
            timer     : {"running", "over"}]

NewBreaker == [state |-> "closed", failures |-> 0, probes |-> 0,
               successes |-> 0, timer |-> "running"]
-----------------------------------------------------------------------------
(* _current_state_locked: an open circuit whose timeout has elapsed turns  *)
(* half-open the moment anybody looks at it.                               *)
TurnsHalfOpen(b) == b.state = "open" /\ b.timer = "over"

Current(b) ==
    IF TurnsHalfOpen(b)
    THEN [b EXCEPT !.state = "half_open", !.probes = 0, !.successes = 0,
                   !.timer = "running"]
    ELSE b

(* Mutation: one probe too many.                                         *)
HasProbeSlotTooMany(b) == b.state = "half_open" /\ b.probes <= HalfOpenMaxCalls

HasProbeSlot(b) == b.state = "half_open" /\ b.probes < HalfOpenMaxCalls

Admits(b) == Current(b).state = "closed" \/ HasProbeSlot(Current(b))

AfterAllow(b) ==
    IF HasProbeSlot(b) THEN [b EXCEPT !.probes = @ + 1] ELSE b

(* Mutation: any success closes the circuit, also a late one.            *)
AfterSuccessCloses(b) ==
    IF b.state # "half_open" \/ b.successes + 1 >= HalfOpenMaxCalls
    THEN [b EXCEPT !.state = "closed", !.failures = 0]
    ELSE [b EXCEPT !.successes = @ + 1]

(* Mutation: a probe's success is not counted.                           *)
AfterSuccessUncounted(b) ==
    IF b.state # "half_open" THEN [b EXCEPT !.failures = 0] ELSE b

AfterSuccess(b) ==
    IF b.state # "half_open"
    THEN [b EXCEPT !.failures = 0]
    ELSE IF b.successes + 1 >= HalfOpenMaxCalls
         THEN [b EXCEPT !.state = "closed", !.failures = 0,
                        !.successes = HalfOpenMaxCalls]
         ELSE [b EXCEPT !.successes = @ + 1]

(* Mutation: a failed probe is only counted.                             *)
AfterFailureStays(b) ==
    IF b.state = "half_open" \/ b.failures + 1 < FailureThreshold
    THEN [b EXCEPT !.failures = IF @ < FailureThreshold THEN @ + 1 ELSE @]
    ELSE [b EXCEPT !.state = "open", !.failures = FailureThreshold,
                   !.timer = "running"]

AfterFailure(b) ==
    IF b.state = "half_open"
    THEN [b EXCEPT !.state = "open", !.probes = 0, !.successes = 0,
                   !.timer = "running"]
    ELSE IF b.failures + 1 >= FailureThreshold
         THEN [b EXCEPT !.state = "open", !.failures = FailureThreshold,
                        !.timer = "running"]
         ELSE [b EXCEPT !.failures = @ + 1]
=============================================================================
