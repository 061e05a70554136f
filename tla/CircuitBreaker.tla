--------------------------- MODULE CircuitBreaker ---------------------------
(***************************************************************************)
(* The three-state circuit breaker of the Python SDK                       *)
(* (sdk/python/costorah/reliability/circuit_breaker.py) and the delivery   *)
(* calls it admits.                                                        *)
(*                                                                         *)
(* The breaker is a record because every method of the class reads and     *)
(* writes all of it under one lock: each action below is one such critical *)
(* section.  A caller asks allow_request(), posts, and later reports       *)
(* record_success() or record_failure() -- or reports nothing at all,      *)
(* which is what the worker does with an answer it will not retry.         *)
(***************************************************************************)
EXTENDS BreakerState, FiniteSets

CONSTANT Events  \* the events whose deliveries ask for admission

ASSUME EventsAssumption == IsFiniteSet(Events)

VARIABLES
    breaker,  \* the fields of the CircuitBreaker object
    calls     \* calls[c]: how the delivery of event c was admitted

cbVars == <<breaker, calls>>

(* "probe" marks a call admitted in the current half-open period, "free"   *)
(* any other call still waiting for its answer.                            *)
CallStatus == {"idle", "free", "probe"}

ProbesOut == {c \in Events : calls[c] = "probe"}
-----------------------------------------------------------------------------
(* The probes of an earlier period no longer occupy a probe slot.          *)
Forget(cs) == [c \in Events |-> IF cs[c] = "probe" THEN "free" ELSE cs[c]]

CurrentCalls == IF TurnsHalfOpen(breaker) THEN Forget(calls) ELSE calls
-----------------------------------------------------------------------------
CBInit ==
    /\ breaker = NewBreaker
    /\ calls = [c \in Events |-> "idle"]

(* time: the recovery timeout of an open circuit runs out                  *)
Elapse ==
    /\ breaker.state = "open"
    /\ breaker.timer = "running"
    /\ breaker' = [breaker EXCEPT !.timer = "over"]
    /\ UNCHANGED calls

(* the `state` property: read by the worker before a pass, by health()     *)
Observe ==
    /\ breaker' = Current(breaker)
    /\ calls' = CurrentCalls

Allow(c) ==
    /\ calls[c] = "idle"
    /\ Admits(breaker)
    /\ LET now == Current(breaker)
           tag == IF HasProbeSlot(now) THEN "probe" ELSE "free"
       IN  /\ breaker' = AfterAllow(now)
           /\ calls' = [CurrentCalls EXCEPT ![c] = tag]

(* allow_request() answers False: the circuit is open, or every probe slot *)
(* is taken; nothing changes.                                              *)
Refuse(c) ==
    /\ calls[c] = "idle"
    /\ ~Admits(breaker)
    /\ UNCHANGED cbVars

Succeed(c) ==
    /\ calls[c] # "idle"
    /\ breaker' = AfterSuccess(breaker)
    /\ calls' = [calls EXCEPT ![c] = "idle"]

Fail(c) ==
    /\ calls[c] # "idle"
    /\ breaker' = AfterFailure(breaker)
    /\ LET rest == [calls EXCEPT ![c] = "idle"]
       IN  calls' = IF breaker.state = "half_open" THEN Forget(rest) ELSE rest

(* the worker handled an answer without telling the breaker                *)
Unreported(c) ==
    /\ calls[c] # "idle"
    /\ calls' = [calls EXCEPT ![c] = "idle"]
    /\ UNCHANGED breaker

(* the worker thread died with calls outstanding; the breaker object stays *)
Abandon ==
    /\ calls' = [c \in Events |-> "idle"]
    /\ UNCHANGED breaker

(* a new client process constructs a new breaker                           *)
Renew ==
    /\ breaker' = NewBreaker
    /\ calls' = [c \in Events |-> "idle"]

CBStep(c) == Allow(c) \/ Refuse(c) \/ Succeed(c) \/ Fail(c) \/ Unreported(c)

CBNext == Elapse \/ Observe \/ Abandon \/ Renew \/ \E c \in Events : CBStep(c)

CBSpec == CBInit /\ [][CBNext]_cbVars

(* A worker that tells the breaker the outcome of every call it made.      *)
ReportingNext ==
    \/ Elapse \/ Observe \/ Renew
    \/ \E e \in Events : Allow(e) \/ Refuse(e) \/ Succeed(e) \/ Fail(e)

ReportingSpec == CBInit /\ [][ReportingNext]_cbVars
-----------------------------------------------------------------------------
CBTypeOK ==
    /\ breaker \in Breaker
    /\ calls \in [Events -> CallStatus]

(* A half-open circuit lets a bounded number of probes out: however calls, *)
(* answers and timeouts interleave, the unanswered calls of the current    *)
(* half-open period never outnumber the slots taken, and those never       *)
(* exceed half_open_max_calls.                                             *)
ProbeBound ==
    /\ Cardinality(ProbesOut) <= breaker.probes
    /\ breaker.probes <= HalfOpenMaxCalls

(* A closed circuit is always short of the threshold -- also right after a *)
(* half-open period, which must not hand the old failure count on.         *)
ClosedIsBelowThreshold ==
    breaker.state = "closed" => breaker.failures < FailureThreshold

(* A circuit leaves "open" only through a half-open period, and only after *)
(* the recovery timeout (or by being replaced in a new process): a late    *)
(* success of a call admitted earlier must not close it.                   *)
OpenLeavesByTimeout ==
    [][ breaker.state = "open" /\ breaker'.state # "open"
            => \/ breaker.timer = "over" /\ breaker'.state = "half_open"
               \/ breaker' = NewBreaker ]_cbVars

(* No slot of a half-open period is lost: each one taken belongs to a call *)
(* that is still out or to a success already counted.  When it fails and   *)
(* all slots are taken, no later call can ever be admitted.                *)
SlotsAccountedFor ==
    breaker.state = "half_open"
        => breaker.probes <= Cardinality(ProbesOut) + breaker.successes
=============================================================================
