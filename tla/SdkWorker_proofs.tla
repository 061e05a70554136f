-------------------------- MODULE SdkWorker_proofs --------------------------
(***************************************************************************)
(* The circuit breaker keeps its type, its probe bound and its threshold   *)
(* for any number of concurrent deliveries and any limits.                 *)
(*                                                                         *)
(* The SDK's pipeline implements AtLeastOnceDelivery, and its breaker the  *)
(* CircuitBreaker specification, for every number of events, every queue   *)
(* and batch size, every policy and every option; and its flush() misses   *)
(* at most what one get_batch() took, and the rows left in a closed store. *)
(*                                                                         *)
(* Instrumentors that do not get in each other's way report every call     *)
(* once and leave the library as they found it, for any number of them and *)
(* every library.  The argument: what a call goes through names everyone   *)
(* who is on, once; each keeps what is below it, or has the one slot.      *)
(***************************************************************************)
EXTENDS SdkWorker, Instrumentation, FiniteSetTheorems, SequenceTheorems, WellFoundedInduction, TLAPS

-----------------------------------------------------------------------------
(* The breaker                                                             *)

CBInv == CBTypeOK /\ ProbeBound /\ ClosedIsBelowThreshold

LEMMA CounterRanges ==
    /\ FailureThreshold \in Nat /\ 0 < FailureThreshold
    /\ HalfOpenMaxCalls \in Nat /\ 0 < HalfOpenMaxCalls
    /\ 0 \in 0..FailureThreshold /\ FailureThreshold \in 0..FailureThreshold
    /\ 0 \in 0..HalfOpenMaxCalls /\ HalfOpenMaxCalls \in 0..HalfOpenMaxCalls
BY ThresholdAssumption, ProbeLimitAssumption

(* Forgetting the probes leaves none, and changes no call's being out.     *)
LEMMA ForgetLeavesNone ==
    ASSUME NEW cs \in [Events -> CallStatus]
    PROVE  /\ Forget(cs) \in [Events -> CallStatus]
           /\ \A e \in Events : Forget(cs)[e] # "probe"
           /\ \A e \in Events : Forget(cs)[e] = "idle" <=> cs[e] = "idle"
BY DEF Forget, CallStatus

(* No probes out: the bound holds whatever the number of slots taken.      *)
LEMMA NoProbesOut ==
    ASSUME \A e \in Events : calls[e] # "probe"
    PROVE  Cardinality(ProbesOut) = 0
<1>1. ProbesOut = {}
  BY DEF ProbesOut
<1>2. QED
  BY <1>1, FS_EmptySet

(* Fewer probes out cannot break the bound.                                *)
LEMMA FewerProbes ==
    ASSUME NEW S \in SUBSET Events, NEW T \in SUBSET S
    PROVE  /\ IsFiniteSet(S) /\ IsFiniteSet(T)
           /\ Cardinality(S) \in Nat /\ Cardinality(T) \in Nat
           /\ Cardinality(T) <= Cardinality(S)
<1>1. IsFiniteSet(S)
  BY FS_Subset, EventsAssumption
<1>2. IsFiniteSet(T) /\ Cardinality(T) <= Cardinality(S)
  BY <1>1, FS_Subset
<1>3. QED
  BY <1>1, <1>2, FS_CardinalityType

LEMMA InitialBreaker == CBInit => CBInv
<1> SUFFICES ASSUME CBInit PROVE CBInv
  OBVIOUS
<1>1. CBTypeOK
  BY ThresholdAssumption, ProbeLimitAssumption
     DEF CBInit, CBTypeOK, NewBreaker, Breaker, CircuitState, CallStatus
<1>2. Cardinality(ProbesOut) = 0
  BY NoProbesOut DEF CBInit
<1>3. ProbeBound /\ ClosedIsBelowThreshold
  BY <1>2, ThresholdAssumption, ProbeLimitAssumption
     DEF ProbeBound, ClosedIsBelowThreshold, CBInit, NewBreaker
<1>4. QED
  BY <1>1, <1>3 DEF CBInv

(* What every critical section starts with: looking at the state.          *)
LEMMA Looking ==
    ASSUME CBInv
    PROVE  /\ Current(breaker) \in Breaker
           /\ CurrentCalls \in [Events -> CallStatus]
           /\ \A e \in Events : CurrentCalls[e] = "idle" <=> calls[e] = "idle"
           /\ Cardinality({e \in Events : CurrentCalls[e] = "probe"})
                <= Current(breaker).probes
           /\ Current(breaker).state = "closed"
                => Current(breaker).failures < FailureThreshold
<1>1. CASE TurnsHalfOpen(breaker)
  <2>1. Current(breaker) \in Breaker /\ Current(breaker).probes = 0
        /\ Current(breaker).state = "half_open"
    BY <1>1, CounterRanges DEF CBInv, CBTypeOK, Current, Breaker, CircuitState
  <2>2. CurrentCalls = Forget(calls)
    BY <1>1 DEF CurrentCalls
  <2>3. {e \in Events : CurrentCalls[e] = "probe"} = {}
    BY <2>2, ForgetLeavesNone DEF CBInv, CBTypeOK
  <2>4. QED
    BY <2>1, <2>2, <2>3, ForgetLeavesNone, FS_EmptySet DEF CBInv, CBTypeOK
<1>2. CASE ~TurnsHalfOpen(breaker)
  BY <1>2 DEF CBInv, CBTypeOK, Current, CurrentCalls, ProbeBound, ProbesOut,
              ClosedIsBelowThreshold
<1>3. QED
  BY <1>1, <1>2

LEMMA AllowKeepsInv ==
    ASSUME CBInv, NEW e \in Events, Allow(e)
    PROVE  CBInv'
<1> DEFINE now == Current(breaker)
           P == {f \in Events : CurrentCalls[f] = "probe"}
<1>1. /\ now \in Breaker /\ CurrentCalls \in [Events -> CallStatus]
      /\ Cardinality(P) <= now.probes
      /\ now.state = "closed" => now.failures < FailureThreshold
      /\ CurrentCalls[e] = "idle"
  BY Looking DEF Allow
<1>2. IsFiniteSet(P) /\ Cardinality(P) \in Nat
  BY FewerProbes
<1> HIDE DEF now
<1>3. CASE HasProbeSlot(now)
  <2>1. /\ breaker' = [now EXCEPT !.probes = @ + 1]
        /\ calls' = [CurrentCalls EXCEPT ![e] = "probe"]
    BY <1>3 DEF Allow, AfterAllow, now
  <2>2. ProbesOut' = P \cup {e}
    BY <1>1, <2>1 DEF ProbesOut
  <2>3. Cardinality(ProbesOut') = Cardinality(P) + 1
    BY <1>1, <1>2, <2>2, FS_AddElement
  <2>4. now.probes \in Nat /\ now.probes < HalfOpenMaxCalls
    BY <1>1, <1>3 DEF HasProbeSlot, Breaker
  <2>5. breaker'.probes = now.probes + 1
    BY <1>1, <2>1 DEF Breaker
  <2>6. CBTypeOK'
    BY <1>1, <2>1, <2>4, ProbeLimitAssumption
       DEF CBTypeOK, Breaker, CallStatus
  <2>7. ProbeBound'
    BY <1>1, <1>2, <2>3, <2>4, <2>5, ProbeLimitAssumption DEF ProbeBound
  <2>8. ClosedIsBelowThreshold'
    BY <1>1, <2>1 DEF ClosedIsBelowThreshold, Breaker
  <2>9. QED
    BY <2>6, <2>7, <2>8 DEF CBInv
<1>4. CASE ~HasProbeSlot(now)
  <2>1. breaker' = now /\ calls' = [CurrentCalls EXCEPT ![e] = "free"]
    BY <1>4 DEF Allow, AfterAllow, now
  <2>2. ProbesOut' = P
    BY <1>1, <2>1 DEF ProbesOut
  <2>3. now.probes <= HalfOpenMaxCalls
    BY <1>1, ProbeLimitAssumption DEF Breaker
  <2>4. QED
    BY <1>1, <2>1, <2>2, <2>3
       DEF CBInv, CBTypeOK, ProbeBound, ClosedIsBelowThreshold, CallStatus
<1>5. QED
  BY <1>3, <1>4

(* A call that leaves takes at most its own probe with it.                 *)
LEMMA OneFewer ==
    ASSUME CBInv, NEW e \in Events, calls' = [calls EXCEPT ![e] = "idle"]
    PROVE  /\ calls' \in [Events -> CallStatus]
           /\ Cardinality(ProbesOut') <= breaker.probes
<1>1. calls' \in [Events -> CallStatus]
  BY DEF CBInv, CBTypeOK, CallStatus
<1>2. ProbesOut' \subseteq ProbesOut
  BY <1>1 DEF ProbesOut, CBInv, CBTypeOK
<1>3. Cardinality(ProbesOut') <= Cardinality(ProbesOut)
      /\ Cardinality(ProbesOut') \in Nat /\ Cardinality(ProbesOut) \in Nat
  BY <1>2, FewerProbes DEF ProbesOut
<1>4. breaker.probes \in Nat /\ Cardinality(ProbesOut) <= breaker.probes
  BY DEF CBInv, CBTypeOK, ProbeBound, Breaker
<1>5. QED
  BY <1>1, <1>3, <1>4

LEMMA SucceedKeepsInv ==
    ASSUME CBInv, NEW e \in Events, Succeed(e)
    PROVE  CBInv'
<1>1. breaker \in Breaker /\ breaker' = AfterSuccess(breaker)
  BY DEF CBInv, CBTypeOK, Succeed
<1>2. breaker' \in Breaker /\ breaker'.probes = breaker.probes
  <2>1. CASE breaker.state # "half_open"
    BY <1>1, <2>1, CounterRanges DEF AfterSuccess, Breaker, CircuitState
  <2>2. CASE breaker.state = "half_open" /\ breaker.successes + 1 >= HalfOpenMaxCalls
    BY <1>1, <2>2, CounterRanges DEF AfterSuccess, Breaker, CircuitState
  <2>3. CASE breaker.state = "half_open" /\ ~(breaker.successes + 1 >= HalfOpenMaxCalls)
    <3>1. breaker.successes + 1 \in 0..HalfOpenMaxCalls
      BY <1>1, <2>3, CounterRanges DEF Breaker
    <3>2. breaker' = [breaker EXCEPT !.successes = @ + 1]
      BY <1>1, <2>3 DEF AfterSuccess
    <3>3. QED
      BY <1>1, <3>1, <3>2 DEF Breaker
  <2>4. QED
    BY <2>1, <2>2, <2>3
<1>3. ClosedIsBelowThreshold'
  BY <1>1, ThresholdAssumption
     DEF ClosedIsBelowThreshold, AfterSuccess, Breaker
<1>4. CBTypeOK' /\ ProbeBound'
  BY <1>2, OneFewer DEF Succeed, CBTypeOK, ProbeBound, CBInv
<1>5. QED
  BY <1>3, <1>4 DEF CBInv

LEMMA FailKeepsInv ==
    ASSUME CBInv, NEW e \in Events, Fail(e)
    PROVE  CBInv'
<1> DEFINE rest == [calls EXCEPT ![e] = "idle"]
<1>1. breaker \in Breaker /\ breaker' = AfterFailure(breaker)
  BY DEF CBInv, CBTypeOK, Fail
<1>2. rest \in [Events -> CallStatus]
  BY DEF CBInv, CBTypeOK, CallStatus
<1>3. breaker' \in Breaker
  <2>1. CASE breaker.state = "half_open"
    BY <1>1, <2>1, CounterRanges DEF AfterFailure, Breaker, CircuitState
  <2>2. CASE breaker.state # "half_open" /\ breaker.failures + 1 >= FailureThreshold
    BY <1>1, <2>2, CounterRanges DEF AfterFailure, Breaker, CircuitState
  <2>3. CASE breaker.state # "half_open" /\ ~(breaker.failures + 1 >= FailureThreshold)
    <3>1. breaker.failures + 1 \in 0..FailureThreshold
      BY <1>1, <2>3, CounterRanges DEF Breaker
    <3>2. breaker' = [breaker EXCEPT !.failures = @ + 1]
      BY <1>1, <2>3 DEF AfterFailure
    <3>3. QED
      BY <1>1, <3>1, <3>2 DEF Breaker
  <2>4. QED
    BY <2>1, <2>2, <2>3
<1>4. ClosedIsBelowThreshold'
  BY <1>1, ThresholdAssumption
     DEF ClosedIsBelowThreshold, AfterFailure, Breaker, CBInv
<1>5. CASE breaker.state = "half_open"
  <2>1. calls' = Forget(rest) /\ breaker'.probes = 0
    BY <1>1, <1>5 DEF Fail, AfterFailure, Breaker
  <2>2. calls' \in [Events -> CallStatus] /\ \A f \in Events : calls'[f] # "probe"
    BY <1>2, <2>1, ForgetLeavesNone
  <2>3. ProbesOut' = {}
    BY <2>2 DEF ProbesOut
  <2>4. Cardinality(ProbesOut') = 0
    BY <2>3, FS_EmptySet
  <2>5. CBTypeOK' /\ ProbeBound'
    <3>1. CBTypeOK'
      BY <1>3, <2>2 DEF CBTypeOK
    <3>2. breaker'.probes = 0
      BY <2>1
    <3>3. QED
      BY <2>4, <3>1, <3>2, CounterRanges DEF ProbeBound
  <2>6. QED
    BY <1>4, <2>5 DEF CBInv
<1>6. CASE breaker.state # "half_open"
  <2>1. calls' = rest /\ breaker'.probes = breaker.probes
    BY <1>1, <1>6 DEF Fail, AfterFailure, Breaker
  <2>2. CBTypeOK' /\ ProbeBound'
    BY <1>3, <2>1, OneFewer DEF CBTypeOK, ProbeBound, CBInv
  <2>3. QED
    BY <1>4, <2>2 DEF CBInv
<1>7. QED
  BY <1>5, <1>6

LEMMA BreakerStep == CBInv /\ [CBNext]_cbVars => CBInv'
<1> SUFFICES ASSUME CBInv, [CBNext]_cbVars PROVE CBInv'
  OBVIOUS
<1>1. CASE Elapse
  BY <1>1 DEF Elapse, CBInv, CBTypeOK, ProbeBound, ProbesOut,
              ClosedIsBelowThreshold, Breaker
<1>2. CASE Observe
  <2>1. ProbesOut' = {e \in Events : CurrentCalls[e] = "probe"}
    BY <1>2 DEF Observe, ProbesOut
  <2>2. Current(breaker).probes <= HalfOpenMaxCalls
    BY Looking, ProbeLimitAssumption DEF Breaker
  <2>3. QED
    BY <1>2, <2>1, <2>2, Looking
       DEF Observe, CBInv, CBTypeOK, ProbeBound, ClosedIsBelowThreshold
<1>3. CASE Abandon \/ Renew
  <2>1. calls' = [e \in Events |-> "idle"] /\ (breaker' = breaker \/ breaker' = NewBreaker)
    BY <1>3 DEF Abandon, Renew
  <2>2. ProbesOut' = {}
    BY <2>1 DEF ProbesOut
  <2>3. breaker' \in Breaker /\ ClosedIsBelowThreshold'
    BY <2>1, ThresholdAssumption, ProbeLimitAssumption
       DEF CBInv, CBTypeOK, NewBreaker, Breaker, CircuitState, ClosedIsBelowThreshold
  <2>4. QED
    BY <2>1, <2>2, <2>3, FS_EmptySet, ProbeLimitAssumption
       DEF CBInv, CBTypeOK, CallStatus, ProbeBound, Breaker
<1>4. ASSUME NEW e \in Events, CBStep(e) PROVE CBInv'
  <2>1. CASE Allow(e)
    BY <2>1, AllowKeepsInv
  <2>2. CASE Refuse(e)
    BY <2>2 DEF Refuse, cbVars, CBInv, CBTypeOK, ProbeBound, ProbesOut,
                ClosedIsBelowThreshold
  <2>3. CASE Succeed(e)
    BY <2>3, SucceedKeepsInv
  <2>4. CASE Fail(e)
    BY <2>4, FailKeepsInv
  <2>5. CASE Unreported(e)
    BY <2>5, OneFewer
       DEF Unreported, CBInv, CBTypeOK, ProbeBound, ClosedIsBelowThreshold
  <2>6. QED
    BY <1>4, <2>1, <2>2, <2>3, <2>4, <2>5 DEF CBStep
<1>5. CASE UNCHANGED cbVars
  BY <1>5 DEF cbVars, CBInv, CBTypeOK, ProbeBound, ProbesOut, ClosedIsBelowThreshold
<1>6. QED
  BY <1>1, <1>2, <1>3, <1>4, <1>5 DEF CBNext

LEMMA BreakerInvariant == CBSpec => []CBInv
<1>1. CBInit => CBInv
  BY InitialBreaker
<1>2. CBInv /\ [CBNext]_cbVars => CBInv'
  BY BreakerStep
<1>3. QED
  BY <1>1, <1>2, PTL DEF CBSpec

(* Every field of the breaker stays in its range, for all limits.          *)
THEOREM CBTypeCorrect == CBSpec => []CBTypeOK
<1>1. CBInv => CBTypeOK
  BY DEF CBInv
<1>2. QED
  BY <1>1, BreakerInvariant, PTL

(* A half-open circuit never has more probes out than half_open_max_calls, *)
(* whatever deliveries of earlier periods still come back late.            *)
THEOREM ProbesAreBounded == CBSpec => []ProbeBound
<1>1. CBInv => ProbeBound
  BY DEF CBInv
<1>2. QED
  BY <1>1, BreakerInvariant, PTL

(* A closed circuit never holds a failure count at the threshold.          *)
THEOREM ClosedBelowThreshold == CBSpec => []ClosedIsBelowThreshold
<1>1. CBInv => ClosedIsBelowThreshold
  BY DEF CBInv
<1>2. QED
  BY <1>1, BreakerInvariant, PTL
-----------------------------------------------------------------------------
LEMMA LeavingOpen ==
    ASSUME CBInv, [CBNext]_cbVars, breaker.state = "open", breaker'.state # "open"
    PROVE  \/ breaker.timer = "over" /\ breaker'.state = "half_open"
           \/ breaker' = NewBreaker
<1>1. breaker \in Breaker
  BY DEF CBInv, CBTypeOK
<1>2. Current(breaker).state # "open"
        => breaker.timer = "over" /\ Current(breaker).state = "half_open"
  BY <1>1 DEF Current, TurnsHalfOpen, Breaker
<1>3. CASE Elapse
  BY <1>1, <1>3 DEF Elapse, Breaker
<1>4. CASE Observe
  BY <1>2, <1>4 DEF Observe
<1>5. CASE Abandon \/ Renew \/ UNCHANGED cbVars
  BY <1>5 DEF Abandon, Renew, cbVars
<1>6. ASSUME NEW e \in Events, CBStep(e)
      PROVE  breaker.timer = "over" /\ breaker'.state = "half_open"
  <2>1. CASE Allow(e)
    <3>1. Current(breaker).state # "open"
      BY <2>1 DEF Allow, Admits, HasProbeSlot
    <3>2. breaker' = AfterAllow(Current(breaker)) /\ Current(breaker) \in Breaker
      BY <2>1, Looking DEF Allow
    <3>3. breaker'.state = Current(breaker).state
      BY <3>2 DEF AfterAllow, Breaker
    <3>4. QED
      BY <1>2, <3>1, <3>3
  <2>2. CASE Refuse(e) \/ Unreported(e)
    BY <2>2 DEF Refuse, Unreported, cbVars
  <2>3. CASE Succeed(e)
    BY <1>1, <2>3 DEF Succeed, AfterSuccess, Breaker
  <2>4. CASE Fail(e)
    BY <1>1, <2>4 DEF Fail, AfterFailure, Breaker
  <2>5. QED
    BY <1>6, <2>1, <2>2, <2>3, <2>4 DEF CBStep
<1>7. QED
  BY <1>3, <1>4, <1>5, <1>6 DEF CBNext

(* Nothing but the recovery timeout ends an open period: late answers of   *)
(* calls admitted before it cannot close the circuit.                      *)
THEOREM OpenEndsByTimeout == CBSpec => OpenLeavesByTimeout
<1>1. CBInv /\ [CBNext]_cbVars
        => [ breaker.state = "open" /\ breaker'.state # "open"
               => \/ breaker.timer = "over" /\ breaker'.state = "half_open"
                  \/ breaker' = NewBreaker ]_cbVars
  BY LeavingOpen
<1>2. QED
  BY <1>1, BreakerInvariant, PTL DEF CBSpec, OpenLeavesByTimeout
-----------------------------------------------------------------------------
LEMMA ReportingIsCB == ReportingNext => CBNext
BY DEF ReportingNext, CBNext, CBStep

LEMMA SlotsStep ==
    ASSUME CBInv, SlotsAccountedFor, [ReportingNext]_cbVars
    PROVE  SlotsAccountedFor'
<1>1. breaker \in Breaker /\ calls \in [Events -> CallStatus]
  BY DEF CBInv, CBTypeOK
<1>2. IsFiniteSet(ProbesOut) /\ Cardinality(ProbesOut) \in Nat
  BY FewerProbes DEF ProbesOut
<1>3. CASE Elapse
  BY <1>1, <1>3 DEF Elapse, SlotsAccountedFor, Breaker
<1>4. ASSUME TurnsHalfOpen(breaker)
      PROVE  Current(breaker).probes = 0 /\ Current(breaker).successes = 0
  BY <1>1, <1>4 DEF Current, Breaker
<1>5. CASE Observe
  <2>1. CASE TurnsHalfOpen(breaker)
    <3>1. breaker'.probes = 0 /\ breaker'.successes = 0
      BY <1>4, <1>5, <2>1 DEF Observe
    <3>2. Cardinality(ProbesOut') \in Nat
      BY FewerProbes DEF ProbesOut
    <3>3. QED
      BY <3>1, <3>2 DEF SlotsAccountedFor
  <2>2. CASE ~TurnsHalfOpen(breaker)
    BY <1>5, <2>2 DEF Observe, Current, CurrentCalls, SlotsAccountedFor, ProbesOut
  <2>3. QED
    BY <2>1, <2>2
<1>6. CASE Renew \/ UNCHANGED cbVars
  BY <1>6 DEF Renew, cbVars, NewBreaker, SlotsAccountedFor, ProbesOut
<1>7. ASSUME NEW e \in Events, Allow(e) PROVE SlotsAccountedFor'
  <2> DEFINE now == Current(breaker)
             P == {f \in Events : CurrentCalls[f] = "probe"}
  <2>1. now \in Breaker /\ CurrentCalls \in [Events -> CallStatus]
        /\ CurrentCalls[e] = "idle"
    BY <1>7, Looking DEF Allow
  <2>2. IsFiniteSet(P) /\ Cardinality(P) \in Nat
    BY FewerProbes
  <2>3. now.state = "half_open" => now.probes <= Cardinality(P) + now.successes
    <3>1. CASE TurnsHalfOpen(breaker)
      BY <1>4, <2>2, <3>1
    <3>2. CASE ~TurnsHalfOpen(breaker)
      BY <3>2 DEF Current, CurrentCalls, SlotsAccountedFor, ProbesOut
    <3>3. QED
      BY <3>1, <3>2
  <2> HIDE DEF now
  <2>4. CASE HasProbeSlot(now)
    <3>1. /\ breaker' = [now EXCEPT !.probes = @ + 1]
          /\ calls' = [CurrentCalls EXCEPT ![e] = "probe"]
      BY <1>7, <2>4 DEF Allow, AfterAllow, now
    <3>2. ProbesOut' = P \cup {e}
      BY <2>1, <3>1 DEF ProbesOut
    <3>3. Cardinality(ProbesOut') = Cardinality(P) + 1
      BY <2>1, <2>2, <3>2, FS_AddElement
    <3>4. breaker'.probes = now.probes + 1 /\ breaker'.successes = now.successes
          /\ breaker'.state = now.state /\ now.probes \in Nat /\ now.successes \in Nat
      BY <2>1, <3>1, CounterRanges DEF Breaker
    <3>5. QED
      BY <2>2, <2>3, <3>3, <3>4 DEF SlotsAccountedFor
  <2>5. CASE ~HasProbeSlot(now)
    <3>1. breaker' = now /\ calls' = [CurrentCalls EXCEPT ![e] = "free"]
      BY <1>7, <2>5 DEF Allow, AfterAllow, now
    <3>2. ProbesOut' = P
      BY <2>1, <3>1 DEF ProbesOut
    <3>3. QED
      BY <2>3, <3>1, <3>2 DEF SlotsAccountedFor
  <2>6. QED
    BY <2>4, <2>5
<1>8. ASSUME NEW e \in Events, Refuse(e) PROVE SlotsAccountedFor'
  BY <1>8 DEF Refuse, cbVars, SlotsAccountedFor, ProbesOut
<1>9. ASSUME NEW e \in Events, Succeed(e) PROVE SlotsAccountedFor'
  <2>1. calls' = [calls EXCEPT ![e] = "idle"] /\ breaker' = AfterSuccess(breaker)
    BY <1>9 DEF Succeed
  <2>2. ProbesOut' = ProbesOut \ {e}
    BY <1>1, <2>1 DEF ProbesOut
  <2>3. Cardinality(ProbesOut') + 1 >= Cardinality(ProbesOut)
        /\ Cardinality(ProbesOut') \in Nat
    <3>1. CASE e \in ProbesOut
      <4>1. Cardinality(ProbesOut \ {e}) = Cardinality(ProbesOut) - 1
        BY <1>2, <3>1, FS_RemoveElement
      <4>2. Cardinality(ProbesOut \ {e}) \in Nat
        BY <1>2, FS_Subset, FS_CardinalityType
      <4>3. QED
        BY <1>2, <2>2, <4>1, <4>2
    <3>2. CASE e \notin ProbesOut
      <4>1. ProbesOut' = ProbesOut
        BY <2>2, <3>2
      <4>2. QED
        BY <1>2, <4>1
    <3>3. QED
      BY <3>1, <3>2
  <2>4. SUFFICES ASSUME breaker'.state = "half_open"
                 PROVE  breaker'.probes <= Cardinality(ProbesOut') + breaker'.successes
    BY DEF SlotsAccountedFor
  <2>5. breaker.state = "half_open" /\ breaker' = [breaker EXCEPT !.successes = @ + 1]
    BY <1>1, <2>1, <2>4 DEF AfterSuccess, Breaker
  <2>6. /\ breaker'.probes = breaker.probes /\ breaker'.successes = breaker.successes + 1
        /\ breaker.probes \in Nat /\ breaker.successes \in Nat
    BY <1>1, <2>5, CounterRanges DEF Breaker
  <2>7. QED
    BY <1>2, <2>3, <2>5, <2>6 DEF SlotsAccountedFor
<1>10. ASSUME NEW e \in Events, Fail(e) PROVE SlotsAccountedFor'
  BY <1>1, <1>10 DEF Fail, AfterFailure, SlotsAccountedFor, Breaker
<1>11. QED
  BY <1>3, <1>5, <1>6, <1>7, <1>8, <1>9, <1>10 DEF ReportingNext

(* When every admitted call is reported, no probe slot is ever lost, for   *)
(* any number of deliveries and any limits: a half-open circuit with all   *)
(* its slots taken still waits for an answer that will move it.            *)
THEOREM SlotsAreAccountedFor == ReportingSpec => []SlotsAccountedFor
<1>1. CBInit => CBInv /\ SlotsAccountedFor
  BY InitialBreaker DEF CBInit, NewBreaker, SlotsAccountedFor
<1>2. CBInv /\ SlotsAccountedFor /\ [ReportingNext]_cbVars
        => (CBInv /\ SlotsAccountedFor)'
  BY BreakerStep, SlotsStep, ReportingIsCB
<1>3. QED
  BY <1>1, <1>2, PTL DEF ReportingSpec

-----------------------------------------------------------------------------
(* The pipeline                                                            *)

(* The parts of the type invariant the argument needs.                     *)
Types ==
    /\ arrival \in [Events -> Nat]
    /\ calls \in [Events -> CallStatus]
    /\ wire \in [Events -> {"none", "sent", "taken"}]
    /\ memory \subseteq Queued /\ evicted \subseteq Queued /\ handoff \subseteq Queued
    /\ stored \subseteq Queued /\ due \subseteq stored
    /\ received \subseteq Queued /\ rejected \subseteq Queued /\ lost \subseteq Queued
    /\ blocked \subseteq Events /\ waiting \subseteq Events
    /\ blocked \cap Queued = {}
    /\ open \in BOOLEAN

(* A POST exists exactly while the breaker counts a call as outstanding,   *)
(* and only while the worker is in its gather.                             *)
PostsAreCalls ==
    /\ \A e \in Events : wire[e] = "none" <=> calls[e] = "idle"
    /\ \A e \in Events : wire[e] = "taken" => e \in received
    /\ wpc \notin {"deliver", "dying"} => InFlight = {}
    /\ waiting \cap InFlight = {}

(* The local batch is empty except between get_batch and the last INSERT.  *)
HandoffIsLocal == wpc \notin {"persist", "dead"} => handoff = {}

(* What is being posted has its row, or went with a :memory: database.     *)
InFlightIsKept ==
    /\ open => waiting \cup InFlight \subseteq stored
    /\ wpc \in {"deliver", "dying"}
         => waiting \cup InFlight \subseteq stored \cup (IF Durable THEN {} ELSE lost)

IInv == Types /\ OneHome /\ RejectedForGood /\ PostsAreCalls /\ HandoffIsLocal
        /\ InFlightIsKept
-----------------------------------------------------------------------------
LEMMA FirstOfIsSubset == \A S, n : FirstOf(S, n) \subseteq S
BY DEF FirstOf

LEMMA InitIInv == Init => IInv
BY DEF Init, CBInit, IInv, Types, OneHome, RejectedForGood, PostsAreCalls, InFlight,
       HandoffIsLocal, InFlightIsKept, Queued, CallStatus

(* An event that enters the memory queue is new to every other set.        *)
LEMMA Entering ==
    ASSUME IInv, NEW e \in Events, arrival[e] = 0, NEW kept, EnterMemory(e, kept)
    PROVE  /\ arrival' \in [Events -> Nat]
           /\ Queued' = Queued \cup {e}
           /\ e \notin Queued
<1>1. IsFiniteSet(Queued)
  BY FS_Subset, EventsAssumption DEF Queued
<1>2. Cardinality(Queued) \in Nat
  BY <1>1, FS_CardinalityType
<1> DEFINE next == Cardinality(Queued) + 1
<1>3. next \in Nat /\ next > 0 /\ arrival' = [arrival EXCEPT ![e] = next]
  BY <1>2 DEF EnterMemory
<1>4. arrival \in [Events -> Nat]
  BY DEF IInv, Types
<1> HIDE DEF next
<1>5. QED
  BY <1>3, <1>4 DEF Queued

LEMMA TrackKeepsIInv ==
    ASSUME IInv, NEW e \in Events, Track(e)
    PROVE  IInv'
<1> USE DEF storeVars, workerVars, callerVars, fateVars, cbVars
<1>1. UNCHANGED <<handoff, stored, due, waiting, wpc, open, received, rejected, lost,
                  wire, calls>>
  BY DEF Track
<1>2. ASSUME UNCHANGED <<arrival, memory, evicted>>, blocked' \subseteq Events,
             blocked' \cap Queued = {}
      PROVE  IInv'
  BY <1>1, <1>2 DEF IInv, Types, OneHome, RejectedForGood, PostsAreCalls, InFlight,
                    HandoffIsLocal, InFlightIsKept, Queued
<1>3. ASSUME NEW kept \in SUBSET memory, arrival[e] = 0, EnterMemory(e, kept),
             evicted' = evicted \cup (memory \ kept),
             blocked' \subseteq blocked, e \notin blocked'
      PROVE  IInv'
  <2>1. arrival' \in [Events -> Nat] /\ Queued' = Queued \cup {e} /\ e \notin Queued
    BY <1>3, Entering
  <2>2. memory' = kept \cup {e}
    BY <1>3 DEF EnterMemory
  <2>3. Types'
    BY <1>1, <1>3, <2>1, <2>2 DEF IInv, Types
  <2>4. OneHome' /\ RejectedForGood'
    BY <1>1, <1>3, <2>1, <2>2 DEF IInv, Types, OneHome, RejectedForGood
  <2>5. PostsAreCalls' /\ HandoffIsLocal' /\ InFlightIsKept'
    BY <1>1 DEF IInv, PostsAreCalls, InFlight, HandoffIsLocal, InFlightIsKept
  <2>6. QED
    BY <2>3, <2>4, <2>5 DEF IInv
<1>4. CASE Put(e)
  <2>1. /\ memory \in SUBSET memory /\ arrival[e] = 0 /\ EnterMemory(e, memory)
        /\ evicted' = evicted \cup (memory \ memory)
        /\ blocked' \subseteq blocked /\ e \notin blocked'
    BY <1>4 DEF Put, Fresh
  <2>2. QED
    BY <1>3, <2>1
<1>5. CASE PutDropOldest(e)
  <2> DEFINE kept == memory \ FirstOf(memory, 1)
  <2>1. FirstOf(memory, 1) = memory \ kept
    BY FirstOfIsSubset
  <2>2. /\ kept \in SUBSET memory /\ arrival[e] = 0 /\ EnterMemory(e, kept)
        /\ evicted' = evicted \cup (memory \ kept)
        /\ blocked' \subseteq blocked /\ e \notin blocked'
    BY <1>5, <2>1 DEF PutDropOldest, Fresh
  <2>3. QED
    BY <1>3, <2>2
<1>6. CASE BlockedPutEnters(e)
  <2>1. /\ memory \in SUBSET memory /\ EnterMemory(e, memory)
        /\ evicted' = evicted \cup (memory \ memory)
        /\ blocked' \subseteq blocked /\ e \notin blocked' /\ e \notin Queued
    BY <1>6 DEF BlockedPutEnters, IInv, Types
  <2>2. arrival[e] = 0
    BY <2>1 DEF IInv, Types, Queued
  <2>3. QED
    BY <1>3, <2>1, <2>2
<1>7. CASE PutDropNewest(e) \/ PutBlocks(e) \/ BlockedPutTimesOut(e)
  BY <1>2, <1>7
     DEF PutDropNewest, PutBlocks, BlockedPutTimesOut, Fresh, Queued, IInv, Types
<1>8. QED
  BY <1>4, <1>5, <1>6, <1>7 DEF Track
-----------------------------------------------------------------------------
(* The passes of the worker thread                                         *)

LEMMA PassKeepsIInv ==
    ASSUME IInv,
           \/ BeginPass \/ GetBatch \/ PersistOne \/ SkipDelivery \/ StartDelivery
           \/ RaiseOnPoison \/ RaiseOnClosed \/ FinishPass \/ Die
    PROVE  IInv'
<1> USE DEF queueVars, storeVars, workerVars, callerVars, fateVars, cbVars
<1>1. ASSUME Observe PROVE calls' \in [Events -> CallStatus] /\ InFlight' = InFlight
  <2>1. \A e \in Events : calls'[e] = "idle" <=> calls[e] = "idle"
    BY <1>1, ForgetLeavesNone DEF Observe, CurrentCalls, IInv, Types
  <2>2. calls' \in [Events -> CallStatus]
    BY <1>1, ForgetLeavesNone DEF Observe, CurrentCalls, IInv, Types
  <2>3. QED
    BY <2>1, <2>2 DEF InFlight
<1>2. ASSUME UNCHANGED <<queueVars, fateVars, open, wire, calls>>,
             stored' = stored, due' = due,
             wpc \notin {"deliver", "dying"} \/ InFlight = {},
             UNCHANGED <<handoff, waiting>>, wpc' \in {"check", "drain", "exited"},
             handoff = {}
      PROVE  IInv'
  BY <1>2 DEF IInv, Types, OneHome, RejectedForGood, PostsAreCalls, InFlight,
              HandoffIsLocal, InFlightIsKept, Queued
<1>3. CASE BeginPass
  BY <1>3, <1>2 DEF BeginPass, IInv, HandoffIsLocal
<1>4. CASE GetBatch
  <2>1. FirstOf(memory, BatchSize) \subseteq memory
    BY FirstOfIsSubset
  <2>2. handoff = {}
    BY <1>4 DEF GetBatch, IInv, HandoffIsLocal
  <2>3. QED
    BY <1>4, <2>1, <2>2
       DEF GetBatch, IInv, Types, OneHome, RejectedForGood, PostsAreCalls, InFlight,
           HandoffIsLocal, InFlightIsKept, Queued
<1>5. CASE PersistOne
  <2>1. PICK e \in handoff : /\ handoff' = handoff \ {e}
                            /\ stored' = stored \cup {e}
                            /\ due' = due \cup {e}
    BY <1>5, FirstOfIsSubset DEF PersistOne
  <2>2. QED
    BY <1>5, <2>1
       DEF PersistOne, IInv, Types, OneHome, RejectedForGood, PostsAreCalls, InFlight,
           HandoffIsLocal, InFlightIsKept, Queued
<1>6. CASE SkipDelivery
  <2>1. /\ Observe /\ UNCHANGED <<queueVars, storeVars, waiting, open, fateVars, wire>>
        /\ wpc = "persist" /\ wpc' \in {"check", "exited"} /\ handoff = {}
    BY <1>6 DEF SkipDelivery, EndPass
  <2>2. calls' \in [Events -> CallStatus] /\ InFlight' = InFlight
    BY <1>1, <2>1
  <2>3. \A e \in Events : calls'[e] = "idle" <=> calls[e] = "idle"
    BY <2>2 DEF InFlight
  <2>4. Types' /\ OneHome' /\ RejectedForGood' /\ HandoffIsLocal'
    BY <2>1, <2>2 DEF IInv, Types, OneHome, RejectedForGood, HandoffIsLocal, Queued
  <2>5. PostsAreCalls' /\ InFlightIsKept'
    BY <2>1, <2>2, <2>3 DEF IInv, PostsAreCalls, InFlightIsKept
  <2>6. QED
    BY <2>4, <2>5 DEF IInv
<1>7. CASE StartDelivery
  <2>1. /\ Observe /\ UNCHANGED <<queueVars, storeVars, open, fateVars, wire>>
        /\ wpc = "persist" /\ wpc' = "deliver" /\ handoff = {} /\ open
        /\ waiting' = FirstOf(due, BatchSize)
    BY <1>7 DEF StartDelivery
  <2>2. calls' \in [Events -> CallStatus] /\ InFlight' = InFlight
    BY <1>1, <2>1
  <2>3. InFlight = {}
    BY <2>1 DEF IInv, PostsAreCalls
  <2>4. waiting' \subseteq stored /\ stored \subseteq Events
    BY <2>1, FirstOfIsSubset DEF IInv, Types, Queued
  <2>5. \A e \in Events : calls'[e] = "idle" <=> calls[e] = "idle"
    BY <2>2 DEF InFlight
  <2>6. Types' /\ OneHome' /\ RejectedForGood' /\ HandoffIsLocal'
    BY <2>1, <2>2, <2>4 DEF IInv, Types, OneHome, RejectedForGood, HandoffIsLocal, Queued
  <2>7. PostsAreCalls' /\ InFlightIsKept'
    BY <2>1, <2>2, <2>3, <2>4, <2>5 DEF IInv, PostsAreCalls, InFlightIsKept
  <2>8. QED
    BY <2>6, <2>7 DEF IInv
<1>8. CASE RaiseOnClosed \/ RaiseOnPoison
  <2>1. /\ UNCHANGED <<queueVars, storeVars, waiting, open, fateVars, wire>>
        /\ wpc = "persist" /\ wpc' = "dead"
        /\ Observe \/ UNCHANGED cbVars
    BY <1>8 DEF RaiseOnClosed, RaiseOnPoison
  <2>2. calls' \in [Events -> CallStatus] /\ InFlight' = InFlight
    BY <1>1, <2>1 DEF IInv, Types, InFlight
  <2>3. \A e \in Events : calls'[e] = "idle" <=> calls[e] = "idle"
    BY <2>2 DEF InFlight
  <2>4. Types' /\ OneHome' /\ RejectedForGood' /\ HandoffIsLocal'
    BY <2>1, <2>2 DEF IInv, Types, OneHome, RejectedForGood, HandoffIsLocal, Queued
  <2>5. PostsAreCalls' /\ InFlightIsKept'
    BY <2>1, <2>2, <2>3 DEF IInv, PostsAreCalls, InFlightIsKept
  <2>6. QED
    BY <2>4, <2>5 DEF IInv
<1>9. CASE FinishPass
  BY <1>9, <1>2 DEF FinishPass, EndPass, IInv, HandoffIsLocal
<1>10. CASE Die
  <2>1. /\ UNCHANGED <<queueVars, storeVars, waiting, open, fateVars>>
        /\ wire' = [e \in Events |-> "none"] /\ calls' = [e \in Events |-> "idle"]
        /\ wpc = "dying" /\ wpc' = "dead"
    BY <1>10 DEF Die, Abandon
  <2>2. InFlight' = {}
    BY <2>1 DEF InFlight
  <2>3. Types' /\ OneHome' /\ RejectedForGood' /\ HandoffIsLocal'
    BY <2>1 DEF IInv, Types, OneHome, RejectedForGood, HandoffIsLocal, Queued, CallStatus
  <2>4. PostsAreCalls' /\ InFlightIsKept'
    BY <2>1, <2>2 DEF IInv, PostsAreCalls, InFlightIsKept
  <2>5. QED
    BY <2>3, <2>4 DEF IInv
<1>11. QED
  BY <1>3, <1>4, <1>5, <1>6, <1>7, <1>8, <1>9, <1>10
-----------------------------------------------------------------------------
(* Deliveries, answers and timers                                          *)

LEMMA SendKeepsIInv ==
    ASSUME IInv, NEW e \in Events, Send(e) \/ TurnAway(e)
    PROVE  IInv'
<1> USE DEF queueVars, storeVars, workerVars, callerVars, fateVars, cbVars
<1>1. /\ e \in waiting /\ waiting' = waiting \ {e} /\ wpc = "deliver" /\ wpc' = wpc
      /\ UNCHANGED <<queueVars, storeVars, open, fateVars>>
  BY FirstOfIsSubset DEF Send, TurnAway, NextToStart
<1>2. CASE Send(e)
  <2>1. \A f \in Events : CurrentCalls[f] = "idle" <=> calls[f] = "idle"
    BY ForgetLeavesNone DEF CurrentCalls, IInv, Types
  <2>2. CurrentCalls \in [Events -> CallStatus]
    BY ForgetLeavesNone DEF CurrentCalls, IInv, Types
  <2>3. PICK tag \in {"probe", "free"} : calls' = [CurrentCalls EXCEPT ![e] = tag]
    BY <1>2 DEF Send, Allow
  <2>4. /\ calls' \in [Events -> CallStatus]
        /\ \A f \in Events : calls'[f] = "idle" <=> f # e /\ calls[f] = "idle"
    BY <2>1, <2>2, <2>3 DEF CallStatus
  <2>5. wire' = [wire EXCEPT ![e] = "sent"]
    BY <1>2 DEF Send
  <2>6. InFlight' = InFlight \cup {e}
    BY <2>4 DEF InFlight
  <2>7. Types' /\ OneHome' /\ RejectedForGood' /\ HandoffIsLocal'
    BY <1>1, <2>4, <2>5 DEF IInv, Types, OneHome, RejectedForGood, HandoffIsLocal, Queued
  <2>8. PostsAreCalls' /\ InFlightIsKept'
    BY <1>1, <2>4, <2>5, <2>6 DEF IInv, Types, PostsAreCalls, InFlightIsKept
  <2>9. QED
    BY <2>7, <2>8 DEF IInv
<1>3. CASE TurnAway(e)
  <2>1. UNCHANGED <<calls, wire>>
    BY <1>3 DEF TurnAway, Refuse
  <2>2. QED
    BY <1>1, <2>1
       DEF IInv, Types, OneHome, RejectedForGood, HandoffIsLocal, PostsAreCalls,
           InFlight, InFlightIsKept, Queued
<1>4. QED
  BY <1>2, <1>3

LEMMA ApiAcceptsKeepsIInv ==
    ASSUME IInv, NEW e \in Events, ApiAccepts(e)
    PROVE  IInv'
<1> USE DEF queueVars, storeVars, workerVars, callerVars, fateVars, cbVars
<1>1. e \in InFlight
  BY DEF ApiAccepts, IInv, PostsAreCalls, InFlight
<1>2. e \in Queued
  BY <1>1 DEF ApiAccepts, IInv, PostsAreCalls, InFlightIsKept, Types
<1>3. QED
  BY <1>1, <1>2
     DEF ApiAccepts, IInv, Types, OneHome, RejectedForGood, HandoffIsLocal,
         PostsAreCalls, InFlight, InFlightIsKept, Queued

(* Every answer frees the event's call and post; it may remove the row,    *)
(* and then only while the store is open.                                  *)
LEMMA AnswerKeepsIInv ==
    ASSUME IInv, NEW e \in Events, Answer(e)
    PROVE  IInv'
<1> USE DEF queueVars, storeVars, workerVars, callerVars, fateVars, cbVars
<1>1. /\ wpc \in {"deliver", "dying"} /\ wpc' \in {"deliver", "dying"}
      /\ wire[e] # "none" /\ wire' = [wire EXCEPT ![e] = "none"]
      /\ UNCHANGED <<queueVars, handoff, waiting, open, received, lost>>
  BY DEF Answer, AnswerOk, AnswerTransient, AnswerUnretried, AnswerPermanent, GiveUp,
         Resume, Raise, Ack
<1>2. /\ calls' \in [Events -> CallStatus]
      /\ \A f \in Events : calls'[f] = "idle" <=> f = e \/ calls[f] = "idle"
  <2> DEFINE rest == [calls EXCEPT ![e] = "idle"]
  <2>1. /\ rest \in [Events -> CallStatus]
        /\ \A f \in Events : rest[f] = "idle" <=> f = e \/ calls[f] = "idle"
    BY DEF IInv, Types, CallStatus
  <2>2. calls' = rest \/ calls' = Forget(rest)
    BY DEF Answer, AnswerOk, AnswerTransient, AnswerUnretried, AnswerPermanent, GiveUp,
           Succeed, Fail, Unreported
  <2> HIDE DEF rest
  <2>3. QED
    BY <2>1, <2>2, ForgetLeavesNone
<1>3. InFlight' = InFlight \ {e} /\ e \in InFlight
  BY <1>1, <1>2 DEF InFlight, IInv, PostsAreCalls
<1>4. /\ \/ stored' = stored
         \/ open /\ stored' = stored \ {e}
      /\ due' \subseteq due /\ due' \subseteq stored'
      /\ \/ rejected' = rejected
         \/ open /\ rejected' = rejected \cup {e} /\ e \notin stored'
  <2>1. due \subseteq stored
    BY DEF IInv, Types
  <2>2. CASE AnswerOk(e)
    BY <2>1, <2>2 DEF AnswerOk, Ack, Raise
  <2>3. CASE AnswerTransient(e)
    BY <2>1, <2>3 DEF AnswerTransient, Raise
  <2>4. CASE AnswerUnretried(e) \/ AnswerPermanent(e)
    BY <2>1, <2>4 DEF AnswerUnretried, AnswerPermanent, GiveUp, Ack, Raise
  <2>5. QED
    BY <2>2, <2>3, <2>4 DEF Answer
<1>5. open => e \in stored
  BY <1>3 DEF IInv, InFlightIsKept
<1>6. Types'
  BY <1>1, <1>2, <1>4, <1>5 DEF IInv, Types, Queued
<1>7. OneHome' /\ RejectedForGood' /\ HandoffIsLocal'
  BY <1>1, <1>4, <1>5 DEF IInv, Types, OneHome, RejectedForGood, HandoffIsLocal
<1>8. PostsAreCalls' /\ InFlightIsKept'
  BY <1>1, <1>2, <1>3, <1>4 DEF IInv, Types, PostsAreCalls, InFlightIsKept
<1>9. QED
  BY <1>6, <1>7, <1>8 DEF IInv

LEMMA TimersKeepIInv ==
    ASSUME IInv, RecoveryTimeout \/ (\E e \in Events : RetryDue(e)) \/ Health
    PROVE  IInv'
<1> USE DEF queueVars, storeVars, workerVars, callerVars, fateVars, cbVars
<1>1. /\ UNCHANGED <<queueVars, handoff, stored, waiting, wpc, open, fateVars, wire>>
      /\ due' \subseteq stored
  BY DEF RecoveryTimeout, RetryDue, Health, IInv, Types
<1>2. /\ calls' \in [Events -> CallStatus]
      /\ \A e \in Events : calls'[e] = "idle" <=> calls[e] = "idle"
  BY ForgetLeavesNone
     DEF RecoveryTimeout, Elapse, RetryDue, Health, Observe, CurrentCalls, IInv, Types
<1>3. InFlight' = InFlight
  BY <1>2 DEF InFlight
<1>4. Types' /\ OneHome' /\ RejectedForGood' /\ HandoffIsLocal'
  BY <1>1, <1>2 DEF IInv, Types, OneHome, RejectedForGood, HandoffIsLocal, Queued
<1>5. PostsAreCalls' /\ InFlightIsKept'
  BY <1>1, <1>2, <1>3 DEF IInv, PostsAreCalls, InFlightIsKept
<1>6. QED
  BY <1>4, <1>5 DEF IInv
-----------------------------------------------------------------------------
(* The callers of flush() and shutdown(), and a new process                *)

LEMMA CallerKeepsIInv ==
    ASSUME IInv, Caller
    PROVE  IInv'
<1> USE DEF queueVars, storeVars, workerVars, callerVars, fateVars, cbVars
<1>1. CASE UNCHANGED <<queueVars, storeVars, waiting, wpc, open, fateVars, wire, calls>>
  BY <1>1 DEF IInv, Types, OneHome, RejectedForGood, PostsAreCalls, InFlight,
              HandoffIsLocal, InFlightIsKept, Queued
<1>2. CASE CloseStore
  <2>1. /\ UNCHANGED <<queueVars, handoff, waiting, wpc, received, rejected, wire, calls>>
        /\ open' = FALSE
        /\ \/ Durable /\ UNCHANGED <<stored, due, lost>>
           \/ ~Durable /\ stored' = {} /\ due' = {} /\ lost' = lost \cup stored
    BY <1>2 DEF CloseStore
  <2>2. Types' /\ OneHome' /\ RejectedForGood' /\ HandoffIsLocal'
    BY <2>1 DEF IInv, Types, OneHome, RejectedForGood, HandoffIsLocal, Queued
  <2>3. PostsAreCalls' /\ InFlightIsKept'
    BY <2>1 DEF IInv, PostsAreCalls, InFlight, InFlightIsKept
  <2>4. QED
    BY <2>2, <2>3 DEF IInv
<1>3. QED
  BY <1>1, <1>2
     DEF Caller, Flush, Poll, MemoryLooksEmpty, StoreLooksEmpty, StoreLooksFull,
         FlushGivesUp, FlushReturns, SignalStop, CloseAfterExit, CloseUnderWorker

LEMMA NewProcessKeepsIInv ==
    ASSUME IInv, NewProcess
    PROVE  IInv'
<1>1. InFlight' = {}
  BY DEF NewProcess, Renew, InFlight
<1>2. Types'
  BY OptionsAssumption
     DEF NewProcess, Renew, IInv, Types, Queued, Volatile, CallStatus
<1>3. OneHome' /\ RejectedForGood' /\ HandoffIsLocal'
  BY DEF NewProcess, IInv, OneHome, RejectedForGood, HandoffIsLocal
<1>4. PostsAreCalls' /\ InFlightIsKept'
  BY <1>1 DEF NewProcess, Renew, PostsAreCalls, InFlightIsKept
<1>5. QED
  BY <1>2, <1>3, <1>4 DEF IInv

LEMMA IInvStep == IInv /\ [Next]_vars => IInv'
<1> SUFFICES ASSUME IInv, [Next]_vars PROVE IInv'
  OBVIOUS
<1>1. CASE UNCHANGED vars
  BY <1>1 DEF vars, queueVars, storeVars, workerVars, callerVars, fateVars, cbVars,
              IInv, Types, OneHome, RejectedForGood, PostsAreCalls, InFlight,
              HandoffIsLocal, InFlightIsKept, Queued
<1>2. CASE Worker
  BY <1>2, PassKeepsIInv, SendKeepsIInv DEF Worker
<1>3. CASE Running
  BY <1>2, <1>3, TimersKeepIInv, TrackKeepsIInv, ApiAcceptsKeepsIInv, AnswerKeepsIInv
     DEF Running
<1>4. QED
  BY <1>1, <1>3, CallerKeepsIInv, NewProcessKeepsIInv DEF Next

LEMMA WorkerInvariant == Spec => []IInv
<1>1. QED
  BY InitIInv, IInvStep, PTL DEF Spec

(* An event has one home: no hand-over between the queues copies it.       *)
THEOREM EventsHaveOneHome == Spec => []OneHome
BY WorkerInvariant, PTL DEF IInv

(* A dropped event is never queued or posted again.                        *)
THEOREM RejectionsAreFinal == Spec => []RejectedForGood
BY WorkerInvariant, PTL DEF IInv

(* The row of an event outlives its POST: it is removed by the answer only.*)
THEOREM PostsHaveRows == Spec => []InFlightIsStored
<1>1. IInv => InFlightIsStored
  BY DEF IInv, InFlightIsKept, InFlightIsStored
<1>2. QED
  BY <1>1, WorkerInvariant, PTL
-----------------------------------------------------------------------------
(* Every step of the SDK is a step of its breaker, or leaves it alone.     *)

LEMMA StepOfBreaker == [Next]_vars => [CBNext]_cbVars
<1> SUFFICES ASSUME [Next]_vars PROVE [CBNext]_cbVars
  OBVIOUS
<1> USE DEF CBNext, CBStep
<1>1. CASE UNCHANGED vars
  BY <1>1 DEF vars, cbVars
<1>2. CASE Caller
  BY <1>2
     DEF Caller, Flush, Poll, MemoryLooksEmpty, StoreLooksEmpty, StoreLooksFull,
         FlushGivesUp, FlushReturns, SignalStop, CloseAfterExit, CloseUnderWorker,
         CloseStore, cbVars
<1>3. CASE NewProcess
  BY <1>3 DEF NewProcess
<1>4. CASE Worker
  BY <1>4
     DEF Worker, BeginPass, GetBatch, PersistOne, SkipDelivery, StartDelivery,
         RaiseOnPoison, RaiseOnClosed, FinishPass, Die, Send, TurnAway, cbVars
<1>5. CASE Health \/ RecoveryTimeout
  BY <1>5 DEF Health, RecoveryTimeout
<1>6. ASSUME NEW e \in Events, Track(e) \/ ApiAccepts(e) \/ RetryDue(e)
      PROVE  UNCHANGED cbVars
  BY <1>6 DEF Track, ApiAccepts, RetryDue, cbVars
<1>7. ASSUME NEW e \in Events, Answer(e) PROVE CBNext
  BY <1>7 DEF Answer, AnswerOk, AnswerTransient, AnswerUnretried, AnswerPermanent, GiveUp
<1>8. QED
  BY <1>1, <1>2, <1>3, <1>4, <1>5, <1>6, <1>7 DEF Next, Running

(* The pipeline drives its breaker as CircuitBreaker specifies.            *)
THEOREM WorkerUsesBreaker == Spec => CBSpec
<1>1. Init => CBInit
  BY DEF Init
<1>2. QED
  BY <1>1, StepOfBreaker, PTL DEF Spec, CBSpec

(* So no interleaving of deliveries, late answers, health checks and       *)
(* restarts sends more probes than half_open_max_calls.                    *)
THEOREM WorkerBoundsProbes == Spec => []ProbeBound
BY WorkerUsesBreaker, ProbesAreBounded, PTL
-----------------------------------------------------------------------------
(* Every step of the SDK is a step of AtLeastOnceDelivery or a stutter.    *)

OnDisk == IF Durable THEN stored ELSE {}

LEMMA TrackIsAccept ==
    ASSUME IInv, NEW e \in Events, Track(e)
    PROVE  [Delivery!Next]_Delivery!vars
<1> USE DEF storeVars, workerVars, callerVars, fateVars, cbVars
<1>1. UNCHANGED <<handoff, stored, received, rejected, lost>>
  BY DEF Track
<1>2. CASE UNCHANGED <<arrival, memory, evicted>>
  BY <1>1, <1>2 DEF Delivery!vars, Queued, Volatile
<1>3. ASSUME NEW out \in SUBSET memory, arrival[e] = 0, EnterMemory(e, memory \ out),
             evicted' = evicted \cup out
      PROVE  Delivery!Next
  <2>1. Queued' = Queued \cup {e} /\ e \notin Queued
    BY <1>3, Entering
  <2>2. Volatile' = (Volatile \ out) \cup {e} /\ out \subseteq Volatile
    BY <1>1, <1>3 DEF EnterMemory, Volatile, IInv, OneHome
  <2>3. Delivery!Accept(e, out)
    BY <1>1, <1>3, <2>1, <2>2 DEF Delivery!Accept
  <2>4. QED
    BY <2>2, <2>3 DEF Delivery!Next
<1>4. CASE Put(e) \/ BlockedPutEnters(e)
  <2>1. /\ {} \in SUBSET memory /\ EnterMemory(e, memory \ {})
        /\ evicted' = evicted \cup {}
    BY <1>4 DEF Put, BlockedPutEnters
  <2>2. arrival[e] = 0
    BY <1>4 DEF Put, Fresh, BlockedPutEnters, IInv, Types, Queued
  <2>3. QED
    BY <1>3, <2>1, <2>2
<1>5. CASE PutDropOldest(e)
  <2>1. FirstOf(memory, 1) \in SUBSET memory
    BY FirstOfIsSubset
  <2>2. QED
    BY <1>3, <1>5, <2>1 DEF PutDropOldest, Fresh
<1>6. CASE PutDropNewest(e) \/ PutBlocks(e) \/ BlockedPutTimesOut(e)
  BY <1>2, <1>6 DEF PutDropNewest, PutBlocks, BlockedPutTimesOut
<1>7. QED
  BY <1>4, <1>5, <1>6 DEF Track

LEMMA WorkerIsPersist ==
    ASSUME IInv, Worker
    PROVE  [Delivery!Next]_Delivery!vars
<1> USE DEF queueVars, storeVars, workerVars, callerVars, fateVars, cbVars
<1>1. CASE GetBatch
  <2>1. FirstOf(memory, BatchSize) \subseteq memory /\ handoff = {}
    BY <1>1, FirstOfIsSubset DEF GetBatch, IInv, HandoffIsLocal
  <2>2. memory' \cup handoff' = memory \cup handoff
    BY <1>1, <2>1 DEF GetBatch
  <2>3. QED
    BY <1>1, <2>2 DEF GetBatch, Delivery!vars, Volatile, Queued
<1>2. CASE PersistOne
  <2>1. PICK e \in handoff : handoff' = handoff \ {e} /\ stored' = stored \cup {e}
    BY <1>2, FirstOfIsSubset DEF PersistOne
  <2>2. e \in Events /\ e \notin memory /\ e \notin stored
    BY DEF IInv, Types, OneHome, Queued
  <2>3. UNCHANGED <<arrival, memory, evicted, received, rejected, lost>>
    BY <1>2 DEF PersistOne
  <2>4. CASE Durable
    <3>1. Delivery!Persist(e)
      BY <2>1, <2>2, <2>3, <2>4 DEF Delivery!Persist, Volatile, Queued
    <3>2. QED
      BY <2>2, <3>1 DEF Delivery!Next
  <2>5. CASE ~Durable
    BY <2>1, <2>3, <2>5 DEF Delivery!vars, Volatile, Queued
  <2>6. QED
    BY <2>4, <2>5
<1>3. CASE ~GetBatch /\ ~PersistOne
  <2>1. UNCHANGED <<queueVars, storeVars, fateVars>>
    BY <1>3 DEF Worker, BeginPass, SkipDelivery, StartDelivery, RaiseOnPoison, RaiseOnClosed,
                FinishPass, Die, Send, TurnAway
  <2>2. QED
    BY <2>1 DEF Delivery!vars, Volatile, Queued
<1>4. QED
  BY <1>1, <1>2, <1>3

LEMMA AnswerIsSettle ==
    ASSUME IInv, NEW e \in Events, Answer(e)
    PROVE  [Delivery!Next]_Delivery!vars
<1> USE DEF queueVars, storeVars, workerVars, callerVars, fateVars, cbVars
<1>1. UNCHANGED <<arrival, memory, evicted, handoff, received, lost>>
  BY DEF Answer, AnswerOk, AnswerTransient, AnswerUnretried, AnswerPermanent, GiveUp,
         Resume
<1>2. wire[e] # "none" /\ (open => e \in stored)
  BY DEF Answer, AnswerOk, AnswerTransient, AnswerUnretried, AnswerPermanent, GiveUp,
         Resume, IInv, PostsAreCalls, InFlight, InFlightIsKept
<1>3. CASE UNCHANGED <<stored, rejected>>
  BY <1>1, <1>3 DEF Delivery!vars, Volatile, Queued
<1>4. ASSUME open, stored' = stored \ {e} PROVE Delivery!Retire(e) /\ e \in Delivery!Held
  <2>1. e \in stored /\ e \notin memory \cup handoff
    BY <1>2, <1>4 DEF IInv, OneHome
  <2>2. QED
    BY <1>1, <1>4, <2>1 DEF Delivery!Retire, Delivery!Held, Volatile, Queued
<1>5. CASE AnswerOk(e)
  <2>1. CASE Ack(e) /\ UNCHANGED rejected
    <3>1. e \in received
      BY <1>5 DEF AnswerOk, IInv, PostsAreCalls
    <3>2. Delivery!Confirm(e)
      BY <1>4, <2>1, <3>1 DEF Ack, Delivery!Confirm
    <3>3. QED
      BY <3>2 DEF Delivery!Next
  <2>2. QED
    BY <1>3, <1>5, <2>1 DEF AnswerOk, Raise
<1>6. CASE AnswerTransient(e)
  BY <1>3, <1>6 DEF AnswerTransient, Raise
<1>7. CASE GiveUp(e)
  <2>1. CASE Ack(e) /\ rejected' = rejected \cup {e}
    <3>1. Delivery!Reject(e)
      BY <1>4, <2>1 DEF Ack, Delivery!Reject
    <3>2. QED
      BY <3>1 DEF Delivery!Next
  <2>2. QED
    BY <1>3, <1>7, <2>1 DEF GiveUp, Raise
<1>8. QED
  BY <1>5, <1>6, <1>7 DEF Answer, AnswerUnretried, AnswerPermanent

LEMMA ReceptionIsReceive ==
    ASSUME IInv, NEW e \in Events, ApiAccepts(e)
    PROVE  Delivery!Next
<1>1. e \in InFlight
  BY DEF ApiAccepts, IInv, PostsAreCalls, InFlight
<1>2. e \in stored \cup (IF Durable THEN {} ELSE lost)
  BY <1>1 DEF IInv, PostsAreCalls, InFlightIsKept
<1>3. e \in Delivery!Held \cup (evicted \cup lost)
  BY <1>2 DEF Delivery!Held, Volatile
<1>4. Delivery!Receive(e)
  BY <1>3 DEF ApiAccepts, Delivery!Receive, Delivery!Held, queueVars, storeVars, Volatile,
              Queued
<1>5. QED
  BY <1>4 DEF Delivery!Next

LEMMA LossIsVolatile ==
    ASSUME IInv, CloseStore \/ NewProcess
    PROVE  [Delivery!Next]_Delivery!vars
<1> USE DEF queueVars, storeVars, workerVars, callerVars, fateVars, cbVars
<1>1. CASE CloseStore /\ Durable
  BY <1>1 DEF CloseStore, Delivery!vars, Volatile, Queued
<1>2. CASE CloseStore /\ ~Durable
  <2>1. Volatile' = Volatile \ stored /\ stored \subseteq Volatile
    BY <1>2 DEF CloseStore, Volatile, IInv, OneHome
  <2>2. Delivery!Lose(stored)
    BY <1>2, <2>1 DEF CloseStore, Delivery!Lose, Queued
  <2>3. QED
    BY <2>1, <2>2 DEF Delivery!Next
<1>3. CASE NewProcess
  <2>1. Volatile' = {} /\ OnDisk' = OnDisk
    BY <1>3 DEF NewProcess, Volatile, OnDisk
  <2>2. Delivery!Lose(Volatile)
    BY <1>3, <2>1 DEF NewProcess, Delivery!Lose, Queued, OnDisk
  <2>3. QED
    BY <2>2 DEF Delivery!Next
<1>4. QED
  BY <1>1, <1>2, <1>3

LEMMA StepOfDelivery == IInv /\ [Next]_vars => [Delivery!Next]_Delivery!vars
<1> SUFFICES ASSUME IInv, [Next]_vars PROVE [Delivery!Next]_Delivery!vars
  OBVIOUS
<1> USE DEF queueVars, storeVars, workerVars, callerVars, fateVars, cbVars
<1>1. CASE UNCHANGED <<arrival, memory, evicted, handoff, stored, fateVars>>
  BY <1>1 DEF Delivery!vars, Volatile, Queued
<1>2. CASE UNCHANGED vars
  BY <1>1, <1>2 DEF vars
<1>3. CASE Health \/ RecoveryTimeout \/ \E e \in Events : RetryDue(e)
  BY <1>1, <1>3 DEF Health, RecoveryTimeout, RetryDue
<1>4. CASE Running
  BY <1>3, <1>4, WorkerIsPersist, TrackIsAccept, ReceptionIsReceive, AnswerIsSettle
     DEF Running
<1>5. CASE Caller
  BY <1>1, <1>5, LossIsVolatile
     DEF Caller, Flush, Poll, MemoryLooksEmpty, StoreLooksEmpty, StoreLooksFull,
         FlushGivesUp, FlushReturns, SignalStop, CloseAfterExit, CloseUnderWorker
<1>6. QED
  BY <1>2, <1>4, <1>5, LossIsVolatile DEF Next

LEMMA InitOfDelivery == Init => Delivery!Init
BY DEF Init, Delivery!Init, Queued, Volatile

(* The SDK delivers at least once: with a file nothing but memory is lost  *)
(* to a crash or a shutdown, and nothing at all disappears unexplained.    *)
THEOREM SdkImplementsDelivery == Spec => ImplementsDelivery
<1>1. QED
  BY InitOfDelivery, StepOfDelivery, WorkerInvariant, PTL
     DEF Spec, ImplementsDelivery, Delivery!Spec

LEMMA DeliveryStepKeepsEvents ==
    ASSUME NothingVanishes, [Delivery!Next]_Delivery!vars
    PROVE  NothingVanishes'
BY DEF NothingVanishes, Delivery!NothingVanishes, Delivery!Held, Delivery!Next,
       Delivery!vars, Delivery!Accept, Delivery!Persist, Delivery!Receive,
       Delivery!Confirm, Delivery!Reject, Delivery!Retire, Delivery!Lose,
       Delivery!Rewrite, Delivery!Settled

(* No queued event falls between two stages of the pipeline.               *)
THEOREM SdkLosesNothingSilently == Spec => []NothingVanishes
<1>1. Init => NothingVanishes
  BY DEF Init, NothingVanishes, Delivery!NothingVanishes, Queued
<1>2. IInv /\ NothingVanishes /\ [Next]_vars => NothingVanishes'
  BY StepOfDelivery, DeliveryStepKeepsEvents
<1>3. QED
  BY <1>1, <1>2, WorkerInvariant, PTL DEF Spec
-----------------------------------------------------------------------------
(* The rest of the type invariant: positions and program counters.         *)
Positions ==
    /\ arrival \in [Events -> 0..Cardinality(Events)]
    /\ refused \subseteq Events /\ asked \subseteq Queued
    /\ wpc \in {"check", "drain", "persist", "deliver", "dying", "dead", "exited"}
    /\ final \in BOOLEAN /\ stop \in BOOLEAN
    /\ cpc \in {"app", "memory", "store", "drained"}

LEMMA EnteringPosition ==
    ASSUME IInv, Positions, NEW e \in Events, arrival[e] = 0, NEW kept,
           EnterMemory(e, kept)
    PROVE  arrival' \in [Events -> 0..Cardinality(Events)] /\ Queued \subseteq Queued'
<1> DEFINE n == Cardinality(Queued) + 1
<1>1. Queued \subseteq Events /\ Queued # Events
  BY DEF Queued
<1>2. Cardinality(Queued) < Cardinality(Events) /\ Cardinality(Queued) \in Nat
      /\ Cardinality(Events) \in Nat
  BY <1>1, FS_Subset, FS_CardinalityType, EventsAssumption
<1>3. n \in 0..Cardinality(Events) /\ arrival' = [arrival EXCEPT ![e] = n]
  BY <1>2 DEF EnterMemory
<1> HIDE DEF n
<1>4. QED
  BY <1>3, Entering DEF Positions

LEMMA PositionsStep == IInv /\ Positions /\ [Next]_vars => Positions'
<1> SUFFICES ASSUME IInv, Positions, [Next]_vars PROVE Positions'
  OBVIOUS
<1> USE DEF queueVars, storeVars, workerVars, callerVars, fateVars
<1>1. CASE UNCHANGED vars
  BY <1>1 DEF vars, Positions, Queued
<1>2. ASSUME NEW e \in Events, Track(e) PROVE Positions'
  <2>1. UNCHANGED <<wpc, final, stop, cpc, asked>>
    BY <1>2 DEF Track
  <2>2. CASE PutDropNewest(e) \/ PutBlocks(e) \/ BlockedPutTimesOut(e)
    BY <2>1, <2>2 DEF PutDropNewest, PutBlocks, BlockedPutTimesOut, Positions, Queued
  <2>3. CASE Put(e) \/ PutDropOldest(e) \/ BlockedPutEnters(e)
    <3>1. arrival[e] = 0 /\ refused' = refused
      BY <2>3 DEF Put, PutDropOldest, BlockedPutEnters, Fresh, IInv, Types, Queued
    <3>2. PICK kept : EnterMemory(e, kept)
      BY <2>3 DEF Put, PutDropOldest, BlockedPutEnters
    <3>3. QED
      BY <2>1, <3>1, <3>2, EnteringPosition DEF Positions
  <2>4. QED
    BY <1>2, <2>2, <2>3 DEF Track
<1>3. CASE Worker
  BY <1>3 DEF Worker, BeginPass, GetBatch, PersistOne, SkipDelivery, StartDelivery,
              RaiseOnPoison, RaiseOnClosed, FinishPass, Die, EndPass, Send, TurnAway, NextToStart,
              Positions, Queued
<1>4. CASE Health \/ RecoveryTimeout
  BY <1>4 DEF Health, RecoveryTimeout, Positions, Queued
<1>5. ASSUME NEW e \in Events, ApiAccepts(e) \/ Answer(e) \/ RetryDue(e)
      PROVE  Positions'
  BY <1>5 DEF ApiAccepts, RetryDue, Answer, AnswerOk, AnswerTransient, AnswerUnretried,
              AnswerPermanent, GiveUp, Resume, Raise, Ack, Positions, Queued
<1>6. CASE Caller
  BY <1>6 DEF Caller, Flush, Poll, MemoryLooksEmpty, StoreLooksEmpty, StoreLooksFull,
              FlushGivesUp, FlushReturns, SignalStop, CloseAfterExit, CloseUnderWorker,
              CloseStore, Positions, Queued
<1>7. CASE NewProcess
  BY <1>7 DEF NewProcess, Positions, Queued, IInv, Types
<1>8. QED
  BY <1>1, <1>2, <1>3, <1>4, <1>5, <1>6, <1>7 DEF Next, Running

LEMMA InitialPositions == Init => Positions
<1>1. Cardinality(Events) \in Nat
  BY FS_CardinalityType, EventsAssumption
<1>2. 0 \in 0..Cardinality(Events)
  BY <1>1
<1>3. QED
  BY <1>2 DEF Init, Positions

(* The state of the pipeline is well formed, for all sizes and options.    *)
THEOREM WorkerTypeCorrect == Spec => []TypeOK
<1>1. Init => Positions
  BY InitialPositions
<1>2. CBTypeOK /\ IInv /\ Positions => TypeOK
  BY DEF IInv, Types, Positions, TypeOK
<1>3. QED
  BY <1>1, <1>2, PositionsStep, WorkerInvariant, WorkerUsesBreaker, CBTypeCorrect, PTL
     DEF Spec
-----------------------------------------------------------------------------
(* What flush() can overlook: arrival positions are distinct, so that the  *)
(* first n events of a set are at most n.                                  *)
Answered == received \cup rejected \cup evicted \cup lost

(* The rows a closed store has left in its file, which count() overlooks.  *)
InFile == IF open THEN {} ELSE stored

Order ==
    /\ \A e \in Events : arrival[e] <= Cardinality(Queued)
    /\ \A e, f \in Queued : arrival[e] = arrival[f] => e = f

FlushBounds ==
    /\ Cardinality(handoff) <= BatchSize
    /\ cpc = "store" => asked \cap memory = {}
    /\ cpc = "drained" => Cardinality(asked \ (Answered \cup InFile)) <= BatchSize

LEMMA Subsets ==
    ASSUME NEW S \in SUBSET Events, NEW T \in SUBSET S
    PROVE  /\ IsFiniteSet(S) /\ Cardinality(S) \in Nat /\ Cardinality(T) \in Nat
           /\ Cardinality(T) <= Cardinality(S)
BY FewerProbes

(* A nonempty set of queued events has a last one.                         *)
LEMMA LastArrival ==
    ASSUME IInv, Order, NEW S \in SUBSET Queued, S # {}
    PROVE  \E m \in S : \A e \in S : e = m \/ arrival[e] < arrival[m]
<1> DEFINE n == Cardinality(Queued)
           P == {n - arrival[e] : e \in S}
<1>1. n \in Nat /\ \A e \in S : arrival[e] \in 0..n
  <2>1. Queued \subseteq Events
    BY DEF Queued
  <2>2. QED
    BY <2>1, Subsets DEF IInv, Types, Order
<1> HIDE DEF n
<1>2. P \in SUBSET Nat /\ P # {}
  BY <1>1
<1> HIDE DEF P
<1>3. PICK x \in P : \A y \in P : ~(<<y, x>> \in OpToRel(<, Nat))
  BY <1>2, WFMin, NatLessThanWellFounded
<1>4. \A y \in P : ~(y < x)
  BY <1>2, <1>3, Zenon DEF OpToRel
<1>5. PICK m \in S : x = n - arrival[m]
  BY DEF P
<1>6. \A e \in S : ~(n - arrival[e] < n - arrival[m])
  BY <1>4, <1>5 DEF P
<1>7. \A e \in S : arrival[e] <= arrival[m]
  BY <1>1, <1>6
<1>8. \A e \in S : arrival[e] = arrival[m] => e = m
  BY DEF Order
<1>9. QED
  BY <1>1, <1>7, <1>8

LEMMA FirstOfIsBounded ==
    ASSUME IInv, Order, NEW S \in SUBSET Queued, NEW n \in Nat
    PROVE  Cardinality(FirstOf(S, n)) <= n
<1> DEFINE F == FirstOf(S, n)
<1>1. F \in SUBSET Queued /\ F \subseteq S /\ S \subseteq Events
  BY FirstOfIsSubset DEF Queued
<1>2. CASE F = {}
  BY <1>2, FS_EmptySet
<1>3. CASE F # {}
  <2>1. PICK m \in F : \A e \in F : e = m \/ arrival[e] < arrival[m]
    BY <1>1, <1>3, LastArrival
  <2> DEFINE before == {f \in S : arrival[f] < arrival[m]}
  <2>2. Cardinality(before) < n
    BY <2>1 DEF FirstOf
  <2>3. F \subseteq before \cup {m}
    BY <1>1, <2>1
  <2>4. before \in SUBSET Events /\ m \in Events
    BY <1>1
  <2> HIDE DEF before, F
  <2>5. IsFiniteSet(before) /\ Cardinality(before) \in Nat
    BY <2>4, Subsets
  <2>6. Cardinality(before \cup {m}) <= Cardinality(before) + 1
    BY <2>5, FS_AddElement
  <2>7. before \cup {m} \in SUBSET Events /\ F \in SUBSET (before \cup {m})
    BY <2>3, <2>4
  <2>8. Cardinality(F) <= Cardinality(before \cup {m}) /\ Cardinality(F) \in Nat /\ Cardinality(before \cup {m}) \in Nat
    BY <2>7, Subsets
  <2>9. QED
    BY <2>2, <2>5, <2>6, <2>8 DEF F
<1>4. QED
  BY <1>2, <1>3

(* What the steps of the others do to the queues, and the caller's reads   *)
LEMMA StepsAre ==
    ASSUME [Next]_vars
    PROVE  /\ Answered \subseteq Answered'
           /\ handoff' \subseteq handoff \/ handoff' = FirstOf(memory, BatchSize)
           /\ (\E e \in Events : Track(e)) \/ (arrival' = arrival /\ memory' \subseteq memory)
           /\ cpc' = "store" => \/ memory' = {}
                                \/ cpc = "store" /\ asked' = asked
           /\ cpc' = "drained" => /\ asked' = asked
                                  /\ InFile \subseteq InFile' \cup Answered'
                                  /\ \/ cpc = "drained"
                                     \/ /\ cpc = "store" /\ Count = {}
                                        /\ UNCHANGED <<memory, handoff, Answered, InFile>>
<1> USE DEF queueVars, storeVars, workerVars, callerVars, fateVars, Answered, InFile
<1>1. CASE UNCHANGED vars
  BY <1>1 DEF vars
<1>2. ASSUME NEW e \in Events, Track(e)
      PROVE  /\ Answered \subseteq Answered' /\ UNCHANGED <<handoff, cpc, asked>>
             /\ UNCHANGED <<received, rejected, lost, stored, open>>
  BY <1>2 DEF Track, Put, PutDropNewest, PutDropOldest, PutBlocks, BlockedPutEnters, BlockedPutTimesOut
<1>3. CASE Worker
  <2>1. /\ UNCHANGED <<arrival, evicted, received, rejected, lost, cpc, asked, open>>
        /\ ~open => stored' = stored
    BY <1>3 DEF Worker, BeginPass, GetBatch, PersistOne, SkipDelivery, StartDelivery,
                RaiseOnPoison, RaiseOnClosed, FinishPass, Die, Send, TurnAway
  <2>2. CASE GetBatch
    BY <2>1, <2>2 DEF GetBatch
  <2>3. CASE ~GetBatch
    <3>1. memory' = memory /\ handoff' \subseteq handoff
      BY <1>3, <2>3 DEF Worker, BeginPass, PersistOne, SkipDelivery, StartDelivery,
                  RaiseOnPoison, RaiseOnClosed, FinishPass, Die, Send, TurnAway
    <3>2. QED
      BY <2>1, <3>1
  <2>4. QED
    BY <2>2, <2>3
<1>4. CASE Health \/ RecoveryTimeout
  BY <1>4 DEF Health, RecoveryTimeout
<1>5. ASSUME NEW e \in Events, ApiAccepts(e) \/ Answer(e) \/ RetryDue(e)
      PROVE  /\ UNCHANGED <<arrival, memory, evicted, lost, handoff, cpc, asked, open>>
             /\ ~open => stored' = stored
             /\ received \subseteq received' /\ rejected \subseteq rejected'
  BY <1>5 DEF ApiAccepts, RetryDue, Answer, AnswerOk, AnswerTransient, AnswerUnretried,
              AnswerPermanent, GiveUp, Resume, Raise, Ack
<1>6. CASE Caller
  <2>1. CASE CloseStore
    <3>1. /\ UNCHANGED <<arrival, memory, evicted, handoff, received, rejected, cpc, asked>>
          /\ lost \subseteq lost' /\ open
      BY <2>1 DEF CloseStore
    <3>2. InFile = {}
      BY <3>1
    <3>3. QED
      BY <3>1, <3>2
  <2>2. CASE ~CloseStore
    <3>1. /\ UNCHANGED <<queueVars, storeVars, fateVars, open>>
          /\ cpc' = "store" => memory = {} \/ (cpc = "store" /\ asked' = asked)
          /\ cpc' = "drained" => /\ asked' = asked
                                 /\ cpc = "drained" \/ (cpc = "store" /\ Count = {})
      BY <1>6, <2>2
         DEF Caller, Flush, Poll, MemoryLooksEmpty, StoreLooksEmpty, StoreLooksFull,
             FlushGivesUp, FlushReturns, SignalStop, CloseAfterExit, CloseUnderWorker
    <3>2. QED
      BY <3>1
  <2>3. QED
    BY <2>1, <2>2
<1>7. CASE NewProcess
  BY <1>7 DEF NewProcess
<1>8. QED
  BY <1>1, <1>2, <1>3, <1>4, <1>5, <1>6, <1>7 DEF Next, Running

LEMMA OrderStep == IInv /\ Order /\ [Next]_vars => Order'
<1> SUFFICES ASSUME IInv, Order, [Next]_vars PROVE Order'
  OBVIOUS
<1>1. CASE arrival' = arrival
  BY <1>1 DEF Order, Queued
<1>2. ASSUME NEW e \in Events, arrival[e] = 0, NEW kept, EnterMemory(e, kept) PROVE Order'
  <2> DEFINE n == Cardinality(Queued)
  <2>1. Queued \in SUBSET Events
    BY DEF Queued
  <2>2. n \in Nat /\ IsFiniteSet(Queued)
    BY <2>1, Subsets
  <2>3. Queued' = Queued \cup {e} /\ e \notin Queued
    BY <1>2, Entering
  <2>4. Cardinality(Queued') = n + 1
    BY <2>2, <2>3, FS_AddElement
  <2>5. /\ arrival'[e] = n + 1
        /\ \A f \in Events : f # e => arrival'[f] = arrival[f]
        /\ \A f \in Events : arrival[f] \in Nat /\ arrival[f] <= n
    BY <1>2 DEF EnterMemory, IInv, Types, Order
  <2> HIDE DEF n
  <2>6. \A f \in Events : arrival'[f] <= Cardinality(Queued')
    BY <2>2, <2>4, <2>5
  <2>7. \A f, g \in Queued' : arrival'[f] = arrival'[g] => f = g
    BY <2>1, <2>2, <2>3, <2>5 DEF Order
  <2>8. QED
    BY <2>6, <2>7 DEF Order
<1>3. ASSUME NEW e \in Events, Track(e) PROVE Order'
  <2>1. CASE PutDropNewest(e) \/ PutBlocks(e) \/ BlockedPutTimesOut(e)
    BY <1>1, <2>1 DEF PutDropNewest, PutBlocks, BlockedPutTimesOut
  <2>2. CASE Put(e) \/ PutDropOldest(e) \/ BlockedPutEnters(e)
    <3>1. arrival[e] = 0
      BY <2>2 DEF Put, PutDropOldest, BlockedPutEnters, Fresh, IInv, Types, Queued
    <3>2. PICK kept : EnterMemory(e, kept)
      BY <2>2 DEF Put, PutDropOldest, BlockedPutEnters
    <3>3. QED
      BY <1>2, <3>1, <3>2
  <2>3. QED
    BY <1>3, <2>1, <2>2 DEF Track
<1>4. CASE ~(\E e \in Events : Track(e))
  <2>1. arrival' = arrival
    BY <1>4, StepsAre
  <2>2. QED
    BY <1>1, <2>1
<1>5. QED
  BY <1>3, <1>4

LEMMA FlushBoundsStep ==
    IInv /\ Positions /\ NothingVanishes /\ Order /\ FlushBounds /\ [Next]_vars => FlushBounds'
<1> SUFFICES ASSUME IInv, Positions, NothingVanishes, Order, FlushBounds, [Next]_vars
             PROVE  FlushBounds'
  OBVIOUS
<1> USE DEF FlushBounds
<1>1. /\ memory \subseteq Queued /\ handoff \subseteq Queued /\ asked \subseteq Queued
      /\ Queued \in SUBSET Events /\ BatchSize \in Nat
  BY SizesAssumption DEF IInv, Types, Positions, Queued
<1>2. Cardinality(handoff') <= BatchSize
  <2>1. CASE handoff' \subseteq handoff
    <3>1. handoff \in SUBSET Events /\ handoff' \in SUBSET handoff
      BY <1>1, <2>1
    <3>2. Cardinality(handoff') <= Cardinality(handoff) /\ {Cardinality(handoff'), Cardinality(handoff)} \subseteq Nat
      BY <3>1, Subsets
    <3>3. QED
      BY <1>1, <3>2
  <2>2. CASE handoff' = FirstOf(memory, BatchSize)
    BY <1>1, <2>2, FirstOfIsBounded
  <2>3. QED
    BY <2>1, <2>2, StepsAre
<1>3. ASSUME cpc' = "store" PROVE asked' \cap memory' = {}
  <2>1. CASE cpc = "store" /\ asked' = asked
    <3>1. ASSUME NEW e \in Events, Track(e) PROVE memory' \subseteq memory \cup (Events \ Queued)
      <4>1. CASE PutDropNewest(e) \/ PutBlocks(e) \/ BlockedPutTimesOut(e)
        BY <4>1 DEF PutDropNewest, PutBlocks, BlockedPutTimesOut
      <4>2. CASE Put(e) \/ PutDropOldest(e) \/ BlockedPutEnters(e)
        <5>1. memory' \subseteq memory \cup {e}
          BY <4>2 DEF Put, PutDropOldest, BlockedPutEnters, EnterMemory
        <5>2. e \notin Queued
          BY <4>2 DEF Put, PutDropOldest, BlockedPutEnters, Fresh, IInv, Types, Queued
        <5>3. QED
          BY <5>1, <5>2
      <4>3. QED
        BY <3>1, <4>1, <4>2 DEF Track
    <3>2. memory' \subseteq memory \cup (Events \ Queued)
      BY <3>1, StepsAre
    <3>3. QED
      BY <1>1, <2>1, <3>2
  <2>2. QED
    BY <1>3, <2>1, StepsAre
<1>4. ASSUME cpc' = "drained" PROVE Cardinality(asked' \ (Answered' \cup InFile')) <= BatchSize
  <2>1. asked' = asked /\ Answered \subseteq Answered' /\ InFile \subseteq InFile' \cup Answered'
    BY <1>4, StepsAre
  <2> DEFINE left == asked \ (Answered \cup InFile)
             still == asked' \ (Answered' \cup InFile')
  <2>2. CASE cpc = "drained"
    <3>1. left \in SUBSET Events /\ still \in SUBSET left
      BY <1>1, <2>1
    <3>2. Cardinality(left) <= BatchSize
      BY <2>2
    <3> HIDE DEF left, still
    <3>3. Cardinality(still) <= Cardinality(left) /\ {Cardinality(still), Cardinality(left)} \subseteq Nat
      BY <3>1, Subsets
    <3>4. Cardinality(still) <= BatchSize
      BY <1>1, <3>2, <3>3
    <3>5. QED
      BY <3>4 DEF still
  <2>3. CASE cpc = "store" /\ Count = {} /\ UNCHANGED <<memory, handoff, Answered, InFile>>
    <3>1. Queued \subseteq memory \cup handoff \cup stored \cup Answered
      BY DEF NothingVanishes, Delivery!NothingVanishes, Delivery!Held, Volatile, Answered
    <3>2. stored \subseteq InFile
      BY <2>3 DEF Count, InFile
    <3>3. asked \cap memory = {}
      BY <2>3
    <3>4. still \in SUBSET handoff /\ handoff \in SUBSET Events
      BY <1>1, <2>1, <2>3, <3>1, <3>2, <3>3
    <3>5. Cardinality(handoff) <= BatchSize
      OBVIOUS
    <3> HIDE DEF left, still
    <3>6. Cardinality(still) <= Cardinality(handoff) /\ {Cardinality(still), Cardinality(handoff)} \subseteq Nat
      BY <3>4, Subsets
    <3>7. Cardinality(still) <= BatchSize
      BY <1>1, <3>5, <3>6
    <3>8. QED
      BY <3>7 DEF still
  <2>4. QED
    BY <1>4, <2>2, <2>3, StepsAre
<1>5. QED
  BY <1>2, <1>3, <1>4

(* flush() overlooks at most one batch, which was popped from memory and   *)
(* not yet stored between its two reads, and the rows a closed store has   *)
(* left in its file: whoever else calls track() and shutdown(), and when   *)
(* (client.py, worker.py, persistent_queue.py).                            *)
THEOREM FlushMissesOneBatch == Spec => []FlushMissesAtMostABatch
<1>1. Init => Order /\ FlushBounds /\ Positions
  <2>1. Init => Queued = {} /\ Cardinality({}) = 0
    BY FS_EmptySet DEF Init, Queued
  <2>2. Init => Order /\ FlushBounds
    BY <2>1, SizesAssumption DEF Init, Order, FlushBounds
  <2>3. Init => Positions
    BY InitialPositions
  <2>4. QED
    BY <2>2, <2>3
<1>2. FlushBounds => FlushMissesAtMostABatch
  BY DEF FlushBounds, FlushMissesAtMostABatch, Answered, InFile
<1>3. QED
  BY <1>1, <1>2, OrderStep, FlushBoundsStep, PositionsStep, WorkerInvariant, SdkLosesNothingSilently, PTL
     DEF Spec
-----------------------------------------------------------------------------
(* The instrumentors                                                       *)

(* The instances a sequence of wrappers names, and none of them twice      *)
Elements(s) == {s[n] : n \in DOMAIN s}
Distinct(s) == \A m, n \in DOMAIN s : s[m] = s[n] => m = n
Lists(s, S) == Distinct(s) /\ Elements(s) = S
Below(s, n) == SubSeq(s, n + 1, Len(s))

Stacks == {"stacked", "clients"}
Slots  == {"context", "adapter"}
Buses  == {"events", "deaf"}

(* What intercepts calls while nobody gets in another's way: the wrappers  *)
(* of those that are on, each keeping what is below it, or the handler in  *)
(* the one slot; the family has one wrapper for all.                       *)
MethodIsTidy ==
    /\ lib.install = "shared" =>
          \/ on = {} /\ saved[Family] = Unpatched /\ method = <<>>
          \/ on # {} /\ saved[Family] = <<>> /\ method = <<Family>>
    /\ lib.install \in Stacks =>
          /\ Lists(method, on)
          /\ \A n \in DOMAIN method : saved[method[n]] = Below(method, n)
          /\ \A i \in on : building[i] = <<>>
    /\ lib.install \in Slots =>
          \/ on = {} /\ method = <<>>
          \/ \E i \in Instances : on = {i} /\ method = <<i>>
    /\ lib.install \in Buses => Lists(method, on)
    /\ lib.install = "model" => method = <<>>

ClientIsTidy ==
    lib.install \in Made =>
        /\ Distinct(client) /\ Elements(client) \subseteq on /\ covers \subseteq Elements(client)
        /\ lib.install = "model" => Elements(client) = covers

(* The call goes through a wrapper of each instance that was on all along, *)
(* and of none that never was.                                             *)
ViaIsTidy(c) ==
    /\ lib.install = "shared" => (c.via = <<>> => c.throughout = {})
    /\ lib.install \in Stacks \cup Slots \cup {"model"} =>
          Distinct(c.via) /\ c.throughout \subseteq Elements(c.via) /\ Elements(c.via) \subseteq c.ever

ReportIsRight(c) ==
    \A i \in Instances :
        /\ c.reports[i] <= 1
        /\ i \notin c.ever \/ serves[i] # c.provider => c.reports[i] = 0
        /\ i \in c.throughout /\ serves[i] = c.provider /\ c.outcome \notin Silent => c.reports[i] = 1

CallIsTidy ==
    /\ call.at \in {"running", "open"} =>
          call.throughout \subseteq on /\ on \subseteq call.ever /\ ViaIsTidy(call)
    /\ call.at # "none" /\ lib.install # "shared" => \A i \in Instances : serves[i] = call.provider
    /\ call.at = "done" => ReportIsRight(call)

Wrappers == Instances \cup {Family}
Results ==
    {"none", "finished", "broke", "abandoned", "unread", "cancelled", "unopened", "returned",
     "failed", "unrecognised"}
Calls ==
    [at : {"none", "running", "open", "done"}, stream : BOOLEAN, provider : Providers \cup {"none"},
     via : Seq(Wrappers), throughout : SUBSET Instances, ever : SUBSET Instances,
     reports : [Instances -> Nat], outcome : Results]

InstrTypes ==
    /\ lib \in Libraries /\ serves \in [Instances -> Providers]
    /\ lib.install # "shared" => \A i, j \in Instances : serves[i] = serves[j]
    /\ on \in SUBSET Instances /\ covers \in SUBSET on
    /\ method \in Seq(Wrappers) /\ client \in Seq(Wrappers)
    /\ saved \in [Wrappers -> Seq(Wrappers)]
    /\ building \in [Instances -> Seq(Seq(Wrappers))]
    /\ call \in Calls /\ untidy \in BOOLEAN

InstrInv == InstrTypes /\ (~untidy => MethodIsTidy /\ ClientIsTidy /\ CallIsTidy)


LEMMA EmptyListsNone == Lists(<<>>, {})
BY DEF Lists, Distinct, Elements

(* A part of a sequence, element by element                                *)
LEMMA BelowIs ==
    ASSUME NEW S, NEW s \in Seq(S), NEW n \in 0..Len(s)
    PROVE  /\ Below(s, n) \in Seq(S) /\ Len(Below(s, n)) = Len(s) - n
           /\ \A m \in 1..(Len(s) - n) : Below(s, n)[m] = s[n + m]
<1>1. Len(s) \in Nat /\ n \in Nat
    OBVIOUS
<1> QED BY <1>1 DEF Below

LEMMA SameSequences ==
    ASSUME NEW S, NEW s \in Seq(S), NEW t \in Seq(S), Len(s) = Len(t), \A n \in 1..Len(s) : s[n] = t[n]
    PROVE  s = t
OBVIOUS

LEMMA OnTop ==
    ASSUME NEW S, NEW s \in Seq(S), NEW x \in S, x \notin Elements(s), Distinct(s)
    PROVE  LET t == <<x>> \o s IN
           /\ t \in Seq(S) /\ Lists(t, Elements(s) \cup {x})
           /\ t # <<>> /\ t[1] = x /\ Below(t, 1) = s
           /\ \A n \in DOMAIN t : n # 1 => /\ n - 1 \in DOMAIN s /\ t[n] = s[n - 1]
                                           /\ Below(t, n) = Below(s, n - 1)
<1> DEFINE t == <<x>> \o s
<1>1. /\ t \in Seq(S) /\ Len(t) = Len(s) + 1 /\ t[1] = x /\ Len(s) \in Nat
      /\ \A n \in 2..(Len(s) + 1) : t[n] = s[n - 1]
    OBVIOUS
<1> HIDE DEF t
<1>2. DOMAIN t = 1..(Len(s) + 1) /\ DOMAIN s = 1..Len(s) /\ t # <<>>
    BY <1>1
<1>3. ASSUME NEW n \in DOMAIN t, n # 1
      PROVE  n - 1 \in DOMAIN s /\ t[n] = s[n - 1] /\ Below(t, n) = Below(s, n - 1)
    <2>1. n - 1 \in DOMAIN s /\ t[n] = s[n - 1] /\ n \in 2..(Len(s) + 1)
        BY <1>1, <1>2, <1>3
    <2>2. /\ Below(t, n) \in Seq(S) /\ Len(Below(t, n)) = Len(t) - n
          /\ \A m \in 1..(Len(t) - n) : Below(t, n)[m] = t[n + m]
        <3>1. n \in 0..Len(t)
            BY <1>1, <2>1
        <3>2. t \in Seq(S)
            BY <1>1
        <3> QED BY <3>1, <3>2, BelowIs, Zenon
    <2>3. /\ Below(s, n - 1) \in Seq(S) /\ Len(Below(s, n - 1)) = Len(s) - (n - 1)
          /\ \A m \in 1..(Len(s) - (n - 1)) : Below(s, n - 1)[m] = s[n - 1 + m]
        <3>1. n - 1 \in 0..Len(s)
            BY <1>1, <1>2, <2>1
        <3> QED BY <3>1, BelowIs, Zenon
    <2>4. Len(Below(t, n)) = Len(Below(s, n - 1))
        BY <1>1, <2>1, <2>2, <2>3
    <2>5. ASSUME NEW m \in 1..Len(Below(t, n)) PROVE Below(t, n)[m] = Below(s, n - 1)[m]
        <3> DEFINE l == Len(s)
        <3>0. n \in Nat /\ l \in Nat /\ Len(t) = l + 1 /\ n <= l + 1 /\ n >= 2
            BY <1>1, <2>1
        <3>a. m \in 1..(Len(t) - n)
            BY <2>2
        <3> HIDE DEF l
        <3>b. m \in Nat /\ m >= 1 /\ m <= (l + 1) - n
            BY <3>0, <3>a
        <3>c. /\ m \in 1..(l - (n - 1)) /\ n + m \in 2..(l + 1)
              /\ (n + m) - 1 = n - 1 + m
            BY <3>0, <3>b
        <3>1. /\ m \in 1..(Len(t) - n) /\ m \in 1..(Len(s) - (n - 1)) /\ n + m \in 2..(Len(s) + 1)
              /\ (n + m) - 1 = n - 1 + m
            BY <3>a, <3>c DEF l
        <3>2. t[n + m] = s[n - 1 + m]
            BY <1>1, <3>1
        <3> QED BY <2>2, <2>3, <3>1, <3>2
    <2> QED BY <2>1, <2>2, <2>3, <2>4, <2>5, SameSequences
<1>4. Below(t, 1) = s
    <2>1. /\ Below(t, 1) \in Seq(S) /\ Len(Below(t, 1)) = Len(t) - 1
          /\ \A m \in 1..(Len(t) - 1) : Below(t, 1)[m] = t[1 + m]
        <3>1. 1 \in 0..Len(t)
            BY <1>1
        <3> QED BY <1>1, <3>1, BelowIs, Zenon
    <2>2. Len(Below(t, 1)) = Len(s)
        BY <1>1, <2>1
    <2>3. ASSUME NEW m \in 1..Len(Below(t, 1)) PROVE Below(t, 1)[m] = s[m]
        <3>1. m \in 1..(Len(t) - 1) /\ 1 + m \in 2..(Len(s) + 1) /\ (1 + m) - 1 = m
            BY <1>1, <2>1, <2>2
        <3>2. t[1 + m] = s[m]
            BY <1>1, <3>1
        <3> QED BY <2>1, <3>1, <3>2
    <2> QED BY <2>1, <2>2, <2>3, SameSequences
<1>5. Distinct(t)
    <2> SUFFICES ASSUME NEW m \in DOMAIN t, NEW n \in DOMAIN t, t[m] = t[n] PROVE m = n
        BY DEF Distinct
    <2>1. \A l \in DOMAIN t : l # 1 => t[l] # x
        BY <1>3 DEF Elements
    <2>2. CASE m = 1 \/ n = 1
        BY <1>1, <2>1, <2>2
    <2>3. CASE m # 1 /\ n # 1
        <3>1. m - 1 = n - 1
            BY <1>3, <2>3 DEF Distinct
        <3> QED BY <1>2, <3>1
    <2> QED BY <2>2, <2>3
<1>6. Elements(t) = Elements(s) \cup {x}
    <2>1. \A n \in DOMAIN t : t[n] \in Elements(s) \cup {x}
        BY <1>1, <1>3 DEF Elements
    <2>2. \A n \in DOMAIN s : n + 1 \in DOMAIN t /\ t[n + 1] = s[n]
        BY <1>1, <1>2
    <2>3. 1 \in DOMAIN t
        BY <1>1, <1>2
    <2>4. ASSUME NEW e \in Elements(s) \cup {x} PROVE e \in Elements(t)
        BY <1>1, <2>2, <2>3 DEF Elements
    <2>5. ASSUME NEW e \in Elements(t) PROVE e \in Elements(s) \cup {x}
        BY <2>1 DEF Elements
    <2> QED BY <2>4, <2>5
<1> QED BY <1>1, <1>2, <1>3, <1>4, <1>5, <1>6 DEF Lists, t

LEMMA UnderTop ==
    ASSUME NEW S, NEW s \in Seq(S), s # <<>>, Distinct(s)
    PROVE  LET t == Below(s, 1) IN
           /\ t \in Seq(S) /\ Lists(t, Elements(s) \ {s[1]})
           /\ \A n \in DOMAIN t : n + 1 \in DOMAIN s /\ t[n] = s[n + 1] /\ Below(t, n) = Below(s, n + 1)
<1> DEFINE t == Below(s, 1)
<1>1. Len(s) \in Nat \ {0} /\ DOMAIN s = 1..Len(s)
    OBVIOUS
<1>2. /\ t \in Seq(S) /\ Len(t) = Len(s) - 1 /\ \A m \in 1..(Len(s) - 1) : t[m] = s[1 + m]
    <2>1. 1 \in 0..Len(s)
        BY <1>1
    <2> QED BY <2>1, BelowIs, Zenon
<1> HIDE DEF t
<1>3. DOMAIN t = 1..(Len(s) - 1)
    BY <1>2
<1>4. ASSUME NEW n \in DOMAIN t
      PROVE  n + 1 \in DOMAIN s /\ t[n] = s[n + 1] /\ Below(t, n) = Below(s, n + 1)
    <2>1. n + 1 \in DOMAIN s /\ t[n] = s[n + 1] /\ n \in 1..(Len(s) - 1)
        BY <1>1, <1>2, <1>3
    <2>2. /\ Below(t, n) \in Seq(S) /\ Len(Below(t, n)) = Len(t) - n
          /\ \A m \in 1..(Len(t) - n) : Below(t, n)[m] = t[n + m]
        <3>1. n \in 0..Len(t)
            BY <1>1, <1>2, <2>1
        <3>2. t \in Seq(S)
            BY <1>2
        <3> QED BY <3>1, <3>2, BelowIs, Zenon
    <2>3. /\ Below(s, n + 1) \in Seq(S) /\ Len(Below(s, n + 1)) = Len(s) - (n + 1)
          /\ \A m \in 1..(Len(s) - (n + 1)) : Below(s, n + 1)[m] = s[n + 1 + m]
        <3>1. n + 1 \in 0..Len(s)
            BY <1>1, <2>1
        <3> QED BY <3>1, BelowIs, Zenon
    <2>4. Len(Below(t, n)) = Len(Below(s, n + 1))
        BY <1>1, <1>2, <2>1, <2>2, <2>3
    <2>5. ASSUME NEW m \in 1..Len(Below(t, n)) PROVE Below(t, n)[m] = Below(s, n + 1)[m]
        <3> DEFINE l == Len(s)
        <3>0. n \in Nat /\ l \in Nat /\ Len(t) = l - 1 /\ n <= l - 1 /\ n >= 1
            BY <1>1, <1>2, <2>1
        <3>a. m \in 1..(Len(t) - n)
            BY <2>2
        <3> HIDE DEF l
        <3>b. m \in Nat /\ m >= 1 /\ m <= (l - 1) - n
            BY <3>0, <3>a
        <3>c. /\ m \in 1..(l - (n + 1)) /\ n + m \in 1..(l - 1)
              /\ 1 + (n + m) = n + 1 + m
            BY <3>0, <3>b
        <3>1. /\ m \in 1..(Len(t) - n) /\ m \in 1..(Len(s) - (n + 1)) /\ n + m \in 1..(Len(s) - 1)
              /\ 1 + (n + m) = n + 1 + m
            BY <3>a, <3>c DEF l
        <3>2. t[n + m] = s[n + 1 + m]
            BY <1>2, <3>1
        <3> QED BY <2>2, <2>3, <3>1, <3>2
    <2> QED BY <2>1, <2>2, <2>3, <2>4, <2>5, SameSequences
<1>5. Distinct(t)
    <2> SUFFICES ASSUME NEW m \in DOMAIN t, NEW n \in DOMAIN t, t[m] = t[n] PROVE m = n
        BY DEF Distinct
    <2>1. m + 1 = n + 1
        BY <1>4 DEF Distinct
    <2> QED BY <1>3, <2>1
<1>6. Elements(t) = Elements(s) \ {s[1]}
    <2>1. \A n \in DOMAIN t : t[n] \in Elements(s) \ {s[1]}
        <3> SUFFICES ASSUME NEW n \in DOMAIN t PROVE s[n + 1] \in Elements(s) /\ s[n + 1] # s[1]
            BY <1>4
        <3>1. n + 1 # 1 /\ n + 1 \in DOMAIN s /\ 1 \in DOMAIN s
            BY <1>1, <1>3, <1>4
        <3> QED BY <3>1 DEF Elements, Distinct
    <2>2. \A n \in DOMAIN s : n # 1 => n - 1 \in DOMAIN t /\ t[n - 1] = s[n]
        BY <1>1, <1>2, <1>3
    <2> QED BY <2>1, <2>2 DEF Elements
<1> QED BY <1>2, <1>4, <1>5, <1>6 DEF Lists, t

LEMMA AtEnd ==
    ASSUME NEW S, NEW s \in Seq(S), NEW x \in S, x \notin Elements(s), Distinct(s)
    PROVE  Append(s, x) \in Seq(S) /\ Lists(Append(s, x), Elements(s) \cup {x})
<1> DEFINE t == Append(s, x)
<1>1. /\ t \in Seq(S) /\ Len(t) = Len(s) + 1 /\ t[Len(s) + 1] = x /\ Len(s) \in Nat
      /\ \A n \in 1..Len(s) : t[n] = s[n]
    OBVIOUS
<1> HIDE DEF t
<1>2. DOMAIN t = 1..(Len(s) + 1) /\ DOMAIN s = 1..Len(s)
    BY <1>1
<1>3. \A n \in DOMAIN s : s[n] # x
    BY DEF Elements
<1>4. Distinct(t)
    <2> SUFFICES ASSUME NEW m \in DOMAIN t, NEW n \in DOMAIN t, t[m] = t[n] PROVE m = n
        BY DEF Distinct
    <2>1. CASE m \in DOMAIN s /\ n \in DOMAIN s
        BY <1>1, <1>2, <2>1 DEF Distinct
    <2>2. CASE m \notin DOMAIN s \/ n \notin DOMAIN s
        BY <1>1, <1>2, <1>3, <2>2
    <2> QED BY <2>1, <2>2
<1>5. Elements(t) = Elements(s) \cup {x}
    <2>1. \A n \in DOMAIN t : t[n] \in Elements(s) \cup {x}
        BY <1>1, <1>2 DEF Elements
    <2>2. \A n \in DOMAIN s : n \in DOMAIN t /\ t[n] = s[n]
        BY <1>1, <1>2
    <2>3. Len(s) + 1 \in DOMAIN t
        BY <1>1, <1>2
    <2> QED BY <1>1, <2>1, <2>2, <2>3 DEF Elements
<1> QED BY <1>1, <1>4, <1>5 DEF Lists, t

LEMMA TakenOut ==
    ASSUME NEW S, NEW s \in Seq(S), NEW k \in DOMAIN s, Distinct(s)
    PROVE  RemoveAt(s, k) \in Seq(S) /\ Lists(RemoveAt(s, k), Elements(s) \ {s[k]})
<1> DEFINE a == SubSeq(s, 1, k - 1)  b == Below(s, k)  t == a \o b
<1>1. Len(s) \in Nat /\ DOMAIN s = 1..Len(s) /\ k \in 1..Len(s) /\ k \in Nat
    OBVIOUS
<1>2. a \in Seq(S) /\ Len(a) = k - 1 /\ \A n \in 1..(k - 1) : a[n] = s[n]
    BY <1>1
<1>3. b \in Seq(S) /\ Len(b) = Len(s) - k /\ \A n \in 1..(Len(s) - k) : b[n] = s[k + n]
    <2>1. k \in 0..Len(s)
        BY <1>1
    <2> QED BY <2>1, BelowIs, Zenon
<1>4. RemoveAt(s, k) = t
    BY DEF RemoveAt, Below
<1> HIDE DEF a, b
<1>5. /\ t \in Seq(S) /\ Len(t) = Len(a) + Len(b)
      /\ \A n \in 1..Len(a) : t[n] = a[n]
      /\ \A n \in 1..Len(b) : t[Len(a) + n] = b[n]
    <2>1. a \in Seq(S) /\ b \in Seq(S)
        BY <1>2, <1>3
    <2> QED BY <2>1
<1> HIDE DEF t
<1>6. Len(t) = Len(s) - 1 /\ DOMAIN t = 1..(Len(s) - 1)
    BY <1>1, <1>2, <1>3, <1>5
<1>7. \A n \in DOMAIN t : n < k => n \in DOMAIN s /\ t[n] = s[n]
    BY <1>1, <1>2, <1>5, <1>6
<1>8. \A n \in DOMAIN t : n >= k => n + 1 \in DOMAIN s /\ t[n] = s[n + 1]
    <2> SUFFICES ASSUME NEW n \in DOMAIN t, n >= k PROVE n + 1 \in DOMAIN s /\ t[n] = s[n + 1]
        OBVIOUS
    <2>1. n - (k - 1) \in 1..Len(b) /\ Len(a) + (n - (k - 1)) = n /\ k + (n - (k - 1)) = n + 1
        <3>1. Len(a) = k - 1 /\ Len(b) = Len(s) - k
            BY <1>2, <1>3
        <3>2. n \in 1..(Len(s) - 1) /\ n >= k
            BY <1>6
        <3> QED BY <1>1, <3>1, <3>2
    <2>2. t[n] = b[n - (k - 1)] /\ b[n - (k - 1)] = s[n + 1]
        BY <1>3, <1>5, <2>1
    <2> QED BY <1>1, <1>6, <2>2
<1>9. Distinct(t)
    <2> SUFFICES ASSUME NEW m \in DOMAIN t, NEW n \in DOMAIN t, t[m] = t[n] PROVE m = n
        BY DEF Distinct
    <2>1. m \in Nat /\ n \in Nat
        BY <1>6
    <2>2. CASE m < k /\ n < k
        BY <1>7, <2>2 DEF Distinct
    <2>3. CASE m >= k /\ n >= k
        <3>1. m + 1 = n + 1
            BY <1>8, <2>3 DEF Distinct
        <3> QED BY <2>1, <3>1
    <2>4. CASE m < k /\ n >= k
        <3>1. m = n + 1
            BY <1>7, <1>8, <2>4 DEF Distinct
        <3> QED BY <1>1, <2>1, <2>4, <3>1
    <2>5. CASE m >= k /\ n < k
        <3>1. m + 1 = n
            BY <1>7, <1>8, <2>5 DEF Distinct
        <3> QED BY <1>1, <2>1, <2>5, <3>1
    <2> QED BY <1>1, <2>1, <2>2, <2>3, <2>4, <2>5
<1>10. Elements(t) = Elements(s) \ {s[k]}
    <2>1. ASSUME NEW n \in DOMAIN t PROVE t[n] \in Elements(s) /\ t[n] # s[k]
        <3>1. n \in Nat
            BY <1>6
        <3>2. CASE n < k
            <4>1. n \in DOMAIN s /\ t[n] = s[n] /\ n # k
                BY <1>1, <1>7, <3>1, <3>2
            <4> QED BY <4>1 DEF Elements, Distinct
        <3>3. CASE n >= k
            <4>1. n + 1 \in DOMAIN s /\ t[n] = s[n + 1] /\ n + 1 # k
                BY <1>1, <1>8, <3>1, <3>3
            <4> QED BY <4>1 DEF Elements, Distinct
        <3> QED BY <1>1, <3>1, <3>2, <3>3
    <2>2. \A n \in DOMAIN s : n < k => n \in DOMAIN t /\ t[n] = s[n]
        BY <1>1, <1>6, <1>7
    <2>3. \A n \in DOMAIN s : n > k => n - 1 \in DOMAIN t /\ t[n - 1] = s[n]
        BY <1>1, <1>6, <1>8
    <2>4. \A n \in DOMAIN s : n # k => n < k \/ n > k
        BY <1>1
    <2>5. ASSUME NEW e \in Elements(s), e # s[k] PROVE e \in Elements(t)
        <3>1. PICK n \in DOMAIN s : e = s[n]
            BY DEF Elements
        <3>2. n # k
            BY <2>5, <3>1
        <3> QED BY <2>2, <2>3, <2>4, <3>1, <3>2 DEF Elements
    <2>6. \A e \in Elements(t) : e \in Elements(s) /\ e # s[k]
        BY <2>1 DEF Elements
    <2> QED BY <2>5, <2>6
<1> QED BY <1>4, <1>5, <1>9, <1>10 DEF Lists

LEMMA TimesListed ==
    ASSUME NEW S, NEW s \in Seq(S), Distinct(s), NEW i
    PROVE  Times(i, s) = IF i \in Elements(s) THEN 1 ELSE 0
<1> DEFINE where == {n \in DOMAIN s : s[n] = i}
<1>1. CASE i \in Elements(s)
    <2>1. PICK n \in DOMAIN s : s[n] = i
        BY <1>1 DEF Elements
    <2>2. where = {n}
        BY <2>1 DEF Distinct
    <2> QED BY <1>1, <2>2, FS_Singleton DEF Times
<1>2. CASE i \notin Elements(s)
    <2>1. where = {}
        BY <1>2 DEF Elements
    <2> QED BY <1>2, <2>1, FS_EmptySet DEF Times
<1> QED BY <1>1, <1>2

LEMMA NothingListed ==
    ASSUME NEW S, NEW s \in Seq(S), Lists(s, {})
    PROVE  s = <<>>
<1>1. DOMAIN s = 1..Len(s) /\ Len(s) \in Nat
    OBVIOUS
<1>2. DOMAIN s = {}
    BY DEF Lists, Elements
<1> QED BY <1>1, <1>2

LEMMA TimesIsNat ==
    ASSUME NEW S, NEW s \in Seq(S), NEW i
    PROVE  Times(i, s) \in Nat
<1>1. DOMAIN s = 1..Len(s) /\ Len(s) \in Nat
    OBVIOUS
<1>2. IsFiniteSet(DOMAIN s)
    BY <1>1, FS_Interval
<1>3. IsFiniteSet({n \in DOMAIN s : s[n] = i})
    BY <1>2, FS_Subset
<1> QED BY <1>3, FS_CardinalityType DEF Times

LEMMA PartTaken ==
    ASSUME NEW S, NEW s \in Seq(S), NEW k \in DOMAIN s
    PROVE  RemoveAt(s, k) \in Seq(S)
<1>1. Len(s) \in Nat /\ k \in 1..Len(s)
    OBVIOUS
<1>2. SubSeq(s, 1, k - 1) \in Seq(S)
    BY <1>1
<1>3. SubSeq(s, k + 1, Len(s)) \in Seq(S)
    BY <1>1
<1> QED BY <1>2, <1>3 DEF RemoveAt

LEMMA ContainsIs ==
    ASSUME NEW S, NEW s \in Seq(S), NEW i
    PROVE  Contains(s, i) <=> i \in Elements(s)
BY DEF Contains, Elements

LEMMA LibraryKinds == lib \in Libraries => lib.install \in {"shared", "model"} \cup Stacks \cup Slots \cup Buses
BY DEF Libraries, Library, OpenAIPython, OpenAIJs, AnthropicPython, CoherePython, GooglePython,
       MistralPython, BedrockPython, AnthropicJs, BedrockJs, GeminiJs, CohereJs, MistralJs,
       LangChainPython, LangChainJs, CrewAI, CrewAIWithoutOff, VercelAI, Stacks, Slots, Buses

(* What a switch leaves of a running call                                  *)
LEMMA SeesTypes ==
    ASSUME call \in Calls, NEW S \in SUBSET Instances, NEW d \in BOOLEAN, CallSees(S, d)
    PROVE  /\ call' \in Calls
           /\ call.at \notin {"running", "open"} => call' = call
           /\ /\ call'.at = call.at /\ call'.provider = call.provider
              /\ call'.reports = call.reports /\ call'.outcome = call.outcome
           /\ call.at \in {"running", "open"} =>
                 /\ call'.throughout = call.throughout \cap S /\ call'.ever = call.ever \cup S
                 /\ call'.via = IF d THEN <<>> ELSE call.via
<1>1. <<>> \in Seq(Wrappers)
    OBVIOUS
<1>2. CASE call.at \notin {"running", "open"}
    BY <1>2 DEF CallSees
<1>3. CASE call.at \in {"running", "open"}
    <2>1. call' = [call EXCEPT !.throughout = @ \cap S, !.ever = @ \cup S, !.via = IF d THEN <<>> ELSE @]
        BY <1>3 DEF CallSees
    <2>2. (IF d THEN <<>> ELSE call.via) \in Seq(Wrappers)
        BY <1>1 DEF Calls
    <2>3. call.throughout \cap S \in SUBSET Instances /\ call.ever \cup S \in SUBSET Instances
        BY DEF Calls
    <2> QED BY <1>3, <2>1, <2>2, <2>3 DEF Calls
<1> QED BY <1>2, <1>3

LEMMA SeesTidily ==
    ASSUME InstrTypes, CallIsTidy, lib' = lib, serves' = serves, on' \in SUBSET Instances,
           NEW d \in BOOLEAN, CallSees(on', d),
           d /\ call.at \in {"running", "open"} =>
               lib.install = "adapter" /\ call.throughout \cap on' = {}
    PROVE  CallIsTidy'
<1>1. PICK now : now = on'
    OBVIOUS
<1>c. PICK c : c = call'
    OBVIOUS
<1>2. /\ call.at \notin {"running", "open"} => c = call
      /\ c.at = call.at /\ c.provider = call.provider /\ c.reports = call.reports /\ c.outcome = call.outcome
      /\ call.at \in {"running", "open"} =>
            /\ c.throughout = call.throughout \cap now /\ c.ever = call.ever \cup now
            /\ c.via = IF d THEN <<>> ELSE call.via
    <2>1. call \in Calls /\ now \in SUBSET Instances /\ CallSees(now, d)
        BY <1>1 DEF InstrTypes
    <2> QED BY <1>c, <2>1, SeesTypes
<1>3. Silent' = Silent
    BY DEF Silent
<1>4. ASSUME call.at \in {"running", "open"} PROVE ViaIsTidy(c)
    <2>1. ViaIsTidy(call)
        BY <1>4 DEF CallIsTidy
    <2>2. lib.install = "shared" => (c.via = <<>> => c.throughout = {})
        BY <1>2, <1>4, <2>1 DEF ViaIsTidy
    <2>3. ASSUME lib.install \in Stacks \cup Slots \cup {"model"}
          PROVE  Distinct(c.via) /\ c.throughout \subseteq Elements(c.via) /\ Elements(c.via) \subseteq c.ever
        <3>1. CASE d
            BY <1>1, <1>2, <1>4, <3>1, EmptyListsNone DEF Lists
        <3>2. CASE ~d
            BY <1>2, <1>4, <2>1, <2>3, <3>2 DEF ViaIsTidy
        <3> QED BY <3>1, <3>2
    <2> QED BY <2>2, <2>3 DEF ViaIsTidy
<1>5. call.at \in {"running", "open"} => c.throughout \subseteq now /\ now \subseteq c.ever
    BY <1>2
<1>6. call.at = "done" => ReportIsRight(c)
    BY <1>2 DEF CallIsTidy, ReportIsRight
<1>7. call.at # "none" /\ lib.install # "shared" => \A i \in Instances : serves[i] = c.provider
    BY <1>2 DEF CallIsTidy
<1>8. CASE call.at \in {"running", "open"}
    <2>1. ViaIsTidy(call)'
        BY <1>4, <1>8, <1>c DEF ViaIsTidy
    <2> QED BY <1>1, <1>2, <1>5, <1>7, <1>8, <1>c, <2>1 DEF CallIsTidy
<1>9. CASE call.at \notin {"running", "open"}
    <2>1. call.at = "done" => ReportIsRight(call)'
        BY <1>3, <1>6, <1>c DEF ReportIsRight
    <2> QED BY <1>2, <1>7, <1>9, <1>c, <2>1 DEF CallIsTidy
<1> QED BY <1>8, <1>9

(* One step of the proof: what the switches have in common                 *)
LEMMA OnTypes ==
    ASSUME InstrTypes, NEW i \in Instances, SwitchedOn(i)
    PROVE  on' \in SUBSET Instances /\ covers \in SUBSET on' /\ call' \in Calls
           /\ CallSees(on', lib.install = "adapter")
<1>1. PICK now : now = on'
    OBVIOUS
<1>2. now \in SUBSET Instances /\ on \subseteq now /\ CallSees(now, lib.install = "adapter") /\ call \in Calls
    BY <1>1 DEF InstrTypes, SwitchedOn
<1>3. (lib.install = "adapter") \in BOOLEAN
    OBVIOUS
<1>4. call' \in Calls
    BY <1>2, <1>3, SeesTypes, Zenon
<1> QED BY <1>1, <1>2, <1>4 DEF InstrTypes

LEMMA OffTypes ==
    ASSUME InstrTypes, NEW i \in Instances, SwitchedOff(i)
    PROVE  on' \in SUBSET Instances /\ covers' \in SUBSET on' /\ call' \in Calls
           /\ CallSees(on', lib.install = "adapter" /\ method = <<i>>)
<1>1. PICK now : now = on'
    OBVIOUS
<1>2. now \in SUBSET Instances /\ CallSees(now, lib.install = "adapter" /\ method = <<i>>) /\ call \in Calls
    BY <1>1 DEF InstrTypes, SwitchedOff
<1>3. (lib.install = "adapter" /\ method = <<i>>) \in BOOLEAN
    OBVIOUS
<1>4. call' \in Calls
    BY <1>2, <1>3, SeesTypes, Zenon
<1> QED BY <1>1, <1>2, <1>4 DEF InstrTypes, SwitchedOff

LEMMA OnTidily ==
    ASSUME InstrTypes, CallIsTidy, NEW i \in Instances, SwitchedOn(i), lib' = lib, serves' = serves,
           lib.install = "adapter" => on = {}
    PROVE  CallIsTidy'
<1>1. on' \in SUBSET Instances /\ CallSees(on', lib.install = "adapter")
    BY OnTypes
<1>2. lib.install = "adapter" /\ call.at \in {"running", "open"} => call.throughout \cap on' = {}
    BY DEF CallIsTidy
<1>3. (lib.install = "adapter") \in BOOLEAN
    OBVIOUS
<1> QED BY <1>1, <1>2, <1>3, SeesTidily

LEMMA OffTidily ==
    ASSUME InstrTypes, CallIsTidy, NEW i \in Instances, SwitchedOff(i), lib' = lib, serves' = serves,
           lib.install = "adapter" => on = {i}
    PROVE  CallIsTidy'
<1> DEFINE d == lib.install = "adapter" /\ method = <<i>>
<1>1. on' \in SUBSET Instances /\ CallSees(on', d)
    BY OffTypes
<1>2. d => on' = {}
    BY DEF SwitchedOff
<1>3. d \in BOOLEAN /\ (d => lib.install = "adapter")
    OBVIOUS
<1> HIDE DEF d
<1>4. d /\ call.at \in {"running", "open"} => lib.install = "adapter" /\ call.throughout \cap on' = {}
    BY <1>2, <1>3
<1> QED BY <1>1, <1>3, <1>4, SeesTidily

LEMMA Untouched ==
    ASSUME CallIsTidy, UNCHANGED <<lib, serves, on, call>>
    PROVE  CallIsTidy'
<1>1. Silent' = Silent
    BY DEF Silent
<1>2. ReportIsRight(call) <=> ReportIsRight(call)'
    BY <1>1 DEF ReportIsRight
<1>3. ViaIsTidy(call) <=> ViaIsTidy(call)'
    BY DEF ViaIsTidy
<1> QED BY <1>1, <1>2, <1>3 DEF CallIsTidy

LEMMA JoinTidily ==
    ASSUME InstrInv, NEW i \in Instances, JoinFamily(i)
    PROVE  InstrInv'
<1>1. InstrTypes /\ lib.install = "shared" /\ SwitchedOn(i)
    BY DEF InstrInv, JoinFamily
<1>2. on' \in SUBSET Instances /\ covers \in SUBSET on' /\ call' \in Calls
    BY <1>1, OnTypes
<1>3. <<Family>> \in Seq(Wrappers) /\ Family \in Wrappers
    BY DEF Wrappers
<1>4. method' \in Seq(Wrappers) /\ saved' \in [Wrappers -> Seq(Wrappers)]
    BY <1>1, <1>3 DEF JoinFamily, InstrTypes
<1>5. InstrTypes'
    BY <1>1, <1>2, <1>4 DEF JoinFamily, InstrTypes
<1>6. ASSUME ~untidy' PROVE MethodIsTidy' /\ ClientIsTidy' /\ CallIsTidy'
    <2>1. MethodIsTidy /\ ClientIsTidy /\ CallIsTidy
        BY <1>6 DEF InstrInv, JoinFamily
    <2>2. CallIsTidy'
        BY <1>1, <2>1, OnTidily DEF JoinFamily
    <2>3. on' # {}
        BY DEF JoinFamily, SwitchedOn
    <2>4. saved'[Family] = <<>> /\ method' = <<Family>>
        <3>1. CASE saved[Family] = Unpatched
            <4>1. method = <<>>
                BY <1>1, <2>1, <3>1 DEF MethodIsTidy, Unpatched
            <4> QED BY <1>1, <1>3, <3>1, <4>1 DEF JoinFamily, InstrTypes
        <3>2. CASE saved[Family] # Unpatched
            BY <1>1, <2>1, <3>2 DEF MethodIsTidy, JoinFamily
        <3> QED BY <3>1, <3>2
    <2>5. lib' = lib
        BY DEF JoinFamily
    <2> QED BY <1>1, <2>2, <2>3, <2>4, <2>5 DEF MethodIsTidy, ClientIsTidy, Stacks, Slots, Buses, Made
<1> QED BY <1>5, <1>6 DEF InstrInv

LEMMA LeaveTidily ==
    ASSUME InstrInv, NEW i \in Instances, LeaveFamily(i)
    PROVE  InstrInv'
<1>1. InstrTypes /\ lib.install = "shared" /\ SwitchedOff(i)
    BY DEF InstrInv, LeaveFamily
<1>2. on' \in SUBSET Instances /\ covers' \in SUBSET on' /\ call' \in Calls
    BY <1>1, OffTypes
<1>3. Unpatched \in Seq(Wrappers) /\ Family \in Wrappers
    BY DEF Wrappers, Unpatched
<1>4. method' \in Seq(Wrappers) /\ saved' \in [Wrappers -> Seq(Wrappers)]
    <2>1. CASE on' = {} /\ saved[Family] # Unpatched
        <3>1. method' = saved[Family] /\ saved' = [saved EXCEPT ![Family] = Unpatched]
            BY <2>1 DEF LeaveFamily
        <3>2. saved \in [Wrappers -> Seq(Wrappers)]
            BY <1>1 DEF InstrTypes
        <3> QED BY <1>3, <3>1, <3>2
    <2>2. CASE ~(on' = {} /\ saved[Family] # Unpatched)
        BY <1>1, <2>2 DEF LeaveFamily, InstrTypes
    <2> QED BY <2>1, <2>2
<1>5. InstrTypes'
    BY <1>1, <1>2, <1>4 DEF LeaveFamily, InstrTypes
<1>6. ASSUME ~untidy' PROVE MethodIsTidy' /\ ClientIsTidy' /\ CallIsTidy'
    <2>1. MethodIsTidy /\ ClientIsTidy /\ CallIsTidy
        BY <1>6 DEF InstrInv, LeaveFamily
    <2>2. CallIsTidy'
        BY <1>1, <2>1, OffTidily DEF LeaveFamily
    <2>3. saved[Family] = <<>> /\ method = <<Family>> /\ <<>> # Unpatched
        BY <1>1, <2>1 DEF MethodIsTidy, LeaveFamily, Unpatched
    <2>4. CASE on' = {}
        <3>1. method' = <<>> /\ saved'[Family] = Unpatched
            BY <1>1, <1>3, <2>3, <2>4 DEF LeaveFamily, InstrTypes
        <3> QED BY <1>1, <2>2, <2>4, <3>1 DEF LeaveFamily, MethodIsTidy, ClientIsTidy, Stacks, Slots, Buses, Made
    <2>5. CASE on' # {}
        <3>1. method' = method /\ saved' = saved
            BY <2>5 DEF LeaveFamily
        <3> QED BY <1>1, <2>2, <2>3, <2>5, <3>1 DEF LeaveFamily, MethodIsTidy, ClientIsTidy, Stacks, Slots, Buses, Made
    <2> QED BY <2>4, <2>5
<1> QED BY <1>5, <1>6 DEF InstrInv

LEMMA BeginTidily ==
    ASSUME InstrInv, NEW i \in Instances, BeginInstrument(i)
    PROVE  InstrInv'
<1>1. InstrTypes /\ i \notin on
    BY DEF InstrInv, BeginInstrument
<1>2. UNCHANGED <<lib, serves, on, method, saved, client, covers, call, untidy>>
    BY DEF BeginInstrument
<1>3. building' \in [Instances -> Seq(Seq(Wrappers))] /\ \A j \in Instances : j # i => building'[j] = building[j]
    <2>1. building[i] \in Seq(Seq(Wrappers)) /\ method \in Seq(Wrappers)
        BY <1>1 DEF InstrTypes
    <2>2. Append(building[i], method) \in Seq(Seq(Wrappers))
        BY <2>1
    <2> QED BY <1>1, <2>2 DEF BeginInstrument, InstrTypes
<1>4. InstrTypes'
    BY <1>1, <1>2, <1>3 DEF InstrTypes
<1>5. ASSUME ~untidy' PROVE MethodIsTidy' /\ ClientIsTidy' /\ CallIsTidy'
    <2>1. MethodIsTidy /\ ClientIsTidy /\ CallIsTidy
        BY <1>2, <1>5 DEF InstrInv
    <2>2. CallIsTidy'
        BY <1>2, <2>1, Untouched
    <2>3. ClientIsTidy'
        BY <1>2, <2>1 DEF ClientIsTidy
    <2>4. \A j \in on : j \in Instances /\ j # i
        BY <1>1 DEF InstrTypes
    <2>5. (\A n \in DOMAIN method : saved[method[n]] = Below(method, n))
            => \A n \in DOMAIN method' : saved'[method'[n]] = Below(method', n)
        BY <1>2
    <2>6. MethodIsTidy'
        BY <1>2, <1>3, <2>1, <2>4, <2>5 DEF MethodIsTidy
    <2> QED BY <2>2, <2>3, <2>6
<1> QED BY <1>4, <1>5 DEF InstrInv

LEMMA PatchTidily ==
    ASSUME InstrInv, NEW i \in Instances, PatchMethod(i)
    PROVE  InstrInv'
<1>1. InstrTypes /\ lib.install \in Stacks /\ SwitchedOn(i)
    BY DEF InstrInv, PatchMethod, Stacks
<1>2. on' \in SUBSET Instances /\ covers \in SUBSET on' /\ call' \in Calls /\ i \in Wrappers
    BY <1>1, OnTypes DEF Wrappers
<1>3. PICK read : read = IF lib.threads THEN building[i][1] ELSE method
    OBVIOUS
<1>4. /\ saved' = [saved EXCEPT ![i] = method] /\ method' = <<i>> \o read
      /\ building' = [building EXCEPT ![i] = <<>>] /\ untidy' = (untidy \/ read # method)
      /\ UNCHANGED <<lib, serves, client, covers>>
      /\ IF lib.threads THEN building[i] # <<>> ELSE i \notin on
    BY <1>3 DEF PatchMethod
<1>5. read \in Seq(Wrappers)
    <2>1. CASE lib.threads
        <3>1. building[i] \in Seq(Seq(Wrappers)) /\ building[i] # <<>>
            BY <1>1, <1>4, <2>1 DEF InstrTypes
        <3>2. building[i][1] \in Seq(Wrappers)
            BY <3>1
        <3> QED BY <1>3, <2>1, <3>2
    <2>2. CASE ~lib.threads
        BY <1>1, <1>3, <2>2 DEF InstrTypes
    <2> QED BY <2>1, <2>2
<1>6. method \in Seq(Wrappers) /\ <<i>> \o read \in Seq(Wrappers) /\ <<>> \in Seq(Seq(Wrappers))
    BY <1>1, <1>2, <1>5 DEF InstrTypes
<1>7. /\ saved' \in [Wrappers -> Seq(Wrappers)] /\ saved'[i] = method
      /\ \A j \in Wrappers : j # i => saved'[j] = saved[j]
    BY <1>1, <1>2, <1>4, <1>6 DEF InstrTypes
<1>8. /\ building' \in [Instances -> Seq(Seq(Wrappers))] /\ building'[i] = <<>>
      /\ \A j \in Instances : j # i => building'[j] = building[j]
    BY <1>1, <1>4, <1>6 DEF InstrTypes
<1>9. InstrTypes'
    <2>1. untidy' \in BOOLEAN
        BY <1>1, <1>4 DEF InstrTypes
    <2> QED BY <1>1, <1>2, <1>4, <1>6, <1>7, <1>8, <2>1 DEF InstrTypes
<1>10. ASSUME ~untidy' PROVE MethodIsTidy' /\ ClientIsTidy' /\ CallIsTidy'
    <2>1. MethodIsTidy /\ ClientIsTidy /\ CallIsTidy /\ read = method
        BY <1>4, <1>10 DEF InstrInv
    <2>2. CallIsTidy'
        <3>1. lib.install # "adapter"
            BY <1>1 DEF Stacks
        <3> QED BY <1>1, <1>4, <2>1, <3>1, OnTidily
    <2>3. /\ Lists(method, on) /\ \A n \in DOMAIN method : saved[method[n]] = Below(method, n)
          /\ \A j \in on : building[j] = <<>>
        BY <1>1, <2>1 DEF MethodIsTidy
    <2>4. i \notin on /\ on' = on \cup {i} /\ on \subseteq Instances
        BY <1>1, <1>4, <2>3 DEF SwitchedOn, InstrTypes
    <2>5. PICK t : t = <<i>> \o method
        OBVIOUS
    <2>6. /\ Lists(t, on \cup {i}) /\ t[1] = i /\ Below(t, 1) = method
          /\ \A n \in DOMAIN t : n # 1 => /\ n - 1 \in DOMAIN method /\ t[n] = method[n - 1]
                                          /\ Below(t, n) = Below(method, n - 1)
        <3>1. i \notin Elements(method) /\ Distinct(method) /\ Elements(method) = on
            BY <2>3, <2>4 DEF Lists
        <3> HIDE <2>5
        <3> QED BY <1>2, <1>6, <2>5, <3>1, OnTop
    <2>7. method' = t
        BY <1>4, <2>1, <2>5
    <2>8. ASSUME NEW n \in DOMAIN t PROVE saved'[t[n]] = Below(t, n)
        <3>1. CASE n = 1
            BY <1>7, <2>6, <3>1
        <3>2. CASE n # 1
            <4>1. n - 1 \in DOMAIN method /\ t[n] = method[n - 1] /\ Below(t, n) = Below(method, n - 1)
                BY <2>6, <3>2
            <4>2. method[n - 1] \in on
                BY <2>3, <4>1 DEF Lists, Elements
            <4>3. saved'[t[n]] = saved[method[n - 1]]
                BY <1>7, <2>4, <4>1, <4>2 DEF Wrappers
            <4> QED BY <2>3, <4>1, <4>3
        <3> QED BY <3>1, <3>2
    <2>9. \A j \in on' : building'[j] = <<>>
        BY <1>8, <2>3, <2>4
    <2>10. MethodIsTidy'
        <3>1. Lists(method', on')
            BY <2>4, <2>6, <2>7
        <3>2. \A n \in DOMAIN method' : saved'[method'[n]] = Below(method', n)
            BY <2>7, <2>8
        <3>3. lib'.install \in Stacks
            BY <1>1, <1>4
        <3> QED BY <2>9, <3>1, <3>2, <3>3 DEF MethodIsTidy, Stacks, Slots, Buses
    <2>11. ClientIsTidy'
        BY <1>1, <1>4, <2>1, <2>4 DEF ClientIsTidy, Stacks
    <2> QED BY <2>2, <2>10, <2>11
<1> QED BY <1>9, <1>10 DEF InstrInv

LEMMA RestoreTidily ==
    ASSUME InstrInv, NEW i \in Instances, RestoreMethod(i)
    PROVE  InstrInv'
<1>1. InstrTypes /\ lib.install \in Stacks /\ SwitchedOff(i) /\ i \in on
    BY DEF InstrInv, RestoreMethod, Stacks
<1>2. on' \in SUBSET Instances /\ covers' \in SUBSET on' /\ call' \in Calls /\ i \in Wrappers
    BY <1>1, OffTypes DEF Wrappers
<1>3. /\ method' = saved[i] /\ client' = IF Contains(client, i) THEN <<>> ELSE client
      /\ untidy' = (untidy \/ method = <<>> \/ Head(method) # i \/ covers \ {i} # {})
      /\ UNCHANGED <<lib, serves, saved, building>>
    BY DEF RestoreMethod
<1>4. method \in Seq(Wrappers) /\ client \in Seq(Wrappers) /\ <<>> \in Seq(Wrappers)
      /\ method' \in Seq(Wrappers) /\ client' \in Seq(Wrappers)
    BY <1>1, <1>2, <1>3 DEF InstrTypes
<1>5. InstrTypes'
    <2>1. untidy' \in BOOLEAN
        BY <1>1, <1>3 DEF InstrTypes
    <2> QED BY <1>1, <1>2, <1>3, <1>4, <2>1 DEF InstrTypes
<1>6. ASSUME ~untidy' PROVE MethodIsTidy' /\ ClientIsTidy' /\ CallIsTidy'
    <2>1. MethodIsTidy /\ ClientIsTidy /\ CallIsTidy /\ method # <<>> /\ method[1] = i /\ covers \ {i} = {}
        <3>1. ~untidy /\ method # <<>> /\ Head(method) = i /\ covers \ {i} = {}
            BY <1>3, <1>6
        <3>2. method[1] = i
            BY <1>4, <3>1
        <3> QED BY <3>1, <3>2 DEF InstrInv
    <2>2. CallIsTidy'
        <3>1. lib.install # "adapter"
            BY <1>1 DEF Stacks
        <3> QED BY <1>1, <1>3, <2>1, <3>1, OffTidily
    <2>3. /\ Lists(method, on) /\ \A n \in DOMAIN method : saved[method[n]] = Below(method, n)
          /\ \A j \in on : building[j] = <<>>
        BY <1>1, <2>1 DEF MethodIsTidy
    <2>4. on' = on \ {i} /\ covers' = {}
        BY <1>1, <2>1 DEF SwitchedOff
    <2>5. PICK t : t = Below(method, 1)
        OBVIOUS
    <2>6. /\ Lists(t, on \ {i})
          /\ \A n \in DOMAIN t : n + 1 \in DOMAIN method /\ t[n] = method[n + 1] /\ Below(t, n) = Below(method, n + 1)
        <3>1. Distinct(method) /\ Elements(method) = on
            BY <2>3 DEF Lists
        <3> QED BY <1>4, <2>1, <2>5, <3>1, UnderTop
    <2>7. method' = t
        <3>1. 1 \in DOMAIN method
            BY <1>4, <2>1
        <3> QED BY <1>3, <2>1, <2>3, <2>5, <3>1
    <2>8. MethodIsTidy'
        <3>1. Lists(method', on')
            BY <2>4, <2>6, <2>7
        <3>2. ASSUME NEW n \in DOMAIN t PROVE saved[t[n]] = Below(t, n)
            BY <2>3, <2>6
        <3>3. \A n \in DOMAIN method' : saved'[method'[n]] = Below(method', n)
            BY <1>3, <2>7, <3>2
        <3>4. lib'.install \in Stacks /\ \A j \in on' : building'[j] = <<>>
            BY <1>1, <1>3, <2>3, <2>4
        <3> QED BY <3>1, <3>3, <3>4 DEF MethodIsTidy, Stacks, Slots, Buses
    <2>9. ClientIsTidy'
        <3>1. lib.install \in Made => Distinct(client) /\ Elements(client) \subseteq on
            BY <2>1 DEF ClientIsTidy
        <3>2. Contains(client, i) <=> i \in Elements(client)
            BY <1>4, ContainsIs
        <3>3. lib.install \in Made => Distinct(client') /\ Elements(client') \subseteq on'
            BY <1>3, <2>4, <3>1, <3>2, EmptyListsNone DEF Lists
        <3> QED BY <1>1, <1>3, <2>4, <3>3 DEF ClientIsTidy, Stacks
    <2> QED BY <2>2, <2>8, <2>9
<1> QED BY <1>5, <1>6 DEF InstrInv

LEMMA TakeTidily ==
    ASSUME InstrInv, NEW i \in Instances, TakeSlot(i)
    PROVE  InstrInv'
<1>1. InstrTypes /\ lib.install \in Slots /\ SwitchedOn(i)
    BY DEF InstrInv, TakeSlot, Slots
<1>2. on' \in SUBSET Instances /\ covers \in SUBSET on' /\ call' \in Calls /\ i \in Wrappers
    BY <1>1, OnTypes DEF Wrappers
<1>3. /\ method' = <<i>> /\ untidy' = (untidy \/ on # {}) /\ UNCHANGED <<lib, serves, saved, client, covers>>
      /\ \/ building[i] # <<>> /\ building' = [building EXCEPT ![i] = Tail(building[i])]
         \/ building' = building
    BY DEF TakeSlot
<1>4. method' \in Seq(Wrappers)
    BY <1>2, <1>3
<1>5. building' \in [Instances -> Seq(Seq(Wrappers))]
    <2>1. building[i] \in Seq(Seq(Wrappers))
        BY <1>1 DEF InstrTypes
    <2>2. building[i] # <<>> => Tail(building[i]) \in Seq(Seq(Wrappers))
        BY <2>1
    <2> QED BY <1>1, <1>3, <2>2 DEF InstrTypes
<1>6. InstrTypes'
    <2>1. untidy' \in BOOLEAN
        BY <1>1, <1>3 DEF InstrTypes
    <2> QED BY <1>1, <1>2, <1>3, <1>4, <1>5, <2>1 DEF InstrTypes
<1>7. ASSUME ~untidy' PROVE MethodIsTidy' /\ ClientIsTidy' /\ CallIsTidy'
    <2>1. MethodIsTidy /\ ClientIsTidy /\ CallIsTidy /\ on = {}
        BY <1>3, <1>7 DEF InstrInv
    <2>2. CallIsTidy'
        BY <1>1, <1>3, <2>1, OnTidily
    <2>3. on' = {i}
        BY <1>1, <2>1 DEF SwitchedOn
    <2>4. lib'.install \in Slots
        BY <1>1, <1>3
    <2>5. MethodIsTidy'
        BY <1>3, <2>3, <2>4 DEF MethodIsTidy, Stacks, Slots, Buses
    <2>6. ClientIsTidy'
        BY <2>4 DEF ClientIsTidy, Slots, Made
    <2> QED BY <2>2, <2>5, <2>6
<1> QED BY <1>6, <1>7 DEF InstrInv

LEMMA ClearTidily ==
    ASSUME InstrInv, NEW i \in Instances, ClearSlot(i)
    PROVE  InstrInv'
<1>1. InstrTypes /\ lib.install \in Slots /\ SwitchedOff(i)
    BY DEF InstrInv, ClearSlot, Slots
<1>2. on' \in SUBSET Instances /\ covers' \in SUBSET on' /\ call' \in Calls
    BY <1>1, OffTypes
<1>3. /\ method' = (IF lib.install = "adapter" /\ method # <<i>> THEN method ELSE <<>>)
      /\ untidy' = (untidy \/ on # {i}) /\ UNCHANGED <<lib, serves, saved, building, client>>
    BY DEF ClearSlot
<1>4. method' \in Seq(Wrappers)
    BY <1>1, <1>3 DEF InstrTypes
<1>5. InstrTypes'
    <2>1. untidy' \in BOOLEAN
        BY <1>1, <1>3 DEF InstrTypes
    <2> QED BY <1>1, <1>2, <1>3, <1>4, <2>1 DEF InstrTypes
<1>6. ASSUME ~untidy' PROVE MethodIsTidy' /\ ClientIsTidy' /\ CallIsTidy'
    <2>1. MethodIsTidy /\ ClientIsTidy /\ CallIsTidy /\ on = {i}
        BY <1>3, <1>6 DEF InstrInv
    <2>2. CallIsTidy'
        BY <1>1, <1>3, <2>1, OffTidily
    <2>3. on' = {}
        BY <1>1, <2>1 DEF SwitchedOff
    <2>4. lib'.install \in Slots
        BY <1>1, <1>3
    <2>5. method = <<i>>
        BY <1>1, <2>1 DEF MethodIsTidy
    <2>6. MethodIsTidy'
        BY <1>3, <2>3, <2>4, <2>5 DEF MethodIsTidy, Stacks, Slots, Buses
    <2>7. ClientIsTidy'
        BY <2>4 DEF ClientIsTidy, Slots, Made
    <2> QED BY <2>2, <2>6, <2>7
<1> QED BY <1>5, <1>6 DEF InstrInv

LEMMA ListenTidily ==
    ASSUME InstrInv, NEW i \in Instances, Listen(i)
    PROVE  InstrInv'
<1>1. InstrTypes /\ lib.install \in Buses /\ SwitchedOn(i) /\ i \notin on
    BY DEF InstrInv, Listen, Buses
<1>2. on' \in SUBSET Instances /\ covers \in SUBSET on' /\ call' \in Calls /\ i \in Wrappers
    BY <1>1, OnTypes DEF Wrappers
<1>3. method' = Append(method, i) /\ UNCHANGED <<lib, serves, saved, building, client, covers, untidy>>
    BY DEF Listen
<1>4. method \in Seq(Wrappers) /\ method' \in Seq(Wrappers)
    BY <1>1, <1>2, <1>3 DEF InstrTypes
<1>5. InstrTypes'
    BY <1>1, <1>2, <1>3, <1>4 DEF InstrTypes
<1>6. ASSUME ~untidy' PROVE MethodIsTidy' /\ ClientIsTidy' /\ CallIsTidy'
    <2>1. MethodIsTidy /\ ClientIsTidy /\ CallIsTidy
        BY <1>3, <1>6 DEF InstrInv
    <2>2. CallIsTidy'
        BY <1>1, <1>3, <2>1, OnTidily DEF Buses
    <2>3. Lists(method', on')
        <3>1. Distinct(method) /\ Elements(method) = on
            BY <1>1, <2>1 DEF MethodIsTidy, Lists
        <3>2. Lists(Append(method, i), on \cup {i})
            BY <1>1, <1>2, <1>4, <3>1, AtEnd
        <3> QED BY <1>1, <1>3, <3>2 DEF SwitchedOn
    <2>4. lib'.install \in Buses
        BY <1>1, <1>3
    <2> QED BY <2>2, <2>3, <2>4 DEF MethodIsTidy, ClientIsTidy, Stacks, Slots, Buses, Made
<1> QED BY <1>5, <1>6 DEF InstrInv

LEMMA StopTidily ==
    ASSUME InstrInv, NEW i \in Instances, StopListening(i)
    PROVE  InstrInv'
<1>1. InstrTypes /\ lib.install \in Buses /\ SwitchedOff(i)
    BY DEF InstrInv, StopListening, Buses
<1>2. on' \in SUBSET Instances /\ covers' \in SUBSET on' /\ call' \in Calls
    BY <1>1, OffTypes
<1>3. /\ untidy' = (untidy \/ lib.install = "deaf") /\ UNCHANGED <<lib, serves, saved, building, client>>
      /\ IF lib.install = "events"
         THEN \E n \in DOMAIN method : method[n] = i /\ method' = RemoveAt(method, n)
         ELSE method' = method
    BY DEF StopListening
<1>4. method \in Seq(Wrappers)
    BY <1>1 DEF InstrTypes
<1>5. method' \in Seq(Wrappers)
    BY <1>3, <1>4, PartTaken
<1>6. InstrTypes'
    <2>1. untidy' \in BOOLEAN
        BY <1>1, <1>3 DEF InstrTypes
    <2> QED BY <1>1, <1>2, <1>3, <1>5, <2>1 DEF InstrTypes
<1>7. ASSUME ~untidy' PROVE MethodIsTidy' /\ ClientIsTidy' /\ CallIsTidy'
    <2>1. MethodIsTidy /\ ClientIsTidy /\ CallIsTidy /\ lib.install = "events"
        BY <1>1, <1>3, <1>7 DEF InstrInv, Buses
    <2>2. CallIsTidy'
        BY <1>1, <1>3, <2>1, OffTidily
    <2>3. Lists(method', on')
        <3>1. PICK n \in DOMAIN method : method[n] = i /\ method' = RemoveAt(method, n)
            BY <1>3, <2>1
        <3>2. Distinct(method) /\ Elements(method) = on
            BY <1>1, <2>1 DEF MethodIsTidy, Lists
        <3>3. Lists(RemoveAt(method, n), on \ {i})
            BY <1>4, <3>1, <3>2, TakenOut
        <3> QED BY <1>1, <3>1, <3>3 DEF SwitchedOff
    <2>4. lib'.install \in Buses
        BY <1>1, <1>3
    <2> QED BY <2>2, <2>3, <2>4 DEF MethodIsTidy, ClientIsTidy, Stacks, Slots, Buses, Made
<1> QED BY <1>6, <1>7 DEF InstrInv

LEMMA ArmTidily ==
    ASSUME InstrInv, NEW i \in Instances, Arm(i)
    PROVE  InstrInv'
<1>1. InstrTypes /\ lib.install = "model" /\ SwitchedOn(i)
    BY DEF InstrInv, Arm
<1>2. on' \in SUBSET Instances /\ covers \in SUBSET on' /\ call' \in Calls
    BY <1>1, OnTypes
<1>3. UNCHANGED <<lib, serves, method, saved, building, client, covers, untidy>>
    BY DEF Arm
<1>4. InstrTypes'
    BY <1>1, <1>2, <1>3 DEF InstrTypes
<1>5. ASSUME ~untidy' PROVE MethodIsTidy' /\ ClientIsTidy' /\ CallIsTidy'
    <2>1. MethodIsTidy /\ ClientIsTidy /\ CallIsTidy
        BY <1>3, <1>5 DEF InstrInv
    <2>2. CallIsTidy'
        BY <1>1, <1>3, <2>1, OnTidily
    <2>3. on \subseteq on'
        BY <1>1 DEF SwitchedOn
    <2> QED BY <1>1, <1>3, <2>1, <2>2, <2>3 DEF MethodIsTidy, ClientIsTidy, Stacks, Slots, Buses, Made
<1> QED BY <1>4, <1>5 DEF InstrInv

LEMMA DisarmTidily ==
    ASSUME InstrInv, NEW i \in Instances, Disarm(i)
    PROVE  InstrInv'
<1>1. InstrTypes /\ lib.install = "model" /\ SwitchedOff(i)
    BY DEF InstrInv, Disarm
<1>2. on' \in SUBSET Instances /\ covers' \in SUBSET on' /\ call' \in Calls
    BY <1>1, OffTypes
<1>3. untidy' = (untidy \/ Contains(client, i)) /\ UNCHANGED <<lib, serves, method, saved, building, client>>
    BY DEF Disarm
<1>4. client \in Seq(Wrappers)
    BY <1>1 DEF InstrTypes
<1>5. InstrTypes'
    <2>1. untidy' \in BOOLEAN
        BY <1>1, <1>3 DEF InstrTypes, Contains
    <2> QED BY <1>1, <1>2, <1>3, <2>1 DEF InstrTypes
<1>6. ASSUME ~untidy' PROVE MethodIsTidy' /\ ClientIsTidy' /\ CallIsTidy'
    <2>1. MethodIsTidy /\ ClientIsTidy /\ CallIsTidy /\ i \notin Elements(client)
        BY <1>3, <1>4, <1>6, ContainsIs DEF InstrInv
    <2>2. CallIsTidy'
        BY <1>1, <1>3, <2>1, OffTidily
    <2>3. on' = on \ {i} /\ covers' = covers \ {i}
        BY <1>1 DEF SwitchedOff
    <2>4. MethodIsTidy'
        BY <1>1, <1>3, <2>1 DEF MethodIsTidy, Stacks, Slots, Buses
    <2>5. ClientIsTidy'
        BY <1>1, <1>3, <2>1, <2>3 DEF ClientIsTidy, Made
    <2> QED BY <2>2, <2>4, <2>5
<1> QED BY <1>5, <1>6 DEF InstrInv

LEMMA WrapTidily ==
    ASSUME InstrInv, NEW i \in Instances, WrapModel(i)
    PROVE  InstrInv'
<1>1. InstrTypes /\ lib.install = "model" /\ i \in on /\ i \notin covers /\ i \in Wrappers
    BY DEF InstrInv, WrapModel, Wrappers
<1>2. /\ client' = <<i>> \o client /\ covers' = covers \cup {i}
      /\ UNCHANGED <<lib, serves, on, method, saved, building, call, untidy>>
    BY DEF WrapModel
<1>3. client \in Seq(Wrappers) /\ client' \in Seq(Wrappers)
    BY <1>1, <1>2 DEF InstrTypes
<1>4. InstrTypes'
    BY <1>1, <1>2, <1>3 DEF InstrTypes
<1>5. ASSUME ~untidy' PROVE MethodIsTidy' /\ ClientIsTidy' /\ CallIsTidy'
    <2>1. MethodIsTidy /\ ClientIsTidy /\ CallIsTidy
        BY <1>2, <1>5 DEF InstrInv
    <2>2. CallIsTidy'
        BY <1>2, <2>1, Untouched
    <2>3. Distinct(client) /\ Elements(client) = covers /\ covers \subseteq on
        BY <1>1, <2>1 DEF ClientIsTidy, Made
    <2>4. Lists(client', covers')
        <3>1. Lists(<<i>> \o client, covers \cup {i})
            BY <1>1, <1>3, <2>3, OnTop
        <3> QED BY <1>2, <3>1
    <2>5. MethodIsTidy'
        BY <1>1, <1>2, <2>1 DEF MethodIsTidy, Stacks, Slots, Buses
    <2>6. ClientIsTidy'
        BY <1>1, <1>2, <2>3, <2>4 DEF ClientIsTidy, Lists
    <2> QED BY <2>2, <2>5, <2>6
<1> QED BY <1>4, <1>5 DEF InstrInv

LEMMA MakeTidily ==
    ASSUME InstrInv, MakeClient
    PROVE  InstrInv'
<1>1. InstrTypes /\ lib.install = "clients"
    BY DEF InstrInv, MakeClient
<1>2. /\ client' = method /\ covers' = on
      /\ UNCHANGED <<lib, serves, on, method, saved, building, call, untidy>>
    BY DEF MakeClient
<1>3. InstrTypes'
    BY <1>1, <1>2 DEF InstrTypes
<1>4. ASSUME ~untidy' PROVE MethodIsTidy' /\ ClientIsTidy' /\ CallIsTidy'
    <2>1. MethodIsTidy /\ ClientIsTidy /\ CallIsTidy
        BY <1>2, <1>4 DEF InstrInv
    <2>2. CallIsTidy'
        BY <1>2, <2>1, Untouched
    <2>3. /\ Lists(method, on) /\ \A n \in DOMAIN method : saved[method[n]] = Below(method, n)
          /\ \A j \in on : building[j] = <<>>
        BY <1>1, <2>1 DEF MethodIsTidy, Stacks
    <2>4. \A n \in DOMAIN method' : saved'[method'[n]] = Below(method', n)
        BY <1>2, <2>3
    <2>5. MethodIsTidy'
        BY <1>1, <1>2, <2>3, <2>4 DEF MethodIsTidy, Stacks, Slots, Buses
    <2>6. ClientIsTidy'
        BY <1>1, <1>2, <2>3 DEF ClientIsTidy, Lists
    <2> QED BY <2>2, <2>5, <2>6
<1> QED BY <1>3, <1>4 DEF InstrInv

LEMMA StartTidily ==
    ASSUME InstrInv, StartCall
    PROVE  InstrInv'
<1>1. InstrTypes /\ call = NoCall /\ UNCHANGED <<lib, serves, on, method, saved, building, client, covers, untidy>>
    BY DEF InstrInv, StartCall, patchVars
<1>2. PICK stream \in BOOLEAN, p \in {serves[i] : i \in Instances} :
          call' = [call EXCEPT
                      !.at = "running", !.stream = stream, !.provider = p,
                      !.via = IF lib.install \in Made THEN client ELSE method,
                      !.throughout = IF lib.install \in Made THEN covers ELSE on, !.ever = on]
    BY DEF StartCall
<1> DEFINE via == IF lib.install \in Made THEN client ELSE method
           all == IF lib.install \in Made THEN covers ELSE on
<1>3. /\ via \in Seq(Wrappers) /\ all \in SUBSET Instances /\ on \in SUBSET Instances
      /\ all \subseteq on /\ p \in Providers /\ call \in Calls
    BY <1>1 DEF InstrTypes
<1>4. PICK c : c = call'
    OBVIOUS
<1>5. /\ c \in Calls /\ c.at = "running" /\ c.provider = p /\ c.via = via
      /\ c.throughout = all /\ c.ever = on
    <2> HIDE DEF via, all
    <2>1. c = [call EXCEPT !.at = "running", !.stream = stream, !.provider = p,
                           !.via = via, !.throughout = all, !.ever = on]
        BY <1>2, <1>4 DEF via, all
    <2> QED BY <1>3, <2>1 DEF Calls
<1>6. InstrTypes'
    BY <1>1, <1>4, <1>5 DEF InstrTypes
<1>7. ASSUME ~untidy' PROVE MethodIsTidy' /\ ClientIsTidy' /\ CallIsTidy'
    <2>1. MethodIsTidy /\ ClientIsTidy
        BY <1>1, <1>7 DEF InstrInv
    <2>2. MethodIsTidy'
        <3>1. (\A n \in DOMAIN method : saved[method[n]] = Below(method, n))
                => \A n \in DOMAIN method' : saved'[method'[n]] = Below(method', n)
            BY <1>1
        <3> QED BY <1>1, <2>1, <3>1 DEF MethodIsTidy
    <2>3. ClientIsTidy'
        BY <1>1, <2>1 DEF ClientIsTidy
    <2>4. lib.install # "shared" => \A i \in Instances : serves[i] = p
        BY <1>1 DEF InstrTypes
    <2>5. lib.install = "shared" => (c.via = <<>> => c.throughout = {})
        <3> SUFFICES ASSUME lib.install = "shared", c.via = <<>> PROVE c.throughout = {}
            OBVIOUS
        <3>1. c.via = method /\ c.throughout = on
            BY <1>5 DEF Made
        <3>2. on = {} \/ method = <<Family>>
            BY <2>1 DEF MethodIsTidy
        <3>3. <<Family>> # <<>>
            OBVIOUS
        <3> QED BY <3>1, <3>2, <3>3
    <2>6. ASSUME lib.install \in Stacks \cup Slots \cup {"model"}
          PROVE  Distinct(via) /\ all \subseteq Elements(via) /\ Elements(via) \subseteq on
        <3>1. CASE lib.install \in Made
            BY <2>1, <3>1 DEF ClientIsTidy
        <3>2. CASE lib.install \in Stacks \ Made
            BY <2>1, <3>2 DEF MethodIsTidy, Lists
        <3>3. CASE lib.install \in Slots
            <4>1. via = method /\ all = on
                BY <3>3 DEF Slots, Made
            <4>2. CASE on = {} /\ method = <<>>
                BY <4>1, <4>2, EmptyListsNone DEF Lists
            <4>3. CASE \E i \in Instances : on = {i} /\ method = <<i>>
                <5>1. PICK i \in Instances : on = {i} /\ method = <<i>>
                    BY <4>3
                <5> QED BY <4>1, <5>1 DEF Distinct, Elements
            <4> QED BY <2>1, <3>3, <4>2, <4>3 DEF MethodIsTidy
        <3> QED BY <2>6, <3>1, <3>2, <3>3 DEF Made
    <2>7. ViaIsTidy(c)
        BY <1>5, <2>5, <2>6 DEF ViaIsTidy
    <2>8. ViaIsTidy(call)'
        BY <1>1, <1>4, <2>7 DEF ViaIsTidy
    <2>9. CallIsTidy'
        BY <1>1, <1>3, <1>4, <1>5, <2>4, <2>8 DEF CallIsTidy
    <2> QED BY <2>2, <2>3, <2>9
<1> QED BY <1>6, <1>7 DEF InstrInv

LEMMA PatchesStay ==
    ASSUME UNCHANGED patchVars
    PROVE  (MethodIsTidy => MethodIsTidy') /\ (ClientIsTidy => ClientIsTidy') /\ Silent' = Silent
<1>1. UNCHANGED <<lib, serves, on, method, saved, building, client, covers, untidy>>
    BY DEF patchVars
<1>2. (\A n \in DOMAIN method : saved[method[n]] = Below(method, n))
        => \A n \in DOMAIN method' : saved'[method'[n]] = Below(method', n)
    BY <1>1
<1>3. MethodIsTidy => MethodIsTidy'
    BY <1>1, <1>2 DEF MethodIsTidy
<1> QED BY <1>1, <1>3 DEF ClientIsTidy, Silent

LEMMA OpenTidily ==
    ASSUME InstrInv, OpenStream
    PROVE  InstrInv'
<1>1. InstrTypes /\ call.at = "running" /\ UNCHANGED patchVars
    BY DEF InstrInv, OpenStream
<1>2. PICK c : c = call'
    OBVIOUS
<1>3. /\ c \in Calls /\ c.at = "open" /\ c.provider = call.provider /\ c.via = call.via
      /\ c.throughout = call.throughout /\ c.ever = call.ever
    <2>1. call \in Calls /\ c = [call EXCEPT !.at = "open"]
        BY <1>1, <1>2 DEF OpenStream, InstrTypes
    <2> QED BY <2>1 DEF Calls
<1>4. InstrTypes'
    BY <1>1, <1>2, <1>3 DEF InstrTypes, patchVars
<1>5. ASSUME ~untidy' PROVE MethodIsTidy' /\ ClientIsTidy' /\ CallIsTidy'
    <2>1. MethodIsTidy /\ ClientIsTidy /\ CallIsTidy
        BY <1>1, <1>5 DEF InstrInv, patchVars
    <2>2. MethodIsTidy' /\ ClientIsTidy'
        BY <1>1, <2>1, PatchesStay
    <2>3. ViaIsTidy(call)'
        BY <1>1, <1>2, <1>3, <2>1 DEF ViaIsTidy, CallIsTidy, patchVars
    <2>4. CallIsTidy'
        BY <1>1, <1>2, <1>3, <2>1, <2>3 DEF CallIsTidy, patchVars
    <2> QED BY <2>2, <2>4
<1> QED BY <1>4, <1>5 DEF InstrInv

(* Whoever is asked to report, and by whom, is right while nobody got in   *)
(* another's way.                                                          *)
LEMMA RightlyReported ==
    ASSUME InstrTypes, MethodIsTidy, CallIsTidy, call.at \in {"running", "open"}, NEW i \in Instances
    PROVE  /\ TimesReported(i) \in {0, 1}
           /\ i \notin call.ever \/ serves[i] # call.provider => TimesReported(i) = 0
           /\ i \in call.throughout /\ serves[i] = call.provider => TimesReported(i) = 1
<1>1. /\ call.throughout \subseteq on /\ on \subseteq call.ever /\ ViaIsTidy(call)
      /\ lib.install # "shared" => serves[i] = call.provider
      /\ call.via \in Seq(Wrappers) /\ method \in Seq(Wrappers)
    BY DEF CallIsTidy, InstrTypes, Calls
<1>2. CASE lib.install = "shared"
    <2>1. TimesReported(i) = IF call.via # <<>> /\ i \in on /\ serves[i] = call.provider THEN 1 ELSE 0
        BY <1>2 DEF TimesReported
    <2> QED BY <1>1, <1>2, <2>1 DEF ViaIsTidy
<1>3. CASE lib.install \in Buses
    <2>1. TimesReported(i) = Times(i, method)
        BY <1>3 DEF TimesReported, Buses
    <2>2. Lists(method, on)
        BY <1>3 DEF MethodIsTidy
    <2>3. TimesReported(i) = IF i \in on THEN 1 ELSE 0
        BY <1>1, <2>1, <2>2, TimesListed DEF Lists
    <2>4. serves[i] = call.provider
        BY <1>1, <1>3 DEF Buses
    <2> QED BY <1>1, <2>3, <2>4
<1>4. CASE lib.install \in Stacks \cup Slots \cup {"model"}
    <2>1. TimesReported(i) = Times(i, call.via)
        BY <1>4 DEF TimesReported, Stacks, Slots
    <2>2. Distinct(call.via) /\ call.throughout \subseteq Elements(call.via) /\ Elements(call.via) \subseteq call.ever
        BY <1>1, <1>4 DEF ViaIsTidy
    <2>3. TimesReported(i) = IF i \in Elements(call.via) THEN 1 ELSE 0
        BY <1>1, <2>1, <2>2, TimesListed
    <2>4. serves[i] = call.provider
        BY <1>1, <1>4 DEF Stacks, Slots
    <2> QED BY <2>2, <2>3, <2>4
<1> QED BY <1>2, <1>3, <1>4, LibraryKinds DEF InstrTypes

LEMMA EndTidily ==
    ASSUME InstrInv, EndCall
    PROVE  InstrInv'
<1>1. InstrTypes /\ call.at \in {"running", "open"} /\ UNCHANGED patchVars
    BY DEF InstrInv, EndCall
<1>2. PICK c : c = call'
    OBVIOUS
<1>3. PICK outcome \in Outcomes \cup (IF lib.install \in Frameworks THEN {"unrecognised"} ELSE {}) :
          c = [call EXCEPT
                  !.at = "done", !.outcome = outcome, !.via = <<>>,
                  !.reports = [i \in Instances |-> IF outcome \in Silent THEN 0 ELSE TimesReported(i)]]
    BY <1>2 DEF EndCall
<1>4. PICK r : r = [i \in Instances |-> IF outcome \in Silent THEN 0 ELSE TimesReported(i)]
    OBVIOUS
<1>5. r \in [Instances -> Nat]
    <2>1. call.via \in Seq(Wrappers) /\ method \in Seq(Wrappers)
        BY <1>1 DEF InstrTypes, Calls
    <2>2. \A i \in Instances : TimesReported(i) \in Nat
        <3>1. \A i \in Instances : Times(i, call.via) \in Nat /\ Times(i, method) \in Nat
            BY <2>1, TimesIsNat
        <3> QED BY <3>1 DEF TimesReported
    <2> QED BY <1>4, <2>2
<1>6. outcome \in Results
    <2>1. outcome \in Outcomes \/ outcome = "unrecognised"
        BY <1>3
    <2> QED BY <2>1 DEF Outcomes, Results
<1>7. /\ c \in Calls /\ c.at = "done" /\ c.provider = call.provider /\ c.outcome = outcome
      /\ c.throughout = call.throughout /\ c.ever = call.ever /\ c.reports = r
    <2>1. call \in Calls /\ <<>> \in Seq(Wrappers)
        BY <1>1 DEF InstrTypes
    <2>2. c = [call EXCEPT !.at = "done", !.outcome = outcome, !.via = <<>>, !.reports = r]
        BY <1>3, <1>4
    <2> QED BY <1>5, <1>6, <2>1, <2>2 DEF Calls
<1>8. InstrTypes'
    BY <1>1, <1>2, <1>7 DEF InstrTypes, patchVars
<1>9. ASSUME ~untidy' PROVE MethodIsTidy' /\ ClientIsTidy' /\ CallIsTidy'
    <2>1. MethodIsTidy /\ ClientIsTidy /\ CallIsTidy
        BY <1>1, <1>9 DEF InstrInv, patchVars
    <2>2. MethodIsTidy' /\ ClientIsTidy' /\ Silent' = Silent /\ serves' = serves /\ lib' = lib
        BY <1>1, <2>1, PatchesStay DEF patchVars
    <2>3. ASSUME NEW i \in Instances
          PROVE  /\ r[i] <= 1
                 /\ i \notin call.ever \/ serves[i] # call.provider => r[i] = 0
                 /\ i \in call.throughout /\ serves[i] = call.provider /\ outcome \notin Silent => r[i] = 1
        <3>1. /\ TimesReported(i) \in {0, 1}
              /\ i \notin call.ever \/ serves[i] # call.provider => TimesReported(i) = 0
              /\ i \in call.throughout /\ serves[i] = call.provider => TimesReported(i) = 1
            BY <1>1, <2>1, RightlyReported
        <3>2. r[i] = IF outcome \in Silent THEN 0 ELSE TimesReported(i)
            BY <1>4
        <3> QED BY <3>1, <3>2
    <2>4. ReportIsRight(c)
        BY <1>7, <2>3 DEF ReportIsRight
    <2>5. ReportIsRight(call)'
        BY <1>2, <2>2, <2>4 DEF ReportIsRight
    <2>6. lib.install # "shared" => \A i \in Instances : serves[i] = c.provider
        BY <1>1, <1>7, <2>1 DEF CallIsTidy
    <2>7. CallIsTidy'
        BY <1>2, <1>7, <2>2, <2>5, <2>6 DEF CallIsTidy
    <2> QED BY <2>2, <2>7
<1> QED BY <1>8, <1>9 DEF InstrInv

LEMMA InstrStart == InstrInit => InstrInv
<1> SUFFICES ASSUME InstrInit PROVE InstrInv
    OBVIOUS
<1>1. InstrTypes
    <2>1. <<>> \in Seq(Wrappers) /\ <<>> \in Seq(Seq(Wrappers)) /\ Unpatched \in Seq(Wrappers)
        BY DEF Wrappers, Unpatched
    <2>2. NoCall \in Calls
        <3>1. [i \in Instances |-> 0] \in [Instances -> Nat] /\ "none" \in Results
            BY DEF Results
        <3> QED BY <2>1, <3>1 DEF NoCall, Calls
    <2>3. saved \in [Wrappers -> Seq(Wrappers)]
        BY <2>1 DEF InstrInit, Wrappers
    <2>4. building \in [Instances -> Seq(Seq(Wrappers))]
        BY <2>1 DEF InstrInit
    <2> QED BY <2>1, <2>2, <2>3, <2>4 DEF InstrInit, InstrTypes
<1>2. MethodIsTidy
    <2>1. saved[Family] = Unpatched /\ DOMAIN method = {} /\ on = {} /\ method = <<>>
        BY DEF InstrInit
    <2> QED BY <2>1, EmptyListsNone DEF MethodIsTidy
<1>3. ClientIsTidy
    BY EmptyListsNone DEF InstrInit, ClientIsTidy, Lists
<1>4. CallIsTidy
    BY DEF InstrInit, NoCall, CallIsTidy
<1> QED BY <1>1, <1>2, <1>3, <1>4 DEF InstrInv

LEMMA InstrStep == InstrInv /\ [InstrNext]_instrVars => InstrInv'
<1> SUFFICES ASSUME InstrInv, [InstrNext]_instrVars PROVE InstrInv'
    OBVIOUS
<1>1. ASSUME NEW i \in Instances,
             \/ JoinFamily(i) \/ LeaveFamily(i) \/ BeginInstrument(i) \/ PatchMethod(i) \/ RestoreMethod(i)
             \/ TakeSlot(i) \/ ClearSlot(i) \/ Listen(i) \/ StopListening(i)
             \/ Arm(i) \/ Disarm(i) \/ WrapModel(i)
      PROVE  InstrInv'
    BY <1>1, JoinTidily, LeaveTidily, BeginTidily, PatchTidily, RestoreTidily, TakeTidily, ClearTidily,
       ListenTidily, StopTidily, ArmTidily, DisarmTidily, WrapTidily
<1>2. CASE MakeClient
    BY <1>2, MakeTidily
<1>3. CASE StartCall
    BY <1>3, StartTidily
<1>4. CASE OpenStream
    BY <1>4, OpenTidily
<1>5. CASE EndCall
    BY <1>5, EndTidily
<1>6. CASE UNCHANGED instrVars
    <2>1. UNCHANGED patchVars /\ call' = call
        BY <1>6 DEF instrVars
    <2>2. InstrTypes'
        BY <2>1 DEF InstrInv, InstrTypes, patchVars
    <2>3. ASSUME ~untidy' PROVE MethodIsTidy' /\ ClientIsTidy' /\ CallIsTidy'
        <3>1. MethodIsTidy /\ ClientIsTidy /\ CallIsTidy
            BY <2>1, <2>3 DEF InstrInv, patchVars
        <3>2. CallIsTidy'
            BY <2>1, <3>1, Untouched DEF patchVars
        <3> QED BY <2>1, <3>1, <3>2, PatchesStay
    <2> QED BY <2>2, <2>3 DEF InstrInv
<1> QED BY <1>1, <1>2, <1>3, <1>4, <1>5, <1>6 DEF InstrNext

LEMMA InstrEnough == InstrInv => InstrumentsCleanly
<1> SUFFICES ASSUME InstrInv, ~untidy PROVE InstrumentsCleanly
    BY DEF InstrumentsCleanly
<1>1. InstrTypes /\ MethodIsTidy /\ CallIsTidy
    BY DEF InstrInv
<1>2. on = {} => method = <<>>
    <2>1. method \in Seq(Wrappers) /\ lib.install \in {"shared", "model"} \cup Stacks \cup Slots \cup Buses
        BY <1>1, LibraryKinds DEF InstrTypes
    <2>2. CASE lib.install \in Stacks \cup Buses
        BY <1>1, <2>1, <2>2, NothingListed DEF MethodIsTidy
    <2>3. CASE lib.install \in {"shared", "model"} \cup Slots
        BY <1>1, <2>3 DEF MethodIsTidy
    <2> QED BY <2>1, <2>2, <2>3
<1>3. call.at = "done" => ReportIsRight(call)
    BY <1>1 DEF CallIsTidy
<1> QED BY <1>2, <1>3 DEF InstrumentsCleanly, ReportIsRight

(* Instrumentors that do not get in each other's way report every call     *)
(* once, and leave the library as they found it: for any number of them,   *)
(* for every library, and for any number of switches.                      *)
THEOREM InstrumentorsAreClean == InstrSpec => []InstrumentsCleanly
<1>1. InstrInv /\ [InstrNext]_instrVars => InstrInv'
    BY InstrStep
<1>2. InstrInit => InstrInv
    BY InstrStart
<1>3. InstrInv => InstrumentsCleanly
    BY InstrEnough
<1> QED BY <1>1, <1>2, <1>3, PTL DEF InstrSpec

=============================================================================
