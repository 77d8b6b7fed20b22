------------------------- MODULE CircuitBreakerProofs -------------------------
(***************************************************************************)
(* Proofs about CircuitBreaker for any thresholds and any finite number of *)
(* callers.                                                                *)
(***************************************************************************)
EXTENDS CircuitBreaker, FiniteSetTheorems, TLAPS

\* The half-open calls still running are among those counted in this period, and
\* outside of half-open periods there are none.
ProbeInv ==
  /\ state = "halfopen" => Cardinality(probing) <= halfOpenCallCount
  /\ state # "halfopen" => halfOpenCallCount = 0 /\ probing = {}

BreakerInv == TypeOK /\ ClosedBelowThreshold /\ ProbeInv

LEMMA Thresholds ==
  /\ FailureThreshold \in Nat /\ FailureThreshold >= 1
  /\ HalfOpenMaxCalls \in Nat /\ HalfOpenMaxCalls >= 1
  BY BreakerAssumption

\* Admitting a probe or ending one keeps the count of running probes in bounds.
LEMMA ProbingSize ==
  ASSUME TypeOK, NEW c \in Callers, NEW n \in Nat, Cardinality(probing) <= n
  PROVE  /\ Cardinality(probing \cup {c}) <= n + 1
         /\ Cardinality(probing \ {c}) <= n
<1>1. IsFiniteSet(probing)
  BY BreakerAssumption, FS_Subset DEF TypeOK
<1>2. Cardinality(probing) \in Nat
  BY <1>1, FS_CardinalityType
<1>3. Cardinality(probing \cup {c}) =
        IF c \in probing THEN Cardinality(probing) ELSE Cardinality(probing) + 1
  BY <1>1, FS_AddElement
<1>4. Cardinality(probing \ {c}) =
        IF c \in probing THEN Cardinality(probing) - 1 ELSE Cardinality(probing)
  BY <1>1, FS_RemoveElement
<1> QED
  BY <1>2, <1>3, <1>4

LEMMA BreakerInit == Init => BreakerInv
<1> SUFFICES ASSUME Init PROVE BreakerInv
  OBVIOUS
<1>1. TypeOK
  <2>1. failureCount \in 0..FailureThreshold /\ halfOpenCallCount \in 0..HalfOpenMaxCalls
    BY Thresholds DEF Init
  <2>2. running \subseteq Callers /\ probing \subseteq running
    BY DEF Init
  <2>3. QED
    BY <2>1, <2>2 DEF Init, TypeOK
<1>2. ClosedBelowThreshold /\ ProbeInv
  BY Thresholds DEF Init, ClosedBelowThreshold, ProbeInv
<1> QED
  BY <1>1, <1>2 DEF BreakerInv

LEMMA BreakerBegin ==
  ASSUME BreakerInv, NEW c \in Callers, Begin(c)
  PROVE  BreakerInv'
<1> USE Thresholds DEF BreakerInv, TypeOK, ClosedBelowThreshold, ProbeInv
<1>1. CASE CallClosed(c)
  BY <1>1 DEF CallClosed, Admit
<1>2. CASE FirstProbe(c)
  <2>1. TypeOK'
    BY <1>2 DEF FirstProbe, Admit
  <2>2. Cardinality({c}) = 1
    BY FS_Singleton
  <2>3. state' = "halfopen" /\ halfOpenCallCount' = 1 /\ probing' = {c}
    BY <1>2 DEF FirstProbe
  <2>4. ProbeInv' /\ ClosedBelowThreshold'
    BY <2>2, <2>3
  <2>5. QED
    BY <2>1, <2>4
<1>3. CASE FurtherProbe(c)
  <2>1. TypeOK'
    BY <1>3 DEF FurtherProbe, Admit
  <2>2. ClosedBelowThreshold'
    BY <1>3 DEF FurtherProbe
  <2>3. Cardinality(probing \cup {c}) <= halfOpenCallCount + 1
    <3>1. Cardinality(probing) <= halfOpenCallCount /\ halfOpenCallCount \in Nat
      BY <1>3 DEF FurtherProbe
    <3>2. TypeOK
      OBVIOUS
    <3> HIDE DEF TypeOK, BreakerInv, ProbeInv, ClosedBelowThreshold
    <3>3. QED
      BY <3>1, <3>2, ProbingSize
  <2>4. ProbeInv'
    BY <1>3, <2>3 DEF FurtherProbe
  <2>5. QED
    BY <2>1, <2>2, <2>4
<1>4. CASE FailFast(c)
  BY <1>4 DEF FailFast, breaker
<1> QED
  BY <1>1, <1>2, <1>3, <1>4 DEF Begin

LEMMA CountUpTyped ==
  ASSUME TypeOK
  PROVE  CountUp \in 0..FailureThreshold
  BY Thresholds DEF TypeOK, CountUp

LEMMA BreakerFinish ==
  ASSUME BreakerInv, NEW c \in Callers, Finish(c)
  PROVE  BreakerInv'
<1> USE Thresholds DEF BreakerInv, TypeOK, ClosedBelowThreshold, ProbeInv, Return
<1>1. CASE RetryableError(c)
  <2>1. /\ failureCount' = CountUp /\ elapsed' = FALSE /\ running' = running \ {c}
        /\ got' = [got EXCEPT ![c] = "retryable"] /\ healthy' = healthy
        /\ spoiled' \in BOOLEAN
    BY <1>1 DEF RetryableError
  <2>2. CASE state = "halfopen"
    <3>1. state' = "open" /\ halfOpenCallCount' = 0 /\ probing' = {}
      BY <1>1, <2>2 DEF RetryableError
    <3>2. got' \in [Callers -> {"none", "ok", "retryable", "permanent", "ErrCircuitOpen"}]
      BY <2>1
    <3>3. failureCount' \in 0..FailureThreshold /\ halfOpenCallCount' \in 0..HalfOpenMaxCalls
      BY <2>1, <3>1, CountUpTyped
    <3>4. TypeOK'
      BY <2>1, <3>1, <3>2, <3>3
    <3>5. ClosedBelowThreshold' /\ ProbeInv'
      BY <3>1
    <3>6. QED
      BY <3>4, <3>5
  <2>3. CASE state # "halfopen"
    <3>1. /\ state' = IF CountUp >= FailureThreshold THEN "open" ELSE state
          /\ probing' = probing \ {c} /\ halfOpenCallCount' = halfOpenCallCount
      BY <1>1, <2>3 DEF RetryableError
    <3>2. TypeOK'
      BY <2>1, <3>1, CountUpTyped
    <3>3. ClosedBelowThreshold'
      BY <2>1, <3>1, CountUpTyped
    <3>4. ProbeInv'
      BY <2>3, <3>1
    <3>5. QED
      BY <3>2, <3>3, <3>4
  <2>4. QED
    BY <2>2, <2>3
<1>2. CASE NonRetryableError(c)
  <2>1. TypeOK'
    BY <1>2 DEF NonRetryableError
  <2>2. ClosedBelowThreshold'
    BY <1>2 DEF NonRetryableError
  <2>3. state = "halfopen" => Cardinality(probing \ {c}) <= halfOpenCallCount
    <3>1. TypeOK /\ halfOpenCallCount \in Nat
      OBVIOUS
    <3>2. state = "halfopen" => Cardinality(probing) <= halfOpenCallCount
      OBVIOUS
    <3> HIDE DEF TypeOK, BreakerInv, ProbeInv, ClosedBelowThreshold
    <3>3. QED
      BY <3>1, <3>2, ProbingSize
  <2>4. ProbeInv'
    <3>1. CASE state = "halfopen"
      BY <1>2, <2>3, <3>1 DEF NonRetryableError
    <3>2. CASE state # "halfopen"
      BY <1>2, <3>2 DEF NonRetryableError
    <3>3. QED
      BY <3>1, <3>2
  <2>5. QED
    BY <2>1, <2>2, <2>4
<1>3. CASE Success(c)
  <2>1. TypeOK'
    <3>1. running' \subseteq Callers /\ probing' \subseteq running' /\ spoiled' = FALSE
      BY <1>3 DEF Success
    <3>2. failureCount' \in 0..FailureThreshold /\ halfOpenCallCount' \in 0..HalfOpenMaxCalls
      BY <1>3 DEF Success
    <3>3. got' \in [Callers -> {"none", "ok", "retryable", "permanent", "ErrCircuitOpen"}]
      BY <1>3 DEF Success
    <3>4. state' = "closed" /\ elapsed' = elapsed /\ healthy' = healthy
      BY <1>3 DEF Success
    <3>5. QED
      BY <3>1, <3>2, <3>3, <3>4
  <2>2. ClosedBelowThreshold' /\ ProbeInv'
    BY <1>3 DEF Success
  <2>3. QED
    BY <2>1, <2>2
<1> QED
  BY <1>1, <1>2, <1>3 DEF Finish

LEMMA BreakerStep == BreakerInv /\ [Next]_vars => BreakerInv'
<1> SUFFICES ASSUME BreakerInv, [Next]_vars PROVE BreakerInv'
  OBVIOUS
<1> USE Thresholds DEF BreakerInv, TypeOK, ClosedBelowThreshold, ProbeInv
<1>1. CASE UNCHANGED vars
  BY <1>1 DEF vars, breaker
<1>2. CASE Reset
  <2>1. failureCount' \in 0..FailureThreshold /\ halfOpenCallCount' \in 0..HalfOpenMaxCalls
    BY <1>2 DEF Reset
  <2>2. TypeOK'
    BY <1>2, <2>1 DEF Reset
  <2>3. ClosedBelowThreshold' /\ ProbeInv'
    BY <1>2 DEF Reset
  <2>4. QED
    BY <2>2, <2>3
<1>3. CASE OpenDurationPasses
  BY <1>3 DEF OpenDurationPasses
<1>4. CASE HealthChanges
  BY <1>4 DEF HealthChanges, breaker
<1> QED
  BY <1>1, <1>2, <1>3, <1>4, BreakerBegin, BreakerFinish DEF Next

LEMMA BreakerInvariant == Spec => []BreakerInv
  BY BreakerInit, BreakerStep, PTL DEF Spec

\* The breaker's variables keep their types.
THEOREM BreakerTypeCorrect == Spec => []TypeOK
<1>1. BreakerInv => TypeOK
  BY DEF BreakerInv
<1> QED
  BY <1>1, BreakerInvariant, PTL

\* A closed breaker has counted fewer failures than would open it.
THEOREM ClosedTolerates == Spec => []ClosedBelowThreshold
<1>1. BreakerInv => ClosedBelowThreshold
  BY DEF BreakerInv
<1> QED
  BY <1>1, BreakerInvariant, PTL

\* No half-open period has more probes running than halfOpenMaxCalls.
THEOREM ProbesAreLimited == Spec => []ProbesLimited
<1>1. BreakerInv => ProbesLimited
  <2> SUFFICES ASSUME BreakerInv PROVE ProbesLimited
    OBVIOUS
  <2>1. CASE state = "halfopen"
    <3>1. Cardinality(probing) <= halfOpenCallCount /\ halfOpenCallCount \in 0..HalfOpenMaxCalls
      BY <2>1 DEF BreakerInv, ProbeInv, TypeOK
    <3>2. Cardinality(probing) \in Nat
      BY BreakerAssumption, FS_Subset, FS_CardinalityType DEF BreakerInv, TypeOK
    <3>3. QED
      BY <3>1, <3>2, Thresholds DEF ProbesLimited
  <2>2. CASE state # "halfopen"
    BY <2>2, FS_EmptySet, Thresholds DEF BreakerInv, ProbeInv, ProbesLimited
  <2>3. QED
    BY <2>1, <2>2
<1> QED
  BY <1>1, BreakerInvariant, PTL

\* A half-open breaker has a probe out; what it may not survive is a 403 or a 404
\* in answer to one.
THEOREM ProbeIsOut == Spec => []HalfOpenIsProbing
<1>1. Init => HalfOpenIsProbing
  BY DEF Init, HalfOpenIsProbing
<1>2. BreakerInv /\ HalfOpenIsProbing /\ [Next]_vars => HalfOpenIsProbing'
  <2> SUFFICES ASSUME BreakerInv, HalfOpenIsProbing, [Next]_vars PROVE HalfOpenIsProbing'
    OBVIOUS
  <2> USE DEF HalfOpenIsProbing
  <2>1. ASSUME NEW c \in Callers, Begin(c) PROVE HalfOpenIsProbing'
    BY <2>1 DEF Begin, CallClosed, FirstProbe, FurtherProbe, FailFast, breaker
  <2>2. ASSUME NEW c \in Callers, Finish(c) PROVE HalfOpenIsProbing'
    <3>1. CASE NonRetryableError(c)
      BY <3>1 DEF NonRetryableError
    <3>2. CASE RetryableError(c)
      BY <3>2 DEF RetryableError
    <3>3. CASE Success(c)
      BY <3>3 DEF Success
    <3>4. QED
      BY <2>2, <3>1, <3>2, <3>3 DEF Finish
  <2>3. QED
    BY <2>1, <2>2 DEF Next, Reset, OpenDurationPasses, HealthChanges, vars, breaker
<1> QED
  BY <1>1, <1>2, BreakerInvariant, PTL DEF Spec

===============================================================================
