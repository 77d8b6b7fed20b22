---------------------------- MODULE CircuitBreaker ----------------------------
(***************************************************************************)
(* The circuit breaker that every call to a cluster's Kubernetes API goes  *)
(* through (internal/k8s/circuit_breaker.go).                              *)
(*                                                                         *)
(* Execute holds the mutex twice, before and after it runs the call, and   *)
(* not while the call runs: one action for each critical section, and any  *)
(* number of other calls may begin and end in between.  Time is the fact   *)
(* that openDuration has passed since the last counted failure.            *)
(***************************************************************************)
EXTENDS Naturals, FiniteSets

CONSTANTS
  Callers,          \* goroutines that call Execute
  FailureThreshold, \* failureThreshold, 5 in the code
  HalfOpenMaxCalls, \* halfOpenMaxCalls, 1 in the code
  Outcomes          \* what fn may return

ASSUME BreakerAssumption ==
  /\ IsFiniteSet(Callers)
  /\ FailureThreshold \in Nat \ {0}
  /\ HalfOpenMaxCalls \in Nat \ {0}
  /\ Outcomes \subseteq {"ok", "retryable", "permanent"}

VARIABLES
  state,             \* cb.state
  failureCount,      \* cb.failureCount, counted up to FailureThreshold
  halfOpenCallCount, \* cb.halfOpenCallCount
  elapsed,           \* openDuration has passed since cb.lastFailureTime
  running,           \* callers whose fn runs
  probing,           \* those of them admitted in the present half-open period
  spoiled,           \* history: a probe of this period got a permanent error
  got,               \* per caller: what its last Execute returned
  healthy            \* the API server answers and no caller gives up

breaker == <<state, failureCount, halfOpenCallCount, elapsed>>
vars    == <<breaker, running, probing, spoiled, got, healthy>>

TypeOK ==
  /\ state \in {"closed", "open", "halfopen"}
  /\ failureCount \in 0..FailureThreshold
  /\ halfOpenCallCount \in 0..HalfOpenMaxCalls
  /\ elapsed \in BOOLEAN
  /\ running \subseteq Callers
  /\ probing \subseteq running
  /\ spoiled \in BOOLEAN
  /\ got \in [Callers -> {"none", "ok", "retryable", "permanent", "ErrCircuitOpen"}]
  /\ healthy \in BOOLEAN

Init ==
  /\ state = "closed"
  /\ failureCount = 0
  /\ halfOpenCallCount = 0
  /\ elapsed = FALSE
  /\ running = {}
  /\ probing = {}
  /\ spoiled = FALSE
  /\ got = [c \in Callers |-> "none"]
  /\ healthy = TRUE

-----------------------------------------------------------------------------
(* The first critical section of Execute.                                  *)

Admit(c) ==
  /\ c \notin running
  /\ running' = running \cup {c}
  /\ UNCHANGED <<failureCount, elapsed, got, healthy>>

CallClosed(c) ==
  /\ state = "closed"
  /\ Admit(c)
  /\ UNCHANGED <<state, halfOpenCallCount, probing, spoiled>>

\* openDuration is over: the call that notices it is the first probe.
FirstProbe(c) ==
  /\ state = "open"
  /\ elapsed
  /\ Admit(c)
  /\ state' = "halfopen"
  /\ halfOpenCallCount' = 1
  /\ probing' = {c}
  /\ UNCHANGED spoiled

\* Faulty variant: the calls in the half-open state are not counted.
ProbeUncounted(c) ==
  /\ state = "halfopen"
  /\ halfOpenCallCount < HalfOpenMaxCalls
  /\ Admit(c)
  /\ probing' = probing \cup {c}
  /\ UNCHANGED <<state, halfOpenCallCount, spoiled>>

\* Faulty variant: one call too many in the half-open state.
ProbeTooMany(c) ==
  /\ state = "halfopen"
  /\ halfOpenCallCount <= HalfOpenMaxCalls
  /\ Admit(c)
  /\ halfOpenCallCount' = halfOpenCallCount + 1
  /\ probing' = probing \cup {c}
  /\ UNCHANGED <<state, spoiled>>

FurtherProbe(c) ==
  /\ state = "halfopen"
  /\ halfOpenCallCount < HalfOpenMaxCalls
  /\ Admit(c)
  /\ halfOpenCallCount' = halfOpenCallCount + 1
  /\ probing' = probing \cup {c}
  /\ UNCHANGED <<state, spoiled>>

\* ErrCircuitOpen without running fn.
FailFast(c) ==
  /\ c \notin running
  /\ \/ state = "open" /\ ~elapsed
     \/ state = "halfopen" /\ halfOpenCallCount >= HalfOpenMaxCalls
  /\ got' = [got EXCEPT ![c] = "ErrCircuitOpen"]
  /\ UNCHANGED <<breaker, running, probing, spoiled, healthy>>

-----------------------------------------------------------------------------
(* The second critical section: whichever period the call was admitted in, *)
(* its result counts for the state the breaker has now.                    *)

Return(c, outcome) ==
  /\ c \in running
  /\ outcome \in Outcomes
  /\ running' = running \ {c}
  /\ got' = [got EXCEPT ![c] = outcome]
  /\ UNCHANGED healthy

CountUp == IF failureCount < FailureThreshold THEN failureCount + 1 ELSE failureCount

\* Faulty variant: a failed probe leaves the breaker half-open.
FailedProbeStays(c) ==
  /\ Return(c, "retryable")
  /\ ~healthy
  /\ failureCount' = CountUp
  /\ elapsed' = FALSE
  /\ state' = IF state = "closed" /\ CountUp >= FailureThreshold THEN "open" ELSE state
  /\ probing' = probing \ {c}
  /\ UNCHANGED <<halfOpenCallCount, spoiled>>

\* A timeout, a cancelled context, a network error, 429 or 5xx.
RetryableError(c) ==
  /\ Return(c, "retryable")
  /\ ~healthy
  /\ failureCount' = CountUp
  /\ elapsed' = FALSE
  /\ IF state = "halfopen"
     THEN /\ state' = "open" /\ halfOpenCallCount' = 0
          /\ probing' = {} /\ spoiled' = FALSE
     ELSE /\ state' = IF CountUp >= FailureThreshold THEN "open" ELSE state
          /\ probing' = probing \ {c}
          /\ UNCHANGED <<halfOpenCallCount, spoiled>>

\* 404, 403 and the like: only the failure count is reset.
NonRetryableError(c) ==
  /\ Return(c, "permanent")
  /\ failureCount' = 0
  /\ probing' = probing \ {c}
  /\ spoiled' = (spoiled \/ c \in probing)
  /\ UNCHANGED <<state, halfOpenCallCount, elapsed>>

\* Faulty variant: a success closes an open breaker only.
ProbeSuccessIgnored(c) ==
  /\ Return(c, "ok")
  /\ failureCount' = 0
  /\ state' = IF state = "open" THEN "closed" ELSE state
  /\ probing' = probing \ {c}
  /\ UNCHANGED <<halfOpenCallCount, elapsed, spoiled>>

Success(c) ==
  /\ Return(c, "ok")
  /\ failureCount' = 0
  /\ state' = "closed"
  /\ halfOpenCallCount' = IF state = "closed" THEN halfOpenCallCount ELSE 0
  /\ probing' = {}
  /\ spoiled' = FALSE
  /\ UNCHANGED elapsed

-----------------------------------------------------------------------------
\* ReconnectCluster resets the breaker of the client it is about to replace.
Reset ==
  /\ state' = "closed"
  /\ failureCount' = 0
  /\ halfOpenCallCount' = 0
  /\ probing' = {}
  /\ spoiled' = FALSE
  /\ UNCHANGED <<elapsed, running, got, healthy>>

OpenDurationPasses ==
  /\ state = "open"
  /\ ~elapsed
  /\ elapsed' = TRUE
  /\ UNCHANGED <<state, failureCount, halfOpenCallCount, running, probing, spoiled, got, healthy>>

HealthChanges ==
  /\ healthy' = ~healthy
  /\ UNCHANGED <<breaker, running, probing, spoiled, got>>

Begin(c)  == CallClosed(c) \/ FirstProbe(c) \/ FurtherProbe(c) \/ FailFast(c)
Finish(c) == RetryableError(c) \/ NonRetryableError(c) \/ Success(c)

Next ==
  \/ \E c \in Callers : Begin(c) \/ Finish(c)
  \/ Reset
  \/ OpenDurationPasses
  \/ HealthChanges

Spec == Init /\ [][Next]_vars

FairSpec ==
  /\ Spec
  /\ WF_vars(OpenDurationPasses)
  /\ \A c \in Callers : WF_vars(Begin(c)) /\ WF_vars(Finish(c))

-----------------------------------------------------------------------------
(* Properties.                                                             *)

\* A closed breaker tolerates one failure more, whatever late results, half-open
\* periods and resets came before (circuit_breaker.go:142).
ClosedBelowThreshold == state = "closed" => failureCount < FailureThreshold

\* At most halfOpenMaxCalls calls of one half-open period run at a time, although
\* calls admitted earlier return during it (circuit_breaker.go:36).
ProbesLimited == Cardinality(probing) <= HalfOpenMaxCalls

\* A half-open breaker waits for a probe, whose result ends the period, unless
\* one of them was answered with a permanent error.
HalfOpenIsProbing == state = "halfopen" => probing # {} \/ spoiled

Served(c) == got[c] \in {"ok", "permanent"}

\* Once no call fails retryably any more, every caller is served again and again
\* instead of being told that the cluster API is unavailable.  A permanent error that
\* has spoiled the half-open period is excepted: the quota stays used up, and only a
\* reset ends what circuit_breaker.go:28 says takes 30 seconds.
ServedAgain ==
  <>[](healthy /\ ~spoiled) => \A c \in Callers : []<>Served(c)
=============================================================================
