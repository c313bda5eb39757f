---------------------------- MODULE CircuitBreaker ----------------------------
(***************************************************************************)
(* CircuitBreakerMiddleware of largemodel/circuitbreaker.go. Its callers   *)
(* run concurrently: allow and recordResult are atomic under the mutex,    *)
(* the call of the model between them is not, so that a result may reach a *)
(* breaker which has changed its state since the call was admitted.        *)
(***************************************************************************)
EXTENDS Integers, FiniteSets

CONSTANTS
    Caller,             \* goroutines calling through the middleware
    failureThreshold    \* m.failureThreshold

ASSUME BreakerAssumption == failureThreshold \in Nat \ {0}

VARIABLES
    state,          \* m.state
    failureCount,   \* m.failureCount
    probeInFlight,  \* m.probeInFlight
    elapsed,        \* is resetTimeout over since m.lastFailureAt?
    call            \* what each caller's request was admitted as, if it is out

vars == <<state, failureCount, probeInFlight, elapsed, call>>

Init ==
    /\ state = "Closed"
    /\ failureCount = 0
    /\ probeInFlight = FALSE
    /\ elapsed = FALSE
    /\ call = [c \in Caller |-> "none"]

--------------------------------------------------------------------------------
(* allow; a rejected request changes nothing. *)

AllowClosed(c) ==
    /\ call[c] = "none" /\ state = "Closed"
    /\ call' = [call EXCEPT ![c] = "normal"]
    /\ UNCHANGED <<state, failureCount, probeInFlight, elapsed>>

\* The first request after resetTimeout, and in HalfOpen one without a probe out.
MayProbe == IF state = "HalfOpen" THEN ~probeInFlight
                                  ELSE state = "Open" /\ elapsed

AllowProbe(c) ==
    /\ call[c] = "none" /\ MayProbe
    /\ state' = "HalfOpen" /\ probeInFlight' = TRUE
    /\ call' = [call EXCEPT ![c] = "probe"]
    /\ UNCHANGED <<failureCount, elapsed>>

\* m.nowFn() passes lastFailureAt + resetTimeout.
ResetTimeoutElapses ==
    /\ state = "Open" /\ ~elapsed
    /\ elapsed' = TRUE
    /\ UNCHANGED <<state, failureCount, probeInFlight, call>>

--------------------------------------------------------------------------------
(* recordResult, when a call returns. *)

Return(c) ==
    /\ call[c] # "none"
    /\ call' = [call EXCEPT ![c] = "none"]

\* Any success resets the circuit to Closed, whenever its call was admitted.
Success(c) ==
    /\ Return(c)
    /\ state' = "Closed" /\ failureCount' = 0 /\ probeInFlight' = FALSE
    /\ UNCHANGED elapsed

\* Mutant: one failure too many.
ThresholdReached_Late == failureCount >= failureThreshold

ThresholdReached == failureCount + 1 >= failureThreshold

FailureClosed(c) ==
    /\ Return(c) /\ state = "Closed"
    /\ failureCount' = failureCount + 1
    /\ IF ThresholdReached THEN state' = "Open" /\ elapsed' = FALSE
                           ELSE UNCHANGED <<state, elapsed>>
    /\ UNCHANGED probeInFlight

\* Mutant: admits the next probe instead of opening the circuit.
FailureHalfOpen_ProbesAgain(c) ==
    /\ Return(c) /\ state = "HalfOpen"
    /\ probeInFlight' = FALSE
    /\ UNCHANGED <<state, failureCount, elapsed>>

\* Whichever call failed is taken for the probe.
FailureHalfOpen(c) ==
    /\ Return(c) /\ state = "HalfOpen"
    /\ state' = "Open" /\ elapsed' = FALSE /\ probeInFlight' = FALSE
    /\ UNCHANGED failureCount

\* A call admitted earlier fails when the circuit is open: no case handles it.
FailureOpen(c) ==
    /\ Return(c) /\ state = "Open"
    /\ UNCHANGED <<state, failureCount, probeInFlight, elapsed>>

--------------------------------------------------------------------------------
recordResult(c) ==
    Success(c) \/ FailureClosed(c) \/ FailureHalfOpen(c) \/ FailureOpen(c)

Next == \/ \E c \in Caller : AllowClosed(c) \/ AllowProbe(c) \/ recordResult(c)
        \/ ResetTimeoutElapses

\* Calls return (TimeoutMiddleware, or the model's client), time passes, and the
\* program keeps making requests.
Fairness == /\ WF_vars(ResetTimeoutElapses)
            /\ WF_vars(\E c \in Caller : AllowProbe(c))
            /\ \A c \in Caller : WF_vars(recordResult(c))

Spec == Init /\ [][Next]_vars /\ Fairness

--------------------------------------------------------------------------------
(* Properties *)

\* The type invariant.
TypeOK ==
    /\ state \in {"Closed", "Open", "HalfOpen"}
    /\ failureCount \in Nat
    /\ probeInFlight \in BOOLEAN
    /\ elapsed \in BOOLEAN
    /\ call \in [Caller -> {"none", "normal", "probe"}]

\* The circuit is closed exactly while fewer failures than the threshold have
\* been recorded since the last success: stale results arriving in another state
\* than their call's never leave a closed circuit that should be open, nor one
\* that opens without the threshold's failures.
OpenIffThresholdReached == state = "Closed" <=> failureCount < failureThreshold

\* While the circuit rejects everything to wait for a probe, a probe is out that
\* will end the wait, and the flag never outlives HalfOpen: stale results never
\* leave the circuit waiting for nobody.
HalfOpenAwaitsProbe ==
    /\ probeInFlight <=> state = "HalfOpen"
    /\ state = "HalfOpen" => \E c \in Caller : call[c] = "probe"

\* ... and a half-open circuit comes to a verdict.
ProbeDecides == state = "HalfOpen" ~> state # "HalfOpen"
================================================================================
