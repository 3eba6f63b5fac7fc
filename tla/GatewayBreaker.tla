--------------------------- MODULE GatewayBreaker ---------------------------
(***************************************************************************)
(* Gateway replicas and the breaker they share: which requests are         *)
(* admitted, and what each of them reports back.  One replica handles one  *)
(* request at a time (_intercept_inner never awaits), but replicas         *)
(* interleave between the is_open of a request and its outcome.  The       *)
(* breaker is the atomic record that CircuitStore is proved to implement.  *)
(*                                                                         *)
(* The clock is kept relative to the present: time.time() is 0 and Tick    *)
(* moves the last failure one tick further into the past, no further than  *)
(* ResetTimeout, beyond which the code cannot tell readings apart.  The    *)
(* totals of the record feed only get_metrics and are left at 0.           *)
(***************************************************************************)
EXTENDS CircuitState, FiniteSets

CONSTANTS
    Replicas,    \* gateway processes
    MaxForces,   \* bound on operator interventions
    MaxLeaks     \* bound on admitted requests that report nothing

ASSUME GatewayAssumption ==
    /\ IsFiniteSet(Replicas)
    /\ MaxForces \in Nat
    /\ MaxLeaks \in Nat

VARIABLES
    circuit,     \* the shared record
    phase,       \* phase[r]: "idle", or "admitted" past is_open
    healthy,     \* environment: enrichment works from now on
    forces, leaks,
    streak       \* history: consecutive failures reported, up to the threshold

vars == <<circuit, phase, healthy, forces, leaks, streak>>

TypeOK ==
    /\ circuit \in CircuitBreakerState
    /\ circuit.last_failure_time \in -ResetTimeout .. 0
    /\ phase \in [Replicas -> {"idle", "admitted"}]
    /\ healthy \in BOOLEAN
    /\ forces \in 0 .. MaxForces
    /\ leaks \in 0 .. MaxLeaks
    /\ streak \in 0 .. FailureThreshold

Init ==
    /\ circuit = NewCircuit(-ResetTimeout)
    /\ phase = [r \in Replicas |-> "idle"]
    /\ healthy = FALSE
    /\ forces = 0
    /\ leaks = 0
    /\ streak = 0

\* The shared record without its statistics.
NoTotals(c) == [c EXCEPT !.total_opens = 0, !.total_fail_opens = 0]

-----------------------------------------------------------------------------

\* The first step of a request: the circuit is open and the request skips
\* enrichment (CIRCUIT_OPEN).
Reject(r) ==
    /\ phase[r] = "idle"
    /\ FailsOpen(circuit, 0)
    /\ circuit' = NoTotals(IsOpen(circuit, 0))
    /\ UNCHANGED <<phase, healthy, forces, leaks, streak>>

Admit(r) ==
    /\ phase[r] = "idle"
    /\ ~FailsOpen(circuit, 0)
    /\ circuit' = NoTotals(IsOpen(circuit, 0))
    /\ phase' = [phase EXCEPT ![r] = "admitted"]
    /\ UNCHANGED <<healthy, forces, leaks, streak>>

\* The request is enriched and calls record_success.
Succeed(r) ==
    /\ phase[r] = "admitted"
    /\ circuit' = NoTotals(RecordSuccess(circuit, 0))
    /\ phase' = [phase EXCEPT ![r] = "idle"]
    /\ streak' = 0
    /\ UNCHANGED <<healthy, forces, leaks>>

\* A step of the pipeline raises and intercept calls record_failure.
Fail(r) ==
    /\ phase[r] = "admitted"
    /\ ~healthy
    /\ circuit' = NoTotals(RecordFailure(circuit, 0))
    /\ phase' = [phase EXCEPT ![r] = "idle"]
    /\ streak' = IF streak < FailureThreshold THEN streak + 1 ELSE streak
    /\ UNCHANGED <<healthy, forces, leaks>>

\* The request ends and tells the breaker nothing: no workload id, an index
\* miss, a budget or policy timeout, an active-mode request handled as
\* advisory, or the death of the process.
Leave(r) ==
    /\ phase[r] = "admitted"
    /\ leaks < MaxLeaks
    /\ leaks' = leaks + 1
    /\ phase' = [phase EXCEPT ![r] = "idle"]
    /\ UNCHANGED <<circuit, healthy, forces, streak>>

\* _record_observability_metrics and get_metrics read `state', which lets the
\* reset timeout take effect.
Observe ==
    /\ circuit' = AfterReset(circuit, 0)
    /\ UNCHANGED <<phase, healthy, forces, leaks, streak>>

OperatorOpens ==
    /\ forces < MaxForces
    /\ forces' = forces + 1
    /\ circuit' = NoTotals(ForceOpen(circuit, 0))
    /\ UNCHANGED <<phase, healthy, leaks, streak>>

OperatorCloses ==
    /\ forces < MaxForces
    /\ forces' = forces + 1
    /\ circuit' = ForceClose(circuit)
    /\ streak' = 0
    /\ UNCHANGED <<phase, healthy, leaks>>

\* From here on no request raises.
Recover ==
    /\ ~healthy
    /\ healthy' = TRUE
    /\ UNCHANGED <<circuit, phase, forces, leaks, streak>>

Tick ==
    /\ circuit.last_failure_time > -ResetTimeout
    /\ circuit' = [circuit EXCEPT !.last_failure_time = @ - 1]
    /\ UNCHANGED <<phase, healthy, forces, leaks, streak>>

Enter(r) == Reject(r) \/ Admit(r)
Finish(r) == Succeed(r) \/ Fail(r)

Next ==
    \/ \E r \in Replicas : Enter(r) \/ Finish(r) \/ Leave(r)
    \/ Observe
    \/ OperatorOpens
    \/ OperatorCloses
    \/ Recover
    \/ Tick

Spec == Init /\ [][Next]_vars

\* Traffic keeps coming to every replica, a request that was let in ends (no
\* step of the pipeline waits) and time passes.
Fairness ==
    /\ \A r \in Replicas : WF_vars(Enter(r)) /\ WF_vars(Finish(r))
    /\ WF_vars(Tick)

FairSpec == Spec /\ Fairness

-----------------------------------------------------------------------------

\* "Circuit breaker: consecutive failures before opening" (config.py): while
\* the circuit is closed, fewer than the threshold were reported in a row,
\* whichever replicas reported them.
ClosedMeansShortStreak == circuit.state = "closed" => streak < FailureThreshold

\* A half-open circuit never forgets outcomes it still needs: the successes it
\* misses are at least the slots it has left, or are owed by requests on the way
\* or by requests that left without a word.
SuccessesAreOwed ==
    circuit.state = "half_open" =>
        HalfOpenMaxProbes - circuit.half_open_success_count
            <= (HalfOpenMaxProbes - circuit.half_open_probe_count)
               + Cardinality({r \in Replicas : phase[r] = "admitted"}) + leaks

\* The breaker does not stay open for ever: with traffic and no further operator
\* intervention the reset timeout lets probes through (is_open).
OpenEnds == circuit.state = "open" ~> circuit.state # "open"

\* Once requests succeed again, and as long as each one reports its outcome,
\* the circuit closes for good (record_success of the probes).
RecoversOnceHealthy == healthy ~> [](circuit.state = "closed" \/ leaks > 0)

\* test_circuit_breaker.py: "Further requests are blocked until probes succeed
\* or fail": a half-open circuit without slots has a probe on the way.
BlockedOnlyWhileProbing ==
    circuit.state = "half_open" /\ circuit.half_open_probe_count >= HalfOpenMaxProbes
        => \E r \in Replicas : phase[r] = "admitted"
=============================================================================
