------------------------ MODULE GatewayBreakerProofs ------------------------
(***************************************************************************)
(* For every number of gateway replicas: the breaker opens on consecutive  *)
(* failures wherever they are reported, and a half-open circuit can still  *)
(* collect the successes it needs, less the requests that left silently.   *)
(***************************************************************************)
EXTENDS GatewayBreaker, CircuitStateProofs, FiniteSetTheorems, TLAPS

Admitted == {r \in Replicas : phase[r] = "admitted"}

\* In a closed circuit failure_count is the length of the current streak.
StreakIsCounted == circuit.state = "closed" => streak = circuit.failure_count

IInv ==
    /\ circuit \in CircuitBreakerState
    /\ CircuitWellFormed(circuit)
    /\ phase \in [Replicas -> {"idle", "admitted"}]
    /\ leaks \in Nat
    /\ streak \in Nat
    /\ StreakIsCounted
    /\ SuccessesAreOwed

\* Dropping the totals changes nothing else.
LEMMA NoTotalsFacts ==
    ASSUME NEW c \in CircuitBreakerState
    PROVE  /\ NoTotals(c) \in CircuitBreakerState
           /\ NoTotals(c).state = c.state
           /\ NoTotals(c).failure_count = c.failure_count
           /\ NoTotals(c).half_open_success_count = c.half_open_success_count
           /\ NoTotals(c).half_open_probe_count = c.half_open_probe_count
           /\ CircuitWellFormed(c) => CircuitWellFormed(NoTotals(c))
  BY DEF NoTotals, CircuitBreakerState, CircuitWellFormed

\* The record stays a well-formed record when a mutator is applied to it, and
\* when its clock moves on.
LEMMA MutatedCircuit ==
    ASSUME circuit \in CircuitBreakerState, CircuitWellFormed(circuit),
           NEW o \in Operations,
           circuit' = NoTotals(Mutator(o, circuit, 0))
    PROVE  /\ circuit' \in CircuitBreakerState
           /\ CircuitWellFormed(circuit')
           /\ circuit'.state = Mutator(o, circuit, 0).state
           /\ circuit'.failure_count = Mutator(o, circuit, 0).failure_count
           /\ circuit'.half_open_success_count = Mutator(o, circuit, 0).half_open_success_count
           /\ circuit'.half_open_probe_count = Mutator(o, circuit, 0).half_open_probe_count
<1>1. Mutator(o, circuit, 0) \in CircuitBreakerState
  BY MutatorType
<1>2. CircuitWellFormed(Mutator(o, circuit, 0))
  BY MutatorWellFormed
<1> QED
  BY <1>1, <1>2, NoTotalsFacts

\* Which mutator each step applies.
LEMMA StepMutators ==
    ASSUME circuit \in CircuitBreakerState
    PROVE  /\ \A r \in Replicas : Reject(r) \/ Admit(r) =>
                circuit' = NoTotals(Mutator("is_open", circuit, 0))
           /\ \A r \in Replicas : Succeed(r) =>
                circuit' = NoTotals(Mutator("record_success", circuit, 0))
           /\ \A r \in Replicas : Fail(r) =>
                circuit' = NoTotals(Mutator("record_failure", circuit, 0))
           /\ OperatorOpens => circuit' = NoTotals(Mutator("force_open", circuit, 0))
  BY Zenon DEF Reject, Admit, Succeed, Fail, OperatorOpens, Mutator

\* How the number of requests in flight changes.
LEMMA AdmittedCount ==
    ASSUME phase \in [Replicas -> {"idle", "admitted"}], NEW r \in Replicas
    PROVE  /\ Cardinality(Admitted) \in Nat
           /\ phase[r] = "idle" /\ phase' = [phase EXCEPT ![r] = "admitted"]
                => Cardinality(Admitted') = Cardinality(Admitted) + 1
           /\ phase[r] = "admitted" /\ phase' = [phase EXCEPT ![r] = "idle"]
                => Cardinality(Admitted') = Cardinality(Admitted) - 1
<1>1. IsFiniteSet(Admitted)
  BY GatewayAssumption, FS_Subset DEF Admitted
<1>2. Cardinality(Admitted) \in Nat
  BY <1>1, FS_CardinalityType
<1>3. ASSUME phase[r] = "idle", phase' = [phase EXCEPT ![r] = "admitted"]
      PROVE  Cardinality(Admitted') = Cardinality(Admitted) + 1
  <2>1. Admitted' = Admitted \cup {r} /\ r \notin Admitted
    BY <1>3 DEF Admitted
  <2> QED
    BY <1>1, <2>1, FS_AddElement
<1>4. ASSUME phase[r] = "admitted", phase' = [phase EXCEPT ![r] = "idle"]
      PROVE  Cardinality(Admitted') = Cardinality(Admitted) - 1
  <2>1. Admitted' = Admitted \ {r} /\ r \in Admitted
    BY <1>4 DEF Admitted
  <2> QED
    BY <1>1, <2>1, FS_RemoveElement
<1> QED
  BY <1>2, <1>3, <1>4

\* The invariant holds initially.
LEMMA InitIInv == Init => IInv
<1> SUFFICES ASSUME Init PROVE IInv
  OBVIOUS
<1>1. /\ circuit \in CircuitBreakerState
      /\ CircuitWellFormed(circuit)
      /\ circuit.state = "closed"
      /\ circuit.failure_count = 0
  BY CircuitAssumption DEF Init, NewCircuit, CircuitBreakerState, CircuitStates, CircuitWellFormed
<1> QED
  BY <1>1 DEF Init, IInv, StreakIsCounted, SuccessesAreOwed

\* A step keeps the record well formed and the bookkeeping typed.
LEMMA RecordStep ==
    ASSUME IInv, [Next]_vars
    PROVE  /\ circuit' \in CircuitBreakerState
           /\ CircuitWellFormed(circuit')
           /\ phase' \in [Replicas -> {"idle", "admitted"}]
           /\ leaks' \in Nat
           /\ streak' \in Nat
<1> USE DEF IInv
<1>1. ASSUME NEW r \in Replicas, Reject(r) \/ Admit(r) \/ Succeed(r) \/ Fail(r)
      PROVE  circuit' \in CircuitBreakerState /\ CircuitWellFormed(circuit')
  BY <1>1, StepMutators, MutatedCircuit DEF Operations
<1>2. ASSUME OperatorOpens
      PROVE  circuit' \in CircuitBreakerState /\ CircuitWellFormed(circuit')
  BY <1>2, StepMutators, MutatedCircuit DEF Operations
<1>3. ASSUME Observe
      PROVE  circuit' \in CircuitBreakerState /\ CircuitWellFormed(circuit')
  <2>1. circuit' = Mutator("state", circuit, 0)
    BY <1>3 DEF Observe, Mutator
  <2> QED
    BY <2>1, MutatorType, MutatorWellFormed DEF Operations
<1>4. ASSUME OperatorCloses
      PROVE  circuit' \in CircuitBreakerState /\ CircuitWellFormed(circuit')
  <2>1. circuit' = Mutator("force_close", circuit, 0)
    BY <1>4 DEF OperatorCloses, Mutator
  <2> QED
    BY <2>1, MutatorType, MutatorWellFormed DEF Operations
<1>5. ASSUME Tick
      PROVE  circuit' \in CircuitBreakerState /\ CircuitWellFormed(circuit')
  BY <1>5 DEF Tick, CircuitBreakerState, CircuitWellFormed
<1>6. ASSUME Recover \/ (\E r \in Replicas : Leave(r)) \/ UNCHANGED vars
      PROVE  circuit' \in CircuitBreakerState /\ CircuitWellFormed(circuit')
  BY <1>6 DEF Recover, Leave, vars
<1>7. circuit' \in CircuitBreakerState /\ CircuitWellFormed(circuit')
  BY <1>1, <1>2, <1>3, <1>4, <1>5, <1>6 DEF Next, Enter, Finish
<1>8. /\ phase' \in [Replicas -> {"idle", "admitted"}]
      /\ leaks' \in Nat
      /\ streak' \in Nat
  BY DEF Next, Enter, Finish, Reject, Admit, Succeed, Fail, Leave, Observe, OperatorOpens,
         OperatorCloses, Recover, Tick, vars
<1> QED
  BY <1>7, <1>8

\* failure_count of a closed circuit keeps up with the streak.
LEMMA StreakStep == IInv /\ [Next]_vars => StreakIsCounted'
<1> SUFFICES ASSUME IInv, [Next]_vars, circuit'.state = "closed"
             PROVE  streak' = circuit'.failure_count
  BY DEF StreakIsCounted
<1> USE DEF IInv
<1>1. ASSUME NEW r \in Replicas, Reject(r) \/ Admit(r)
      PROVE  streak' = circuit'.failure_count
  <2>1. circuit' = NoTotals(Mutator("is_open", circuit, 0)) /\ streak' = streak
    BY <1>1, StepMutators DEF Reject, Admit
  <2>2. Mutator("is_open", circuit, 0).state = "closed"
    BY <2>1, MutatedCircuit DEF Operations
  <2>3. circuit.state = "closed" /\ circuit'.failure_count = circuit.failure_count
    BY <2>1, <2>2, MutatorClosed, MutatedCircuit DEF Operations, CircuitBreakerState
  <2> QED
    BY <2>1, <2>3 DEF StreakIsCounted
<1>2. ASSUME NEW r \in Replicas, Succeed(r)
      PROVE  streak' = circuit'.failure_count
  <2>1. circuit' = NoTotals(Mutator("record_success", circuit, 0)) /\ streak' = 0
    BY <1>2, StepMutators DEF Succeed
  <2>2. Mutator("record_success", circuit, 0).state = "closed"
    BY <2>1, MutatedCircuit DEF Operations
  <2> QED
    BY <2>1, <2>2, MutatorClosed, MutatedCircuit DEF Operations
<1>3. ASSUME NEW r \in Replicas, Fail(r)
      PROVE  streak' = circuit'.failure_count
  <2>1. circuit' = NoTotals(Mutator("record_failure", circuit, 0))
    BY <1>3, StepMutators
  <2>2. Mutator("record_failure", circuit, 0).state = "closed"
    BY <2>1, MutatedCircuit DEF Operations
  <2>3. /\ circuit.state = "closed"
        /\ circuit'.failure_count = circuit.failure_count + 1
        /\ circuit.failure_count + 1 < FailureThreshold
    BY <2>1, <2>2, MutatorClosed, MutatedCircuit DEF Operations
  <2> QED
    BY <1>3, <2>3, CircuitAssumption DEF Fail, StreakIsCounted, CircuitBreakerState
<1>4. ASSUME OperatorOpens PROVE FALSE
  <2>1. circuit' = NoTotals(Mutator("force_open", circuit, 0))
    BY <1>4, StepMutators
  <2>2. Mutator("force_open", circuit, 0).state = "open"
    BY DEF Mutator, ForceOpen, Trip
  <2> QED
    BY <2>1, <2>2, MutatedCircuit DEF Operations
<1>5. ASSUME OperatorCloses PROVE streak' = circuit'.failure_count
  BY <1>5 DEF OperatorCloses, ForceClose, CircuitBreakerState
<1>6. ASSUME Observe PROVE streak' = circuit'.failure_count
  BY <1>6 DEF Observe, AfterReset, CircuitBreakerState, StreakIsCounted
<1>7. ASSUME Tick PROVE streak' = circuit'.failure_count
  BY <1>7 DEF Tick, CircuitBreakerState, StreakIsCounted
<1>8. ASSUME Recover \/ (\E r \in Replicas : Leave(r)) \/ UNCHANGED vars
      PROVE  streak' = circuit'.failure_count
  BY <1>8 DEF Recover, Leave, vars, StreakIsCounted
<1> QED
  BY <1>1, <1>2, <1>3, <1>4, <1>5, <1>6, <1>7, <1>8 DEF Next, Enter, Finish

\* SuccessesAreOwed without the subtraction: the slots taken in half-open are
\* covered by successes, requests on the way and silent requests.
SlotsCovered ==
    circuit.state = "half_open" =>
        circuit.half_open_probe_count
            <= circuit.half_open_success_count + Cardinality(Admitted) + leaks

\* The two forms agree.
LEMMA SlotsAreSuccesses ==
    ASSUME circuit \in CircuitBreakerState, leaks \in Nat, Cardinality(Admitted) \in Nat
    PROVE  SlotsCovered <=> SuccessesAreOwed
  BY CircuitAssumption DEF SlotsCovered, SuccessesAreOwed, Admitted, CircuitBreakerState

\* Every step keeps the slots covered.
LEMMA OwedStep == IInv /\ [Next]_vars => SuccessesAreOwed'
<1> SUFFICES ASSUME IInv, [Next]_vars PROVE SuccessesAreOwed'
  OBVIOUS
<1>0. /\ IsFiniteSet(Admitted) /\ Cardinality(Admitted) \in Nat
      /\ IsFiniteSet(Admitted') /\ Cardinality(Admitted') \in Nat
  BY GatewayAssumption, FS_Subset, FS_CardinalityType DEF Admitted
<1>1. /\ circuit' \in CircuitBreakerState
      /\ leaks' \in Nat
  BY RecordStep
<1>2. /\ circuit.half_open_probe_count \in Nat
      /\ circuit.half_open_success_count \in Nat
      /\ leaks \in Nat
      /\ SlotsCovered
  BY <1>0, SlotsAreSuccesses DEF IInv, CircuitBreakerState
<1>3. SUFFICES SlotsCovered'
  BY <1>0, <1>1, CircuitAssumption DEF SlotsCovered, SuccessesAreOwed, Admitted, CircuitBreakerState
<1>4. SUFFICES ASSUME circuit'.state = "half_open"
               PROVE  circuit'.half_open_probe_count
                        <= circuit'.half_open_success_count + Cardinality(Admitted') + leaks'
  BY DEF SlotsCovered
<1>5. ASSUME NEW o \in {"is_open", "record_success", "record_failure", "force_open"},
             circuit' = NoTotals(Mutator(o, circuit, 0))
      PROVE  /\ circuit'.half_open_probe_count =
                  (IF circuit.state = "half_open" THEN circuit.half_open_probe_count ELSE 0)
                  + (IF o = "is_open" /\ ~FailsOpen(circuit, 0) THEN 1 ELSE 0)
             /\ circuit'.half_open_success_count =
                  (IF circuit.state = "half_open" THEN circuit.half_open_success_count ELSE 0)
                  + (IF o = "record_success" THEN 1 ELSE 0)
             /\ o \notin {"record_failure", "force_open"}
  <2>1. o \in Operations /\ Mutator(o, circuit, 0).state = "half_open"
    BY <1>4, <1>5, MutatedCircuit DEF IInv, Operations
  <2>2. /\ circuit'.half_open_probe_count = Mutator(o, circuit, 0).half_open_probe_count
        /\ circuit'.half_open_success_count = Mutator(o, circuit, 0).half_open_success_count
    BY <1>5, <2>1, MutatedCircuit DEF IInv
  <2>3. o \notin {"record_failure", "force_open"}
    BY <2>1, FailureNeverHalfOpen DEF IInv
  <2> QED
    BY <2>1, <2>2, <2>3, MutatorProbes, MutatorSuccesses DEF IInv
<1>6. ASSUME NEW r \in Replicas, Reject(r)
      PROVE  circuit'.half_open_probe_count
               <= circuit'.half_open_success_count + Cardinality(Admitted') + leaks'
  <2>1. circuit' = NoTotals(Mutator("is_open", circuit, 0)) /\ FailsOpen(circuit, 0)
    BY <1>6, StepMutators DEF IInv, Reject
  <2>2. Admitted' = Admitted /\ leaks' = leaks
    BY <1>6 DEF Reject, Admitted
  <2> QED
    BY <1>0, <1>2, <1>5, <2>1, <2>2 DEF SlotsCovered
<1>7. ASSUME NEW r \in Replicas, Admit(r)
      PROVE  circuit'.half_open_probe_count
               <= circuit'.half_open_success_count + Cardinality(Admitted') + leaks'
  <2>1. circuit' = NoTotals(Mutator("is_open", circuit, 0))
    BY <1>7, StepMutators DEF IInv
  <2>2. Cardinality(Admitted') = Cardinality(Admitted) + 1 /\ leaks' = leaks
    BY <1>7, AdmittedCount DEF Admit, IInv
  <2> QED
    BY <1>0, <1>2, <1>5, <2>1, <2>2 DEF SlotsCovered
<1>8. ASSUME NEW r \in Replicas, Succeed(r)
      PROVE  circuit'.half_open_probe_count
               <= circuit'.half_open_success_count + Cardinality(Admitted') + leaks'
  <2>1. circuit' = NoTotals(Mutator("record_success", circuit, 0))
    BY <1>8, StepMutators DEF IInv
  <2>2. Cardinality(Admitted') = Cardinality(Admitted) - 1 /\ leaks' = leaks
    BY <1>8, AdmittedCount DEF Succeed, IInv
  <2> QED
    BY <1>0, <1>2, <1>5, <2>1, <2>2 DEF SlotsCovered
<1>9. ASSUME NEW r \in Replicas, Fail(r) PROVE FALSE
  <2>1. circuit' = NoTotals(Mutator("record_failure", circuit, 0))
    BY <1>9, StepMutators DEF IInv
  <2> QED
    BY <1>5, <2>1
<1>10. ASSUME OperatorOpens PROVE FALSE
  <2>1. circuit' = NoTotals(Mutator("force_open", circuit, 0))
    BY <1>10, StepMutators DEF IInv
  <2> QED
    BY <1>5, <2>1
<1>11. ASSUME NEW r \in Replicas, Leave(r)
       PROVE  circuit'.half_open_probe_count
                <= circuit'.half_open_success_count + Cardinality(Admitted') + leaks'
  <2>1. Cardinality(Admitted') = Cardinality(Admitted) - 1 /\ leaks' = leaks + 1
    BY <1>11, AdmittedCount DEF Leave, IInv
  <2> QED
    BY <1>0, <1>2, <1>4, <1>11, <2>1 DEF SlotsCovered, Leave
<1>12. ASSUME OperatorCloses PROVE FALSE
  BY <1>4, <1>12 DEF OperatorCloses, ForceClose, IInv, CircuitBreakerState
<1>13. ASSUME Observe
       PROVE  circuit'.half_open_probe_count
                <= circuit'.half_open_success_count + Cardinality(Admitted') + leaks'
  <2>1. Admitted' = Admitted /\ leaks' = leaks
    BY <1>13 DEF Observe, Admitted
  <2>2. \/ circuit' = circuit
        \/ circuit'.half_open_probe_count = 0 /\ circuit'.half_open_success_count = 0
    BY <1>13 DEF Observe, AfterReset, IInv, CircuitBreakerState
  <2> QED
    BY <1>0, <1>2, <1>4, <2>1, <2>2 DEF SlotsCovered
<1>14. ASSUME Tick \/ Recover \/ UNCHANGED vars
       PROVE  circuit'.half_open_probe_count
                <= circuit'.half_open_success_count + Cardinality(Admitted') + leaks'
  <2>1. Admitted' = Admitted /\ leaks' = leaks
    BY <1>14 DEF Tick, Recover, vars, Admitted
  <2>2. /\ circuit'.state = circuit.state
        /\ circuit'.half_open_probe_count = circuit.half_open_probe_count
        /\ circuit'.half_open_success_count = circuit.half_open_success_count
    BY <1>14 DEF Tick, Recover, vars, IInv, CircuitBreakerState
  <2> QED
    BY <1>0, <1>2, <1>4, <2>1, <2>2 DEF SlotsCovered
<1> QED
  BY <1>6, <1>7, <1>8, <1>9, <1>10, <1>11, <1>12, <1>13, <1>14 DEF Next, Enter, Finish

\* IInv holds in every reachable state.
LEMMA InvariantIInv == Spec => []IInv
<1>1. IInv /\ [Next]_vars => IInv'
  BY RecordStep, StreakStep, OwedStep DEF IInv
<1> QED
  BY <1>1, InitIInv, PTL DEF Spec

\* A closed circuit has seen fewer than FailureThreshold failures in a row, for
\* any number of replicas reporting them (record_failure, record_success).
THEOREM ClosedStreak == Spec => []ClosedMeansShortStreak
<1>1. IInv => ClosedMeansShortStreak
  BY DEF IInv, StreakIsCounted, ClosedMeansShortStreak, CircuitWellFormed
<1> QED
  BY <1>1, InvariantIInv, PTL

\* Without silent requests a half-open circuit can always still close: the
\* successes it misses are owed by free slots or by requests on the way.
THEOREM OwedSuccesses == Spec => []SuccessesAreOwed
<1>1. IInv => SuccessesAreOwed
  BY DEF IInv
<1> QED
  BY <1>1, InvariantIInv, PTL
=============================================================================
