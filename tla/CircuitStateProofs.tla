------------------------- MODULE CircuitStateProofs -------------------------
(***************************************************************************)
(* What the circuit breaker's mutators return, for every threshold,        *)
(* timeout and probe limit.                                                *)
(***************************************************************************)
EXTENDS CircuitState, TLAPS

\* Field updates stay within the record type.
LEMMA UpdateType ==
    ASSUME NEW s \in CircuitBreakerState, NEW n \in Nat, NEW t \in Int
    PROVE  /\ [s EXCEPT !.failure_count = n, !.last_failure_time = t] \in CircuitBreakerState
           /\ [s EXCEPT !.half_open_success_count = n] \in CircuitBreakerState
           /\ [s EXCEPT !.failure_count = 0, !.state = "closed"] \in CircuitBreakerState
           /\ Trip(s, n, t) \in CircuitBreakerState
           /\ ForceClose(s) \in CircuitBreakerState
<1>1. [s EXCEPT !.failure_count = n, !.last_failure_time = t] \in CircuitBreakerState
  BY DEF CircuitBreakerState
<1>2. [s EXCEPT !.half_open_success_count = n] \in CircuitBreakerState
  BY DEF CircuitBreakerState
<1>3. [s EXCEPT !.failure_count = 0, !.state = "closed"] \in CircuitBreakerState
  BY DEF CircuitBreakerState, CircuitStates
<1>4. Trip(s, n, t) \in CircuitBreakerState
  BY DEF CircuitBreakerState, CircuitStates, Trip
<1>5. ForceClose(s) \in CircuitBreakerState
  BY DEF CircuitBreakerState, CircuitStates, ForceClose
<1> QED
  BY <1>1, <1>2, <1>3, <1>4, <1>5

\* The three ways record_failure ends: a failed probe reopens the circuit, the
\* threshold opens it, an earlier failure is only counted.
LEMMA RecordFailureCases ==
    ASSUME NEW s \in CircuitBreakerState, NEW t \in Int,
           NEW c, c = AfterReset(s, t)
    PROVE  \/ RecordFailure(s, t) = Trip(c, FailureThreshold, t)
           \/ RecordFailure(s, t) = Trip(c, c.failure_count + 1, t)
           \/ /\ c.state # "half_open"
              /\ ~(c.failure_count + 1 >= FailureThreshold)
              /\ RecordFailure(s, t) = [c EXCEPT !.failure_count = c.failure_count + 1,
                                                 !.last_failure_time = t]
  BY Zenon DEF RecordFailure

\* The three ways record_success ends: outside half-open the circuit is closed,
\* the last missing success closes it, an earlier one is only counted.
LEMMA RecordSuccessCases ==
    ASSUME NEW s \in CircuitBreakerState, NEW t \in Int,
           NEW c, c = AfterReset(s, t)
    PROVE  \/ /\ c.state # "half_open"
              /\ RecordSuccess(s, t) = [c EXCEPT !.failure_count = 0, !.state = "closed"]
           \/ RecordSuccess(s, t) = ForceClose(c)
           \/ /\ c.state = "half_open"
              /\ ~(c.half_open_success_count + 1 >= HalfOpenMaxProbes)
              /\ RecordSuccess(s, t) =
                   [c EXCEPT !.half_open_success_count = c.half_open_success_count + 1]
  BY Zenon DEF RecordSuccess

\* A mutator returns a circuit record.
LEMMA MutatorType ==
    ASSUME NEW s \in CircuitBreakerState, NEW t \in Int, NEW o \in Operations
    PROVE  Mutator(o, s, t) \in CircuitBreakerState
<1> DEFINE c == AfterReset(s, t)
<1>1. c \in CircuitBreakerState
  BY DEF AfterReset, CircuitBreakerState, CircuitStates
<1>2. IsOpen(s, t) \in CircuitBreakerState
  BY <1>1 DEF IsOpen, CircuitBreakerState
<1>3. RecordSuccess(s, t) \in CircuitBreakerState
  <2>1. c.half_open_success_count + 1 \in Nat
    BY <1>1 DEF CircuitBreakerState
  <2> QED
    BY <1>1, <2>1, UpdateType, Zenon DEF RecordSuccess
<1>4. RecordFailure(s, t) \in CircuitBreakerState
  <2>1. c.failure_count + 1 \in Nat /\ FailureThreshold \in Nat
    BY <1>1, CircuitAssumption DEF CircuitBreakerState
  <2> QED
    BY <1>1, <2>1, UpdateType, Zenon DEF RecordFailure
<1>5. ForceOpen(s, t) \in CircuitBreakerState /\ ForceClose(s) \in CircuitBreakerState
  <2>1. s.failure_count \in Nat
    BY DEF CircuitBreakerState
  <2> QED
    BY <2>1, UpdateType, Zenon DEF ForceOpen
<1> QED
  BY <1>1, <1>2, <1>3, <1>4, <1>5 DEF Mutator, Operations

\* A mutator keeps the record well formed.
LEMMA MutatorWellFormed ==
    ASSUME NEW s \in CircuitBreakerState, NEW t \in Int, NEW o \in Operations,
           CircuitWellFormed(s)
    PROVE  CircuitWellFormed(Mutator(o, s, t))
<1> DEFINE c == AfterReset(s, t)
<1>1. c \in CircuitBreakerState /\ CircuitWellFormed(c)
  BY CircuitAssumption DEF AfterReset, CircuitBreakerState, CircuitStates, CircuitWellFormed
<1>2. CircuitWellFormed(IsOpen(s, t))
  BY <1>1, CircuitAssumption DEF IsOpen, FailsOpen, CircuitBreakerState, CircuitWellFormed
<1>3. CircuitWellFormed(RecordSuccess(s, t))
  <2>1. CASE /\ c.state # "half_open"
             /\ RecordSuccess(s, t) = [c EXCEPT !.failure_count = 0, !.state = "closed"]
    BY <1>1, CircuitAssumption, <2>1 DEF CircuitBreakerState, CircuitStates, CircuitWellFormed
  <2>2. CASE RecordSuccess(s, t) = ForceClose(c)
    BY <1>1, CircuitAssumption, <2>2 DEF ForceClose, CircuitBreakerState, CircuitStates, CircuitWellFormed
  <2>3. CASE /\ c.state = "half_open"
             /\ ~(c.half_open_success_count + 1 >= HalfOpenMaxProbes)
             /\ RecordSuccess(s, t) =
                  [c EXCEPT !.half_open_success_count = c.half_open_success_count + 1]
    BY <1>1, CircuitAssumption, <2>3 DEF CircuitBreakerState, CircuitStates, CircuitWellFormed
  <2> QED
    BY <2>1, <2>2, <2>3, RecordSuccessCases
<1>4. CircuitWellFormed(RecordFailure(s, t))
  <2>1. CASE RecordFailure(s, t) = Trip(c, FailureThreshold, t)
    BY <1>1, CircuitAssumption, <2>1 DEF Trip, CircuitBreakerState, CircuitStates, CircuitWellFormed
  <2>2. CASE RecordFailure(s, t) = Trip(c, c.failure_count + 1, t)
    BY <1>1, CircuitAssumption, <2>2 DEF Trip, CircuitBreakerState, CircuitStates, CircuitWellFormed
  <2>3. CASE /\ c.state # "half_open"
             /\ ~(c.failure_count + 1 >= FailureThreshold)
             /\ RecordFailure(s, t) = [c EXCEPT !.failure_count = c.failure_count + 1,
                                                !.last_failure_time = t]
    BY <1>1, CircuitAssumption, <2>3 DEF CircuitBreakerState, CircuitStates, CircuitWellFormed
  <2> QED
    BY <2>1, <2>2, <2>3, RecordFailureCases
<1>5. CircuitWellFormed(ForceOpen(s, t)) /\ CircuitWellFormed(ForceClose(s))
  BY CircuitAssumption DEF ForceOpen, ForceClose, Trip, CircuitBreakerState, CircuitStates, CircuitWellFormed
<1> QED
  BY <1>1, <1>2, <1>3, <1>4, <1>5 DEF Mutator, Operations

\* The failure time a mutator leaves is the old one or its clock reading.
LEMMA MutatorTime ==
    ASSUME NEW s \in CircuitBreakerState, NEW t \in Int, NEW o \in Operations
    PROVE  Mutator(o, s, t).last_failure_time \in {s.last_failure_time, t}
<1> DEFINE c == AfterReset(s, t)
<1>1. c \in CircuitBreakerState /\ c.last_failure_time = s.last_failure_time
  BY DEF AfterReset, CircuitBreakerState, CircuitStates
<1>2. IsOpen(s, t).last_failure_time = s.last_failure_time
  BY <1>1 DEF IsOpen, CircuitBreakerState
<1>3. RecordSuccess(s, t).last_failure_time = s.last_failure_time
  <2>1. CASE /\ c.state # "half_open"
             /\ RecordSuccess(s, t) = [c EXCEPT !.failure_count = 0, !.state = "closed"]
    BY <1>1, <2>1 DEF CircuitBreakerState
  <2>2. CASE RecordSuccess(s, t) = ForceClose(c)
    BY <1>1, <2>2 DEF ForceClose, CircuitBreakerState
  <2>3. CASE /\ c.state = "half_open"
             /\ ~(c.half_open_success_count + 1 >= HalfOpenMaxProbes)
             /\ RecordSuccess(s, t) =
                  [c EXCEPT !.half_open_success_count = c.half_open_success_count + 1]
    BY <1>1, <2>3 DEF CircuitBreakerState
  <2> QED
    BY <2>1, <2>2, <2>3, RecordSuccessCases
<1>4. RecordFailure(s, t).last_failure_time = t
  <2>1. CASE RecordFailure(s, t) = Trip(c, FailureThreshold, t)
    BY <1>1, <2>1 DEF Trip, CircuitBreakerState
  <2>2. CASE RecordFailure(s, t) = Trip(c, c.failure_count + 1, t)
    BY <1>1, <2>2 DEF Trip, CircuitBreakerState
  <2>3. CASE /\ c.state # "half_open"
             /\ ~(c.failure_count + 1 >= FailureThreshold)
             /\ RecordFailure(s, t) = [c EXCEPT !.failure_count = c.failure_count + 1,
                                                !.last_failure_time = t]
    BY <1>1, <2>3 DEF CircuitBreakerState
  <2> QED
    BY <2>1, <2>2, <2>3, RecordFailureCases
<1>5. ForceOpen(s, t).last_failure_time = t
  BY DEF ForceOpen, Trip, CircuitBreakerState
<1>6. ForceClose(s).last_failure_time = s.last_failure_time
  BY DEF ForceClose, CircuitBreakerState
<1> QED
  BY <1>1, <1>2, <1>3, <1>4, <1>5, <1>6 DEF Mutator, Operations

\* total_fail_opens grows by one exactly when is_open answers "fail open".
LEMMA MutatorCounts ==
    ASSUME NEW s \in CircuitBreakerState, NEW t \in Int, NEW o \in Operations
    PROVE  Mutator(o, s, t).total_fail_opens =
             IF o = "is_open" /\ FailsOpen(s, t)
             THEN s.total_fail_opens + 1 ELSE s.total_fail_opens
<1> DEFINE c == AfterReset(s, t)
<1>1. c \in CircuitBreakerState /\ c.total_fail_opens = s.total_fail_opens
  BY DEF AfterReset, CircuitBreakerState, CircuitStates
<1>2. IsOpen(s, t).total_fail_opens =
        IF FailsOpen(s, t) THEN s.total_fail_opens + 1 ELSE s.total_fail_opens
  BY <1>1 DEF IsOpen, CircuitBreakerState
<1>3. RecordSuccess(s, t).total_fail_opens = s.total_fail_opens
  <2>1. CASE /\ c.state # "half_open"
             /\ RecordSuccess(s, t) = [c EXCEPT !.failure_count = 0, !.state = "closed"]
    BY <1>1, <2>1 DEF CircuitBreakerState
  <2>2. CASE RecordSuccess(s, t) = ForceClose(c)
    BY <1>1, <2>2 DEF ForceClose, CircuitBreakerState
  <2>3. CASE /\ c.state = "half_open"
             /\ ~(c.half_open_success_count + 1 >= HalfOpenMaxProbes)
             /\ RecordSuccess(s, t) =
                  [c EXCEPT !.half_open_success_count = c.half_open_success_count + 1]
    BY <1>1, <2>3 DEF CircuitBreakerState
  <2> QED
    BY <2>1, <2>2, <2>3, RecordSuccessCases
<1>4. RecordFailure(s, t).total_fail_opens = s.total_fail_opens
  <2>1. CASE RecordFailure(s, t) = Trip(c, FailureThreshold, t)
    BY <1>1, <2>1 DEF Trip, CircuitBreakerState
  <2>2. CASE RecordFailure(s, t) = Trip(c, c.failure_count + 1, t)
    BY <1>1, <2>2 DEF Trip, CircuitBreakerState
  <2>3. CASE /\ c.state # "half_open"
             /\ ~(c.failure_count + 1 >= FailureThreshold)
             /\ RecordFailure(s, t) = [c EXCEPT !.failure_count = c.failure_count + 1,
                                                !.last_failure_time = t]
    BY <1>1, <2>3 DEF CircuitBreakerState
  <2> QED
    BY <2>1, <2>2, <2>3, RecordFailureCases
<1>5. /\ ForceOpen(s, t).total_fail_opens = s.total_fail_opens
      /\ ForceClose(s).total_fail_opens = s.total_fail_opens
  BY DEF ForceOpen, ForceClose, Trip, CircuitBreakerState
<1> QED
  BY <1>1, <1>2, <1>3, <1>4, <1>5 DEF Mutator, Operations

\* A record a mutator leaves half-open has its old probes (none if it was not
\* half-open before) and one more exactly when is_open let the caller through.
LEMMA MutatorProbes ==
    ASSUME NEW s \in CircuitBreakerState, NEW t \in Int, NEW o \in Operations,
           Mutator(o, s, t).state = "half_open"
    PROVE  Mutator(o, s, t).half_open_probe_count =
             (IF s.state = "half_open" THEN s.half_open_probe_count ELSE 0)
             + (IF o = "is_open" /\ ~FailsOpen(s, t) THEN 1 ELSE 0)
<1> DEFINE c == AfterReset(s, t)
           kept == IF s.state = "half_open" THEN s.half_open_probe_count ELSE 0
<1>1. /\ c \in CircuitBreakerState
      /\ c.state = "half_open" => c.half_open_probe_count = kept
  BY DEF AfterReset, CircuitBreakerState, CircuitStates
<1>2. IsOpen(s, t).state = "half_open" =>
        IsOpen(s, t).half_open_probe_count = kept + (IF ~FailsOpen(s, t) THEN 1 ELSE 0)
  BY <1>1 DEF IsOpen, FailsOpen, CircuitBreakerState
<1>3. RecordSuccess(s, t).state = "half_open" =>
        RecordSuccess(s, t).half_open_probe_count = kept
  <2>1. CASE /\ c.state # "half_open"
             /\ RecordSuccess(s, t) = [c EXCEPT !.failure_count = 0, !.state = "closed"]
    BY <1>1, <2>1 DEF CircuitBreakerState
  <2>2. CASE RecordSuccess(s, t) = ForceClose(c)
    BY <1>1, <2>2 DEF ForceClose, CircuitBreakerState
  <2>3. CASE /\ c.state = "half_open"
             /\ ~(c.half_open_success_count + 1 >= HalfOpenMaxProbes)
             /\ RecordSuccess(s, t) =
                  [c EXCEPT !.half_open_success_count = c.half_open_success_count + 1]
    BY <1>1, <2>3 DEF CircuitBreakerState
  <2> QED
    BY <2>1, <2>2, <2>3, RecordSuccessCases
<1>4. RecordFailure(s, t).state # "half_open"
  <2>1. CASE RecordFailure(s, t) = Trip(c, FailureThreshold, t)
    BY <1>1, <2>1 DEF Trip, CircuitBreakerState
  <2>2. CASE RecordFailure(s, t) = Trip(c, c.failure_count + 1, t)
    BY <1>1, <2>2 DEF Trip, CircuitBreakerState
  <2>3. CASE /\ c.state # "half_open"
             /\ ~(c.failure_count + 1 >= FailureThreshold)
             /\ RecordFailure(s, t) = [c EXCEPT !.failure_count = c.failure_count + 1,
                                                !.last_failure_time = t]
    BY <1>1, <2>3 DEF CircuitBreakerState
  <2> QED
    BY <2>1, <2>2, <2>3, RecordFailureCases
<1>5. ForceOpen(s, t).state # "half_open" /\ ForceClose(s).state # "half_open"
  BY DEF ForceOpen, ForceClose, Trip, CircuitBreakerState
<1>6. kept \in Nat
  BY DEF CircuitBreakerState
<1> QED
  BY <1>1, <1>2, <1>3, <1>4, <1>5, <1>6 DEF Mutator, Operations

\* A record a mutator leaves half-open has its old successes (none if it was not
\* half-open before) and one more exactly when a success was recorded.
LEMMA MutatorSuccesses ==
    ASSUME NEW s \in CircuitBreakerState, NEW t \in Int, NEW o \in Operations,
           Mutator(o, s, t).state = "half_open"
    PROVE  Mutator(o, s, t).half_open_success_count =
             (IF s.state = "half_open" THEN s.half_open_success_count ELSE 0)
             + (IF o = "record_success" THEN 1 ELSE 0)
<1> DEFINE c == AfterReset(s, t)
           kept == IF s.state = "half_open" THEN s.half_open_success_count ELSE 0
<1>1. /\ c \in CircuitBreakerState
      /\ c.state = "half_open" => c.half_open_success_count = kept
  BY DEF AfterReset, CircuitBreakerState, CircuitStates
<1>2. IsOpen(s, t).state = "half_open" => IsOpen(s, t).half_open_success_count = kept
  BY <1>1 DEF IsOpen, FailsOpen, CircuitBreakerState
<1>3. RecordSuccess(s, t).state = "half_open" =>
        RecordSuccess(s, t).half_open_success_count = kept + 1
  <2>1. CASE /\ c.state # "half_open"
             /\ RecordSuccess(s, t) = [c EXCEPT !.failure_count = 0, !.state = "closed"]
    BY <1>1, <2>1 DEF CircuitBreakerState
  <2>2. CASE RecordSuccess(s, t) = ForceClose(c)
    BY <1>1, <2>2 DEF ForceClose, CircuitBreakerState
  <2>3. CASE /\ c.state = "half_open"
             /\ ~(c.half_open_success_count + 1 >= HalfOpenMaxProbes)
             /\ RecordSuccess(s, t) =
                  [c EXCEPT !.half_open_success_count = c.half_open_success_count + 1]
    BY <1>1, <2>3 DEF CircuitBreakerState
  <2> QED
    BY <2>1, <2>2, <2>3, RecordSuccessCases
<1>4. RecordFailure(s, t).state # "half_open"
  <2>1. CASE \/ RecordFailure(s, t) = Trip(c, FailureThreshold, t)
             \/ RecordFailure(s, t) = Trip(c, c.failure_count + 1, t)
    BY <2>1 DEF Trip
  <2>2. CASE /\ c.state # "half_open"
             /\ RecordFailure(s, t) = [c EXCEPT !.failure_count = c.failure_count + 1,
                                                !.last_failure_time = t]
    BY <1>1, <2>2 DEF CircuitBreakerState
  <2> QED
    BY <2>1, <2>2, RecordFailureCases
<1>5. ForceOpen(s, t).state # "half_open" /\ ForceClose(s).state # "half_open"
  BY DEF ForceOpen, ForceClose, Trip, CircuitBreakerState
<1>6. kept \in Nat
  BY DEF CircuitBreakerState
<1> QED
  BY <1>1, <1>2, <1>3, <1>4, <1>5, <1>6 DEF Mutator, Operations

\* A record a mutator leaves closed: a success or an operator closed it and the
\* failures are forgotten, or it was closed and a failure is added to them.
LEMMA MutatorClosed ==
    ASSUME NEW s \in CircuitBreakerState, NEW t \in Int, NEW o \in Operations,
           Mutator(o, s, t).state = "closed"
    PROVE  \/ /\ o \in {"record_success", "force_close"}
              /\ Mutator(o, s, t).failure_count = 0
           \/ /\ o \notin {"record_success", "force_close"}
              /\ s.state = "closed"
              /\ Mutator(o, s, t).failure_count =
                   s.failure_count + (IF o = "record_failure" THEN 1 ELSE 0)
              /\ o = "record_failure" => s.failure_count + 1 < FailureThreshold
<1> DEFINE c == AfterReset(s, t)
<1>1. /\ c \in CircuitBreakerState
      /\ c.state = "closed" => s.state = "closed"
      /\ c.failure_count = s.failure_count
  BY DEF AfterReset, CircuitBreakerState, CircuitStates
<1>2. IsOpen(s, t).state = c.state /\ IsOpen(s, t).failure_count = s.failure_count
  BY <1>1 DEF IsOpen, FailsOpen, CircuitBreakerState
<1>3. RecordSuccess(s, t).state = "closed" => RecordSuccess(s, t).failure_count = 0
  <2>1. CASE /\ c.state # "half_open"
             /\ RecordSuccess(s, t) = [c EXCEPT !.failure_count = 0, !.state = "closed"]
    BY <1>1, <2>1 DEF CircuitBreakerState
  <2>2. CASE RecordSuccess(s, t) = ForceClose(c)
    BY <1>1, <2>2 DEF ForceClose, CircuitBreakerState
  <2>3. CASE /\ c.state = "half_open"
             /\ ~(c.half_open_success_count + 1 >= HalfOpenMaxProbes)
             /\ RecordSuccess(s, t) =
                  [c EXCEPT !.half_open_success_count = c.half_open_success_count + 1]
    BY <1>1, <2>3 DEF CircuitBreakerState
  <2>4. \/ /\ c.state # "half_open"
           /\ RecordSuccess(s, t) = [c EXCEPT !.failure_count = 0, !.state = "closed"]
        \/ RecordSuccess(s, t) = ForceClose(c)
        \/ /\ c.state = "half_open"
           /\ ~(c.half_open_success_count + 1 >= HalfOpenMaxProbes)
           /\ RecordSuccess(s, t) =
                [c EXCEPT !.half_open_success_count = c.half_open_success_count + 1]
    BY RecordSuccessCases
  <2> QED
    BY <2>1, <2>2, <2>3, <2>4
<1>4. RecordFailure(s, t).state = "closed" =>
        /\ s.state = "closed"
        /\ RecordFailure(s, t).failure_count = s.failure_count + 1
        /\ s.failure_count + 1 < FailureThreshold
  <2>1. CASE \/ RecordFailure(s, t) = Trip(c, FailureThreshold, t)
             \/ RecordFailure(s, t) = Trip(c, c.failure_count + 1, t)
    BY <2>1 DEF Trip
  <2>2. CASE /\ ~(c.failure_count + 1 >= FailureThreshold)
             /\ RecordFailure(s, t) = [c EXCEPT !.failure_count = c.failure_count + 1,
                                                !.last_failure_time = t]
    BY <1>1, <2>2, CircuitAssumption DEF CircuitBreakerState
  <2> QED
    BY <2>1, <2>2, RecordFailureCases
<1>5. ForceOpen(s, t).state # "closed" /\ ForceClose(s).failure_count = 0
  BY DEF ForceOpen, ForceClose, Trip, CircuitBreakerState
<1>6. s.failure_count \in Nat
  BY DEF CircuitBreakerState
<1> QED
  BY <1>1, <1>2, <1>3, <1>4, <1>5, <1>6 DEF Mutator, Operations

\* Neither a failure nor an operator's force_open leaves the circuit half-open.
LEMMA FailureNeverHalfOpen ==
    ASSUME NEW s \in CircuitBreakerState, NEW t \in Int,
           NEW o \in {"record_failure", "force_open"}
    PROVE  Mutator(o, s, t).state # "half_open"
<1> DEFINE c == AfterReset(s, t)
<1>1. c \in CircuitBreakerState
  BY DEF AfterReset, CircuitBreakerState, CircuitStates
<1>2. RecordFailure(s, t).state # "half_open"
  <2>1. CASE \/ RecordFailure(s, t) = Trip(c, FailureThreshold, t)
             \/ RecordFailure(s, t) = Trip(c, c.failure_count + 1, t)
    BY <2>1 DEF Trip
  <2>2. CASE /\ c.state # "half_open"
             /\ RecordFailure(s, t) = [c EXCEPT !.failure_count = c.failure_count + 1,
                                                !.last_failure_time = t]
    BY <1>1, <2>2 DEF CircuitBreakerState
  <2> QED
    BY <2>1, <2>2, RecordFailureCases
<1>3. ForceOpen(s, t).state # "half_open"
  BY DEF ForceOpen, Trip
<1> QED
  BY <1>2, <1>3 DEF Mutator
=============================================================================
