------------------------- MODULE CircuitStoreProofs -------------------------
(***************************************************************************)
(* For every number of replicas and every threshold, timeout and probe     *)
(* limit: the optimistic Redis protocol keeps the circuit record well      *)
(* formed, counts every decision, bounds half-open admissions across the   *)
(* replicas and implements one atomic record.                              *)
(***************************************************************************)
EXTENDS CircuitStore, CircuitStateProofs, TLAPS

-----------------------------------------------------------------------------
(* The inductive invariant.  RecordsWellFormed and the counters are not     *)
(* inductive alone: a commit installs `work', so what an unbroken WATCH     *)
(* guarantees about it must be carried along.                               *)

IInv ==
    /\ TypeOK
    /\ RecordsWellFormed
    /\ PendingWriteIsCurrent
    /\ FailureTimeIsPast
    /\ FailOpensCounted
    /\ ProbesAreAdmits

\* The record a fresh process starts from.
LEMMA NewCircuitWellFormed ==
    /\ NewCircuit(Epoch) \in CircuitBreakerState
    /\ CircuitWellFormed(NewCircuit(Epoch))
  BY StoreAssumption, CircuitAssumption
     DEF NewCircuit, CircuitBreakerState, CircuitStates, CircuitWellFormed

\* The invariant holds initially.
LEMMA InitIInv == Init => IInv
<1> SUFFICES ASSUME Init PROVE IInv
  OBVIOUS
<1>1. TypeOK
  BY NewCircuitWellFormed, StoreAssumption DEF Init, TypeOK, Steps, Operations
<1>2. RecordsWellFormed
  BY NewCircuitWellFormed DEF Init, RecordsWellFormed
<1>3. PendingWriteIsCurrent
  BY DEF Init, PendingWriteIsCurrent, Commits
<1>4. FailureTimeIsPast /\ FailOpensCounted /\ ProbesAreAdmits
  BY StoreAssumption DEF Init, NewCircuit, FailureTimeIsPast, FailOpensCounted, ProbesAreAdmits
<1> QED
  BY <1>1, <1>2, <1>3, <1>4 DEF IInv

\* Every action keeps the types.
LEMMA TypeStep == TypeOK /\ [Next]_vars => TypeOK'
<1> SUFFICES ASSUME TypeOK, [Next]_vars PROVE TypeOK'
  OBVIOUS
<1> USE DEF TypeOK
<1>1. CASE Tick
  BY <1>1 DEF Tick
<1>2. ASSUME NEW r \in Replicas, NEW o \in Methods, Call(r, o) PROVE TypeOK'
  BY <1>2, StoreAssumption DEF Call, Steps
<1>3. ASSUME NEW r \in Replicas, Restart(r) PROVE TypeOK'
  BY <1>3, NewCircuitWellFormed DEF Restart, Steps, Operations
<1>4. ASSUME NEW r \in Replicas, Watch(r) PROVE TypeOK'
  BY <1>4 DEF Watch, Steps
<1>5. ASSUME NEW r \in Replicas, Get(r) PROVE TypeOK'
  <2>1. \A t \in Readings : t \in Int /\ Mutator(op[r], store, t) \in CircuitBreakerState
    BY StoreAssumption, MutatorType DEF Readings
  <2>2. \A t : FailsOpen(store, t) \in BOOLEAN
    BY DEF FailsOpen
  <2> QED
    BY <1>5, <2>1, <2>2 DEF Get, Steps
<1>6. ASSUME NEW r \in Replicas, Return(r)
      PROVE  /\ pc' \in [Replicas -> Steps]
             /\ op' \in [Replicas -> Operations]
             /\ work' \in [Replicas -> CircuitBreakerState]
             /\ answer' \in [Replicas -> BOOLEAN]
  BY <1>6, NewCircuitWellFormed, StoreAssumption DEF Return, Steps, Operations
<1>7. ASSUME NEW r \in Replicas, Install(r)
      PROVE  /\ store' \in CircuitBreakerState
             /\ written' \in Int
             /\ dirty' \in [Replicas -> BOOLEAN]
             /\ counted' \in Nat
             /\ admits' \in Nat
  BY <1>7 DEF Install
<1>8. ASSUME NEW r \in Replicas, Exec(r) PROVE TypeOK'
  BY <1>6, <1>7, <1>8 DEF Exec
<1>9. ASSUME NEW r \in Replicas, Retry(r) PROVE TypeOK'
  BY <1>9 DEF Retry, Steps
<1>10. ASSUME NEW r \in Replicas, Degrade(r)
       PROVE fallback' \in [Replicas -> CircuitBreakerState] /\ faults' \in Nat
  <2>1. \A t \in Readings : Mutator(op[r], fallback[r], t) \in CircuitBreakerState
    BY StoreAssumption, MutatorType DEF Readings
  <2> QED
    BY <1>10, <2>1 DEF Degrade
<1>11. ASSUME NEW r \in Replicas, RedisError(r) PROVE TypeOK'
  <2>1. Degrade(r) /\ Return(r)
    BY <1>11 DEF RedisError, Degrade
  <2> QED
    BY <1>6, <1>10, <1>11, <2>1 DEF RedisError
<1>12. ASSUME NEW r \in Replicas, ReplyLost(r) PROVE TypeOK'
  <2>1. Degrade(r) /\ Return(r) /\ Install(r)
    BY <1>12 DEF ReplyLost, Degrade
  <2> QED
    BY <1>6, <1>7, <1>10, <1>12, <2>1 DEF ReplyLost
<1>13. CASE UNCHANGED vars
  BY <1>13 DEF vars
<1> QED
  BY <1>1, <1>2, <1>3, <1>4, <1>5, <1>8, <1>9, <1>11, <1>12, <1>13 DEF Next, MutateStep

\* TypeOK is an invariant of CircuitStore.
THEOREM TypeCorrect == Spec => []TypeOK
<1>1. Init => TypeOK
  BY InitIInv DEF IInv
<1> QED
  BY <1>1, TypeStep, PTL DEF Spec

\* What a commit does to the shared record, whether or not its reply arrives:
\* it applies r's mutator to the latest value, at a reading younger than it.
LEMMA CommitStep ==
    ASSUME IInv, NEW r \in Replicas, Commits(r), Install(r)
    PROVE  /\ \E t \in written - MaxSkew .. now + MaxSkew :
                  store' = Mutator(op[r], store, t)
           /\ written' = now
           /\ CircuitWellFormed(store')
           /\ store'.last_failure_time >= store.last_failure_time - 2 * MaxSkew
           /\ store'.last_failure_time <= now + MaxSkew
           /\ store'.total_fail_opens = counted'
           /\ ProbesAreAdmits'
<1> DEFINE o == op[r]
<1>0. PICK t \in written - MaxSkew .. now + MaxSkew :
             /\ work[r] = Mutator(o, store, t)
             /\ answer[r] = (o = "is_open" /\ FailsOpen(store, t))
  BY DEF IInv, PendingWriteIsCurrent
<1>1. /\ store \in CircuitBreakerState
      /\ o \in Operations
      /\ now \in Int
      /\ written \in Int
      /\ MaxSkew \in Nat
      /\ t \in Int
      /\ written <= now
      /\ store.last_failure_time \in Int
      /\ store.last_failure_time <= written + MaxSkew
      /\ CircuitWellFormed(store)
  BY <1>0, StoreAssumption
     DEF IInv, TypeOK, RecordsWellFormed, FailureTimeIsPast, CircuitBreakerState
<1>2. store' = Mutator(o, store, t)
  BY <1>0 DEF Install
<1>3. answer[r] <=> o = "is_open" /\ FailsOpen(store, t)
  BY <1>0
<1>4. CircuitWellFormed(store')
  BY <1>1, <1>2, MutatorWellFormed
<1>5. store'.last_failure_time \in {store.last_failure_time, t}
  BY <1>1, <1>2, MutatorTime
<1>6. store'.total_fail_opens = counted'
  <2>1. counted' = IF o = "is_open" /\ FailsOpen(store, t) THEN counted + 1 ELSE counted
    BY <1>3 DEF Install
  <2>2. store'.total_fail_opens = IF o = "is_open" /\ FailsOpen(store, t)
                                  THEN store.total_fail_opens + 1
                                  ELSE store.total_fail_opens
    BY <1>1, <1>2, MutatorCounts
  <2> QED
    BY <2>1, <2>2 DEF IInv, FailOpensCounted
<1>7. ProbesAreAdmits'
  <2>1. CASE store'.state # "half_open"
    BY <2>1 DEF Install, ProbesAreAdmits
  <2>2. CASE store'.state = "half_open"
    <3>1. store'.half_open_probe_count =
             (IF store.state = "half_open" THEN store.half_open_probe_count ELSE 0)
             + (IF o = "is_open" /\ ~FailsOpen(store, t) THEN 1 ELSE 0)
      BY <1>1, <1>2, <2>2, MutatorProbes
    <3>2. admits' = (IF store.state = "half_open" THEN admits ELSE 0)
                    + (IF o = "is_open" /\ ~FailsOpen(store, t) THEN 1 ELSE 0)
      BY <1>3, <2>2 DEF Install
    <3> QED
      BY <2>2, <3>1, <3>2 DEF IInv, ProbesAreAdmits
  <2> QED
    BY <2>1, <2>2
<1>8. /\ store'.last_failure_time >= store.last_failure_time - 2 * MaxSkew
      /\ store'.last_failure_time <= now + MaxSkew
  BY <1>0, <1>1, <1>5
<1>9. written' = now
  BY DEF Install
<1> QED
  BY <1>0, <1>2, <1>4, <1>6, <1>7, <1>8, <1>9

\* The records stay well formed.
LEMMA RecordsStep == IInv /\ [Next]_vars => RecordsWellFormed'
<1> SUFFICES ASSUME IInv, [Next]_vars PROVE RecordsWellFormed'
  OBVIOUS
<1> USE DEF RecordsWellFormed
<1>0. TypeOK /\ RecordsWellFormed
  BY DEF IInv
<1>1. CASE Tick \/ UNCHANGED vars
  BY <1>0, <1>1 DEF Tick, vars
<1>2. ASSUME NEW r \in Replicas, NEW o \in Methods, Call(r, o) PROVE RecordsWellFormed'
  BY <1>0, <1>2 DEF Call
<1>3. ASSUME NEW r \in Replicas, Restart(r) PROVE RecordsWellFormed'
  BY <1>0, <1>3, NewCircuitWellFormed DEF Restart, TypeOK
<1>4. ASSUME NEW r \in Replicas, Watch(r) \/ Retry(r) PROVE RecordsWellFormed'
  BY <1>0, <1>4 DEF Watch, Retry
<1>5. ASSUME NEW r \in Replicas, Get(r) PROVE RecordsWellFormed'
  <2>1. \A t \in Readings : CircuitWellFormed(Mutator(op[r], store, t))
    BY <1>0, StoreAssumption, MutatorWellFormed DEF TypeOK, Readings
  <2> QED
    BY <1>0, <1>5, <2>1 DEF Get, TypeOK
<1>6. ASSUME NEW r \in Replicas, Return(r)
      PROVE  \A q \in Replicas : CircuitWellFormed(work'[q])
  BY <1>0, <1>6, NewCircuitWellFormed DEF Return, TypeOK
<1>7. ASSUME NEW r \in Replicas, Degrade(r)
      PROVE  \A q \in Replicas : CircuitWellFormed(fallback'[q])
  <2>1. \A t \in Readings : CircuitWellFormed(Mutator(op[r], fallback[r], t))
    BY <1>0, StoreAssumption, MutatorWellFormed DEF TypeOK, Readings
  <2> QED
    BY <1>0, <1>7, <2>1 DEF Degrade, TypeOK
<1>8. ASSUME NEW r \in Replicas, Exec(r) PROVE RecordsWellFormed'
  <2>1. Commits(r) /\ Install(r) /\ Return(r)
    BY <1>8 DEF Exec
  <2>2. CircuitWellFormed(store')
    BY <2>1, CommitStep
  <2>3. \A q \in Replicas : CircuitWellFormed(fallback'[q])
    BY <1>0, <1>8 DEF Exec, TypeOK
  <2> QED
    BY <1>6, <2>1, <2>2, <2>3
<1>9. ASSUME NEW r \in Replicas, RedisError(r) PROVE RecordsWellFormed'
  <2>1. Degrade(r) /\ Return(r) /\ UNCHANGED store
    BY <1>9 DEF RedisError, Degrade
  <2> QED
    BY <1>0, <1>6, <1>7, <2>1
<1>10. ASSUME NEW r \in Replicas, ReplyLost(r) PROVE RecordsWellFormed'
  <2>1. Commits(r) /\ Install(r) /\ Degrade(r) /\ Return(r)
    BY <1>10 DEF ReplyLost, Degrade
  <2>2. CircuitWellFormed(store')
    BY <2>1, CommitStep
  <2> QED
    BY <1>6, <1>7, <2>1, <2>2
<1> QED
  BY <1>1, <1>2, <1>3, <1>4, <1>5, <1>8, <1>9, <1>10 DEF Next, MutateStep

\* A reading stays admissible as time goes on.
LEMMA LaterInterval ==
    ASSUME NEW a \in Int, NEW b \in Int, NEW c \in {b, b + 1}, NEW d \in Nat,
           NEW t \in a - d .. b + d
    PROVE  t \in a - d .. c + d
  OBVIOUS

\* An unbroken WATCH keeps guarding a current copy: a foreign commit breaks it.
LEMMA PendingStep == IInv /\ [Next]_vars => PendingWriteIsCurrent'
<1> DEFINE Current(p, t) ==
       /\ work[p] = Mutator(op[p], store, t)
       /\ answer[p] = (op[p] = "is_open" /\ FailsOpen(store, t))
<1> SUFFICES ASSUME IInv, [Next]_vars, NEW q \in Replicas, Commits(q)'
             PROVE  \E t \in written' - MaxSkew .. now' + MaxSkew : Current(q, t)'
  BY DEF PendingWriteIsCurrent
<1>0. /\ TypeOK
      /\ written \in Int /\ now \in Int /\ MaxSkew \in Nat
      /\ written <= now
      /\ Commits(q) => \E t \in written - MaxSkew .. now + MaxSkew : Current(q, t)
  BY StoreAssumption DEF IInv, TypeOK, PendingWriteIsCurrent, FailureTimeIsPast
\* q's copy was current before, and the step left it and the record alone.
<1> DEFINE Kept == /\ Commits(q)
                   /\ op'[q] = op[q] /\ work'[q] = work[q] /\ answer'[q] = answer[q]
                   /\ store' = store /\ written' = written
                   /\ now' \in {now, now + 1}
<1>1. ASSUME Kept
      PROVE  \E t \in written' - MaxSkew .. now' + MaxSkew : Current(q, t)'
  <2>1. PICK t \in written - MaxSkew .. now + MaxSkew : Current(q, t)
    BY <1>0, <1>1
  <2>2. t \in written' - MaxSkew .. now' + MaxSkew
    BY <1>0, <1>1, <2>1, LaterInterval
  <2>3. Current(q, t)'
    BY <1>1, <2>1
  <2> QED
    BY <2>2, <2>3
<1>2. CASE Tick \/ UNCHANGED vars
  <2>1. Kept
    BY <1>0, <1>2 DEF Tick, vars, Commits
  <2> QED
    BY <1>1, <2>1
<1>3. ASSUME NEW r \in Replicas, NEW o \in Methods, Call(r, o) PROVE Kept
  BY <1>0, <1>3 DEF Call, Commits, TypeOK
<1>4. ASSUME NEW r \in Replicas, Restart(r) PROVE Kept
  BY <1>0, <1>4 DEF Restart, Commits, TypeOK
<1>5. ASSUME NEW r \in Replicas, Watch(r) \/ Retry(r) PROVE Kept
  BY <1>0, <1>5 DEF Watch, Retry, Commits, TypeOK
<1>6. ASSUME NEW r \in Replicas, Get(r), q # r PROVE Kept
  BY <1>0, <1>6 DEF Get, Commits, TypeOK
<1>7. ASSUME Get(q)
      PROVE  \E t \in written' - MaxSkew .. now' + MaxSkew : Current(q, t)'
  <2>1. PICK t \in Readings : /\ work'[q] = Mutator(op[q], store, t)
                              /\ answer'[q] = (op[q] = "is_open" /\ FailsOpen(store, t))
    BY <1>0, <1>7 DEF Get, TypeOK
  <2>2. UNCHANGED <<store, now, written, op>>
    BY <1>7 DEF Get
  <2>3. t \in written' - MaxSkew .. now' + MaxSkew
    BY <1>0, <2>1, <2>2 DEF Readings
  <2>4. Current(q, t)'
    BY <2>1, <2>2
  <2> QED
    BY <2>3, <2>4
<1>8. ASSUME NEW r \in Replicas, RedisError(r) PROVE Kept
  BY <1>0, <1>8 DEF RedisError, Degrade, Return, Commits, TypeOK
<1>9. ASSUME NEW r \in Replicas, Install(r), Return(r) PROVE FALSE
  BY <1>0, <1>9 DEF Install, Return, Commits, TypeOK
<1>10. ASSUME NEW r \in Replicas, Exec(r) \/ ReplyLost(r) PROVE FALSE
  BY <1>9, <1>10 DEF Exec, ReplyLost, Degrade
<1>11. ASSUME NEW r \in Replicas, Get(r)
       PROVE  \E t \in written' - MaxSkew .. now' + MaxSkew : Current(q, t)'
  <2>1. CASE q = r
    BY <1>7, <1>11, <2>1
  <2>2. CASE q # r
    BY <1>1, <1>6, <1>11, <2>2
  <2> QED
    BY <2>1, <2>2
<1> HIDE DEF Kept, Current
<1> QED
  BY <1>1, <1>2, <1>3, <1>4, <1>5, <1>8, <1>10, <1>11 DEF Next, MutateStep

\* The steps that leave the shared record and its history variables alone.
LEMMA SharedUnchanged ==
    ASSUME [Next]_vars
    PROVE  \/ \E r \in Replicas : Commits(r) /\ Install(r) /\ UNCHANGED now
           \/ /\ UNCHANGED <<store, written, counted, admits>>
              /\ UNCHANGED now \/ Tick
  BY DEF Next, MutateStep, vars, Tick, Call, Restart, Watch, Get, Exec, Retry,
         RedisError, ReplyLost

\* The invariant is inductive.
LEMMA StepIInv == IInv /\ [Next]_vars => IInv'
<1> SUFFICES ASSUME IInv, [Next]_vars PROVE IInv'
  OBVIOUS
<1>1. TypeOK'
  BY TypeStep DEF IInv
<1>2. RecordsWellFormed' /\ PendingWriteIsCurrent'
  BY RecordsStep, PendingStep
<1>3. FailureTimeIsPast' /\ FailOpensCounted' /\ ProbesAreAdmits'
  <2>1. ASSUME NEW r \in Replicas, Commits(r), Install(r), UNCHANGED now
        PROVE  FailureTimeIsPast' /\ FailOpensCounted' /\ ProbesAreAdmits'
    BY <2>1, CommitStep DEF IInv, TypeOK, FailureTimeIsPast, FailOpensCounted
  <2>2. ASSUME UNCHANGED <<store, written, counted, admits>>, UNCHANGED now \/ Tick
        PROVE  FailureTimeIsPast' /\ FailOpensCounted' /\ ProbesAreAdmits'
    BY <2>2 DEF IInv, TypeOK, CircuitBreakerState, Tick,
                FailureTimeIsPast, FailOpensCounted, ProbesAreAdmits
  <2> QED
    BY <2>1, <2>2, SharedUnchanged
<1> QED
  BY <1>1, <1>2, <1>3 DEF IInv

\* IInv holds in every reachable state.
LEMMA InvariantIInv == Spec => []IInv
  BY InitIInv, StepIInv, PTL DEF Spec

\* Every record of CircuitStore stays well formed: the shared one, the copies in
\* flight and the fallbacks, whatever the replicas, faults and restarts.
THEOREM WellFormed == Spec => []RecordsWellFormed
<1>1. IInv => RecordsWellFormed
  BY DEF IInv
<1> QED
  BY <1>1, InvariantIInv, PTL

\* Across all replicas, one half-open episode admits at most half_open_max_probes
\* requests (is_open).
THEOREM AdmitsBounded == Spec => []HalfOpenAdmitsBounded
<1>1. IInv => HalfOpenAdmitsBounded
  BY CircuitAssumption
     DEF IInv, TypeOK, RecordsWellFormed, CircuitWellFormed, ProbesAreAdmits,
         HalfOpenAdmitsBounded, CircuitBreakerState
<1> QED
  BY <1>1, InvariantIInv, PTL

\* total_fail_opens counts every fail-open answer committed by any replica.
THEOREM FailOpensExact == Spec => []FailOpensCounted
<1>1. IInv => FailOpensCounted
  BY DEF IInv
<1> QED
  BY <1>1, InvariantIInv, PTL

\* The shared failure time moves back by no more than two pods' clocks may
\* differ (record_failure of any replica, however long its write is on the way).
THEOREM FailureTimeBounded == Spec => FailureTimeWithinSkew
<1> DEFINE Bounded == store'.last_failure_time >= store.last_failure_time - 2 * MaxSkew
<1>1. IInv /\ [Next]_vars => [Bounded]_vars
  <2> SUFFICES ASSUME IInv, [Next]_vars PROVE Bounded
    OBVIOUS
  <2>1. ASSUME NEW r \in Replicas, Commits(r), Install(r) PROVE Bounded
    BY <2>1, CommitStep
  <2>2. ASSUME UNCHANGED store PROVE Bounded
    BY <2>2, StoreAssumption DEF IInv, TypeOK, CircuitBreakerState
  <2> QED
    BY <2>1, <2>2, SharedUnchanged
<1> QED
  BY <1>1, InvariantIInv, PTL DEF Spec, FailureTimeWithinSkew

\* The instance's mutators are the ones of this module.
LEMMA SameMutator ==
    ASSUME NEW o, NEW s, NEW t
    PROVE  /\ Breaker!Mutator(o, s, t) = Mutator(o, s, t)
           /\ Breaker!NewCircuit(t) = NewCircuit(t)
           /\ Breaker!Operations = Operations
  BY Zenon DEF Mutator, AfterReset, FailsOpen, IsOpen, RecordSuccess, ForceClose, Trip,
     RecordFailure, ForceOpen, NewCircuit, Operations,
     Breaker!Mutator, Breaker!AfterReset, Breaker!FailsOpen, Breaker!IsOpen,
     Breaker!RecordSuccess, Breaker!ForceClose, Breaker!Trip, Breaker!RecordFailure,
     Breaker!ForceOpen, Breaker!NewCircuit, Breaker!Operations

\* The WATCH / EXEC protocol, its retries, errors, lost replies and restarts
\* implement the single atomic record of CircuitBreaker.
THEOREM StoreImplementsBreaker == Spec => ImplementsBreaker
<1>1. Init => Breaker!Init
  BY SameMutator DEF Init, Breaker!Init
<1>2. IInv /\ [Next]_vars => [Breaker!Next]_(Breaker!cbVars)
  <2> SUFFICES ASSUME IInv, [Next]_vars PROVE [Breaker!Next]_(Breaker!cbVars)
    OBVIOUS
  <2>1. ASSUME NEW r \in Replicas, Commits(r), Install(r), UNCHANGED now
        PROVE  Breaker!Next
    <3>1. op[r] \in Operations
      BY DEF IInv, TypeOK
    <3>2. Breaker!Mutate(op[r])
      BY <2>1, CommitStep, SameMutator DEF Breaker!Mutate
    <3> QED
      BY <3>1, <3>2, SameMutator DEF Breaker!Next
  <2>2. ASSUME UNCHANGED <<store, written>>, Tick
        PROVE  Breaker!Next
    BY <2>2 DEF Tick, Breaker!Tick, Breaker!Next
  <2>3. ASSUME UNCHANGED <<store, written>>, UNCHANGED now
        PROVE  UNCHANGED Breaker!cbVars
    BY <2>3 DEF Breaker!cbVars
  <2> QED
    BY <2>1, <2>2, <2>3, SharedUnchanged
<1> QED
  BY <1>1, <1>2, InvariantIInv, PTL DEF Spec, ImplementsBreaker, Breaker!Spec
=============================================================================
