------------------------- MODULE InterceptorProofs -------------------------
(***************************************************************************)
(* The decision-time pipeline for any number of replicas, request ids and  *)
(* requests: its counters partition the results it returned, and to the    *)
(* shared breaker it is a request source as GatewayBreaker describes.      *)
(***************************************************************************)
EXTENDS Interceptor, CircuitStateProofs, FiniteSetTheorems, TLAPS

\* The counters already hold the outcome of r's current request.
Counted(r) == pc[r] = "observe" \/ (pc[r] = "record" /\ mode[r] = "active")

\* 1 if the counters are ahead of the results of these kinds by r's request.
Ahead(r, kinds) == IF Counted(r) /\ KindOf(job[r]) \in kinds THEN 1 ELSE 0

\* CountersAddUp with the request that is still on its way.
CountsOf(r) ==
    /\ counters[r].total_requests = Returned(results[r]) + (IF pc[r] = "idle" THEN 0 ELSE 1)
    /\ counters[r].total_fail_open =
          FailedOpen(results[r]) + Ahead(r, {"fail_open", "circuit_open", "timeout"})
    /\ counters[r].total_enriched =
          Enriched(results[r]) + Ahead(r, {"enriched", "soft_stopped", "passthrough"})
    /\ counters[r].total_redirected = results[r]["redirected"] + Ahead(r, {"redirected"})
    /\ counters[r].total_cache_misses <= results[r]["fail_open"] + Ahead(r, {"fail_open"})

\* What a request can be that is about to call record_success.
Recordable(r) ==
    pc[r] = "record" =>
        KindOf(job[r]) \in IF mode[r] = "active"
                           THEN {"hard_stopped", "redirected", "enriched", "soft_stopped"}
                           ELSE {"passthrough", "enriched", "soft_stopped"}

Inside == {"lookup", "policy", "record"}

Admitted == {r \in Replicas : pc[r] \in Inside}

\* A request leaks once at most: the leaks and the requests that may still leak
\* are requests that arrived.
LeaksPaid == leaks + Cardinality(Admitted) <= requests

CountInv == TypeOK /\ \A r \in Replicas : CountsOf(r) /\ Recordable(r)

-----------------------------------------------------------------------------
(* Types.                                                                   *)

LEMMA NoJobType == NoJob \in Jobs
<1>1. (CHOOSE i \in RequestIds : TRUE) \in RequestIds
  BY InterceptorAssumption
<1> QED
  BY <1>1 DEF NoJob, Jobs, NoEntry, Entries, Outcomes

\* The record every mutator leaves, without its statistics.
LEMMA NoTotalsType ==
    ASSUME circuit \in CircuitBreakerState
    PROVE  /\ NoTotals(IsOpen(circuit, 0)) \in CircuitBreakerState
           /\ NoTotals(RecordSuccess(circuit, 0)) \in CircuitBreakerState
           /\ NoTotals(RecordFailure(circuit, 0)) \in CircuitBreakerState
           /\ AfterReset(circuit, 0) \in CircuitBreakerState
<1>1. \A o \in Operations : Mutator(o, circuit, 0) \in CircuitBreakerState
  BY MutatorType
<1>2. /\ Mutator("is_open", circuit, 0) = IsOpen(circuit, 0)
      /\ Mutator("record_success", circuit, 0) = RecordSuccess(circuit, 0)
      /\ Mutator("record_failure", circuit, 0) = RecordFailure(circuit, 0)
      /\ Mutator("state", circuit, 0) = AfterReset(circuit, 0)
  BY Zenon DEF Mutator
<1>3. /\ IsOpen(circuit, 0) \in CircuitBreakerState
      /\ RecordSuccess(circuit, 0) \in CircuitBreakerState
      /\ RecordFailure(circuit, 0) \in CircuitBreakerState
      /\ AfterReset(circuit, 0) \in CircuitBreakerState
  BY <1>1, <1>2 DEF Operations
<1>4. \A c \in CircuitBreakerState : NoTotals(c) \in CircuitBreakerState
  BY DEF NoTotals, CircuitBreakerState
<1> QED
  BY <1>3, <1>4

\* What Count does to each of the total_* attributes.
LEMMA CountFacts ==
    ASSUME TypeOK, NEW r \in Replicas, NEW names, Count(r, names)
    PROVE  /\ counters' \in [Replicas -> Counters]
           /\ \A q \in Replicas : q # r => counters'[q] = counters[q]
           /\ \A n \in {"total_requests", "total_enriched", "total_fail_open",
                        "total_redirected", "total_cache_misses"} :
                 counters'[r][n] = counters[r][n] + (IF n \in names THEN 1 ELSE 0)
<1> DEFINE c == counters[r]
           d == [n \in DOMAIN c |-> IF n \in names THEN c[n] + 1 ELSE c[n]]
<1>1. counters \in [Replicas -> Counters] /\ c \in Counters
  BY DEF TypeOK
<1>2. counters' = [counters EXCEPT ![r] = d]
  BY DEF Count
<1>3. DOMAIN c = {"total_requests", "total_enriched", "total_fail_open",
                  "total_redirected", "total_cache_misses"}
  BY <1>1 DEF Counters
<1>4. \A n \in DOMAIN c : c[n] \in Nat
  BY <1>1, <1>3 DEF Counters
<1>5. d \in Counters
  BY <1>3, <1>4 DEF Counters
<1>6. counters'[r] = d /\ \A q \in Replicas : q # r => counters'[q] = counters[q]
  BY <1>1, <1>2
<1>7. \A n \in DOMAIN c : d[n] = c[n] + (IF n \in names THEN 1 ELSE 0)
  BY <1>4
<1> HIDE DEF d
<1> QED
  BY <1>1, <1>2, <1>3, <1>5, <1>6, <1>7

\* What a request is once its outcome is known.
LEMMA SettledJob ==
    ASSUME TypeOK, NEW r \in Replicas, NEW outcome \in Outcomes, NEW attributed \in BOOLEAN,
           job' = [job EXCEPT ![r].outcome = outcome, ![r].attributed = attributed]
    PROVE  /\ job' \in [Replicas -> Jobs]
           /\ job'[r].outcome = outcome /\ job'[r].attributed = attributed
           /\ \A q \in Replicas : q # r => job'[q] = job[q]
  BY DEF TypeOK, Jobs

\* What Decide leaves.
LEMMA DecideFacts ==
    ASSUME TypeOK, NEW r \in Replicas, NEW outcome \in Outcomes, NEW attributed \in BOOLEAN,
           Decide(r, outcome, attributed)
    PROVE  /\ pc' \in [Replicas -> {"idle", "lookup", "policy", "record", "observe"}]
           /\ job' \in [Replicas -> Jobs]
           /\ pc'[r] = "observe"
           /\ job'[r].outcome = outcome /\ job'[r].attributed = attributed
           /\ \A q \in Replicas : q # r => pc'[q] = pc[q] /\ job'[q] = job[q]
  BY SettledJob DEF TypeOK, Decide

LEMMA InitTypes == Init => TypeOK
<1> SUFFICES ASSUME Init PROVE TypeOK
  OBVIOUS
<1>1. circuit \in CircuitBreakerState
  BY CircuitAssumption DEF Init, NewCircuit, CircuitBreakerState, CircuitStates
<1>2. job \in [Replicas -> Jobs]
  BY NoJobType DEF Init
<1>3. counters \in [Replicas -> Counters]
  BY DEF Init, NoCounts, Counters
<1>4. results \in [Replicas -> [Kinds -> Nat]]
  BY DEF Init, NoResults
<1> QED
  BY <1>1, <1>2, <1>3, <1>4, CircuitAssumption, InterceptorAssumption DEF Init, TypeOK

\* The steps that end a request without telling the breaker.
Leaves(r) ==
    \/ Unidentified(r) \/ Miss(r) \/ BudgetSpent(r) \/ PolicyTimeout(r)
    \/ \E v \in Violations, d \in BOOLEAN : Downgraded(r, v, d)

LEMMA AdvisedType == \A v : Advised(v) \in {"enriched", "soft_stopped"}
  BY DEF Advised

\* What these steps have in common.
LEMMA LeavesFacts ==
    ASSUME TypeOK, NEW r \in Replicas, Leaves(r)
    PROVE  /\ pc[r] \in {"lookup", "policy"}
           /\ \E o \in Outcomes, a \in BOOLEAN : Decide(r, o, a)
           /\ UNCHANGED counters \/ \E names : Count(r, names)
           /\ leaks' = leaks + 1
           /\ UNCHANGED <<circuit, streak, mode, requests, results>>
<1> USE DEF Silently, Outcomes
<1>1. CASE Unidentified(r)
  BY <1>1 DEF Unidentified
<1>2. CASE Miss(r)
  BY <1>2 DEF Miss
<1>3. CASE BudgetSpent(r)
  BY <1>3 DEF BudgetSpent
<1>4. CASE PolicyTimeout(r)
  BY <1>4 DEF PolicyTimeout
<1>5. ASSUME NEW v \in Violations, NEW d \in BOOLEAN, Downgraded(r, v, d)
      PROVE  /\ pc[r] \in {"lookup", "policy"}
             /\ \E o \in Outcomes, a \in BOOLEAN : Decide(r, o, a)
             /\ UNCHANGED counters \/ \E names : Count(r, names)
             /\ leaks' = leaks + 1
             /\ UNCHANGED <<circuit, streak, mode, requests, results>>
  BY <1>5, AdvisedType DEF Downgraded
<1> QED
  BY <1>1, <1>2, <1>3, <1>4, <1>5 DEF Leaves

\* The next-state relation, with the steps that leave silently together.
LEMMA NextCases ==
    ASSUME [Next]_vars
    PROVE  \/ \E r \in Replicas :
                 \/ \E id \in RequestIds, i \in BOOLEAN : Arrive(r, id, i)
                 \/ Leaves(r)
                 \/ \E e \in Entries : Hit(r, e)
                 \/ \E v \in Violations : Observed(r, v) \/ Routed(r, v)
                 \/ Record(r)
                 \/ Observe(r)
                 \/ \E e \in BOOLEAN : Raise(r, e)
                 \/ \E m \in Modes : SetMode(r, m)
                 \/ Crash(r)
           \/ Tick
           \/ UNCHANGED vars
  BY Zenon DEF Next, Pipeline, Leaves

LEMMA TypeStep ==
    ASSUME TypeOK, [Next]_vars
    PROVE  TypeOK'
<1> USE InterceptorAssumption
<1>1. ASSUME NEW r \in Replicas, NEW id \in RequestIds, NEW i \in BOOLEAN, Arrive(r, id, i)
      PROVE  TypeOK'
  <2>1. circuit' \in CircuitBreakerState
    BY <1>1, NoTotalsType DEF Arrive, TypeOK
  <2>2. counters' \in [Replicas -> Counters]
    BY <1>1, CountFacts DEF Arrive
  <2>3. /\ [NoJob EXCEPT !.id = id, !.identified = i, !.outcome = "circuit_open"] \in Jobs
        /\ [NoJob EXCEPT !.id = id, !.identified = i] \in Jobs
    BY NoJobType DEF Jobs, Outcomes
  <2>4. job' \in [Replicas -> Jobs]
    BY <1>1, <2>3 DEF Arrive, TypeOK
  <2>5. pc' \in [Replicas -> {"idle", "lookup", "policy", "record", "observe"}]
    BY <1>1 DEF Arrive, TypeOK
  <2>6. requests' \in 0 .. MaxRequests /\ UNCHANGED <<mode, leaks, streak, results>>
    BY <1>1 DEF Arrive, TypeOK
  <2> QED
    BY <2>1, <2>2, <2>4, <2>5, <2>6 DEF TypeOK
<1>2. ASSUME NEW r \in Replicas, Leaves(r)
      PROVE  TypeOK'
  <2>1. counters' \in [Replicas -> Counters]
    BY <1>2, LeavesFacts, CountFacts DEF TypeOK
  <2>2. /\ pc' \in [Replicas -> {"idle", "lookup", "policy", "record", "observe"}]
        /\ job' \in [Replicas -> Jobs]
    BY <1>2, LeavesFacts, DecideFacts
  <2>3. leaks' = leaks + 1 /\ UNCHANGED <<circuit, streak, mode, requests, results>>
    BY <1>2, LeavesFacts
  <2> QED
    BY <2>1, <2>2, <2>3 DEF TypeOK
<1>3. ASSUME NEW r \in Replicas, NEW e \in Entries, Hit(r, e)
      PROVE  TypeOK'
  BY <1>3 DEF Hit, TypeOK, Jobs
<1>4. ASSUME NEW r \in Replicas, NEW v \in Violations, Observed(r, v)
      PROVE  TypeOK'
  <2>1. PICK o \in Outcomes : job' = [job EXCEPT ![r].outcome = o, ![r].attributed = TRUE]
    BY <1>4, AdvisedType DEF Observed, Outcomes
  <2>2. job' \in [Replicas -> Jobs]
    BY <2>1, SettledJob
  <2> QED
    BY <1>4, <2>2 DEF Observed, TypeOK
<1>5. ASSUME NEW r \in Replicas, NEW v \in Violations, Routed(r, v)
      PROVE  TypeOK'
  <2>1. counters' \in [Replicas -> Counters]
    BY <1>5, CountFacts DEF Routed, TypeOK
  <2>2. job' \in [Replicas -> Jobs]
    <3>1. PICK o \in Outcomes : job' = [job EXCEPT ![r].outcome = o, ![r].attributed = TRUE]
      BY <1>5, AdvisedType DEF Routed, Outcomes
    <3> QED
      BY <3>1, SettledJob
  <2>3. /\ pc' \in [Replicas -> {"idle", "lookup", "policy", "record", "observe"}]
        /\ UNCHANGED <<circuit, mode, requests, leaks, streak, results>>
    BY <1>5 DEF Routed, TypeOK
  <2> QED
    BY <2>1, <2>2, <2>3 DEF TypeOK
<1>6. ASSUME NEW r \in Replicas, Record(r)
      PROVE  TypeOK'
  <2>1. circuit' \in CircuitBreakerState
    BY <1>6, NoTotalsType DEF Record, TypeOK
  <2>2. counters' \in [Replicas -> Counters]
    BY <1>6, CountFacts DEF Record, TypeOK
  <2>3. /\ pc' \in [Replicas -> {"idle", "lookup", "policy", "record", "observe"}]
        /\ streak' = 0
        /\ UNCHANGED <<mode, job, requests, leaks, results>>
    BY <1>6 DEF Record, TypeOK
  <2> QED
    BY <2>1, <2>2, <2>3, CircuitAssumption DEF TypeOK
<1>7. ASSUME NEW r \in Replicas, Observe(r)
      PROVE  TypeOK'
  <2>1. circuit' \in CircuitBreakerState
    BY <1>7, NoTotalsType DEF Observe, TypeOK
  <2>2. results' \in [Replicas -> [Kinds -> Nat]]
    <3>1. results' = [results EXCEPT ![r] = [results[r] EXCEPT ![KindOf(job[r])] =
                                                results[r][KindOf(job[r])] + 1]]
      BY <1>7 DEF Observe
    <3>2. KindOf(job[r]) \in Kinds
      BY DEF TypeOK, Jobs, KindOf, Kinds
    <3> QED
      BY <3>1, <3>2 DEF TypeOK
  <2>3. job' \in [Replicas -> Jobs]
    BY <1>7, NoJobType DEF Observe, TypeOK
  <2>4. /\ pc' \in [Replicas -> {"idle", "lookup", "policy", "record", "observe"}]
        /\ UNCHANGED <<mode, counters, requests, leaks, streak>>
    BY <1>7 DEF Observe, TypeOK
  <2> QED
    BY <2>1, <2>2, <2>3, <2>4 DEF TypeOK
<1>8. ASSUME NEW r \in Replicas, NEW e \in BOOLEAN, Raise(r, e)
      PROVE  TypeOK'
  <2>1. circuit' \in CircuitBreakerState
    BY <1>8, NoTotalsType DEF Raise, TypeOK
  <2>2. counters' \in [Replicas -> Counters]
    BY <1>8, CountFacts DEF Raise
  <2>3. /\ pc' \in [Replicas -> {"idle", "lookup", "policy", "record", "observe"}]
        /\ job' \in [Replicas -> Jobs]
    BY <1>8, DecideFacts DEF Raise, Outcomes
  <2>4. /\ streak' \in 0 .. FailureThreshold
        /\ UNCHANGED <<mode, requests, leaks, results>>
    BY <1>8, CircuitAssumption DEF Raise, TypeOK
  <2> QED
    BY <2>1, <2>2, <2>3, <2>4 DEF TypeOK
<1>9. ASSUME NEW r \in Replicas, NEW m \in Modes, SetMode(r, m)
      PROVE  TypeOK'
  BY <1>9 DEF SetMode, TypeOK
<1>10. ASSUME NEW r \in Replicas, Crash(r)
       PROVE  TypeOK'
  <2>1. NoCounts \in Counters /\ NoResults \in [Kinds -> Nat]
    BY DEF NoCounts, Counters, NoResults
  <2> QED
    BY <1>10, <2>1, NoJobType DEF Crash, TypeOK
<1>11. ASSUME Tick
       PROVE  TypeOK'
  BY <1>11 DEF Tick, TypeOK, CircuitBreakerState
<1>12. CASE UNCHANGED vars
  BY <1>12 DEF vars, TypeOK
<1> QED
  BY <1>1, <1>2, <1>3, <1>4, <1>5, <1>6, <1>7, <1>8, <1>9, <1>10, <1>11, <1>12, NextCases


-----------------------------------------------------------------------------
(* The counters.                                                            *)

\* The numbers the counts of r are made of.
LEMMA Numbers ==
    ASSUME TypeOK, NEW r \in Replicas
    PROVE  /\ \A k \in Kinds : results[r][k] \in Nat
           /\ counters[r].total_requests \in Nat /\ counters[r].total_enriched \in Nat
           /\ counters[r].total_fail_open \in Nat /\ counters[r].total_redirected \in Nat
           /\ counters[r].total_cache_misses \in Nat
           /\ KindOf(job[r]) \in Kinds
  BY DEF TypeOK, Counters, Jobs, KindOf, Kinds

\* The counts of a replica change only if something of it does.
LEMMA CountsKept ==
    ASSUME NEW q \in Replicas, CountsOf(q), Recordable(q),
           pc'[q] = pc[q], mode'[q] = mode[q], job'[q] = job[q],
           counters'[q] = counters[q], results'[q] = results[q]
    PROVE  CountsOf(q)' /\ Recordable(q)'
<1>1. Counted(q)' <=> Counted(q)
  BY DEF Counted
<1>2. \A kinds : Ahead(q, kinds)' = Ahead(q, kinds)
  BY <1>1 DEF Ahead, KindOf
<1>3. CountsOf(q)'
  BY <1>2 DEF CountsOf, Returned, FailedOpen, Enriched
<1>4. Recordable(q)'
  BY DEF Recordable, KindOf
<1> QED
  BY <1>3, <1>4


FailKinds == {"fail_open", "circuit_open", "timeout"}
EnrichedKinds == {"enriched", "soft_stopped", "passthrough"}

\* r's request was not counted before; names are the counters that go up now,
\* and they are the ones the request's kind asks for.
LEMMA CountsMove ==
    ASSUME TypeOK, TypeOK', NEW r \in Replicas, CountsOf(r), ~Counted(r), results'[r] = results[r],
           NEW names,
           \A n \in {"total_requests", "total_enriched", "total_fail_open",
                     "total_redirected", "total_cache_misses"} :
              counters'[r][n] = counters[r][n] + (IF n \in names THEN 1 ELSE 0),
           pc'[r] # "idle", "total_requests" \in names <=> pc[r] = "idle",
           "total_fail_open" \in names <=> Counted(r)' /\ KindOf(job'[r]) \in FailKinds,
           "total_enriched" \in names <=> Counted(r)' /\ KindOf(job'[r]) \in EnrichedKinds,
           "total_redirected" \in names <=> Counted(r)' /\ KindOf(job'[r]) \in {"redirected"},
           "total_cache_misses" \in names => Counted(r)' /\ KindOf(job'[r]) \in {"fail_open"}
    PROVE  CountsOf(r)'
<1> USE DEF FailKinds, EnrichedKinds
<1>1. \A kinds : Ahead(r, kinds) = 0
  BY DEF Ahead
<1>2. /\ Ahead(r, FailKinds)' = IF "total_fail_open" \in names THEN 1 ELSE 0
      /\ Ahead(r, EnrichedKinds)' = IF "total_enriched" \in names THEN 1 ELSE 0
      /\ Ahead(r, {"redirected"})' = IF "total_redirected" \in names THEN 1 ELSE 0
      /\ Ahead(r, {"fail_open"})' \in {0, 1}
      /\ "total_cache_misses" \in names => Ahead(r, {"fail_open"})' = 1
  BY DEF Ahead
<1>3. /\ counters'[r].total_requests =
            counters[r].total_requests + (IF "total_requests" \in names THEN 1 ELSE 0)
      /\ counters'[r].total_enriched =
            counters[r].total_enriched + (IF "total_enriched" \in names THEN 1 ELSE 0)
      /\ counters'[r].total_fail_open =
            counters[r].total_fail_open + (IF "total_fail_open" \in names THEN 1 ELSE 0)
      /\ counters'[r].total_redirected =
            counters[r].total_redirected + (IF "total_redirected" \in names THEN 1 ELSE 0)
      /\ counters'[r].total_cache_misses =
            counters[r].total_cache_misses + (IF "total_cache_misses" \in names THEN 1 ELSE 0)
  OBVIOUS
<1>4. /\ Returned(results[r]) \in Nat /\ FailedOpen(results[r]) \in Nat
      /\ Enriched(results[r]) \in Nat
      /\ results[r]["redirected"] \in Nat /\ results[r]["fail_open"] \in Nat
  BY Numbers DEF Returned, FailedOpen, Enriched, Kinds, Outcomes
<1>5. /\ counters[r].total_requests = Returned(results[r]) + (IF pc[r] = "idle" THEN 0 ELSE 1)
      /\ counters[r].total_fail_open = FailedOpen(results[r])
      /\ counters[r].total_enriched = Enriched(results[r])
      /\ counters[r].total_redirected = results[r]["redirected"]
      /\ counters[r].total_cache_misses <= results[r]["fail_open"]
  BY <1>1, <1>4 DEF CountsOf
<1>6. /\ Returned(results'[r]) = Returned(results[r]) /\ Enriched(results'[r]) = Enriched(results[r])
      /\ FailedOpen(results'[r]) = FailedOpen(results[r])
  OBVIOUS
<1>7. counters[r].total_cache_misses \in Nat
  BY Numbers
<1>8. /\ counters'[r].total_requests = Returned(results'[r]) + (IF pc'[r] = "idle" THEN 0 ELSE 1)
      /\ counters'[r].total_fail_open = FailedOpen(results'[r]) + Ahead(r, FailKinds)'
      /\ counters'[r].total_enriched = Enriched(results'[r]) + Ahead(r, EnrichedKinds)'
      /\ counters'[r].total_redirected = results'[r]["redirected"] + Ahead(r, {"redirected"})'
  BY <1>2, <1>3, <1>4, <1>5, <1>6
<1>9. counters'[r].total_cache_misses <= results'[r]["fail_open"] + Ahead(r, {"fail_open"})'
  BY <1>2, <1>3, <1>4, <1>5, <1>7
<1> QED
  BY <1>8, <1>9 DEF CountsOf

\* The result goes back: what the counters were ahead by is now in the results.
LEMMA CountsReturn ==
    ASSUME TypeOK, NEW r \in Replicas, CountsOf(r), pc[r] = "observe", pc'[r] = "idle",
           counters'[r] = counters[r],
           results'[r] = [results[r] EXCEPT ![KindOf(job[r])] = results[r][KindOf(job[r])] + 1]
    PROVE  CountsOf(r)'
<1> DEFINE k == KindOf(job[r])
           n == results[r]
<1>1. k \in Kinds /\ n \in [Kinds -> Nat] /\ counters[r].total_cache_misses \in Nat
  BY Numbers DEF TypeOK
<1>2. \A kinds : Ahead(r, kinds) = (IF k \in kinds THEN 1 ELSE 0) /\ Ahead(r, kinds)' = 0
  BY DEF Ahead, Counted
<1>3. \A j \in Kinds : n[j] \in Nat /\ results'[r][j] = n[j] + (IF j = k THEN 1 ELSE 0)
  BY <1>1
<1>4. /\ counters[r].total_requests = Returned(n) + 1
      /\ counters[r].total_fail_open = FailedOpen(n) + (IF k \in FailKinds THEN 1 ELSE 0)
      /\ counters[r].total_enriched = Enriched(n) + (IF k \in EnrichedKinds THEN 1 ELSE 0)
      /\ counters[r].total_redirected = n["redirected"] + (IF k \in {"redirected"} THEN 1 ELSE 0)
      /\ counters[r].total_cache_misses <= n["fail_open"] + (IF k \in {"fail_open"} THEN 1 ELSE 0)
  BY <1>2 DEF CountsOf, FailKinds, EnrichedKinds
<1> HIDE DEF k, n
<1>5. /\ FailedOpen(results'[r]) = FailedOpen(n) + (IF k \in FailKinds THEN 1 ELSE 0)
      /\ Enriched(results'[r]) = Enriched(n) + (IF k \in EnrichedKinds THEN 1 ELSE 0)
  BY <1>1, <1>3 DEF FailedOpen, Enriched, FailKinds, EnrichedKinds, Kinds, Outcomes
<1>6. /\ Returned(results'[r]) = Returned(n) + 1
      /\ FailedOpen(n) \in Nat /\ Enriched(n) \in Nat /\ Returned(n) \in Nat
  <2>1. FailedOpen(n) \in Nat /\ Enriched(n) \in Nat
    BY <1>3 DEF FailedOpen, Enriched, Kinds, Outcomes
  <2>2. /\ results'[r]["redirected"] = n["redirected"] + (IF k = "redirected" THEN 1 ELSE 0)
        /\ results'[r]["hard_stopped"] = n["hard_stopped"] + (IF k = "hard_stopped" THEN 1 ELSE 0)
        /\ results'[r]["unidentified"] = n["unidentified"] + (IF k = "unidentified" THEN 1 ELSE 0)
        /\ n["redirected"] \in Nat /\ n["hard_stopped"] \in Nat /\ n["unidentified"] \in Nat
    BY <1>3 DEF Kinds, Outcomes
  <2> QED
    BY <1>1, <1>5, <2>1, <2>2 DEF Returned, FailKinds, EnrichedKinds, Kinds, Outcomes
<1>7. /\ results'[r]["redirected"] = n["redirected"] + (IF k \in {"redirected"} THEN 1 ELSE 0)
      /\ results'[r]["fail_open"] = n["fail_open"] + (IF k \in {"fail_open"} THEN 1 ELSE 0)
      /\ n["redirected"] \in Nat /\ n["fail_open"] \in Nat
  BY <1>3 DEF Kinds, Outcomes
<1> QED
  BY <1>1, <1>2, <1>3, <1>4, <1>5, <1>6, <1>7 DEF CountsOf


\* A step of r leaves the other replicas alone.
LEMMA OthersAlone ==
    ASSUME TypeOK, NEW r \in Replicas,
           \/ \E id \in RequestIds, i \in BOOLEAN : Arrive(r, id, i)
           \/ Leaves(r)
           \/ \E e \in Entries : Hit(r, e)
           \/ \E v \in Violations : Observed(r, v) \/ Routed(r, v)
           \/ Record(r)
           \/ Observe(r)
           \/ \E e \in BOOLEAN : Raise(r, e)
           \/ \E m \in Modes : SetMode(r, m)
           \/ Crash(r),
           NEW q \in Replicas, q # r
    PROVE  /\ pc'[q] = pc[q] /\ mode'[q] = mode[q] /\ job'[q] = job[q]
           /\ counters'[q] = counters[q] /\ results'[q] = results[q]
<1>1. CASE \E id \in RequestIds, i \in BOOLEAN : Arrive(r, id, i)
  <2>1. counters'[q] = counters[q]
    BY <1>1, CountFacts DEF Arrive
  <2> QED
    BY <1>1, <2>1 DEF Arrive, TypeOK
<1>2. CASE Leaves(r)
  BY <1>2, LeavesFacts, CountFacts, DecideFacts
<1>3. CASE \E e \in Entries : Hit(r, e)
  BY <1>3 DEF Hit, TypeOK
<1>4. CASE \E v \in Violations : Observed(r, v)
  BY <1>4 DEF Observed, TypeOK
<1>5. CASE \E v \in Violations : Routed(r, v)
  <2>1. counters'[q] = counters[q]
    BY <1>5, CountFacts DEF Routed
  <2> QED
    BY <1>5, <2>1 DEF Routed, TypeOK
<1>6. CASE Record(r)
  <2>1. counters'[q] = counters[q]
    BY <1>6, CountFacts DEF Record
  <2> QED
    BY <1>6, <2>1 DEF Record, TypeOK
<1>7. CASE Observe(r)
  BY <1>7 DEF Observe, TypeOK
<1>8. CASE \E e \in BOOLEAN : Raise(r, e)
  <2>1. counters'[q] = counters[q]
    BY <1>8, CountFacts DEF Raise
  <2>2. pc'[q] = pc[q] /\ job'[q] = job[q]
    BY <1>8, DecideFacts DEF Raise, Outcomes
  <2> QED
    BY <1>8, <2>1, <2>2 DEF Raise
<1>9. CASE \E m \in Modes : SetMode(r, m)
  BY <1>9 DEF SetMode, TypeOK
<1>10. CASE Crash(r)
  BY <1>10 DEF Crash, TypeOK
<1> QED
  BY <1>1, <1>2, <1>3, <1>4, <1>5, <1>6, <1>7, <1>8, <1>9, <1>10

\* The steps that leave silently count what they return.
LEMMA LeavesCounts ==
    ASSUME CountInv, TypeOK', NEW r \in Replicas, Leaves(r)
    PROVE  CountsOf(r)' /\ Recordable(r)'
<1>0. TypeOK /\ CountsOf(r)
  BY DEF CountInv
<1>1. pc[r] \in {"lookup", "policy"} /\ ~Counted(r)
  BY <1>0, LeavesFacts DEF Counted
<1>2. pc'[r] = "observe" /\ Counted(r)' /\ results'[r] = results[r]
  BY <1>0, LeavesFacts, DecideFacts DEF Counted
<1>3. Recordable(r)'
  BY <1>2 DEF Recordable
<1>4. ASSUME NEW names, Count(r, names), "total_requests" \notin names,
             NEW o \in Outcomes, NEW a \in BOOLEAN, Decide(r, o, a), o # "passthrough",
             "total_fail_open" \in names <=> o \in FailKinds,
             "total_enriched" \in names <=> o \in EnrichedKinds,
             "total_redirected" \in names <=> o \in {"redirected"},
             "total_cache_misses" \in names => o \in {"fail_open"}
      PROVE  CountsOf(r)'
  <2>1. KindOf(job'[r]) = o
    BY <1>0, <1>4, DecideFacts DEF KindOf
  <2>2. \A n \in {"total_requests", "total_enriched", "total_fail_open",
                  "total_redirected", "total_cache_misses"} :
           counters'[r][n] = counters[r][n] + (IF n \in names THEN 1 ELSE 0)
    BY <1>0, <1>4, CountFacts
  <2> QED
    BY <1>0, <1>1, <1>2, <1>4, <2>1, <2>2, CountsMove
<1>5. CASE Unidentified(r)
  <2> DEFINE none == {}
  <2>1. Decide(r, "passthrough", FALSE) /\ counters' = counters
    BY <1>5 DEF Unidentified
  <2>2. KindOf(job'[r]) = "unidentified"
    BY <1>0, <2>1, DecideFacts DEF KindOf, Outcomes
  <2>3. \A n \in {"total_requests", "total_enriched", "total_fail_open",
                  "total_redirected", "total_cache_misses"} :
           counters'[r][n] = counters[r][n] + (IF n \in none THEN 1 ELSE 0)
    BY <1>0, <2>1, Numbers
  <2>4. \A n : n \notin none
    OBVIOUS
  <2>5. KindOf(job'[r]) \notin FailKinds \cup EnrichedKinds \cup {"redirected", "fail_open"}
    BY <2>2 DEF FailKinds, EnrichedKinds
  <2> HIDE DEF none
  <2> QED
    BY <1>0, <1>1, <1>2, <1>3, <2>3, <2>4, <2>5, CountsMove
<1>6. CASE Miss(r)
  <2> DEFINE names == {"total_cache_misses", "total_fail_open"}
  <2>1. Decide(r, "fail_open", FALSE) /\ Count(r, names)
    BY <1>6 DEF Miss
  <2>2. /\ "total_requests" \notin names /\ "fail_open" \in Outcomes /\ "fail_open" # "passthrough"
        /\ "total_fail_open" \in names <=> "fail_open" \in FailKinds
        /\ "total_enriched" \in names <=> "fail_open" \in EnrichedKinds
        /\ "total_redirected" \in names <=> "fail_open" \in {"redirected"}
        /\ "total_cache_misses" \in names => "fail_open" \in {"fail_open"}
    BY DEF FailKinds, EnrichedKinds, Outcomes
  <2> HIDE DEF names
  <2> QED
    BY <1>3, <1>4, <2>1, <2>2
<1>7. CASE BudgetSpent(r) \/ PolicyTimeout(r)
  <2> DEFINE names == {"total_fail_open"}
  <2>1. Decide(r, "timeout", TRUE) /\ Count(r, names)
    BY <1>7 DEF BudgetSpent, PolicyTimeout
  <2>2. /\ "total_requests" \notin names /\ "timeout" \in Outcomes /\ "timeout" # "passthrough"
        /\ "total_fail_open" \in names <=> "timeout" \in FailKinds
        /\ "total_enriched" \in names <=> "timeout" \in EnrichedKinds
        /\ "total_redirected" \in names <=> "timeout" \in {"redirected"}
        /\ "total_cache_misses" \in names => "timeout" \in {"fail_open"}
    BY DEF FailKinds, EnrichedKinds, Outcomes
  <2> HIDE DEF names
  <2> QED
    BY <1>3, <1>4, <2>1, <2>2
<1>8. CASE \E v \in Violations, d \in BOOLEAN : Downgraded(r, v, d)
  <2> DEFINE names == {"total_enriched"}
  <2>1. PICK o \in {"enriched", "soft_stopped"} : Decide(r, o, TRUE) /\ Count(r, names)
    BY <1>8, AdvisedType DEF Downgraded
  <2>2. /\ "total_requests" \notin names /\ o \in Outcomes /\ o # "passthrough"
        /\ "total_fail_open" \in names <=> o \in FailKinds
        /\ "total_enriched" \in names <=> o \in EnrichedKinds
        /\ "total_redirected" \in names <=> o \in {"redirected"}
        /\ "total_cache_misses" \in names => o \in {"fail_open"}
    BY DEF FailKinds, EnrichedKinds, Outcomes
  <2> HIDE DEF names
  <2> QED
    BY <1>3, <1>4, <2>1, <2>2
<1> QED
  BY <1>5, <1>6, <1>7, <1>8 DEF Leaves


\* A step that counts nothing and does not end the request.
LEMMA CountsWait ==
    ASSUME NEW r \in Replicas, CountsOf(r), ~Counted(r), ~Counted(r)',
           pc[r] # "idle", pc'[r] # "idle",
           counters'[r] = counters[r], results'[r] = results[r]
    PROVE  CountsOf(r)'
<1>1. \A kinds : Ahead(r, kinds) = 0 /\ Ahead(r, kinds)' = 0
  BY DEF Ahead
<1> QED
  BY <1>1 DEF CountsOf

\* The other steps of a request before its result goes back.
LEMMA PipelineCounts ==
    ASSUME CountInv, TypeOK', NEW r \in Replicas,
           \/ \E id \in RequestIds, i \in BOOLEAN : Arrive(r, id, i)
           \/ \E e \in Entries : Hit(r, e)
           \/ \E v \in Violations : Observed(r, v) \/ Routed(r, v)
           \/ \E e \in BOOLEAN : Raise(r, e)
           \/ Record(r)
    PROVE  CountsOf(r)' /\ Recordable(r)'
<1>0. TypeOK /\ CountsOf(r) /\ Recordable(r)
  BY DEF CountInv
<1>1. ASSUME NEW names, Count(r, names), ~Counted(r), Counted(r)', results'[r] = results[r],
             NEW o, KindOf(job'[r]) = o,
             pc'[r] # "idle", "total_requests" \in names <=> pc[r] = "idle",
             "total_fail_open" \in names <=> o \in FailKinds,
             "total_enriched" \in names <=> o \in EnrichedKinds,
             "total_redirected" \in names <=> o \in {"redirected"},
             "total_cache_misses" \notin names
      PROVE  CountsOf(r)'
  <2>1. \A n \in {"total_requests", "total_enriched", "total_fail_open",
                  "total_redirected", "total_cache_misses"} :
           counters'[r][n] = counters[r][n] + (IF n \in names THEN 1 ELSE 0)
    BY <1>0, <1>1, CountFacts
  <2> QED
    BY <1>0, <1>1, <2>1, CountsMove
<1>2. ASSUME NEW id \in RequestIds, NEW i \in BOOLEAN, Arrive(r, id, i), FailsOpen(circuit, 0)
      PROVE  CountsOf(r)' /\ Recordable(r)'
  <2> DEFINE names == {"total_requests", "total_fail_open"}
  <2>1. /\ pc[r] = "idle" /\ pc'[r] = "observe" /\ results'[r] = results[r] /\ Count(r, names)
        /\ job'[r].outcome = "circuit_open"
    <3>1. /\ job'[r] = [NoJob EXCEPT !.id = id, !.identified = i, !.outcome = "circuit_open"]
          /\ pc[r] = "idle" /\ pc'[r] = "observe" /\ results'[r] = results[r] /\ Count(r, names)
      BY <1>0, <1>2 DEF Arrive, TypeOK
    <3> QED
      BY <3>1, NoJobType DEF Jobs
  <2>2. KindOf(job'[r]) = "circuit_open" /\ ~Counted(r) /\ Counted(r)' /\ Recordable(r)'
    BY <2>1 DEF KindOf, Counted, Recordable
  <2>3. /\ "total_requests" \in names /\ "total_cache_misses" \notin names
        /\ "total_fail_open" \in names /\ "circuit_open" \in FailKinds
        /\ "total_enriched" \notin names /\ "circuit_open" \notin EnrichedKinds
        /\ "total_redirected" \notin names /\ "circuit_open" \notin {"redirected"}
    BY DEF FailKinds, EnrichedKinds
  <2> HIDE DEF names
  <2> QED
    BY <1>1, <2>1, <2>2, <2>3
<1>3. ASSUME NEW id \in RequestIds, NEW i \in BOOLEAN, Arrive(r, id, i), ~FailsOpen(circuit, 0)
      PROVE  CountsOf(r)' /\ Recordable(r)'
  <2> DEFINE names == {"total_requests"}
  <2>1. /\ pc[r] = "idle" /\ pc'[r] = "lookup" /\ results'[r] = results[r] /\ Count(r, names)
    BY <1>0, <1>3 DEF Arrive, TypeOK
  <2>2. ~Counted(r) /\ ~Counted(r)' /\ Recordable(r)'
    BY <2>1 DEF Counted, Recordable
  <2>3. \A n \in {"total_requests", "total_enriched", "total_fail_open",
                  "total_redirected", "total_cache_misses"} :
           counters'[r][n] = counters[r][n] + (IF n \in names THEN 1 ELSE 0)
    BY <1>0, <2>1, CountFacts
  <2>4. /\ "total_requests" \in names /\ "total_cache_misses" \notin names
        /\ "total_fail_open" \notin names /\ "total_enriched" \notin names
        /\ "total_redirected" \notin names
    OBVIOUS
  <2> HIDE DEF names
  <2> QED
    BY <1>0, <2>1, <2>2, <2>3, <2>4, CountsMove
<1>4. ASSUME NEW e \in Entries, Hit(r, e)
      PROVE  CountsOf(r)' /\ Recordable(r)'
  <2>1. /\ pc[r] = "lookup" /\ pc'[r] = "policy"
        /\ counters'[r] = counters[r] /\ results'[r] = results[r]
    BY <1>0, <1>4 DEF Hit, TypeOK
  <2>2. ~Counted(r) /\ ~Counted(r)' /\ Recordable(r)'
    BY <2>1 DEF Counted, Recordable
  <2> QED
    BY <1>0, <2>1, <2>2, CountsWait
<1>5. ASSUME NEW v \in Violations, Observed(r, v)
      PROVE  CountsOf(r)' /\ Recordable(r)'
  <2>1. PICK o \in EnrichedKinds : job' = [job EXCEPT ![r].outcome = o, ![r].attributed = TRUE]
    BY <1>5, AdvisedType DEF Observed, EnrichedKinds
  <2>2. KindOf(job'[r]) = o
    BY <1>0, <2>1, SettledJob DEF KindOf, EnrichedKinds, Outcomes
  <2>3. /\ pc[r] = "policy" /\ pc'[r] = "record" /\ mode'[r] = mode[r] /\ mode[r] # "active"
        /\ counters'[r] = counters[r] /\ results'[r] = results[r]
    BY <1>0, <1>5 DEF Observed, TypeOK
  <2>4. ~Counted(r) /\ ~Counted(r)' /\ Recordable(r)'
    BY <2>2, <2>3 DEF Counted, Recordable, EnrichedKinds
  <2> QED
    BY <1>0, <2>3, <2>4, CountsWait
<1>6. ASSUME NEW v \in Violations, Routed(r, v)
      PROVE  CountsOf(r)' /\ Recordable(r)'
  <2>1. /\ pc[r] = "policy" /\ pc'[r] = "record" /\ mode'[r] = mode[r] /\ mode[r] = "active"
        /\ results'[r] = results[r]
    BY <1>0, <1>6 DEF Routed, TypeOK
  <2>2. ~Counted(r) /\ Counted(r)'
    BY <2>1 DEF Counted
  <2>3. ASSUME NEW o \in {"hard_stopped", "redirected", "enriched", "soft_stopped"},
               job' = [job EXCEPT ![r].outcome = o, ![r].attributed = TRUE]
        PROVE  KindOf(job'[r]) = o /\ Recordable(r)'
    <3>1. KindOf(job'[r]) = o
      BY <1>0, <2>3, SettledJob DEF KindOf, Outcomes
    <3> QED
      BY <2>1, <3>1 DEF Recordable
  <2>4. CASE /\ job' = [job EXCEPT ![r].outcome = "hard_stopped", ![r].attributed = TRUE]
             /\ UNCHANGED counters
    <3> DEFINE none == {}
    <3>1. KindOf(job'[r]) = "hard_stopped" /\ Recordable(r)'
      BY <2>3, <2>4
    <3>2. \A n \in {"total_requests", "total_enriched", "total_fail_open",
                    "total_redirected", "total_cache_misses"} :
             counters'[r][n] = counters[r][n] + (IF n \in none THEN 1 ELSE 0)
      BY <1>0, <2>4, Numbers
    <3>3. \A n : n \notin none
      OBVIOUS
    <3>4. KindOf(job'[r]) \notin FailKinds \cup EnrichedKinds \cup {"redirected", "fail_open"}
      BY <3>1 DEF FailKinds, EnrichedKinds
    <3> HIDE DEF none
    <3> QED
      BY <1>0, <2>1, <2>2, <3>1, <3>2, <3>3, <3>4, CountsMove
  <2>5. CASE /\ job' = [job EXCEPT ![r].outcome = "redirected", ![r].attributed = TRUE]
             /\ Count(r, {"total_redirected"})
    <3> DEFINE names == {"total_redirected"}
    <3>1. KindOf(job'[r]) = "redirected" /\ Recordable(r)' /\ Count(r, names)
      BY <2>3, <2>5
    <3>2. /\ "total_requests" \notin names /\ "total_cache_misses" \notin names
          /\ "total_fail_open" \notin names /\ "redirected" \notin FailKinds
          /\ "total_enriched" \notin names /\ "redirected" \notin EnrichedKinds
          /\ "total_redirected" \in names /\ "redirected" \in {"redirected"}
      BY DEF FailKinds, EnrichedKinds
    <3> HIDE DEF names
    <3> QED
      BY <1>1, <2>1, <2>2, <3>1, <3>2
  <2>6. ASSUME NEW o \in {"enriched", "soft_stopped"},
               job' = [job EXCEPT ![r].outcome = o, ![r].attributed = TRUE],
               Count(r, {"total_enriched"})
        PROVE  CountsOf(r)' /\ Recordable(r)'
    <3> DEFINE names == {"total_enriched"}
    <3>1. KindOf(job'[r]) = o /\ Recordable(r)' /\ Count(r, names)
      BY <2>3, <2>6
    <3>2. /\ "total_requests" \notin names /\ "total_cache_misses" \notin names
          /\ "total_fail_open" \notin names /\ o \notin FailKinds
          /\ "total_enriched" \in names /\ o \in EnrichedKinds
          /\ "total_redirected" \notin names /\ o \notin {"redirected"}
      BY DEF FailKinds, EnrichedKinds
    <3> HIDE DEF names
    <3> QED
      BY <1>1, <2>1, <2>2, <3>1, <3>2
  <2> QED
    BY <1>6, <2>4, <2>5, <2>6, AdvisedType DEF Routed
<1>7. ASSUME NEW e \in BOOLEAN, Raise(r, e)
      PROVE  CountsOf(r)' /\ Recordable(r)'
  <2> DEFINE names == {"total_fail_open"}
  <2>1. /\ pc[r] \in {"lookup", "policy"} /\ results'[r] = results[r] /\ Count(r, names)
        /\ Decide(r, "fail_open", FALSE)
    BY <1>7 DEF Raise
  <2>2. pc'[r] = "observe" /\ KindOf(job'[r]) = "fail_open"
    BY <1>0, <2>1, DecideFacts DEF KindOf, Outcomes
  <2>3. ~Counted(r) /\ Counted(r)' /\ Recordable(r)'
    BY <2>1, <2>2 DEF Counted, Recordable
  <2>4. /\ "total_requests" \notin names /\ "total_cache_misses" \notin names
        /\ "total_fail_open" \in names /\ "fail_open" \in FailKinds
        /\ "total_enriched" \notin names /\ "fail_open" \notin EnrichedKinds
        /\ "total_redirected" \notin names /\ "fail_open" \notin {"redirected"}
    BY DEF FailKinds, EnrichedKinds
  <2> HIDE DEF names
  <2> QED
    BY <1>1, <2>1, <2>2, <2>3, <2>4
<1>8. ASSUME Record(r), mode[r] = "active"
      PROVE  CountsOf(r)' /\ Recordable(r)'
  <2>1. /\ pc[r] = "record" /\ pc'[r] = "observe" /\ job'[r] = job[r]
        /\ counters'[r] = counters[r] /\ results'[r] = results[r]
    BY <1>0, <1>8 DEF Record, TypeOK
  <2>2. \A kinds : Ahead(r, kinds)' = Ahead(r, kinds)
    BY <1>8, <2>1 DEF Ahead, Counted, KindOf
  <2> QED
    BY <1>0, <2>1, <2>2 DEF CountsOf, Recordable
<1>9. ASSUME Record(r), mode[r] # "active"
      PROVE  CountsOf(r)' /\ Recordable(r)'
  <2> DEFINE names == {"total_enriched"}
  <2>1. /\ pc[r] = "record" /\ pc'[r] = "observe" /\ job'[r] = job[r]
        /\ results'[r] = results[r] /\ Count(r, names)
    BY <1>0, <1>9 DEF Record, TypeOK
  <2>2. KindOf(job'[r]) = KindOf(job[r]) /\ KindOf(job[r]) \in EnrichedKinds
    BY <1>0, <1>9, <2>1 DEF Recordable, EnrichedKinds
  <2>3. ~Counted(r) /\ Counted(r)' /\ Recordable(r)'
    BY <1>9, <2>1 DEF Counted, Recordable
  <2>4. /\ "total_requests" \notin names /\ "total_cache_misses" \notin names
        /\ "total_fail_open" \notin names /\ KindOf(job[r]) \notin FailKinds
        /\ "total_enriched" \in names
        /\ "total_redirected" \notin names /\ KindOf(job[r]) \notin {"redirected"}
    BY <2>2 DEF FailKinds, EnrichedKinds
  <2> HIDE DEF names
  <2> QED
    BY <1>1, <2>1, <2>2, <2>3, <2>4
<1> QED
  BY <1>2, <1>3, <1>4, <1>5, <1>6, <1>7, <1>8, <1>9

LEMMA InitCountInv == Init => CountInv
<1> SUFFICES ASSUME Init, NEW r \in Replicas PROVE CountsOf(r) /\ Recordable(r)
  BY InitTypes DEF CountInv
<1>1. pc[r] = "idle" /\ counters[r] = NoCounts /\ results[r] = NoResults
  BY DEF Init
<1>2. \A kinds : Ahead(r, kinds) = 0
  BY <1>1 DEF Ahead, Counted
<1>3. \A k \in Kinds : results[r][k] = 0
  BY <1>1 DEF NoResults
<1>4. Returned(results[r]) = 0 /\ FailedOpen(results[r]) = 0 /\ Enriched(results[r]) = 0
  BY <1>3 DEF Returned, FailedOpen, Enriched, Kinds, Outcomes
<1> QED
  BY <1>1, <1>2, <1>3, <1>4 DEF CountsOf, Recordable, NoCounts, Kinds, Outcomes

LEMMA CountStep ==
    ASSUME CountInv, [Next]_vars
    PROVE  CountInv'
<1>0. TypeOK /\ TypeOK' /\ \A q \in Replicas : CountsOf(q) /\ Recordable(q)
  BY TypeStep DEF CountInv
<1>1. ASSUME NEW r \in Replicas, Observe(r)
      PROVE  CountsOf(r)' /\ Recordable(r)'
  <2>1. /\ pc[r] = "observe" /\ pc'[r] = "idle" /\ counters'[r] = counters[r]
        /\ results'[r] = [results[r] EXCEPT ![KindOf(job[r])] = results[r][KindOf(job[r])] + 1]
    BY <1>0, <1>1 DEF Observe, TypeOK
  <2> QED
    BY <1>0, <2>1, CountsReturn DEF Recordable
<1>2. ASSUME NEW r \in Replicas, Crash(r)
      PROVE  CountsOf(r)' /\ Recordable(r)'
  <2>1. pc'[r] = "idle" /\ counters'[r] = NoCounts /\ results'[r] = NoResults
    BY <1>0, <1>2 DEF Crash, TypeOK
  <2>2. \A kinds : Ahead(r, kinds)' = 0
    BY <2>1 DEF Ahead, Counted
  <2>3. \A k \in Kinds : results'[r][k] = 0
    BY <2>1 DEF NoResults
  <2>4. Returned(results'[r]) = 0 /\ FailedOpen(results'[r]) = 0 /\ Enriched(results'[r]) = 0
    BY <2>3 DEF Returned, FailedOpen, Enriched, Kinds, Outcomes
  <2> QED
    BY <2>1, <2>2, <2>3, <2>4 DEF CountsOf, Recordable, NoCounts, Kinds, Outcomes
<1>3. ASSUME NEW r \in Replicas, NEW m \in Modes, SetMode(r, m)
      PROVE  CountsOf(r)' /\ Recordable(r)'
  <2>1. pc[r] = "idle" /\ pc' = pc /\ counters' = counters /\ results' = results
    BY <1>3 DEF SetMode
  <2>2. \A kinds : Ahead(r, kinds)' = 0 /\ Ahead(r, kinds) = 0
    BY <2>1 DEF Ahead, Counted
  <2> QED
    BY <1>0, <2>1, <2>2 DEF CountsOf, Recordable
<1>4. ASSUME NEW q \in Replicas, Tick \/ UNCHANGED vars
      PROVE  CountsOf(q)' /\ Recordable(q)'
  <2>1. pc' = pc /\ mode' = mode /\ job' = job /\ counters' = counters /\ results' = results
    BY <1>4 DEF Tick, vars
  <2> QED
    BY <1>0, <2>1, CountsKept
<1>5. ASSUME NEW q \in Replicas PROVE CountsOf(q)' /\ Recordable(q)'
  <2>1. CASE Tick \/ UNCHANGED vars
    BY <1>4, <2>1
  <2>2. ASSUME NEW r \in Replicas,
               \/ \E id \in RequestIds, i \in BOOLEAN : Arrive(r, id, i)
               \/ Leaves(r)
               \/ \E e \in Entries : Hit(r, e)
               \/ \E v \in Violations : Observed(r, v) \/ Routed(r, v)
               \/ Record(r)
               \/ Observe(r)
               \/ \E e \in BOOLEAN : Raise(r, e)
               \/ \E m \in Modes : SetMode(r, m)
               \/ Crash(r)
        PROVE  CountsOf(q)' /\ Recordable(q)'
    <3>1. CASE q = r
      BY <1>0, <1>1, <1>2, <1>3, <2>2, <3>1, PipelineCounts, LeavesCounts
    <3>2. CASE q # r
      BY <1>0, <2>2, <3>2, OthersAlone, CountsKept
    <3> QED
      BY <3>1, <3>2
  <2> QED
    BY <2>1, <2>2, NextCases
<1> QED
  BY <1>0, <1>5 DEF CountInv

\* The total_* attributes of every replica partition the results it returned,
\* through mode changes, errors, breaker states and restarts, for any number of
\* replicas and requests (the paths of _intercept_inner and intercept).
THEOREM CountersPartition == Spec => []CountersAddUp
<1>1. CountInv => CountersAddUp
  <2> SUFFICES ASSUME CountInv, NEW r \in Replicas, pc[r] = "idle"
               PROVE  /\ counters[r].total_requests = Returned(results[r])
                      /\ counters[r].total_fail_open = FailedOpen(results[r])
                      /\ counters[r].total_enriched = Enriched(results[r])
                      /\ counters[r].total_redirected = results[r]["redirected"]
                      /\ counters[r].total_cache_misses <= results[r]["fail_open"]
    BY Zenon DEF CountersAddUp
  <2>1. TypeOK /\ CountsOf(r)
    BY DEF CountInv
  <2>2. \A kinds : Ahead(r, kinds) = 0
    BY DEF Ahead, Counted
  <2>3. /\ Returned(results[r]) \in Nat /\ FailedOpen(results[r]) \in Nat
        /\ Enriched(results[r]) \in Nat
        /\ results[r]["redirected"] \in Nat /\ results[r]["fail_open"] \in Nat
    BY <2>1, Numbers DEF Returned, FailedOpen, Enriched, Kinds, Outcomes
  <2> QED
    BY <2>1, <2>2, <2>3 DEF CountsOf
<1> QED
  BY <1>1, InitCountInv, CountStep, PTL DEF Spec


-----------------------------------------------------------------------------
(* The pipeline and the breaker.                                            *)

\* How the number of admitted requests changes when r moves to x.
LEMMA AdmittedMoves ==
    ASSUME TypeOK, NEW r \in Replicas, NEW x, pc' = [pc EXCEPT ![r] = x]
    PROVE  /\ Cardinality(Admitted) \in Nat
           /\ (pc[r] \in Inside <=> x \in Inside) => Admitted' = Admitted
           /\ pc[r] \notin Inside /\ x \in Inside
                => Cardinality(Admitted') = Cardinality(Admitted) + 1
           /\ pc[r] \in Inside /\ x \notin Inside
                => Cardinality(Admitted') = Cardinality(Admitted) - 1
<1>1. IsFiniteSet(Admitted)
  BY InterceptorAssumption, FS_Subset DEF Admitted
<1>2. Cardinality(Admitted) \in Nat
  BY <1>1, FS_CardinalityType
<1>3. pc'[r] = x /\ \A q \in Replicas : q # r => pc'[q] = pc[q]
  BY DEF TypeOK
<1>4. (pc[r] \in Inside <=> x \in Inside) => Admitted' = Admitted
  BY <1>3 DEF Admitted
<1>5. ASSUME pc[r] \notin Inside, x \in Inside
      PROVE  Cardinality(Admitted') = Cardinality(Admitted) + 1
  <2>1. Admitted' = Admitted \cup {r} /\ r \notin Admitted
    BY <1>3, <1>5 DEF Admitted
  <2> QED
    BY <1>1, <2>1, FS_AddElement
<1>6. ASSUME pc[r] \in Inside, x \notin Inside
      PROVE  Cardinality(Admitted') = Cardinality(Admitted) - 1
  <2>1. Admitted' = Admitted \ {r} /\ r \in Admitted
    BY <1>3, <1>6 DEF Admitted
  <2> QED
    BY <1>1, <2>1, FS_RemoveElement
<1> QED
  BY <1>2, <1>4, <1>5, <1>6

\* Where the steps of r lead it.
LEMMA Moves ==
    ASSUME NEW r \in Replicas
    PROVE  /\ \A id \in RequestIds, i \in BOOLEAN : Arrive(r, id, i) =>
                 /\ pc[r] = "idle" /\ UNCHANGED leaks /\ requests' = requests + 1
                 /\ pc' = [pc EXCEPT ![r] = IF FailsOpen(circuit, 0) THEN "observe" ELSE "lookup"]
           /\ Leaves(r) =>
                 /\ pc[r] \in Inside /\ leaks' = leaks + 1 /\ UNCHANGED requests
                 /\ pc' = [pc EXCEPT ![r] = "observe"]
           /\ \A e \in Entries : Hit(r, e) =>
                 /\ pc[r] \in Inside /\ UNCHANGED <<leaks, requests>>
                 /\ pc' = [pc EXCEPT ![r] = "policy"]
           /\ \A v \in Violations : Observed(r, v) \/ Routed(r, v) =>
                 /\ pc[r] \in Inside /\ UNCHANGED <<leaks, requests>>
                 /\ pc' = [pc EXCEPT ![r] = "record"]
           /\ Record(r) \/ (\E e \in BOOLEAN : Raise(r, e)) =>
                 /\ pc[r] \in Inside /\ UNCHANGED <<leaks, requests>>
                 /\ pc' = [pc EXCEPT ![r] = "observe"]
           /\ Observe(r) =>
                 /\ pc[r] = "observe" /\ UNCHANGED <<leaks, requests>>
                 /\ pc' = [pc EXCEPT ![r] = "idle"]
           /\ Crash(r) =>
                 /\ pc' = [pc EXCEPT ![r] = "idle"] /\ requests' = requests + 1
                 /\ leaks' = IF pc[r] \in Inside THEN leaks + 1 ELSE leaks
<1> USE DEF Inside, Decide, Silently
<1>1. \A id \in RequestIds, i \in BOOLEAN : Arrive(r, id, i) =>
         /\ pc[r] = "idle" /\ UNCHANGED leaks /\ requests' = requests + 1
         /\ pc' = [pc EXCEPT ![r] = IF FailsOpen(circuit, 0) THEN "observe" ELSE "lookup"]
  BY DEF Arrive
<1>2. Leaves(r) =>
         /\ pc[r] \in Inside /\ leaks' = leaks + 1 /\ UNCHANGED requests
         /\ pc' = [pc EXCEPT ![r] = "observe"]
  BY DEF Leaves, Unidentified, Miss, BudgetSpent, PolicyTimeout, Downgraded
<1>3. \A e \in Entries : Hit(r, e) =>
         /\ pc[r] \in Inside /\ UNCHANGED <<leaks, requests>>
         /\ pc' = [pc EXCEPT ![r] = "policy"]
  BY DEF Hit
<1>4. \A v \in Violations : Observed(r, v) \/ Routed(r, v) =>
         /\ pc[r] \in Inside /\ UNCHANGED <<leaks, requests>>
         /\ pc' = [pc EXCEPT ![r] = "record"]
  BY DEF Observed, Routed
<1>5. Record(r) \/ (\E e \in BOOLEAN : Raise(r, e)) =>
         /\ pc[r] \in Inside /\ UNCHANGED <<leaks, requests>>
         /\ pc' = [pc EXCEPT ![r] = "observe"]
  BY DEF Record, Raise
<1>6. Observe(r) =>
         /\ pc[r] = "observe" /\ UNCHANGED <<leaks, requests>>
         /\ pc' = [pc EXCEPT ![r] = "idle"]
  BY DEF Observe
<1>7. Crash(r) =>
         /\ pc' = [pc EXCEPT ![r] = "idle"] /\ requests' = requests + 1
         /\ leaks' = IF pc[r] \in Inside THEN leaks + 1 ELSE leaks
  BY DEF Crash
<1> QED
  BY <1>1, <1>2, <1>3, <1>4, <1>5, <1>6, <1>7

LEMMA InitLeaks == Init => LeaksPaid
<1> SUFFICES ASSUME Init PROVE LeaksPaid
  OBVIOUS
<1>1. Admitted = {}
  BY DEF Init, Admitted, Inside
<1> QED
  BY <1>1, FS_EmptySet DEF Init, LeaksPaid

LEMMA LeaksStep ==
    ASSUME TypeOK, LeaksPaid, [Next]_vars
    PROVE  LeaksPaid'
<1>0. leaks \in Nat /\ requests \in Nat
  BY InterceptorAssumption DEF TypeOK
<1>1. ASSUME NEW r \in Replicas, NEW x, pc' = [pc EXCEPT ![r] = x], leaks' \in Nat,
             requests' \in Nat,
             \/ /\ (pc[r] \in Inside <=> x \in Inside) /\ leaks' = leaks /\ requests' >= requests
             \/ /\ pc[r] \notin Inside /\ x \in Inside /\ leaks' = leaks
                /\ requests' = requests + 1
             \/ /\ pc[r] \in Inside /\ x \notin Inside /\ leaks' <= leaks + 1
                /\ requests' >= requests
      PROVE  LeaksPaid'
  <2>1. /\ Cardinality(Admitted) \in Nat
        /\ (pc[r] \in Inside <=> x \in Inside) => Admitted' = Admitted
        /\ pc[r] \notin Inside /\ x \in Inside
             => Cardinality(Admitted') = Cardinality(Admitted) + 1
        /\ pc[r] \in Inside /\ x \notin Inside
             => Cardinality(Admitted') = Cardinality(Admitted) - 1
    BY <1>1, AdmittedMoves
  <2>2. leaks + Cardinality(Admitted) <= requests
    BY DEF LeaksPaid
  <2>3. leaks' + Cardinality(Admitted') <= requests'
    BY <1>0, <1>1, <2>1, <2>2
  <2> QED
    BY <2>3 DEF LeaksPaid
<1>2. ASSUME pc' = pc, leaks' = leaks, requests' \in Nat, requests' >= requests
      PROVE  LeaksPaid'
  <2>1. Admitted' = Admitted /\ Cardinality(Admitted) \in Nat
    BY <1>2, InterceptorAssumption, FS_Subset, FS_CardinalityType DEF Admitted
  <2> QED
    BY <1>0, <1>2, <2>1 DEF LeaksPaid
<1>3. ASSUME NEW r \in Replicas, NEW id \in RequestIds, NEW i \in BOOLEAN, Arrive(r, id, i)
      PROVE  LeaksPaid'
  <2>1. /\ pc[r] = "idle" /\ leaks' = leaks /\ requests' = requests + 1
        /\ pc' = [pc EXCEPT ![r] = "observe"] \/ pc' = [pc EXCEPT ![r] = "lookup"]
    BY <1>3, Moves
  <2>2. "lookup" \in Inside /\ "observe" \notin Inside /\ "idle" \notin Inside
    BY DEF Inside
  <2> QED
    BY <1>0, <1>1, <2>1, <2>2
<1>4. ASSUME NEW r \in Replicas, Leaves(r)
      PROVE  LeaksPaid'
  <2>1. /\ pc[r] \in Inside /\ leaks' = leaks + 1 /\ requests' = requests
        /\ pc' = [pc EXCEPT ![r] = "observe"]
    BY <1>4, Moves
  <2>2. "observe" \notin Inside
    BY DEF Inside
  <2>3. leaks' \in Nat /\ requests' \in Nat /\ leaks' <= leaks + 1 /\ requests' >= requests
    BY <1>0, <2>1
  <2> QED
    BY <1>1, <2>1, <2>2, <2>3
<1>5. ASSUME NEW r \in Replicas,
             \/ \E e \in Entries : Hit(r, e)
             \/ \E v \in Violations : Observed(r, v) \/ Routed(r, v)
             \/ Record(r)
             \/ Observe(r)
             \/ \E e \in BOOLEAN : Raise(r, e)
      PROVE  LeaksPaid'
  <2>1. /\ leaks' = leaks /\ requests' = requests
        /\ \/ pc[r] \in Inside /\ \E x \in {"policy", "record", "observe"} : pc' = [pc EXCEPT ![r] = x]
           \/ pc[r] = "observe" /\ pc' = [pc EXCEPT ![r] = "idle"]
    BY <1>5, Moves
  <2>2. /\ "policy" \in Inside /\ "record" \in Inside
        /\ "observe" \notin Inside /\ "idle" \notin Inside
    BY DEF Inside
  <2> QED
    BY <1>0, <1>1, <2>1, <2>2
<1>6. ASSUME NEW r \in Replicas, Crash(r)
      PROVE  LeaksPaid'
  <2>1. /\ pc' = [pc EXCEPT ![r] = "idle"] /\ requests' = requests + 1
        /\ leaks' = IF pc[r] \in Inside THEN leaks + 1 ELSE leaks
    BY <1>6, Moves
  <2>2. "idle" \notin Inside
    BY DEF Inside
  <2>3. /\ leaks' \in Nat /\ requests' \in Nat /\ requests' >= requests
        /\ leaks' <= leaks + 1
    BY <1>0, <2>1
  <2>4. CASE pc[r] \in Inside
    BY <1>1, <2>1, <2>2, <2>3, <2>4
  <2>5. CASE pc[r] \notin Inside
    BY <1>1, <2>1, <2>2, <2>3, <2>5
  <2> QED
    BY <2>4, <2>5
<1>7. CASE (\E r \in Replicas, m \in Modes : SetMode(r, m)) \/ Tick \/ UNCHANGED vars
  BY <1>0, <1>2, <1>7 DEF SetMode, Tick, vars
<1> QED
  BY <1>3, <1>4, <1>5, <1>6, <1>7, NextCases

\* The instance's operators on the record are the ones of this module.
LEMMA SameRecord ==
    ASSUME NEW c, NEW t
    PROVE  /\ Gateway!NewCircuit(t) = NewCircuit(t)
           /\ Gateway!AfterReset(c, t) = AfterReset(c, t)
           /\ Gateway!FailsOpen(c, t) <=> FailsOpen(c, t)
           /\ Gateway!NoTotals(Gateway!IsOpen(c, t)) = NoTotals(IsOpen(c, t))
           /\ Gateway!NoTotals(Gateway!RecordSuccess(c, t)) = NoTotals(RecordSuccess(c, t))
           /\ Gateway!NoTotals(Gateway!RecordFailure(c, t)) = NoTotals(RecordFailure(c, t))
  BY Zenon DEF NewCircuit, AfterReset, FailsOpen, NoTotals, IsOpen, RecordSuccess, RecordFailure,
     ForceClose, Trip,
     Gateway!NewCircuit, Gateway!AfterReset, Gateway!FailsOpen, Gateway!NoTotals, Gateway!IsOpen,
     Gateway!RecordSuccess, Gateway!RecordFailure, Gateway!ForceClose, Gateway!Trip

\* The phase of every replica, as the refinement mapping has it.
Phase == [r \in Replicas |->
             IF pc[r] \in {"lookup", "policy", "record"} THEN "admitted" ELSE "idle"]

\* How r's phase follows its pc.
LEMMA PhaseMoves ==
    ASSUME TypeOK, NEW r \in Replicas, NEW x, pc' = [pc EXCEPT ![r] = x]
    PROVE  /\ Phase[r] = IF pc[r] \in Inside THEN "admitted" ELSE "idle"
           /\ x \in Inside => Phase' = [Phase EXCEPT ![r] = "admitted"]
           /\ x \notin Inside => Phase' = [Phase EXCEPT ![r] = "idle"]
           /\ (pc[r] \in Inside <=> x \in Inside) => Phase' = Phase
  BY DEF TypeOK, Phase, Inside

\* A request tells the breaker one outcome at most, and only after it was
\* admitted: whatever path it takes through _intercept_inner and intercept's
\* handler, on any number of replicas, is a behaviour of GatewayBreaker.
THEOREM PipelineImplementsGateway == Spec => ImplementsGateway
<1> DEFINE GInv == TypeOK /\ LeaksPaid
<1>1. Init => Gateway!Init
  BY SameRecord DEF Init, Gateway!Init
<1>2. GInv /\ [Next]_vars => [Gateway!Next]_(Gateway!vars)
  <2> SUFFICES ASSUME GInv, [Next]_vars PROVE [Gateway!Next]_(Gateway!vars)
    OBVIOUS
  <2>0. /\ "lookup" \in Inside /\ "policy" \in Inside /\ "record" \in Inside
        /\ "idle" \notin Inside /\ "observe" \notin Inside
    BY DEF Inside
  <2>1. ASSUME NEW r \in Replicas, NEW id \in RequestIds, NEW i \in BOOLEAN, Arrive(r, id, i)
        PROVE  Gateway!Reject(r) \/ Gateway!Admit(r)
    <3>1. /\ pc[r] = "idle" /\ circuit' = NoTotals(IsOpen(circuit, 0)) /\ UNCHANGED <<leaks, streak>>
          /\ pc' = [pc EXCEPT ![r] = IF FailsOpen(circuit, 0) THEN "observe" ELSE "lookup"]
      BY <2>1, Moves DEF Arrive
    <3>2. CASE FailsOpen(circuit, 0)
      <4>1. Phase[r] = "idle" /\ Phase' = Phase
        BY <2>0, <3>1, <3>2, PhaseMoves
      <4> QED
        BY <3>1, <3>2, <4>1, SameRecord DEF Gateway!Reject, Phase
    <3>3. CASE ~FailsOpen(circuit, 0)
      <4>1. Phase[r] = "idle" /\ Phase' = [Phase EXCEPT ![r] = "admitted"]
        BY <2>0, <3>1, <3>3, PhaseMoves
      <4> QED
        BY <3>1, <3>3, <4>1, SameRecord DEF Gateway!Admit, Phase
    <3> QED
      BY <3>2, <3>3
  <2>2. ASSUME NEW r \in Replicas, pc[r] \in Inside, NEW x, x \notin Inside,
               pc' = [pc EXCEPT ![r] = x], leaks' = leaks + 1, UNCHANGED <<circuit, streak>>
        PROVE  Gateway!Leave(r)
    <3>1. leaks < MaxRequests
      <4>1. r \in Admitted /\ IsFiniteSet(Admitted)
        BY <2>2, InterceptorAssumption, FS_Subset DEF Admitted
      <4>2. Cardinality(Admitted) \in Nat /\ Cardinality(Admitted) # 0
        BY <4>1, FS_CardinalityType, FS_EmptySet
      <4>3. /\ leaks + Cardinality(Admitted) <= requests
            /\ leaks \in Nat /\ requests \in Nat /\ requests <= MaxRequests /\ MaxRequests \in Nat
        BY InterceptorAssumption DEF LeaksPaid, TypeOK
      <4> QED
        BY <4>2, <4>3
    <3>2. Phase[r] = "admitted" /\ Phase' = [Phase EXCEPT ![r] = "idle"]
      BY <2>2, PhaseMoves
    <3> QED
      BY <2>2, <3>1, <3>2 DEF Gateway!Leave, Phase
  <2>3. ASSUME NEW r \in Replicas, Record(r)
        PROVE  Gateway!Succeed(r)
    <3>1. Phase[r] = "admitted" /\ Phase' = [Phase EXCEPT ![r] = "idle"]
      BY <2>0, <2>3, Moves, PhaseMoves
    <3> QED
      BY <2>3, <3>1, SameRecord DEF Record, Gateway!Succeed, Phase
  <2>4. ASSUME NEW r \in Replicas, NEW e \in BOOLEAN, Raise(r, e)
        PROVE  Gateway!Fail(r)
    <3>1. Phase[r] = "admitted" /\ Phase' = [Phase EXCEPT ![r] = "idle"]
      BY <2>0, <2>4, Moves, PhaseMoves
    <3> QED
      BY <2>4, <3>1, SameRecord DEF Raise, Gateway!Fail, Phase
  <2>5. ASSUME NEW r \in Replicas, Observe(r)
        PROVE  Gateway!Observe
    <3>1. Phase' = Phase
      BY <2>0, <2>5, Moves, PhaseMoves
    <3> QED
      BY <2>5, <3>1, SameRecord DEF Observe, Gateway!Observe, Phase
  <2>6. ASSUME Tick
        PROVE  Gateway!Tick
    BY <2>6 DEF Tick, Gateway!Tick
  <2>7. ASSUME UNCHANGED <<circuit, leaks, streak>>, Phase' = Phase
        PROVE  UNCHANGED Gateway!vars
    BY <2>7 DEF Gateway!vars, Phase
  <2>8. ASSUME NEW r \in Replicas,
               (\E e \in Entries : Hit(r, e)) \/ \E v \in Violations : Observed(r, v) \/ Routed(r, v)
        PROVE  UNCHANGED Gateway!vars
    <3>1. Phase' = Phase
      BY <2>0, <2>8, Moves, PhaseMoves
    <3>2. UNCHANGED <<circuit, leaks, streak>>
      BY <2>8 DEF Hit, Observed, Routed
    <3> QED
      BY <2>7, <3>1, <3>2
  <2>9. ASSUME NEW r \in Replicas, Crash(r)
        PROVE  Gateway!Leave(r) \/ UNCHANGED Gateway!vars
    <3>1. /\ pc' = [pc EXCEPT ![r] = "idle"] /\ UNCHANGED <<circuit, streak>>
          /\ leaks' = IF pc[r] \in Inside THEN leaks + 1 ELSE leaks
      BY <2>9, Moves DEF Crash
    <3>2. CASE pc[r] \in Inside
      BY <2>0, <2>2, <3>1, <3>2
    <3>3. CASE pc[r] \notin Inside
      <4>1. Phase' = Phase
        BY <2>0, <3>1, <3>3, PhaseMoves
      <4> QED
        BY <2>7, <3>1, <3>3, <4>1
    <3> QED
      BY <3>2, <3>3
  <2>10. ASSUME NEW r \in Replicas, Leaves(r)
         PROVE  Gateway!Leave(r)
    <3>1. /\ pc[r] \in Inside /\ leaks' = leaks + 1 /\ pc' = [pc EXCEPT ![r] = "observe"]
          /\ UNCHANGED <<circuit, streak>>
      BY <2>10, Moves, LeavesFacts
    <3> QED
      BY <2>0, <2>2, <3>1
  <2>11. CASE (\E r \in Replicas, m \in Modes : SetMode(r, m)) \/ UNCHANGED vars
    <3>1. pc' = pc /\ UNCHANGED <<circuit, leaks, streak>>
      BY <2>11 DEF SetMode, vars
    <3>2. Phase' = Phase
      BY <3>1 DEF Phase
    <3> QED
      BY <2>7, <3>1, <3>2
  <2> QED
    BY <2>1, <2>3, <2>4, <2>5, <2>6, <2>8, <2>9, <2>10, <2>11, NextCases
       DEF Gateway!Next, Gateway!Enter, Gateway!Finish
<1>3. Init => GInv
  BY InitTypes, InitLeaks
<1>4. GInv /\ [Next]_vars => GInv'
  BY TypeStep, LeaksStep
<1> QED
  BY <1>1, <1>2, <1>3, <1>4, PTL DEF Spec, ImplementsGateway, Gateway!Spec
=============================================================================
