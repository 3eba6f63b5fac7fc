----------------------------- MODULE Interceptor -----------------------------
(***************************************************************************)
(* FailOpenInterceptor (interceptor/gateway.py): the decision-time         *)
(* pipeline of each gateway replica, from the circuit breaker check to the *)
(* routing decision, with its counters and the audit events it emits.      *)
(*                                                                         *)
(* _intercept_inner does not await, so inside one process a request runs   *)
(* alone; the steps below are split where it touches state other replicas  *)
(* share (the breaker record and the index in Redis).  What a lookup, a    *)
(* timer or the policy thresholds yield for a request is chosen freely:    *)
(* the entry's confidence band, whether it proposes another model, and     *)
(* which policies are violated.  Clock and breaker record are those of     *)
(* GatewayBreaker, which this module is checked to implement.              *)
(***************************************************************************)
EXTENDS CircuitState, FiniteSets

CONSTANTS
    Replicas,      \* gateway processes
    RequestIds,    \* request ids, chosen by the clients
    Modes,         \* the deployment modes in use
    MaxRequests    \* bound on requests, mode changes and crashes

ASSUME InterceptorAssumption ==
    /\ IsFiniteSet(Replicas)
    /\ RequestIds # {}
    /\ Modes \subseteq {"passive", "advisory", "active"}
    /\ MaxRequests \in Nat

VARIABLES
    circuit,       \* the shared breaker record
    mode,          \* mode[r]
    pc,            \* pc[r]: next step of r's current request
    job,           \* job[r]: what r's request has learnt so far
    counters,      \* counters[r]: the total_* attributes
    events,        \* idempotency keys handed to the event bus, which takes each once
    requests, leaks, streak,
    results        \* history: results[r][o] results with outcome o returned

vars == <<circuit, mode, pc, job, counters, events,
          requests, leaks, streak, results>>

Outcomes == {"passthrough", "enriched", "redirected", "soft_stopped",
             "hard_stopped", "fail_open", "circuit_open", "timeout"}

\* A result, as the history tells it: a passthrough without attribution is the
\* answer to a request nobody could identify.
Kinds == Outcomes \cup {"unidentified"}

\* Attribution confidence below active_lite_min_confidence, below
\* active_lite_gate_min_confidence, or high enough for both; the entry's
\* approved_alternatives may exclude the requested model.
Entries == [confidence : {"low", "shape", "gate"}, alternative : BOOLEAN]

NoEntry == [confidence |-> "low", alternative |-> FALSE]

\* The policies told apart by routing: those in hard_stop_ids, and token_budget.
Violations == SUBSET {"hard_stop", "token_budget"}

Jobs == [id : RequestIds, identified : BOOLEAN, entry : Entries,
         attributed : BOOLEAN, outcome : Outcomes]

Counters == [total_requests : Nat, total_enriched : Nat, total_fail_open : Nat,
             total_redirected : Nat, total_cache_misses : Nat]

TypeOK ==
    /\ circuit \in CircuitBreakerState
    /\ mode \in [Replicas -> Modes]
    /\ pc \in [Replicas -> {"idle", "lookup", "policy", "record", "observe"}]
    /\ job \in [Replicas -> Jobs]
    /\ counters \in [Replicas -> Counters]
    /\ requests \in 0 .. MaxRequests
    /\ leaks \in Nat
    /\ streak \in 0 .. FailureThreshold
    /\ results \in [Replicas -> [Kinds -> Nat]]

NoCounts == [total_requests |-> 0, total_enriched |-> 0, total_fail_open |-> 0,
             total_redirected |-> 0, total_cache_misses |-> 0]

NoResults == [k \in Kinds |-> 0]

NoJob == [id |-> CHOOSE i \in RequestIds : TRUE, identified |-> FALSE,
          entry |-> NoEntry, attributed |-> FALSE, outcome |-> "passthrough"]

Init ==
    /\ circuit = NewCircuit(-ResetTimeout)
    /\ mode \in [Replicas -> Modes]
    /\ pc = [r \in Replicas |-> "idle"]
    /\ job = [r \in Replicas |-> NoJob]
    /\ counters = [r \in Replicas |-> NoCounts]
    /\ events = {}
    /\ requests = 0
    /\ leaks = 0
    /\ streak = 0
    /\ results = [r \in Replicas |-> NoResults]

NoTotals(c) == [c EXCEPT !.total_opens = 0, !.total_fail_opens = 0]

-----------------------------------------------------------------------------
(* What the steps have in common.                                           *)

\* The request's result is decided; metrics are recorded next.
Decide(r, outcome, attributed) ==
    /\ pc' = [pc EXCEPT ![r] = "observe"]
    /\ job' = [job EXCEPT ![r].outcome = outcome, ![r].attributed = attributed]

\* One of the total_* attributes of r goes up, together with total_fail_open
\* when the request fails open.
Count(r, names) ==
    counters' = [counters EXCEPT ![r] =
                    [n \in DOMAIN @ |-> IF n \in names THEN @[n] + 1 ELSE @[n]]]

\* The request ends without telling the breaker.
Silently ==
    /\ leaks' = leaks + 1
    /\ UNCHANGED <<circuit, streak>>

ShadowKey(r) == <<"shadow", job[r].id>>
PolicyKey(r) == <<"policy_eval", job[r].id, mode[r]>>
InterventionKey(r, action) == <<"intervention", job[r].id, action>>

-----------------------------------------------------------------------------

\* A request arrives and reads is_open.
Arrive(r, id, identified) ==
    /\ pc[r] = "idle"
    /\ requests < MaxRequests
    /\ requests' = requests + 1
    /\ circuit' = NoTotals(IsOpen(circuit, 0))
    /\ \/ /\ FailsOpen(circuit, 0)
          /\ pc' = [pc EXCEPT ![r] = "observe"]
          /\ job' = [job EXCEPT ![r] = [NoJob EXCEPT !.id = id, !.identified = identified,
                                                     !.outcome = "circuit_open"]]
          /\ Count(r, {"total_requests", "total_fail_open"})
       \/ /\ ~FailsOpen(circuit, 0)
          /\ pc' = [pc EXCEPT ![r] = "lookup"]
          /\ job' = [job EXCEPT ![r] = [NoJob EXCEPT !.id = id, !.identified = identified]]
          /\ Count(r, {"total_requests"})
    /\ UNCHANGED <<mode, events, leaks, streak, results>>

\* _resolve_workload_id finds nothing to look up.
Unidentified(r) ==
    /\ pc[r] = "lookup"
    /\ ~job[r].identified
    /\ Decide(r, "passthrough", FALSE)
    /\ Silently
    /\ UNCHANGED <<mode, counters, events, requests, results>>

\* index.lookup returns None: a shadow event asks for reconciliation.
Miss(r) ==
    /\ pc[r] = "lookup"
    /\ job[r].identified
    /\ Decide(r, "fail_open", FALSE)
    /\ Count(r, {"total_cache_misses", "total_fail_open"})
    /\ events' = events \cup {ShadowKey(r)}
    /\ Silently
    /\ UNCHANGED <<mode, requests, results>>

\* index.lookup returns an entry but no time is left for the policies.
BudgetSpent(r) ==
    /\ pc[r] = "lookup"
    /\ job[r].identified
    /\ Decide(r, "timeout", TRUE)
    /\ Count(r, {"total_fail_open"})
    /\ events' = events \cup {ShadowKey(r)}
    /\ Silently
    /\ UNCHANGED <<mode, requests, results>>

\* Mutant: a hit is reported as a success before the policies ran.
HitSucceeds(r, entry) ==
    /\ pc[r] = "lookup"
    /\ job[r].identified
    /\ pc' = [pc EXCEPT ![r] = "policy"]
    /\ job' = [job EXCEPT ![r].entry = entry]
    /\ circuit' = NoTotals(RecordSuccess(circuit, 0))
    /\ streak' = 0
    /\ UNCHANGED <<mode, counters, events, requests, leaks, results>>

\* index.lookup returns an entry in time.
Hit(r, entry) ==
    /\ pc[r] = "lookup"
    /\ job[r].identified
    /\ pc' = [pc EXCEPT ![r] = "policy"]
    /\ job' = [job EXCEPT ![r].entry = entry]
    /\ UNCHANGED <<circuit, mode, counters, events, requests, leaks, streak,
                   results>>

\* _evaluate_policies took longer than policy_timeout_ms.
PolicyTimeout(r) ==
    /\ pc[r] = "policy"
    /\ Decide(r, "timeout", TRUE)
    /\ Count(r, {"total_fail_open"})
    /\ events' = events \cup {PolicyKey(r), ShadowKey(r)}
    /\ Silently
    /\ UNCHANGED <<mode, requests, results>>

\* The outcome of advisory handling.
Advised(violations) == IF violations = {} THEN "enriched" ELSE "soft_stopped"

\* Step 5 in passive and advisory mode: record_success comes next.
Observed(r, violations) ==
    /\ pc[r] = "policy"
    /\ mode[r] \in {"passive", "advisory"}
    /\ events' = events \cup {PolicyKey(r)}
    /\ pc' = [pc EXCEPT ![r] = "record"]
    /\ job' = [job EXCEPT ![r].attributed = TRUE,
                          ![r].outcome = IF mode[r] = "passive" THEN "passthrough"
                                         ELSE Advised(violations)]
    /\ UNCHANGED <<circuit, mode, counters, requests, leaks, streak, results>>

\* Active mode treats the request as advisory: low confidence, an environment
\* not known to be non-production, or a semantic guardrail (downgrade).
Downgraded(r, violations, downgrade) ==
    /\ pc[r] = "policy"
    /\ mode[r] = "active"
    /\ job[r].entry.confidence = "low" \/ downgrade
    /\ events' = events \cup {PolicyKey(r)}
    /\ Decide(r, Advised(violations), TRUE)
    /\ Count(r, {"total_enriched"})
    /\ Silently
    /\ UNCHANGED <<mode, requests, results>>

\* _active_routing; record_success comes next.
HardStops(r, violations) ==
    "hard_stop" \in violations /\ job[r].entry.confidence = "gate"

Routed(r, violations) ==
    /\ pc[r] = "policy"
    /\ mode[r] = "active"
    /\ job[r].entry.confidence # "low"
    /\ pc' = [pc EXCEPT ![r] = "record"]
    /\ \/ /\ HardStops(r, violations)
          /\ job' = [job EXCEPT ![r].outcome = "hard_stopped", ![r].attributed = TRUE]
          /\ events' = events \cup {PolicyKey(r), InterventionKey(r, "GATE_REJECT")}
          /\ UNCHANGED counters
       \/ /\ ~HardStops(r, violations)
          /\ job[r].entry.alternative
          /\ job' = [job EXCEPT ![r].outcome = "redirected", ![r].attributed = TRUE]
          /\ events' = events \cup {PolicyKey(r), InterventionKey(r, "MODEL_ROUTE")}
          /\ Count(r, {"total_redirected"})
       \/ /\ ~HardStops(r, violations)
          /\ ~job[r].entry.alternative
          /\ job' = [job EXCEPT ![r].outcome = Advised(violations), ![r].attributed = TRUE]
          /\ events' = events \cup
                {PolicyKey(r)} \cup (IF violations = {} THEN {}
                                     ELSE {InterventionKey(r, "SOFT_STOP")})
          /\ Count(r, {"total_enriched"})
    /\ UNCHANGED <<circuit, mode, requests, leaks, streak, results>>

\* Mutant: active routing's requests are counted a second time.
RecordCountsAll(r) ==
    /\ pc[r] = "record"
    /\ circuit' = NoTotals(RecordSuccess(circuit, 0))
    /\ streak' = 0
    /\ pc' = [pc EXCEPT ![r] = "observe"]
    /\ Count(r, {"total_enriched"})
    /\ UNCHANGED <<mode, job, events, requests, leaks, results>>

\* record_success; passive and advisory count the request here, active routing
\* has counted it already.
Record(r) ==
    /\ pc[r] = "record"
    /\ circuit' = NoTotals(RecordSuccess(circuit, 0))
    /\ streak' = 0
    /\ pc' = [pc EXCEPT ![r] = "observe"]
    /\ IF mode[r] = "active" THEN UNCHANGED counters ELSE Count(r, {"total_enriched"})
    /\ UNCHANGED <<mode, job, events, requests, leaks, results>>

\* The lookup or a policy check raises, or the routing does, after the evaluation
\* was reported: intercept's handler.  Its other callees only lower and format the
\* typed fields of a request or set metrics, and are taken not to raise:
\* _sanitize_request_headers, _build_basic_headers, _record_observability_metrics.
Raise(r, evaluated) ==
    /\ pc[r] \in {"lookup", "policy"}
    /\ job[r].identified
    /\ evaluated => pc[r] = "policy"
    /\ circuit' = NoTotals(RecordFailure(circuit, 0))
    /\ streak' = IF streak < FailureThreshold THEN streak + 1 ELSE streak
    /\ Decide(r, "fail_open", FALSE)
    /\ Count(r, {"total_fail_open"})
    /\ events' = events \cup {ShadowKey(r)} \cup (IF evaluated THEN {PolicyKey(r)} ELSE {})
    /\ UNCHANGED <<mode, requests, leaks, results>>

KindOf(j) ==
    IF j.outcome = "passthrough" /\ ~j.attributed THEN "unidentified" ELSE j.outcome

\* _record_observability_metrics reads the breaker's state; the result goes back.
Observe(r) ==
    /\ pc[r] = "observe"
    /\ circuit' = AfterReset(circuit, 0)
    /\ results' = [results EXCEPT ![r][KindOf(job[r])] = @ + 1]
    /\ pc' = [pc EXCEPT ![r] = "idle"]
    /\ job' = [job EXCEPT ![r] = NoJob]
    /\ UNCHANGED <<mode, counters, events, requests, leaks, streak>>

\* The demo endpoint changes the mode between requests.
SetMode(r, m) ==
    /\ pc[r] = "idle"
    /\ mode[r] # m
    /\ requests < MaxRequests
    /\ requests' = requests + 1
    /\ mode' = [mode EXCEPT ![r] = m]
    /\ UNCHANGED <<circuit, pc, job, counters, events, leaks, streak, results>>

\* The process dies and is replaced: its counters start over.
Crash(r) ==
    /\ requests < MaxRequests
    /\ requests' = requests + 1
    /\ pc' = [pc EXCEPT ![r] = "idle"]
    /\ job' = [job EXCEPT ![r] = NoJob]
    /\ counters' = [counters EXCEPT ![r] = NoCounts]
    /\ results' = [results EXCEPT ![r] = NoResults]
    /\ leaks' = IF pc[r] \in {"lookup", "policy", "record"} THEN leaks + 1 ELSE leaks
    /\ UNCHANGED <<circuit, mode, events, streak>>

Tick ==
    /\ circuit.last_failure_time > -ResetTimeout
    /\ circuit' = [circuit EXCEPT !.last_failure_time = @ - 1]
    /\ UNCHANGED <<mode, pc, job, counters, events, requests, leaks, streak,
                   results>>

Pipeline(r) ==
    \/ Unidentified(r) \/ Miss(r) \/ BudgetSpent(r) \/ PolicyTimeout(r)
    \/ \E e \in Entries : Hit(r, e)
    \/ \E v \in Violations :
          Observed(r, v) \/ Routed(r, v) \/ \E d \in BOOLEAN : Downgraded(r, v, d)
    \/ Record(r) \/ Observe(r) \/ \E e \in BOOLEAN : Raise(r, e)

Next ==
    \/ \E r \in Replicas :
          \/ \E id \in RequestIds, i \in BOOLEAN : Arrive(r, id, i)
          \/ Pipeline(r)
          \/ \E m \in Modes : SetMode(r, m)
          \/ Crash(r)
    \/ Tick

Spec == Init /\ [][Next]_vars

-----------------------------------------------------------------------------

\* Of the results n counts: those that failed open, and those total_enriched is for.
FailedOpen(n) == n["fail_open"] + n["circuit_open"] + n["timeout"]
Enriched(n) == n["enriched"] + n["soft_stopped"] + n["passthrough"]
Returned(n) == FailedOpen(n) + Enriched(n) + n["redirected"] + n["hard_stopped"] + n["unidentified"]

\* The counters behind get_metrics and the fail-open rate partition the
\* requests: whatever mode changes, errors and breaker states a replica goes
\* through, its requests are exactly the results it returned, its fail-opens
\* exactly the ones that failed open, and every other result but an
\* unidentified or a hard-stopped one was counted once as enriched or redirected.
CountersAddUp ==
    \A r \in Replicas : pc[r] = "idle" =>
        LET c == counters[r]
            n == results[r]
        IN  /\ c.total_requests = Returned(n)
            /\ c.total_fail_open = FailedOpen(n)
            /\ c.total_enriched = Enriched(n)
            /\ c.total_redirected = n["redirected"]
            /\ c.total_cache_misses <= n["fail_open"]

\* The pipeline is one of the request sources GatewayBreaker describes, so what
\* is shown there about the shared breaker holds for it.
Gateway == INSTANCE GatewayBreaker WITH
    phase <- [r \in Replicas |->
                 IF pc[r] \in {"lookup", "policy", "record"} THEN "admitted" ELSE "idle"],
    healthy <- FALSE,
    forces <- 0,
    MaxForces <- 0,
    MaxLeaks <- MaxRequests

\* Every path of _intercept_inner tells the breaker a success or a failure, or
\* leaves it waiting: no path reports twice, or reports without being admitted.
ImplementsGateway == Gateway!Spec
=============================================================================
