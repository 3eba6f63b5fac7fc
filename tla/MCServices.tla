----------------------------- MODULE MCServices -----------------------------
(***************************************************************************)
(* A TLC instance of five components that share nothing: Reconciliation    *)
(* (one resolution at a time), ShadowWarmer, FederatedBenchmark,           *)
(* CostLedger and Ingestion.  A behaviour is one of a single component,    *)
(* named by focus, while the others stay in a first state.  A behaviour of *)
(* Ingestion is about the limiters (one request of each of two callers     *)
(* again and again, from pods whose clocks agree, or of which q's is ahead *)
(* and whose calls to Redis are late) or about the handlers (any requests, *)
(* few of them).                                                           *)
(***************************************************************************)
EXTENDS MCReconciliation, ShadowWarmer, FederatedBenchmark, CostLedger, MCIngestion

CONSTANTS
    HandledRequests,   \* bound on the requests of a behaviour about handlers
    org1, org2, cohort1, cohort2, publisher1, publisher2

Symmetry == Permutations(Orgs) \cup Permutations(Cohorts) \cup Permutations(Publishers)

Rule(m, from, price) ==
    [model |-> m, from |-> from, input |-> price, cached |-> price - 1, output |-> 2 * price, base |-> 1]

MCRules == {Rule("mini", 0, 1), Rule("mini", 2, 1), Rule("mini", 2, 3), Rule("large", 1, 5)}

Usage(m, at) == [model |-> m, at |-> at, input |-> 2, cached |-> 3, output |-> 1, cost |-> NotBilled]

MCUsages == {Usage("mini", 1), Usage("mini", 2), Usage("large", 2),
             [Usage("large", 0) EXCEPT !.cost = 4]}

VARIABLE focus

NoEvidence == [mapping |-> {}, events |-> <<>>, names |-> <<>>, history |-> <<>>, deploys |-> <<>>,
               code |-> <<>>, users |-> <<>>, shares |-> [t \in {} |-> 0], fits |-> FitR2]

MCInit ==
    /\ focus \in {"reconciliation", "warmer", "benchmark", "ledger", "limits", "handlers"}
    /\ ResolveInit /\ WarmerInit /\ BenchmarkInit /\ LedgerInit /\ Init
    /\ focus # "reconciliation" => ctx = NoEvidence
    /\ focus # "warmer" => monotonic = 0
    /\ focus \notin {"limits", "handlers"} => cfg = Base
    /\ delay = IF focus = "limits" /\ Limiter(cfg) = "redis" THEN skew["q"] ELSE 0
    /\ focus # "limits" => skew["q"] = 0
    /\ skew["p"] = 0

\* In a behaviour about the limiters no request is refused and no handler goes on.
IngestionNext ==
    \/ Tick
    \/ /\ focus = "limits"
       /\ \E r \in Callers, p \in Pods : Refusal(r) = 0 /\ Serve(r, p)
    \/ /\ focus = "handlers" /\ Len(asked) < HandledRequests
       /\ \E r \in Requests, p \in Pods : Serve(r, p)
    \/ /\ focus = "handlers"
       /\ \E i \in DOMAIN asked : Handle(i)

MCNext ==
    /\ focus' = focus
    /\ \/ /\ focus = "reconciliation" /\ ResolveNext
          /\ UNCHANGED <<warmerVars, benchmarkVars, ledgerVars, vars>>
       \/ /\ focus = "warmer" /\ WarmerNext
          /\ UNCHANGED <<resolveVars, benchmarkVars, ledgerVars, vars>>
       \/ /\ focus = "benchmark" /\ BenchmarkNext
          /\ UNCHANGED <<resolveVars, warmerVars, ledgerVars, vars>>
       \/ /\ focus = "ledger" /\ LedgerNext
          /\ UNCHANGED <<resolveVars, warmerVars, benchmarkVars, vars>>
       \/ /\ focus \in {"limits", "handlers"} /\ IngestionNext
          /\ UNCHANGED <<resolveVars, warmerVars, benchmarkVars, ledgerVars>>

MCSpec == MCInit /\ [][MCNext]_<<focus, resolveVars, warmerVars, benchmarkVars, ledgerVars, vars>>
=============================================================================
