----------------------------- MODULE MCBusIndex -----------------------------
(***************************************************************************)
(* A TLC instance of the two ends of the attribution pipeline, which share *)
(* nothing: InMemoryEventBus and AttributionIndex.  A behaviour is one of  *)
(* a single component, named by focus, while the other stays in its first  *)
(* state.                                                                  *)
(***************************************************************************)
EXTENDS InMemoryEventBus, AttributionIndex

CONSTANTS k1, k2, k3, k4, k5, t1, h1, p1, p2, a1, a2, w1, w2, w3

VARIABLE focus

MCInit ==
    /\ focus \in {"bus", "index"}
    /\ BusInit /\ Init

MCNext ==
    \/ focus = "bus" /\ BusNext /\ UNCHANGED <<focus, vars>>
    \/ focus = "index" /\ Next /\ UNCHANGED <<focus, busVars>>

MCSpec == MCInit /\ [][MCNext]_<<focus, busVars, vars>> /\ Fairness
=============================================================================
