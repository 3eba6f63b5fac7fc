-------------------------- MODULE MCReconciliation --------------------------
(***************************************************************************)
(* The contexts of a TLC instance of Reconciliation: they combine a few    *)
(* inputs of every method for two or three owners: none, one, competing    *)
(* ones, equal ones, and values at the limits of windows and thresholds.   *)
(* Curves are fitted for R2 or for R5 and R6, the others are those of the  *)
(* warm start.                                                             *)
(***************************************************************************)
EXTENDS Reconciliation

Event(d, t) == [delta |-> d, target |-> t]
Events == {<<>>, <<Event(301, "a")>>, <<Event(300, "a")>>, <<Event(150, "a")>>,
           <<Event(30, "a"), Event(60, "b")>>, <<Event(60, "b"), Event(60, "a"), Event(300, "a")>>}

Name(t, r, c, o) == [target |-> t, ratio |-> r, contained |-> c, overlap |-> o]
Names == {<<>>, <<Name("a", 390, FALSE, 0)>>, <<Name("a", 390, FALSE, 100)>>,
          <<Name("b", 600, TRUE, 500), Name("a", 800, FALSE, 0)>>, <<Name("c", 950, TRUE, 1000)>>}

Past(t, c) == [target |-> t, conf |-> c]
Histories == {<<>>, <<Past("a", 900), Past("a", 900)>>, <<Past("a", 0), Past("b", 0), Past("a", 0)>>,
              <<Past("a", 500), Past("b", 900), Past("a", 500), Past("b", 100)>>,
              <<Past("c", 900), Past("b", 900), Past("b", 800), Past("b", 950)>>}

Aged(t, d) == [target |-> t, age |-> d]
Accounts == {[deploys |-> <<>>, code |-> <<>>, users |-> <<>>],
             [deploys |-> <<Aged("a", 31)>>, code |-> <<>>, users |-> <<Aged("b", 30), Aged("c", 1)>>],
             [deploys |-> <<Aged("b", 9), Aged("a", 2)>>, code |-> <<"b", "a">>, users |-> <<Aged("b", 40)>>],
             [deploys |-> <<Aged("a", 30)>>, code |-> <<"a", "a">>, users |-> <<Aged("a", 0)>>],
             [deploys |-> <<>>, code |-> <<"b", "a">>, users |-> <<Aged("a", 0)>>]}

AllShares == {[t \in {} |-> 0], [t \in {"a"} |-> 5], [t \in {"a", "b", "c"} |-> IF t = "c" THEN 3 ELSE 2],
              [t \in {"a", "b", "c"} |-> IF t = "b" THEN 0 ELSE 1]}

Mappings == {{}, {[target |-> "a", exact |-> TRUE]}, {[target |-> "b", exact |-> FALSE]}}

FitR2 == [m \in {"R2"} |-> <<<<0, 0>>, <<700, 300>>, <<1000, 950>>>>]
FitR5R6 == [m \in {"R5", "R6"} |-> <<<<0, 0>>, <<300, 900>>, <<1000, 950>>>>]

MCContexts ==
    {[mapping |-> m, events |-> e, names |-> n, history |-> h, deploys |-> a.deploys,
      code |-> a.code, users |-> a.users, shares |-> s, fits |-> f] :
        m \in Mappings, e \in Events, n \in Names, h \in Histories, a \in Accounts, s \in AllShares,
        f \in {FitR2, FitR5R6}}
=============================================================================
