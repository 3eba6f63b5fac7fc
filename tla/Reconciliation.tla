--------------------------- MODULE Reconciliation ---------------------------
(***************************************************************************)
(* HeuristicReconciliationEngine.resolve on a cache miss (hre/engine.py):  *)
(* the methods R1 to R6 (hre/methods.py), the combination of evidence      *)
(* (hre/combination.py), and the calibration and tier of the result        *)
(* (confidence/calibration.py).  The clock is read twice, before the       *)
(* clusters of signals are formed and before each of them is combined; the *)
(* budget may turn out to be exceeded at any of these reads.               *)
(*                                                                         *)
(* Confidences are in thousandths, combined ones in ten-thousandths (the   *)
(* precision combine_evidence rounds to); times are in seconds and ages in *)
(* days.  How similar two names are is an input, and so are the curves     *)
(* that corrections have fitted by the time the result is calibrated.      *)
(***************************************************************************)
EXTENDS Integers, FiniteSetsExt, SequencesExt

CONSTANTS
    Contexts,      \* the ReconciliationContexts to resolve
    MaxClusters,   \* max_cluster_targets
    MaxHistory     \* max_historical_signals

\* A curve of _fit_isotonic or _fit_bootstrap, in thousandths: the tail anchors
\* stretch it over all confidences, and it rises, by y_max not above the cap.
IsFitted(curve) ==
    /\ curve \in Seq((0 .. 1000) \X (0 .. 950)) /\ Len(curve) > 1
    /\ curve[1][1] = 0 /\ curve[Len(curve)][1] = 1000
    /\ \A i \in 1 .. Len(curve) - 1 : curve[i][1] < curve[i + 1][1] /\ curve[i][2] <= curve[i + 1][2]

ASSUME ReconciliationAssumption ==
    /\ {MaxClusters, MaxHistory} \subseteq Nat \ {0}
    /\ \A c \in Contexts :
          /\ c.events \in Seq([delta : Nat, target : STRING])
          /\ c.names \in Seq([target : STRING, ratio : 0 .. 1000, contained : BOOLEAN, overlap : 0 .. 1000])
          /\ c.history \in Seq([target : STRING, conf : Nat])
          /\ c.deploys \in Seq([target : STRING, age : Int])
          /\ c.code \in Seq(STRING)
          /\ c.users \in Seq([target : STRING, age : Int])
          /\ IsFiniteSet(DOMAIN c.shares) /\ c.shares \in [DOMAIN c.shares -> Nat]
          /\ DOMAIN c.fits \subseteq {"R1", "R2", "R3", "R4", "R5", "R6"}
          /\ \A m \in DOMAIN c.fits : IsFitted(c.fits[m])

VARIABLES
    ctx,       \* the context, with the fitted curves
    phase,     \* where resolve is
    signals,   \* probabilistic_signals
    todo,      \* the clusters the loop has still to combine
    best,      \* best_cluster, 0 if none, and best_confidence
    result,
    late       \* history: the loop over the clusters was left early

resolveVars == <<ctx, phase, signals, todo, best, result, late>>

MaxWindow == 300              \* max_window_seconds of R2
Lookback == 30               \* lookback of R5
Cap == 9500                  \* CombinationConfig.cap
Chargeback == 8000           \* chargeback_threshold
Provisional == 5000          \* provisional_threshold

Unresolved == "unresolved"

Rounded(n, d) == (2 * n + d) \div (2 * d)

Signal(method, target, conf) == [method |-> method, target |-> target, conf |-> conf]

\* The position of the first maximum of f, as Python's max and a strict > find it.
FirstMax(f) == CHOOSE i \in DOMAIN f : \A j \in DOMAIN f : f[j] < f[i] \/ (f[j] = f[i] /\ i <= j)

-----------------------------------------------------------------------------
(* The methods.  Each gives the set of signals it may return.              *)

\* The target and whether the identifier matched exactly or only normalized.
R1(c) == {Signal("R1", m.target, IF m.exact THEN 1000 ELSE 980) : m \in c.mapping}

\* The nearest event of the window, less 0.15 for every competing one.
R2(c) ==
    LET near == {i \in DOMAIN c.events : c.events[i].delta <= MaxWindow}
        nearest == c.events[FirstMax([i \in near |-> -c.events[i].delta])]
        base == Max({400 * MaxWindow, 1000 * (MaxWindow - nearest.delta)})
        conf == IF Cardinality(near) = 1 THEN base
                ELSE Max({300 * MaxWindow, base - 150 * MaxWindow * (Cardinality(near) - 1)})
    IN  IF near = {} THEN {} ELSE {Signal("R2", nearest.target, Rounded(conf, MaxWindow))}

\* Similarity with a bonus for containment and one for shared tokens.
Similarity(n) ==
    LET contained == IF n.contained THEN Min({1000, n.ratio + 150}) ELSE n.ratio
    IN  Min({1000, contained + Rounded(n.overlap, 10)})

R3(c) ==
    LET score == [i \in DOMAIN c.names |-> Similarity(c.names[i])]
        i == FirstMax(score)
    IN  IF c.names = <<>> \/ score[i] < 400 THEN {}
        ELSE {Signal("R3", c.names[i].target, Min({900, Rounded(9 * score[i], 10)}))}

\* The sum of f over a set.
Total(f, S) == MapThenSumSet(LAMBDA x : f[x], S)

\* The team with most of the weighted history, if there are three entries.
R4(c) ==
    LET past == SubSeq(c.history, Max({1, Len(c.history) - MaxHistory + 1}), Len(c.history))
        conf == [j \in DOMAIN past |-> past[j].conf]
        Of(i) == {j \in DOMAIN past : past[j].target = past[i].target}
        i == FirstMax([k \in DOMAIN past |-> Total(conf, Of(k))])
        total == Total(conf, DOMAIN past)
        dominance == IF total = 0 THEN 0 ELSE Rounded(700 * Total(conf, Of(i)), total)
    IN  IF Len(past) < 3 THEN {}
        ELSE {Signal("R4", past[i].target, Min({850, dominance + 20 * Min({10, Cardinality(Of(i))})}))}

\* The latest deployer, the code owners and the recent users; the first to
\* enter the dict of scores wins a tie, and users come from a set.
R5(c) ==
    LET deployer == IF c.deploys = <<>> THEN <<>>
                    ELSE LET d == c.deploys[FirstMax([i \in DOMAIN c.deploys |-> -c.deploys[i].age])]
                         IN  IF d.age <= Lookback THEN <<d.target>> ELSE <<>>
        users == {u.target : u \in {u \in ToSet(c.users) : u.age <= Lookback}}
        n == Max({1, Cardinality(users)})
        entered == deployer \o c.code
        owners == ToSet(entered) \cup users
        Score(o) == (IF o \in ToSet(deployer) THEN 350 * n ELSE 0)
                    + 250 * n * Cardinality({i \in DOMAIN c.code : c.code[i] = o})
                    + (IF o \in users THEN 150 ELSE 0)
        top == {o \in owners : \A p \in owners : Score(p) <= Score(o)}
        First(o) == o \notin ToSet(entered) \/
                    \E i \in DOMAIN entered : entered[i] = o /\ \A j \in 1 .. i - 1 : entered[j] \notin top
        winners == IF top \cap ToSet(entered) = {} THEN top
                   ELSE {o \in top \cap ToSet(entered) : First(o)}
    IN  {Signal("R5", o, Min({750, Rounded(Score(o), n)})) : o \in winners}

\* The share of every team with a positive weight.
R6(c) ==
    LET teams == {t \in DOMAIN c.shares : c.shares[t] > 0}
        total == Total(c.shares, teams)
    IN  {Signal("R6", t, Min({650, Rounded(300 * total + 400 * c.shares[t], total)})) : t \in teams}

-----------------------------------------------------------------------------
(* combine_evidence, for the signals at the positions I.                   *)

\* DEFAULT_CORRELATED_PAIRS, in tenths; 10 for independent methods.
Discount(a, b) ==
    CASE {a, b} = {"R3", "R4"} -> 5
      [] {a, b} = {"R2", "R5"} -> 4
      [] {a, b} = {"R4", "R5"} -> 3
      [] OTHER -> 10

\* Mutant: the discount goes to the stronger signal of the pair.
WeightStronger(s, I, i) ==
    Min({10} \cup {Discount(s[i].method, s[j].method) :
                        j \in {j \in I : s[j].conf < s[i].conf \/ (s[j].conf = s[i].conf /\ j < i)}})

\* The weaker signal of a correlated pair is discounted, the earlier on a tie.
Weight(s, I, i) ==
    Min({10} \cup {Discount(s[i].method, s[j].method) :
                        j \in {j \in I : s[i].conf < s[j].conf \/ (s[i].conf = s[j].conf /\ i < j)}})

\* The place of a signal in the stable sort by descending confidence.
Rank(s, I, i) == Cardinality({j \in I : s[j].conf > s[i].conf \/ (s[j].conf = s[i].conf /\ j <= i)})

\* The third signal counts half, and every later one half of the one before;
\* in quarters, enough for the four probabilistic methods.
Diminished(rank) == IF rank <= 2 THEN 4 ELSE IF rank = 3 THEN 2 ELSE 1

Strongest(s, I) == Max({s[i].conf : i \in I})

\* Noisy-OR of the effective confidences, and the cap.  The product is rounded to
\* four digits at every factor (exact, it would not fit TLC's integers) where the
\* code rounds at the end: the last digit may differ by two.
Combine(s, I) ==
    LET Factor(i) == 40000 - s[i].conf * Weight(s, I, i) * Diminished(Rank(s, I, i))
        left[n \in 0 .. Len(s)] ==
            IF n = 0 THEN 10000
            ELSE IF n \in I THEN Rounded(left[n - 1] * Factor(n), 40000) ELSE left[n - 1]
    IN  Min({Cap, IF Cardinality(I) = 1 THEN 10 * Strongest(s, I) ELSE 10000 - left[Len(s)]})

-----------------------------------------------------------------------------
(* calibrate and the tiers.                                                *)

\* WARM_START_CURVES, in thousandths.
WarmStart ==
    [R1 |-> <<<<0, 0>>, <<500, 500>>, <<900, 920>>, <<980, 980>>, <<1000, 1000>>>>,
     R2 |-> <<<<0, 0>>, <<300, 220>>, <<500, 400>>, <<700, 580>>, <<900, 820>>, <<1000, 900>>>>,
     R3 |-> <<<<0, 0>>, <<300, 180>>, <<500, 350>>, <<700, 520>>, <<900, 750>>, <<1000, 850>>>>,
     R4 |-> <<<<0, 0>>, <<300, 200>>, <<500, 380>>, <<700, 550>>, <<900, 780>>, <<1000, 880>>>>,
     R5 |-> <<<<0, 0>>, <<300, 150>>, <<500, 300>>, <<700, 480>>, <<900, 680>>, <<1000, 750>>>>,
     R6 |-> <<<<0, 0>>, <<300, 120>>, <<500, 250>>, <<700, 400>>, <<900, 580>>, <<1000, 650>>>>]

\* _interpolate, for a value in ten-thousandths.  The ends of the curves are
\* the ends of the range of confidences.
Interpolate(curve, value) ==
    LET i == Min({i \in 1 .. Len(curve) - 1 : value <= 10 * curve[i + 1][1]})
        run == curve[i + 1][1] - curve[i][1]
        rise == curve[i + 1][2] - curve[i][2]
    IN  10 * curve[i][2] + ((value - 10 * curve[i][1]) * rise) \div run

\* Mutant: the raw confidence is used unless there is a fitted curve.
CalibrateRaw(fits, method, conf) ==
    IF method \in DOMAIN fits THEN Interpolate(fits[method], conf) ELSE conf

\* The curve that corrections have fitted for the method, or the warm start.
Calibrate(fits, method, conf) ==
    Interpolate(IF method \in DOMAIN fits THEN fits[method] ELSE WarmStart[method], conf)

Tier(conf) ==
    IF conf >= Chargeback THEN "chargeback_ready"
    ELSE IF conf >= Provisional THEN "provisional" ELSE "estimated"

-----------------------------------------------------------------------------
(* resolve.                                                                *)

NoResult == [target |-> Unresolved, methods |-> {}, conf |-> 0, tier |-> "estimated", how |-> "none"]

NoBest == [first |-> 0, conf |-> 0]

\* The result of _build_result, calibrated by the method of the primary signal.
\* (The processor calibrates it; the curves are those of that moment.)
Result(primary, methods, conf, how) ==
    [target |-> primary.target, methods |-> methods, conf |-> conf,
     tier |-> Tier(Calibrate(ctx.fits, primary.method, conf)), how |-> how]

\* _cluster_by_target: the signals for one target, at their positions.  The
\* first of them names the cluster, and is the primary signal of its result.
ClusterOf(s, i) == {j \in DOMAIN s : s[j].target = s[i].target}

Clusters(s) == {i \in DOMAIN s : \A j \in 1 .. i - 1 : s[j].target # s[i].target}

\* The order of the clusters by their strongest signal.
Above(s, i, j) ==
    LET a == Strongest(s, ClusterOf(s, i))
        b == Strongest(s, ClusterOf(s, j))
    IN  a > b \/ (a = b /\ i <= j)

\* The clusters to combine: the first ones of this order, or all that there are.
Ranked(s) == {i \in Clusters(s) : Cardinality({j \in Clusters(s) : Above(s, j, i)}) <= MaxClusters}

\* They are combined in this order if there are too many, otherwise as they came.
Sooner(s, i, j) == IF Cardinality(Clusters(s)) > MaxClusters THEN Above(s, i, j) ELSE i <= j

Combined(i) == Combine(signals, ClusterOf(signals, i))

ResolveInit ==
    /\ ctx \in Contexts
    /\ phase = "start"
    /\ signals = <<>> /\ todo = {} /\ best = NoBest /\ result = NoResult
    /\ late = FALSE

Done(r) == phase' = "done" /\ result' = r /\ UNCHANGED <<ctx, signals, todo, best, late>>

\* A normalized match is good enough too: R1 never joins the other signals.
DirectMatch ==
    /\ phase = "start"
    /\ \E s \in R1(ctx) : Done(Result(s, {"R1"}, 10 * s.conf, "direct"))

Collect ==
    /\ phase = "start"
    /\ R1(ctx) = {}
    /\ \E r5 \in IF R5(ctx) = {} THEN {<<>>} ELSE {<<s>> : s \in R5(ctx)} :
          LET Maybe(S) == IF S = {} THEN <<>> ELSE <<CHOOSE x \in S : TRUE>>
          IN  signals' = Maybe(R2(ctx)) \o Maybe(R3(ctx)) \o Maybe(R4(ctx)) \o r5
    /\ phase' = IF signals' = <<>> THEN "fallback" ELSE "collected"
    /\ UNCHANGED <<ctx, todo, best, result, late>>

\* _timeboxed_fallback: the budget was exceeded before clustering.
Timebox ==
    /\ phase = "collected"
    /\ LET s == signals[FirstMax([i \in DOMAIN signals |-> signals[i].conf])]
       IN  Done(Result(s, {s.method}, 9 * s.conf, "timeboxed"))

Cluster ==
    /\ phase = "collected"
    /\ todo' = Ranked(signals)
    /\ phase' = "loop"
    /\ UNCHANGED <<ctx, signals, best, result, late>>

\* Mutant: the last cluster combined wins.
BetterAny(conf) == TRUE

Better(conf) == conf > best.conf

Consider ==
    /\ phase = "loop"
    /\ \E i \in todo :
          /\ \A j \in todo : Sooner(signals, i, j)
          /\ best' = IF Better(Combined(i)) THEN [first |-> i, conf |-> Combined(i)] ELSE best
          /\ todo' = todo \ {i}
    /\ UNCHANGED <<ctx, phase, signals, result, late>>

\* The loop breaks when the budget is exceeded.
OutOfTime ==
    /\ phase = "loop"
    /\ todo # {}
    /\ todo' = {} /\ late' = TRUE
    /\ UNCHANGED <<ctx, phase, signals, best, result>>

Choose ==
    /\ phase = "loop" /\ todo = {}
    /\ IF best.conf > 0
       THEN Done(Result(signals[best.first], {signals[j].method : j \in ClusterOf(signals, best.first)},
                        best.conf, "combined"))
       ELSE phase' = "fallback" /\ UNCHANGED <<ctx, signals, todo, best, result, late>>

\* R6, or no resolution at all.
Fallback ==
    /\ phase = "fallback"
    /\ IF R6(ctx) = {} THEN Done(NoResult)
       ELSE LET s == CHOOSE s \in R6(ctx) : \A x \in R6(ctx) : x.conf <= s.conf
            IN  Done(Result(s, {"R6"}, 10 * s.conf, "proportional"))

ResolveNext ==
    DirectMatch \/ Collect \/ Timebox \/ Cluster \/ Consider \/ OutOfTime \/ Choose \/ Fallback

ResolveSpec == ResolveInit /\ [][ResolveNext]_resolveVars

-----------------------------------------------------------------------------

Distinct(s, I) == \A i, j \in I : s[i].conf = s[j].conf => i = j

\* Correlated or repeated evidence may add little, but it takes nothing away
\* from the strongest signal: the combination of a cluster whose confidences
\* differ is at least its strongest one, up to the cap.  (With ties the
\* discounts of a chain of correlated methods can go below it.)
StrongestSurvives ==
    LET cluster == ClusterOf(signals, best.first)
    IN  best.conf > 0 /\ Distinct(signals, cluster) =>
            best.conf >= Min({Cap, 10 * Strongest(signals, cluster)})

Evidence == \E i \in DOMAIN signals : signals[i].conf > 0

\* While max_resolve_ms lasts, evidence decides: if any of R2 to R5 found an
\* owner, the result is the combination of the best of the clusters that are
\* kept, in whatever order they are combined, and never the share of R6 nor
\* "unresolved".
EvidenceDecides ==
    phase = "done" /\ ~late /\ result.how # "timeboxed" /\ Evidence =>
        /\ result.how = "combined"
        /\ result.conf = Max({Combined(i) : i \in Ranked(signals)})

\* Until corrections have refitted their curves, allocations by proportion are
\* never more than estimates, and a service account resolved by R5 alone is never
\* ready for chargeback.  (A fitted curve may lift either of them to any tier.)
GuessesStayEstimates ==
    /\ result.how = "proportional" /\ "R6" \notin DOMAIN ctx.fits => result.tier = "estimated"
    /\ result.methods = {"R5"} /\ "R5" \notin DOMAIN ctx.fits => result.tier # "chargeback_ready"
=============================================================================
