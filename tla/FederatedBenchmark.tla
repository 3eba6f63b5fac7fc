------------------------- MODULE FederatedBenchmark -------------------------
(***************************************************************************)
(* FederatedBenchmarkProtocol (benchmark/federated.py): threads publish    *)
(* benchmarks of cohorts and spend the privacy budgets of their members.   *)
(* Only the check and the spending are under a lock.  publish_benchmark    *)
(* works on the list of the cohort, not on a copy, so that what other      *)
(* threads append to it appears in its loops; create_cohort puts a new     *)
(* list in its place.  One metric and one period; the values, their        *)
(* clipping and the noise are left out.                                    *)
(***************************************************************************)
EXTENDS Integers, Sequences, SequencesExt

CONSTANTS
    Orgs, Cohorts, Publishers,
    MinCohort,      \* min_cohort_size
    Epsilon,        \* epsilon_per_release
    Quarterly,      \* epsilon_total_quarterly
    MaxLists, MaxMembers, MaxSpent   \* bounds: lists, members of a list, charges

ASSUME BenchmarkAssumption ==
    /\ {MinCohort, Epsilon, Quarterly} \subseteq Nat \ {0}
    /\ {MaxLists, MaxMembers, MaxSpent} \subseteq Nat
    /\ "free" \notin Publishers

VARIABLES
    lists,      \* the membership lists that exist, by identity
    cohort,     \* cohorts: the number of a cohort's list, 0 if it has none
    joining,    \* joins between the search of the list and the append
    submitted,  \* organizations with a metric for the period
    consumed,   \* budget_consumed
    stage,      \* stage[p]: how far p is in publish_benchmark
    pub,        \* pub[p]: what p publishes: cohort, its list, organizations used
    position,   \* position[p]: place in the loop that charges the members
    paid,       \* history: paid[p]: the organizations charged so far
    lock,       \* _budget_lock: who holds it
    raced       \* history: organizations whose join met a release or another join

benchmarkVars ==
    <<lists, cohort, joining, submitted, consumed, stage, pub, position, paid, lock, raced>>

pubVars == <<stage, pub, position, paid>>

NoPub == [cohort |-> "none", list |-> 0, used |-> {}]

BenchmarkInit ==
    /\ lists = <<>> /\ cohort = [c \in Cohorts |-> 0]
    /\ joining = {} /\ submitted = {} /\ raced = {}
    /\ consumed = [o \in Orgs |-> 0]
    /\ stage = [p \in Publishers |-> "idle"] /\ pub = [p \in Publishers |-> NoPub]
    /\ position = [p \in Publishers |-> 0] /\ paid = [p \in Publishers |-> {}]
    /\ lock = "free"

CreateCohort(c) ==
    /\ Len(lists) < MaxLists
    /\ lists' = Append(lists, <<>>)
    /\ cohort' = [cohort EXCEPT ![c] = Len(lists) + 1]
    /\ UNCHANGED <<joining, submitted, consumed, pubVars, lock, raced>>

\* join_cohort: the cohort exists and the organization is not a member yet.
Join(o, c) ==
    /\ cohort[c] # 0
    /\ o \notin ToSet(lists[cohort[c]])
    /\ joining' = joining \cup {[org |-> o, list |-> cohort[c]]}
    /\ UNCHANGED <<lists, cohort, submitted, consumed, pubVars, lock, raced>>

\* The append of join_cohort, with no lock.
JoinAppends(j) ==
    /\ j \in joining
    /\ Len(lists[j.list]) < MaxMembers
    /\ lists' = [lists EXCEPT ![j.list] = Append(@, j.org)]
    /\ joining' \in {joining \ {j}, joining}      \* one of one or of two callers
    /\ raced' = IF j.org \in ToSet(lists[j.list])
                   \/ \E p \in Publishers : stage[p] = "charges" /\ pub[p].list = j.list
                THEN raced \cup {j.org} ELSE raced
    /\ UNCHANGED <<cohort, submitted, consumed, pubVars, lock>>

SubmitMetric(o) ==
    /\ submitted' = submitted \cup {o}
    /\ UNCHANGED <<lists, cohort, joining, consumed, pubVars, lock, raced>>

\* publish_benchmark up to the lock, unless it is suppressed.
Gather(p, c) ==
    LET members == lists[cohort[c]]
        used == ToSet(members) \cap submitted
    IN  /\ stage[p] = "idle"
        /\ cohort[c] # 0
        /\ Len(members) >= MinCohort /\ used # {}
        /\ stage' = [stage EXCEPT ![p] = "waits"]
        /\ pub' = [pub EXCEPT ![p] = [cohort |-> c, list |-> cohort[c], used |-> used]]
        /\ UNCHANGED <<lists, cohort, joining, submitted, consumed, position, paid, lock, raced>>

\* Mutant: the check is made without the lock.
AcquireNothing(p) == lock' = lock

Acquire(p) == lock = "free" /\ lock' = p

\* Every member can still pay.
CheckBudgets(p) ==
    /\ stage[p] = "waits"
    /\ \A o \in ToSet(lists[pub[p].list]) : consumed[o] + Epsilon <= Quarterly
    /\ Acquire(p)
    /\ stage' = [stage EXCEPT ![p] = "charges"]
    /\ position' = [position EXCEPT ![p] = 1]
    /\ UNCHANGED <<lists, cohort, joining, submitted, consumed, pub, paid, raced>>

\* PrivacyBudgetExhaustedError; the lock is taken and given back.
Exhausted(p) ==
    /\ stage[p] = "waits" /\ lock = "free"
    /\ \E o \in ToSet(lists[pub[p].list]) : consumed[o] + Epsilon > Quarterly
    /\ stage' = [stage EXCEPT ![p] = "idle"] /\ pub' = [pub EXCEPT ![p] = NoPub]
    /\ UNCHANGED <<lists, cohort, joining, submitted, consumed, position, paid, lock, raced>>

\* Mutant: the members are looked up again.
MembersAgain(p) == lists[cohort[pub[p].cohort]]

\* The list the publication started with.
Members(p) == lists[pub[p].list]

\* One round of the loop that updates the budgets.
Charge(p) ==
    /\ stage[p] = "charges" /\ position[p] <= Len(Members(p))
    /\ LET o == Members(p)[position[p]]
       IN  /\ consumed[o] < MaxSpent
           /\ consumed' = [consumed EXCEPT ![o] = @ + Epsilon]
           /\ paid' = [paid EXCEPT ![p] = @ \cup {o}]
    /\ position' = [position EXCEPT ![p] = @ + 1]
    /\ UNCHANGED <<lists, cohort, joining, submitted, stage, pub, lock, raced>>

\* The loop is over and the benchmark is returned.
Release(p) ==
    /\ stage[p] = "charges" /\ position[p] > Len(Members(p))
    /\ stage' = [stage EXCEPT ![p] = "idle"] /\ pub' = [pub EXCEPT ![p] = NoPub]
    /\ position' = [position EXCEPT ![p] = 0] /\ paid' = [paid EXCEPT ![p] = {}]
    /\ lock' = "free"
    /\ UNCHANGED <<lists, cohort, joining, submitted, consumed, raced>>

\* reset_quarterly_budgets, with no lock.
ResetBudgets ==
    /\ consumed' = [o \in Orgs |-> 0]
    /\ UNCHANGED <<lists, cohort, joining, submitted, pubVars, lock, raced>>

BenchmarkNext ==
    \/ \E c \in Cohorts : CreateCohort(c) \/ \E o \in Orgs : Join(o, c)
    \/ \E j \in joining : JoinAppends(j)
    \/ \E o \in Orgs : SubmitMetric(o)
    \/ \E p \in Publishers : \/ \E c \in Cohorts : Gather(p, c)
                             \/ CheckBudgets(p) \/ Exhausted(p) \/ Charge(p) \/ Release(p)
    \/ ResetBudgets

BenchmarkSpec == BenchmarkInit /\ [][BenchmarkNext]_benchmarkVars

-----------------------------------------------------------------------------

\* Publications of cohorts that share members never spend more of a budget
\* together than a quarter allows, except of an organization that joined while
\* a release of the list was being charged, or joined the same list twice at
\* once: neither is checked ("Check privacy budgets atomically with updates").
OverrunOnlyByRacingJoin ==
    \A o \in Orgs : consumed[o] > Quarterly => o \in raced

\* No benchmark is returned before everyone whose value is in it has paid for
\* it, also if the cohort is created again or the quarter ends meanwhile.
EveryContributorPays ==
    [][\A p \in Publishers : stage[p] = "charges" /\ stage'[p] = "idle" =>
          pub[p].used \subseteq paid[p]]_benchmarkVars
=============================================================================
