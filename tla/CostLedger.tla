----------------------------- MODULE CostLedger -----------------------------
(***************************************************************************)
(* Cost records (finops/reconciliation.py) and the price catalog they are  *)
(* estimated with (pricing/catalog.py), behind the endpoints of            *)
(* api/app.py, which await nothing and so are single steps.  Estimates may *)
(* arrive again or late, after or before the billing truth, and rules may  *)
(* be registered for any date.  Prices are per token; a model stands for a *)
(* provider and a model.  The drift reports are left out.                  *)
(***************************************************************************)
EXTENDS Integers, Sequences, SequencesExt

CONSTANTS
    Models, RequestIds,
    Rules,          \* pricing rules that may be registered
    Usages,         \* token usage of a request, and when it happened
    Bills,          \* amounts a billing source reports
    MaxRules        \* bound on registered rules

ASSUME LedgerAssumption ==
    /\ \A r \in Rules : r.model \in Models /\ r.from \in Nat
    /\ \A u \in Usages : u.model \in Models /\ u.at \in Nat

VARIABLES
    rules,      \* _rules
    records,    \* _records, NoRecord if absent
    billed      \* history: the last bill that was accepted, NotBilled if none

ledgerVars == <<rules, records, billed>>

NotBilled == -1
NoRecord == [model |-> "none", synthetic |-> 0, reconciled |-> NotBilled]
NoRule == [model |-> "none", from |-> -1, input |-> 0, cached |-> 0, output |-> 0, base |-> 0]

LedgerInit ==
    /\ rules = <<>>
    /\ records = [i \in RequestIds |-> NoRecord]
    /\ billed = [i \in RequestIds |-> NotBilled]

\* register_rule: the sort is stable, so a rule comes after its equals, before
\* the first of its model with a later date.  Only the order of the rules of
\* one model matters.
RegisterRule(r) ==
    LET Later(i) == rules[i].model = r.model /\ rules[i].from > r.from
    IN  /\ Len(rules) < MaxRules
        /\ \E n \in 1 .. Len(rules) + 1 :
              /\ n <= Len(rules) => Later(n)
              /\ \A i \in 1 .. n - 1 : ~Later(i)
              /\ rules' = InsertAt(rules, n, r)
        /\ UNCHANGED <<records, billed>>

\* The positions of the rules of a model that are in force.
Candidates(m, at) == {i \in DOMAIN rules : rules[i].model = m /\ rules[i].from <= at}

\* Mutant: the last candidate of the sorted list.
ResolveLast(m, at) ==
    LET c == Candidates(m, at)
    IN  IF c = {} THEN NoRule ELSE rules[CHOOSE i \in c : \A j \in c : j <= i]

\* _resolve_rule: max gives the first of equal candidates.
Resolve(m, at) ==
    LET c == Candidates(m, at)
        Precedes(i, j) == rules[i].from > rules[j].from \/ (rules[i].from = rules[j].from /\ i <= j)
    IN  IF c = {} THEN NoRule ELSE rules[CHOOSE i \in c : \A j \in c : Precedes(i, j)]

\* estimate, once a rule is found: cached tokens are no more than the input, and
\* cost what input costs if the rule (of Rules) has no price of their own.
Estimate(u) ==
    LET r == Resolve(u.model, u.at)
        read == IF u.cached < u.input THEN u.cached ELSE u.input
    IN  (u.input - read) * r.input + read * r.cached + u.output * r.output + r.base

\* Mutant: the record is replaced.
UpsertReplaces(rec, model, cost) == [NoRecord EXCEPT !.model = model, !.synthetic = cost]

\* upsert_synthetic: an existing record keeps what billing said.
Upsert(rec, model, cost) == [rec EXCEPT !.model = model, !.synthetic = cost]

\* POST /v1/finops/synthetic with the usage, or with a cost; without a rule for
\* the usage it answers 422 and records nothing.
Synthetic(i, u) ==
    /\ u.cost # NotBilled \/ Resolve(u.model, u.at) # NoRule
    /\ records' = [records EXCEPT ![i] =
                      Upsert(@, u.model, IF u.cost # NotBilled THEN u.cost ELSE Estimate(u))]
    /\ UNCHANGED <<rules, billed>>

\* POST /v1/finops/reconcile; 404 if there is no estimate yet.
Reconcile(i, amount) ==
    /\ records[i] # NoRecord
    /\ records' = [records EXCEPT ![i].reconciled = amount]
    /\ billed' = [billed EXCEPT ![i] = amount]
    /\ UNCHANGED rules

LedgerNext ==
    \/ \E r \in Rules : RegisterRule(r)
    \/ \E i \in RequestIds : \/ \E u \in Usages : Synthetic(i, u)
                             \/ \E a \in Bills : Reconcile(i, a)

LedgerSpec == LedgerInit /\ [][LedgerNext]_ledgerVars

-----------------------------------------------------------------------------

\* A request that billing has confirmed stays confirmed at the amount billed
\* last, also when its estimate is delivered again or corrected afterwards,
\* for another model or under newer prices.
BillingTruthStays ==
    \A i \in RequestIds : billed[i] # NotBilled =>
        records[i] # NoRecord /\ records[i].reconciled = billed[i]

\* Registering a rule changes the price of a model at some time only where the
\* new rule is in force from a later date than the one used so far: prices
\* before that date, and those of a date that has a rule already, stay.
PastPricesStable ==
    [][\A u \in Usages : Resolve(u.model, u.at)' # Resolve(u.model, u.at) =>
          Resolve(u.model, u.at)'.from > Resolve(u.model, u.at).from]_ledgerVars
=============================================================================
