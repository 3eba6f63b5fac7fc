--------------------------- MODULE ServicesProofs ---------------------------
(***************************************************************************)
(* Four services that share no state: shadow warming, the federated        *)
(* benchmark, the cost ledger and HTTP ingestion.  For any tasks,          *)
(* organizations, cohorts, pods, requests and bounds: a workload is        *)
(* refreshed once at a time and no sooner than its interval, privacy       *)
(* budgets are charged to everyone who contributed and overrun only by a   *)
(* join that raced, billing truth survives late estimates, a new price     *)
(* leaves past invoices alone, both rate limiters keep their bounds, the   *)
(* answer to a batch tells what reached the bus, and production ingests    *)
(* nothing unguarded.                                                      *)
(***************************************************************************)
EXTENDS ShadowWarmer, FederatedBenchmark, CostLedger, Ingestion,
        FiniteSetTheorems, SequenceTheorems, TLAPS

-----------------------------------------------------------------------------
(* Numbers and sequences.                                                  *)

\* A nonempty set of naturals has a least element.  Induction over naturals is
\* done by the least counterexample.
LEMMA LeastNumber ==
  ASSUME NEW T \in SUBSET Nat, T # {}
  PROVE  \E x \in T : \A y \in T : x <= y
<1>1. PICK R : IsWellFoundedOn(R, Nat) /\ \A x, y \in Nat : <<y, x>> \in R <=> y < x
  <2>1. \A x, y \in Nat : <<y, x>> \in OpToRel(<, Nat) <=> y < x
    BY DEF OpToRel
  <2> QED
    BY <2>1, NatLessThanWellFounded
<1>2. PICK x \in T : \A y \in T : ~(<<y, x>> \in R)
  BY <1>1, WFMin
<1>3. \A y \in T : ~(y < x)
  BY <1>1, <1>2
<1>4. x \in Nat /\ \A y \in T : y \in Nat
  OBVIOUS
<1>5. \A y \in T : x <= y
  BY <1>3, <1>4
<1> QED
  BY <1>5

\* A set of positions with bounded integer values has a first of the largest.
LEMMA FirstOfLargest ==
  ASSUME NEW S \in SUBSET Nat, S # {}, NEW f \in [S -> Int], NEW b \in Int,
         \A i \in S : f[i] <= b
  PROVE  \E i \in S : \A j \in S : f[i] > f[j] \/ (f[i] = f[j] /\ i <= j)
<1> DEFINE T == {b - f[i] : i \in S}
<1>1. T \in SUBSET Nat /\ T # {}
  <2>1. \A i \in S : b - f[i] \in Nat
    OBVIOUS
  <2> QED
    BY <2>1
<1>2. PICK x \in T : \A y \in T : x <= y
  <2> HIDE DEF T
  <2> QED
    BY <1>1, LeastNumber
<1> DEFINE U == {i \in S : f[i] = b - x}
<1>3. x \in Int /\ \A i \in S : f[i] \in Int /\ f[i] <= b - x
  <2>1. x \in Int
    BY <1>1, <1>2
  <2>2. \A i \in S : f[i] \in Int /\ x <= b - f[i]
    BY <1>2
  <2> QED
    BY <2>1, <2>2
<1>4. U \in SUBSET Nat /\ U # {}
  <2>1. PICK i \in S : x = b - f[i]
    BY <1>2
  <2>2. f[i] = b - x
    BY <1>3, <2>1
  <2> QED
    BY <2>2
<1>5. PICK i \in U : \A j \in U : i <= j
  <2> HIDE DEF U
  <2> QED
    BY <1>4, LeastNumber
<1>6. i \in S /\ f[i] = b - x
  BY <1>5
<1>7. ASSUME NEW j \in S PROVE f[i] > f[j] \/ (f[i] = f[j] /\ i <= j)
  BY <1>3, <1>5, <1>6
<1> QED
  BY <1>6, <1>7

\* A sequence with an element entered at position n, and one without it.
LEMMA InsertAtFacts ==
    ASSUME NEW S, NEW s \in Seq(S), NEW n \in 1 .. Len(s) + 1, NEW e \in S
    PROVE  /\ InsertAt(s, n, e) \in Seq(S)
           /\ Len(InsertAt(s, n, e)) = Len(s) + 1
           /\ InsertAt(s, n, e)[n] = e
           /\ \A i \in 1 .. Len(s) : InsertAt(s, n, e)[IF i < n THEN i ELSE i + 1] = s[i]
<1> DEFINE a == SubSeq(s, 1, n - 1)
           b == SubSeq(s, n, Len(s))
           m == <<e>>
<1>0. Len(s) \in Nat /\ n \in Nat /\ n >= 1 /\ n <= Len(s) + 1 /\ \A i \in 1 .. Len(s) : s[i] \in S
  OBVIOUS
<1>1. /\ a \in Seq(S) /\ Len(a) = n - 1
      /\ \A i \in 1 .. n - 1 : a[i] = s[i]
  BY <1>0
<1>2. /\ b \in Seq(S) /\ Len(b) = Len(s) + 1 - n
      /\ \A i \in 1 .. Len(s) + 1 - n : b[i] = s[n + i - 1]
  OBVIOUS
<1>3. InsertAt(s, n, e) = a \o m \o b /\ m \in Seq(S) /\ Len(m) = 1 /\ m[1] = e
  BY DEF InsertAt
<1> DEFINE c == a \o m
<1> HIDE DEF a, b, m
<1>4. /\ c \in Seq(S) /\ Len(c) = n /\ c[n] = e
      /\ \A i \in 1 .. n - 1 : c[i] = s[i]
  <2>1. /\ c \in Seq(S) /\ Len(c) = Len(a) + Len(m)
        /\ \A i \in 1 .. Len(a) + Len(m) : c[i] = IF i <= Len(a) THEN a[i] ELSE m[i - Len(a)]
    BY <1>1, <1>3, ConcatProperties
  <2>2. Len(a) + Len(m) = n /\ n - Len(a) = 1
    BY <1>0, <1>1, <1>3
  <2> QED
    BY <1>0, <1>1, <1>3, <2>1, <2>2
<1> HIDE DEF c
<1> DEFINE d == c \o b
<1>5. /\ d \in Seq(S) /\ Len(d) = Len(s) + 1
      /\ \A i \in 1 .. Len(s) + 1 : d[i] = IF i <= n THEN c[i] ELSE b[i - n]
  <2>1. /\ d \in Seq(S) /\ Len(d) = Len(c) + Len(b)
        /\ \A i \in 1 .. Len(c) + Len(b) : d[i] = IF i <= Len(c) THEN c[i] ELSE b[i - Len(c)]
    BY <1>2, <1>4, ConcatProperties
  <2>2. Len(c) + Len(b) = Len(s) + 1
    BY <1>0, <1>2, <1>4
  <2> QED
    BY <1>4, <2>1, <2>2
<1>6. InsertAt(s, n, e) = d
  BY <1>3 DEF c
<1> HIDE DEF d
<1>7. ASSUME NEW i \in 1 .. Len(s)
      PROVE  d[IF i < n THEN i ELSE i + 1] = s[i]
  <2>1. CASE i < n
    BY <1>0, <1>4, <1>5, <2>1
  <2>2. CASE ~(i < n)
    <3>1. i + 1 \in 1 .. Len(s) + 1 /\ ~(i + 1 <= n) /\ (i + 1) - n \in 1 .. Len(s) + 1 - n
      BY <1>0, <2>2
    <3>2. d[i + 1] = b[(i + 1) - n]
      BY <1>5, <3>1
    <3>3. b[(i + 1) - n] = s[n + ((i + 1) - n) - 1] /\ n + ((i + 1) - n) - 1 = i
      BY <1>0, <1>2, <3>1
    <3> QED
      BY <2>2, <3>2, <3>3
  <2> QED
    BY <2>1, <2>2
<1>8. d[n] = e
  BY <1>0, <1>4, <1>5
<1> QED
  BY <1>5, <1>6, <1>7, <1>8

LEMMA RemoveAtFacts ==
    ASSUME NEW S, NEW s \in Seq(S), NEW n \in 1 .. Len(s)
    PROVE  /\ RemoveAt(s, n) \in Seq(S)
           /\ Len(RemoveAt(s, n)) = Len(s) - 1
           /\ \A j \in 1 .. Len(s) - 1 : RemoveAt(s, n)[j] = s[IF j < n THEN j ELSE j + 1]
<1> DEFINE a == SubSeq(s, 1, n - 1)
           b == SubSeq(s, n + 1, Len(s))
<1>0. Len(s) \in Nat /\ n \in Nat /\ n >= 1 /\ n <= Len(s) /\ \A i \in 1 .. Len(s) : s[i] \in S
  OBVIOUS
<1>1. /\ a \in Seq(S) /\ Len(a) = n - 1
      /\ \A i \in 1 .. n - 1 : a[i] = s[i]
  BY <1>0
<1>2. /\ b \in Seq(S) /\ Len(b) = Len(s) - n
      /\ \A i \in 1 .. Len(s) - n : b[i] = s[n + i]
  OBVIOUS
<1>3. RemoveAt(s, n) = a \o b
  BY DEF RemoveAt
<1> HIDE DEF a, b
<1>4. /\ a \o b \in Seq(S)
      /\ Len(a \o b) = Len(a) + Len(b)
      /\ \A i \in 1 .. Len(a) + Len(b) : (a \o b)[i] = IF i <= Len(a) THEN a[i] ELSE b[i - Len(a)]
  BY <1>1, <1>2, ConcatProperties
<1>5. Len(a) + Len(b) = Len(s) - 1
  BY <1>0, <1>1, <1>2
<1>6. ASSUME NEW j \in 1 .. Len(s) - 1
      PROVE  (a \o b)[j] = s[IF j < n THEN j ELSE j + 1]
  <2>1. CASE j < n
    BY <1>0, <1>1, <1>4, <1>5, <2>1
  <2>2. CASE ~(j < n)
    <3>1. (a \o b)[j] = b[j - (n - 1)] /\ j - (n - 1) \in 1 .. Len(s) - n
      BY <1>0, <1>1, <1>4, <1>5, <2>2
    <3>2. b[j - (n - 1)] = s[n + (j - (n - 1))] /\ n + (j - (n - 1)) = j + 1
      BY <1>0, <1>2, <3>1
    <3> QED
      BY <2>2, <3>1, <3>2
  <2> QED
    BY <2>1, <2>2
<1> QED
  BY <1>3, <1>4, <1>5, <1>6

-----------------------------------------------------------------------------
(* Shadow warming.                                                         *)

\* The task is between the start of its refresh and the end of its finally.
Active(t) == task[t].does \in {"refreshes", "leaves"}

WarmerTypes ==
    /\ inProgress \subseteq Workloads
    /\ task \in [Tasks -> [does : {"nothing", "asked", "refreshes", "leaves"},
                           id : Workloads \cup {"none"}]]
    /\ \A t \in Tasks : task[t].does # "nothing" => task[t].id \in Workloads

\* in_progress is exactly what the active tasks refresh, one of them each.
Marks ==
    /\ \A t \in Tasks : Active(t) => task[t].id \in inProgress
    /\ \A t, u \in Tasks : Active(t) /\ Active(u) /\ task[t].id = task[u].id => t = u
    /\ \A w \in inProgress : \E t \in Tasks : Active(t) /\ task[t].id = w

WarmerInv == WarmerTypes /\ Marks

-----------------------------------------------------------------------------

LEMMA InitWarmerInv == WarmerInit => WarmerInv
  BY DEF WarmerInit, WarmerInv, WarmerTypes, Marks, Active, Idle

LEMMA WarmerStep ==
  ASSUME WarmerInv, [WarmerNext]_warmerVars
  PROVE  WarmerInv'
<1>0. WarmerTypes /\ Marks
  BY DEF WarmerInv
<1>1. ASSUME NEW t \in Tasks, NEW w \in Workloads, ShouldTrigger(t, w)
      PROVE  WarmerInv'
  <2>1. /\ inProgress' = inProgress /\ ~Active(t)
        /\ task' = [task EXCEPT ![t] = [does |-> "asked", id |-> w]]
    BY <1>1 DEF ShouldTrigger, Idle, Active
  <2> QED
    BY <1>0, <2>1 DEF WarmerInv, WarmerTypes, Marks, Active
<1>2. ASSUME NEW t \in Tasks, Trigger(t), task[t].id \in inProgress
      PROVE  WarmerInv'
  <2>1. /\ inProgress' = inProgress /\ ~Active(t)
        /\ task' = [task EXCEPT ![t] = Idle]
    BY <1>2 DEF Trigger, Free, Active
  <2> QED
    BY <1>0, <2>1 DEF WarmerInv, WarmerTypes, Marks, Active, Idle
<1>3. ASSUME NEW t \in Tasks, Trigger(t), task[t].id \notin inProgress
      PROVE  WarmerInv'
  <2>1. /\ inProgress' = inProgress \cup {task[t].id} /\ task[t].does = "asked"
        /\ task' = [task EXCEPT ![t] = [task[t] EXCEPT !.does = "refreshes"]]
    BY <1>3 DEF Trigger, Free
  <2>2. /\ task'[t].does = "refreshes" /\ task'[t].id = task[t].id
        /\ \A u \in Tasks : u # t => task'[u] = task[u]
    BY <1>0, <2>1 DEF WarmerTypes
  <2>3. WarmerTypes'
    BY <1>0, <2>1, <2>2 DEF WarmerTypes
  <2>4. Marks'
    BY <1>0, <1>3, <2>1, <2>2 DEF Marks, Active
  <2> QED
    BY <2>3, <2>4 DEF WarmerInv
<1>4. ASSUME NEW t \in Tasks, Refreshed(t)
      PROVE  WarmerInv'
  <2>1. /\ inProgress' = inProgress /\ task[t].does = "refreshes"
        /\ task' = [task EXCEPT ![t].does = "leaves"]
    BY <1>4 DEF Refreshed
  <2>2. /\ task'[t].does = "leaves" /\ task'[t].id = task[t].id
        /\ \A u \in Tasks : u # t => task'[u] = task[u]
    BY <1>0, <2>1 DEF WarmerTypes
  <2>3. WarmerTypes'
    BY <1>0, <2>1, <2>2 DEF WarmerTypes
  <2>4. Marks'
    BY <1>0, <2>1, <2>2 DEF Marks, Active
  <2> QED
    BY <2>3, <2>4 DEF WarmerInv
<1>5. ASSUME NEW t \in Tasks, Discard(t)
      PROVE  WarmerInv'
  <2>1. /\ inProgress' = inProgress \ {task[t].id} /\ Active(t)
        /\ task' = [task EXCEPT ![t] = Idle]
    BY <1>5 DEF Discard, Active
  <2>2. WarmerTypes'
    BY <1>0, <2>1 DEF WarmerTypes, Idle
  <2>3. Marks'
    BY <1>0, <2>1 DEF Marks, Active, Idle, WarmerTypes
  <2> QED
    BY <2>2, <2>3 DEF WarmerInv
<1>6. ASSUME MonotonicTick \/ UNCHANGED warmerVars
      PROVE  WarmerInv'
  BY <1>0, <1>6 DEF MonotonicTick, warmerVars, WarmerInv, WarmerTypes, Marks, Active
<1> QED
  BY <1>1, <1>2, <1>3, <1>4, <1>5, <1>6 DEF WarmerNext

\* At most one of the tasks told to refresh a workload refreshes it at a time,
\* and in_progress names it until the finally clause: however many misses
\* passed should_trigger_refresh before the first of them started.
THEOREM OneRefresh == WarmerSpec => []OneRefreshAtATime
<1>1. ASSUME WarmerInv
      PROVE  OneRefreshAtATime
  <2> SUFFICES ASSUME NEW w \in Workloads
               PROVE  Cardinality({t \in Tasks : Active(t) /\ task[t].id = w})
                        = IF w \in inProgress THEN 1 ELSE 0
    BY DEF OneRefreshAtATime, Active
  <2>1. Marks
    BY <1>1 DEF WarmerInv
  <2>2. CASE w \in inProgress
    <3>1. PICK t \in Tasks : Active(t) /\ task[t].id = w
      BY <2>1, <2>2 DEF Marks
    <3>2. {u \in Tasks : Active(u) /\ task[u].id = w} = {t}
      BY <2>1, <3>1 DEF Marks
    <3> QED
      BY <2>2, <3>2, FS_Singleton
  <2>3. CASE w \notin inProgress
    <3>1. {u \in Tasks : Active(u) /\ task[u].id = w} = {}
      BY <2>1, <2>3 DEF Marks
    <3> QED
      BY <2>3, <3>1, FS_EmptySet
  <2> QED
    BY <2>2, <2>3
<1> QED
  BY <1>1, InitWarmerInv, WarmerStep, PTL DEF WarmerSpec

-----------------------------------------------------------------------------
(* The bounded map of refreshes.                                           *)

Refresh == [id : Workloads, at : Nat]

\* A dict has one entry of a key.
OneEntryEach(e) == \A k, l \in 1 .. Len(e) : e[k].id = e[l].id => k = l

\* The other workloads that were refreshed since refresh number i of f.
Since(f, i) == {f[j].id : j \in i + 1 .. Len(f)} \ {f[i].id}

MapTypes ==
    /\ monotonic \in Nat
    /\ finished \in Seq(Refresh)
    /\ \A i \in 1 .. Len(finished) : finished[i].at <= monotonic
    /\ lastRefresh \in Seq(Refresh) /\ Len(lastRefresh) <= MaxTracked
    /\ OneEntryEach(lastRefresh)

\* The entries are in the order of the last refresh of their workloads: those
\* after an entry belong to workloads refreshed after its own.
InOrder(f, e) ==
    \A i \in 1 .. Len(f), k, l \in 1 .. Len(e) :
        f[i].id = e[k].id /\ k < l => \E j \in i + 1 .. Len(f) : f[j].id = e[l].id

\* A refresh is remembered, by its own time or a later one, unless as many other
\* workloads as the map holds were refreshed since.
NotForgotten(f, e) ==
    \A i \in 1 .. Len(f) :
        \/ \E k \in 1 .. Len(e) : e[k].id = f[i].id /\ e[k].at >= f[i].at
        \/ Cardinality(Since(f, i)) >= MaxTracked

MapInv == MapTypes /\ InOrder(finished, lastRefresh) /\ NotForgotten(finished, lastRefresh)

-----------------------------------------------------------------------------

\* new has the entries of e, in their order, but for one of w, if any.
Without(e, w, rest) ==
    /\ rest \in Seq(Refresh) /\ Len(rest) <= Len(e)
    /\ \A j \in 1 .. Len(rest) : rest[j].id # w
    /\ \A j, l \in 1 .. Len(rest) : j < l =>
          \E x, y \in 1 .. Len(e) : x < y /\ rest[j] = e[x] /\ rest[l] = e[y]
    /\ \A x \in 1 .. Len(e) : e[x].id # w =>
          \E j \in 1 .. Len(rest) : /\ rest[j] = e[x]
                                    /\ \A l \in 1 .. Len(rest) : j < l => \E y \in 1 .. Len(e) : x < y /\ rest[l] = e[y]
    /\ OneEntryEach(rest)

\* Popping an entry keeps the order of the others.
LEMMA PoppedFacts ==
  ASSUME NEW e \in Seq(Refresh), OneEntryEach(e), NEW w
  PROVE  Without(e, w, IF Places(e, w) = {} THEN e ELSE RemoveAt(e, CHOOSE i \in Places(e, w) : TRUE))
<1>0. Len(e) \in Nat /\ DOMAIN e = 1 .. Len(e)
  OBVIOUS
<1>1. CASE Places(e, w) = {}
  <2>1. \A j \in 1 .. Len(e) : e[j].id # w
    BY <1>0, <1>1 DEF Places
  <2> QED
    BY <1>0, <1>1, <2>1 DEF Without, OneEntryEach
<1>2. CASE Places(e, w) # {}
  <2> DEFINE p == CHOOSE i \in Places(e, w) : TRUE
             rest == RemoveAt(e, p)
  <2>1. p \in 1 .. Len(e) /\ e[p].id = w
    BY <1>0, <1>2 DEF Places
  <2> HIDE DEF p
  <2>2. /\ rest \in Seq(Refresh)
        /\ Len(rest) = Len(e) - 1
        /\ \A j \in 1 .. Len(e) - 1 : rest[j] = e[IF j < p THEN j ELSE j + 1]
    BY <2>1, RemoveAtFacts
  <2> HIDE DEF rest
  <2>3. ASSUME NEW j \in 1 .. Len(rest)
        PROVE  /\ (IF j < p THEN j ELSE j + 1) \in 1 .. Len(e) /\ (IF j < p THEN j ELSE j + 1) # p
               /\ rest[j] = e[IF j < p THEN j ELSE j + 1]
    BY <1>0, <2>1, <2>2
  <2>4. ASSUME NEW j \in 1 .. Len(rest) PROVE rest[j].id # w
    BY <2>1, <2>3 DEF OneEntryEach
  <2>5. ASSUME NEW j \in 1 .. Len(rest), NEW l \in 1 .. Len(rest), j < l
        PROVE  \E x, y \in 1 .. Len(e) : x < y /\ rest[j] = e[x] /\ rest[l] = e[y]
    <3>1. (IF j < p THEN j ELSE j + 1) < (IF l < p THEN l ELSE l + 1)
      BY <1>0, <2>1, <2>2, <2>5
    <3> QED
      BY <2>3, <3>1
  <2>6. ASSUME NEW x \in 1 .. Len(e), e[x].id # w
        PROVE  \E j \in 1 .. Len(rest) :
                  /\ rest[j] = e[x]
                  /\ \A l \in 1 .. Len(rest) : j < l => \E y \in 1 .. Len(e) : x < y /\ rest[l] = e[y]
    <3> DEFINE j == IF x < p THEN x ELSE x - 1
    <3>1. j \in 1 .. Len(rest) /\ (IF j < p THEN j ELSE j + 1) = x
      BY <1>0, <2>1, <2>2, <2>6
    <3> HIDE DEF j
    <3>2. ASSUME NEW l \in 1 .. Len(rest), j < l PROVE \E y \in 1 .. Len(e) : x < y /\ rest[l] = e[y]
      <4>1. x < IF l < p THEN l ELSE l + 1
        BY <1>0, <2>1, <2>2, <3>1, <3>2
      <4> QED
        BY <2>3, <4>1
    <3> QED
      BY <2>3, <3>1, <3>2
  <2>7. OneEntryEach(rest)
    <3> SUFFICES ASSUME NEW j \in 1 .. Len(rest), NEW l \in 1 .. Len(rest), rest[j].id = rest[l].id
                 PROVE  j = l
      BY DEF OneEntryEach
    <3>1. (IF j < p THEN j ELSE j + 1) = (IF l < p THEN l ELSE l + 1)
      BY <2>3 DEF OneEntryEach
    <3> QED
      BY <1>0, <2>1, <2>2, <3>1
  <2>8. Len(rest) <= Len(e)
    BY <1>0, <2>2
  <2>9. Without(e, w, rest)
    BY <2>2, <2>4, <2>5, <2>6, <2>7, <2>8 DEF Without
  <2> QED
    BY <1>2, <2>9 DEF rest, p
<1> QED
  BY <1>1, <1>2

-----------------------------------------------------------------------------
\* What recording a refresh of w does to the map.
Recorded(e, w, time, new) ==
    /\ new \in Seq(Refresh) /\ Len(new) >= 1 /\ Len(new) <= MaxTracked
    /\ new[Len(new)] = [id |-> w, at |-> time]
    /\ OneEntryEach(new)
    /\ \A j, l \in 1 .. Len(new) : j < l /\ l < Len(new) =>
          \E x, y \in 1 .. Len(e) : x < y /\ new[j] = e[x] /\ new[l] = e[y]
    /\ \A x \in 1 .. Len(e) : e[x].id # w =>
          \/ \E j \in 1 .. Len(new) : new[j] = e[x]
          \/ /\ Len(new) = MaxTracked
             /\ \A l \in 1 .. Len(new) : l < Len(new) => \E y \in 1 .. Len(e) : x < y /\ new[l] = e[y]

\* Record enters the workload at the end and drops the head of a map too long.
LEMMA RecordFacts ==
  ASSUME NEW e \in Seq(Refresh), OneEntryEach(e), Len(e) <= MaxTracked,
         NEW w \in Workloads, NEW time \in Nat
  PROVE  Recorded(e, w, time, Record(e, w, time))
<1> DEFINE rest == IF Places(e, w) = {} THEN e ELSE RemoveAt(e, CHOOSE i \in Places(e, w) : TRUE)
           one == [id |-> w, at |-> time]
           all == Append(rest, one)
<1>1. Without(e, w, rest)
  BY PoppedFacts
<1>2. Record(e, w, time) = IF Len(all) > MaxTracked THEN Tail(all) ELSE all
  BY DEF Record
<1> HIDE DEF rest
<1>3. /\ MaxTracked \in Nat /\ MaxTracked >= 1 /\ Len(e) \in Nat /\ rest \in Seq(Refresh)
      /\ Len(rest) \in Nat /\ Len(rest) <= MaxTracked /\ one \in Refresh /\ one.id = w
  BY <1>1, WarmerAssumption DEF Without, Refresh
<1> HIDE DEF one
<1>4. /\ all \in Seq(Refresh) /\ Len(all) = Len(rest) + 1 /\ all[Len(rest) + 1] = one
      /\ \A j \in 1 .. Len(rest) : all[j] = rest[j]
  BY <1>3, AppendProperties
<1> HIDE DEF all
<1>5. OneEntryEach(all)
  <2> SUFFICES ASSUME NEW j \in 1 .. Len(all), NEW l \in 1 .. Len(all), all[j].id = all[l].id
               PROVE  j = l
    BY DEF OneEntryEach
  <2>1. OneEntryEach(rest) /\ \A k \in 1 .. Len(rest) : rest[k].id # w
    BY <1>1 DEF Without
  <2>2. \A k \in 1 .. Len(all) : k = Len(rest) + 1 \/ k \in 1 .. Len(rest)
    BY <1>3, <1>4
  <2> QED
    BY <1>3, <1>4, <2>1, <2>2 DEF OneEntryEach
<1>6. CASE Len(rest) < MaxTracked
  <2>1. Record(e, w, time) = all
    BY <1>2, <1>3, <1>4, <1>6
  <2>2. \A j, l \in 1 .. Len(all) : j < l /\ l < Len(all) =>
          \E x, y \in 1 .. Len(e) : x < y /\ all[j] = e[x] /\ all[l] = e[y]
    <3> TAKE j, l \in 1 .. Len(all)
    <3> HAVE j < l /\ l < Len(all)
    <3>1. j \in 1 .. Len(rest) /\ l \in 1 .. Len(rest)
      BY <1>3, <1>4
    <3>2. \E x, y \in 1 .. Len(e) : x < y /\ rest[j] = e[x] /\ rest[l] = e[y]
      BY <1>1, <3>1 DEF Without
    <3> QED
      BY <1>4, <3>1, <3>2
  <2>3. \A x \in 1 .. Len(e) : e[x].id # w => \E j \in 1 .. Len(all) : all[j] = e[x]
    BY <1>1, <1>3, <1>4 DEF Without
  <2>4. Len(all) >= 1 /\ Len(all) <= MaxTracked /\ all[Len(all)] = one
    BY <1>3, <1>4, <1>6
  <2>5. Recorded(e, w, time, all)
    BY <1>4, <1>5, <2>2, <2>3, <2>4 DEF Recorded, one
  <2> QED
    BY <2>1, <2>5
<1>7. CASE Len(rest) = MaxTracked
  <2> DEFINE new == Tail(all)
  <2>1. Record(e, w, time) = new
    BY <1>2, <1>3, <1>4, <1>7
  <2>2. /\ new \in Seq(Refresh) /\ Len(new) = Len(rest)
        /\ \A j \in 1 .. Len(rest) : new[j] = all[j + 1]
    <3>1. all # <<>>
      BY <1>3, <1>4
    <3>2. new \in Seq(Refresh) /\ Len(new) = Len(all) - 1 /\ \A j \in 1 .. Len(new) : new[j] = all[j + 1]
      BY <1>4, <3>1, HeadTailProperties
    <3> QED
      BY <1>3, <1>4, <3>2
  <2> HIDE DEF new
  <2>3. new[Len(new)] = one
    BY <1>3, <1>4, <1>7, <2>2
  <2>4. OneEntryEach(new)
    <3> SUFFICES ASSUME NEW j \in 1 .. Len(new), NEW l \in 1 .. Len(new), new[j].id = new[l].id
                 PROVE  j = l
      BY DEF OneEntryEach
    <3>1. j + 1 \in 1 .. Len(all) /\ l + 1 \in 1 .. Len(all) /\ new[j] = all[j + 1] /\ new[l] = all[l + 1]
      BY <1>3, <1>4, <2>2
    <3>2. j + 1 = l + 1
      BY <1>5, <3>1 DEF OneEntryEach
    <3> QED
      BY <1>3, <2>2, <3>2
  <2>5. ASSUME NEW j \in 1 .. Len(new), j < Len(new)
        PROVE  j \in Nat /\ j + 1 \in 1 .. Len(rest) /\ new[j] = rest[j + 1]
    <3>1. j \in Nat /\ j + 1 \in 1 .. Len(rest) /\ j \in 1 .. Len(rest)
      BY <1>3, <2>2, <2>5
    <3>2. new[j] = all[j + 1]
      BY <2>2, <3>1
    <3> QED
      BY <1>4, <3>1, <3>2
  <2>6. \A j, l \in 1 .. Len(new) : j < l /\ l < Len(new) =>
          \E x, y \in 1 .. Len(e) : x < y /\ new[j] = e[x] /\ new[l] = e[y]
    <3> TAKE j, l \in 1 .. Len(new)
    <3> HAVE j < l /\ l < Len(new)
    <3>0. j \in Nat /\ l \in Nat /\ Len(new) \in Nat /\ j < Len(new) /\ j + 1 < l + 1
      BY <1>3, <2>2
    <3>1. /\ j + 1 \in 1 .. Len(rest) /\ l + 1 \in 1 .. Len(rest) /\ j + 1 < l + 1
          /\ new[j] = rest[j + 1] /\ new[l] = rest[l + 1]
      BY <3>0, <2>5
    <3>2. ASSUME NEW a \in 1 .. Len(rest), NEW b \in 1 .. Len(rest), a < b
          PROVE  \E x, y \in 1 .. Len(e) : x < y /\ rest[a] = e[x] /\ rest[b] = e[y]
      BY <1>1, <3>2 DEF Without
    <3> HIDE DEF Without
    <3>3. \E x, y \in 1 .. Len(e) : x < y /\ rest[j + 1] = e[x] /\ rest[l + 1] = e[y]
      BY <3>1, <3>2
    <3> QED
      BY <3>1, <3>3
  <2>7. ASSUME NEW x \in 1 .. Len(e), e[x].id # w
        PROVE  \/ \E j \in 1 .. Len(new) : new[j] = e[x]
               \/ /\ Len(new) = MaxTracked
                  /\ \A l \in 1 .. Len(new) : l < Len(new) => \E y \in 1 .. Len(e) : x < y /\ new[l] = e[y]
    <3>1. PICK j \in 1 .. Len(rest) :
             /\ rest[j] = e[x]
             /\ \A l \in 1 .. Len(rest) : j < l => \E y \in 1 .. Len(e) : x < y /\ rest[l] = e[y]
      BY <1>1, <2>7 DEF Without
    <3>2. CASE j = 1
      <4>1. ASSUME NEW l \in 1 .. Len(new), l < Len(new)
            PROVE  \E y \in 1 .. Len(e) : x < y /\ new[l] = e[y]
        <5>1. l + 1 \in 1 .. Len(rest) /\ j < l + 1 /\ new[l] = rest[l + 1]
          BY <1>3, <2>2, <2>5, <3>2, <4>1
        <5> QED
          BY <3>1, <5>1
      <4> QED
        BY <1>7, <2>2, <4>1
    <3>3. CASE j # 1
      <4>1. j - 1 \in 1 .. Len(new) /\ j - 1 < Len(new) /\ (j - 1) + 1 = j
        BY <1>3, <2>2, <3>3
      <4>2. new[j - 1] = rest[(j - 1) + 1]
        BY <2>5, <4>1
      <4> QED
        BY <3>1, <4>1, <4>2
    <3> QED
      BY <3>2, <3>3
  <2> QED
    BY <1>3, <1>7, <2>1, <2>2, <2>3, <2>4, <2>6, <2>7 DEF Recorded, one
<1> QED
  BY <1>3, <1>6, <1>7

-----------------------------------------------------------------------------
\* The refreshes since one of them are finitely many, and become more.
LEMMA SinceGrows ==
  ASSUME NEW f \in Seq(Refresh), NEW r \in Refresh, NEW i \in 1 .. Len(f)
  PROVE  /\ IsFiniteSet(Since(Append(f, r), i)) /\ Cardinality(Since(f, i)) \in Nat
         /\ Cardinality(Since(Append(f, r), i)) \in Nat
         /\ Cardinality(Since(f, i)) <= Cardinality(Since(Append(f, r), i))
<1> DEFINE g == Append(f, r)
           S == i + 1 .. Len(g)
           h == [j \in S |-> g[j].id]
           T == {g[j].id : j \in S}
<1>1. /\ g \in Seq(Refresh) /\ Len(g) = Len(f) + 1 /\ Len(f) \in Nat /\ i \in Nat
      /\ \A j \in 1 .. Len(f) : g[j] = f[j]
  BY AppendProperties
<1> HIDE DEF g
<1>2. h \in Surjection(S, T)
  BY DEF Surjection
<1>3. IsFiniteSet(S)
  BY <1>1, FS_Interval
<1>4. IsFiniteSet(T)
  BY <1>2, <1>3, FS_Surjection
<1>5. Since(g, i) \in SUBSET T
  BY DEF Since
<1>6. IsFiniteSet(Since(g, i))
  BY <1>4, <1>5, FS_Subset
<1>7. Since(f, i) \in SUBSET Since(g, i)
  <2>1. ASSUME NEW j \in i + 1 .. Len(f) PROVE f[j].id \in T
    <3>1. j \in S /\ g[j] = f[j]
      BY <1>1
    <3> QED
      BY <3>1
  <2>2. g[i] = f[i]
    BY <1>1
  <2> QED
    BY <2>1, <2>2 DEF Since
<1>8. IsFiniteSet(Since(f, i)) /\ Cardinality(Since(f, i)) <= Cardinality(Since(g, i))
  BY <1>6, <1>7, FS_Subset
<1> QED
  BY <1>6, <1>8, FS_CardinalityType DEF g

\* As many workloads as the map holds entries, after the one of refresh i.
LEMMA SinceFull ==
  ASSUME NEW f \in Seq(Refresh), NEW i \in 1 .. Len(f), NEW new \in Seq(Refresh),
         OneEntryEach(new), IsFiniteSet(Since(f, i)),
         \A l \in 1 .. Len(new) : new[l].id \in Since(f, i)
  PROVE  Cardinality(Since(f, i)) >= Len(new)
<1> DEFINE h == [l \in 1 .. Len(new) |-> new[l].id]
<1>1. h \in Injection(1 .. Len(new), Since(f, i))
  <2>1. h \in [1 .. Len(new) -> Since(f, i)]
    OBVIOUS
  <2>2. \A k, l \in 1 .. Len(new) : h[k] = h[l] => k = l
    BY DEF OneEntryEach
  <2> QED
    BY <2>1, <2>2 DEF Injection, IsInjective
<1>2. Cardinality(1 .. Len(new)) <= Cardinality(Since(f, i))
  BY <1>1, FS_Injection
<1>3. Len(new) \in Nat /\ Cardinality(1 .. Len(new)) = Len(new)
  <2>1. Len(new) \in Nat /\ Len(new) \in Int /\ 1 \in Int
    OBVIOUS
  <2>2. Cardinality(1 .. Len(new)) = IF 1 > Len(new) THEN 0 ELSE Len(new) - 1 + 1
    BY <2>1, FS_Interval
  <2> QED
    BY <2>1, <2>2
<1> QED
  BY <1>2, <1>3, FS_CardinalityType

\* A refresh that is recorded lets the map forget only what it may forget.
LEMMA RefreshNotForgotten ==
  ASSUME NEW f \in Seq(Refresh), NEW e \in Seq(Refresh), NEW time \in Nat, NEW w \in Workloads, NEW new,
         OneEntryEach(e), Recorded(e, w, time, new), InOrder(f, e), NotForgotten(f, e),
         \A i \in 1 .. Len(f) : f[i].at <= time
  PROVE  /\ InOrder(Append(f, [id |-> w, at |-> time]), new)
         /\ NotForgotten(Append(f, [id |-> w, at |-> time]), new)
<1> DEFINE r == [id |-> w, at |-> time]
           g == Append(f, r)
<1>0. /\ r \in Refresh /\ r.id = w /\ r.at = time
      /\ MaxTracked \in Nat /\ Len(f) \in Nat /\ Len(e) \in Nat /\ Len(new) \in Nat
      /\ Len(new) >= 1 /\ new[Len(new)] = r /\ new \in Seq(Refresh) /\ OneEntryEach(new)
  BY WarmerAssumption DEF Refresh, Recorded
<1> HIDE DEF r
<1>1. /\ g \in Seq(Refresh) /\ Len(g) = Len(f) + 1 /\ g[Len(f) + 1] = r
      /\ \A j \in 1 .. Len(f) : g[j] = f[j]
  BY <1>0, AppendProperties
<1>9. ASSUME NEW i \in 1 .. Len(f)
      PROVE  /\ IsFiniteSet(Since(g, i)) /\ Cardinality(Since(f, i)) \in Nat
             /\ Cardinality(Since(g, i)) \in Nat
             /\ Cardinality(Since(f, i)) <= Cardinality(Since(g, i))
  BY <1>0, SinceGrows
<1> HIDE DEF g
\* An entry but the last is an old one of another workload.
<1>2. ASSUME NEW k \in 1 .. Len(new), k < Len(new) PROVE new[k].id # w
  BY <1>0, <1>2 DEF OneEntryEach
<1>3. ASSUME NEW i \in 1 .. Len(f), NEW v, \E j \in i + 1 .. Len(f) : f[j].id = v
      PROVE  \E j \in i + 1 .. Len(g) : g[j].id = v
  <2>1. PICK j \in i + 1 .. Len(f) : f[j].id = v
    BY <1>3
  <2>2. j \in i + 1 .. Len(g) /\ g[j] = f[j]
    BY <1>0, <1>1, <2>1
  <2> QED
    BY <2>1, <2>2
<1>4. ASSUME NEW i \in 1 .. Len(f) PROVE \E j \in i + 1 .. Len(g) : g[j].id = w
  <2>1. Len(f) + 1 \in i + 1 .. Len(g)
    BY <1>0, <1>1
  <2> QED
    BY <1>0, <1>1, <2>1
<1>5. InOrder(g, new)
  <2> SUFFICES ASSUME NEW i \in 1 .. Len(g), NEW k \in 1 .. Len(new), NEW l \in 1 .. Len(new),
                      g[i].id = new[k].id, k < l
               PROVE  \E j \in i + 1 .. Len(g) : g[j].id = new[l].id
    BY DEF InOrder
  <2>1. k < Len(new) /\ new[k].id # w
    BY <1>0, <1>2
  <2>2. i \in 1 .. Len(f) /\ g[i] = f[i]
    BY <1>0, <1>1, <2>1
  <2>3. CASE l = Len(new)
    BY <1>0, <1>4, <2>2, <2>3
  <2>4. CASE l # Len(new)
    <3>1. PICK x \in 1 .. Len(e), y \in 1 .. Len(e) : x < y /\ new[k] = e[x] /\ new[l] = e[y]
      BY <1>0, <2>4 DEF Recorded
    <3>2. \E j \in i + 1 .. Len(f) : f[j].id = e[y].id
      BY <2>2, <3>1 DEF InOrder
    <3>3. \E j \in i + 1 .. Len(g) : g[j].id = e[y].id
      BY <1>3, <2>2, <3>2
    <3> QED
      BY <3>1, <3>3
  <2> QED
    BY <2>3, <2>4
<1>6. NotForgotten(g, new)
  <2> SUFFICES ASSUME NEW i \in 1 .. Len(g)
               PROVE  \/ \E k \in 1 .. Len(new) : new[k].id = g[i].id /\ new[k].at >= g[i].at
                      \/ Cardinality(Since(g, i)) >= MaxTracked
    BY DEF NotForgotten
  <2>1. CASE g[i].id = w
    <3>1. g[i].at <= time /\ g[i].at \in Nat
      <4>1. g[i] \in Refresh
        BY <1>1
      <4>2. CASE i = Len(f) + 1
        BY <1>0, <1>1, <4>1, <4>2 DEF Refresh
      <4>3. CASE i # Len(f) + 1
        <5>1. i \in 1 .. Len(f)
          BY <1>0, <1>1, <4>3
        <5> QED
          BY <1>1, <4>1, <5>1 DEF Refresh
      <4> QED
        BY <4>2, <4>3
    <3>2. Len(new) \in 1 .. Len(new) /\ new[Len(new)].id = g[i].id /\ new[Len(new)].at >= g[i].at
      BY <1>0, <2>1, <3>1
    <3> QED
      BY <3>2
  <2>2. CASE g[i].id # w
    <3>1. i \in 1 .. Len(f) /\ g[i] = f[i]
      BY <1>0, <1>1, <2>2
    <3>2. CASE Cardinality(Since(f, i)) >= MaxTracked
      BY <1>0, <1>9, <3>1, <3>2
    <3>3. ASSUME NEW x \in 1 .. Len(e), e[x].id = f[i].id, e[x].at >= f[i].at
          PROVE  \/ \E k \in 1 .. Len(new) : new[k].id = g[i].id /\ new[k].at >= g[i].at
                 \/ Cardinality(Since(g, i)) >= MaxTracked
      <4>1. CASE \E j \in 1 .. Len(new) : new[j] = e[x]
        BY <3>1, <3>3, <4>1
      <4>2. CASE /\ Len(new) = MaxTracked
                 /\ \A l \in 1 .. Len(new) : l < Len(new) => \E y \in 1 .. Len(e) : x < y /\ new[l] = e[y]
                 /\ ~ \E j \in 1 .. Len(new) : new[j] = e[x]
        <5>1. ASSUME NEW l \in 1 .. Len(new) PROVE new[l].id \in Since(g, i)
          <6>1. CASE l = Len(new)
            <7>1. \E j \in i + 1 .. Len(g) : g[j].id = w
              BY <1>4, <3>1
            <7> QED
              BY <1>0, <2>2, <6>1, <7>1 DEF Since
          <6>2. CASE l # Len(new)
            <7>1. PICK y \in 1 .. Len(e) : x < y /\ new[l] = e[y]
              BY <1>0, <4>2, <6>2
            <7>2. \E j \in i + 1 .. Len(f) : f[j].id = e[y].id
              BY <3>1, <3>3, <7>1 DEF InOrder
            <7>3. \E j \in i + 1 .. Len(g) : g[j].id = e[y].id
              BY <1>3, <3>1, <7>2
            <7>4. e[y].id # g[i].id
              BY <1>0, <3>1, <3>3, <7>1 DEF OneEntryEach
            <7> QED
              BY <7>1, <7>3, <7>4 DEF Since
          <6> QED
            BY <6>1, <6>2
        <5>2. Cardinality(Since(g, i)) >= Len(new)
          BY <1>0, <1>1, <1>9, <3>1, <5>1, SinceFull
        <5> QED
          BY <4>2, <5>2
      <4> QED
        BY <2>2, <3>1, <3>3, <4>1, <4>2 DEF Recorded
    <3> QED
      BY <3>1, <3>2, <3>3 DEF NotForgotten
  <2> QED
    BY <2>1, <2>2
<1> QED
  BY <1>5, <1>6 DEF g, r
LEMMA InitMapInv == WarmerInit => MapInv
<1> SUFFICES ASSUME WarmerInit PROVE MapInv
  OBVIOUS
<1>1. monotonic \in Nat /\ finished = <<>> /\ lastRefresh = <<>>
  BY WarmerAssumption DEF WarmerInit
<1>2. Len(finished) = 0 /\ Len(lastRefresh) = 0 /\ MaxTracked \in Nat
  BY <1>1, WarmerAssumption
<1> QED
  BY <1>1, <1>2 DEF MapInv, MapTypes, InOrder, NotForgotten, OneEntryEach

LEMMA MapStep ==
  ASSUME WarmerInv, MapInv, [WarmerNext]_warmerVars
  PROVE  MapInv'
<1>0. MapTypes /\ InOrder(finished, lastRefresh) /\ NotForgotten(finished, lastRefresh)
  BY DEF MapInv
<1>1. ASSUME NEW t \in Tasks, Refreshed(t)
      PROVE  MapInv'
  <2> DEFINE w == task[t].id
             r == [id |-> w, at |-> monotonic]
  <2>1. /\ lastRefresh' = Record(lastRefresh, w, monotonic)
        /\ finished' = Append(finished, r) /\ monotonic' = monotonic
    BY <1>1 DEF Refreshed
  <2>2. w \in Workloads
    BY <1>1 DEF Refreshed, WarmerInv, WarmerTypes
  <2>3. Recorded(lastRefresh, w, monotonic, lastRefresh')
    BY <1>0, <2>1, <2>2, RecordFacts DEF MapTypes
  <2>4. InOrder(finished', lastRefresh') /\ NotForgotten(finished', lastRefresh')
    BY <1>0, <2>1, <2>2, <2>3, RefreshNotForgotten DEF MapTypes
  <2>5. r \in Refresh /\ r.at = monotonic
    BY <1>0, <2>2 DEF MapTypes, Refresh
  <2> HIDE DEF r
  <2>6. /\ finished' \in Seq(Refresh) /\ Len(finished') = Len(finished) + 1
        /\ finished'[Len(finished) + 1] = r
        /\ \A j \in 1 .. Len(finished) : finished'[j] = finished[j]
    BY <1>0, <2>1, <2>5, AppendProperties DEF MapTypes
  <2>7. ASSUME NEW i \in 1 .. Len(finished') PROVE finished'[i].at <= monotonic
    <3>1. Len(finished) \in Nat /\ monotonic \in Nat
      BY <1>0 DEF MapTypes
    <3>2. i = Len(finished) + 1 \/ i \in 1 .. Len(finished)
      BY <2>6, <3>1
    <3> QED
      BY <1>0, <2>5, <2>6, <3>1, <3>2 DEF MapTypes
  <2> QED
    BY <1>0, <2>1, <2>3, <2>4, <2>6, <2>7 DEF MapInv, MapTypes, Recorded
<1>2. CASE MonotonicTick
  <2>1. /\ monotonic' = monotonic + 1 /\ finished' = finished /\ lastRefresh' = lastRefresh
        /\ monotonic \in Nat
    BY <1>0, <1>2 DEF MonotonicTick, MapTypes
  <2>2. ASSUME NEW i \in 1 .. Len(finished) PROVE finished[i].at <= monotonic + 1
    <3>1. finished[i] \in Refresh /\ finished[i].at <= monotonic
      BY <1>0 DEF MapTypes
    <3> QED
      BY <2>1, <3>1 DEF Refresh
  <2> QED
    BY <1>0, <2>1, <2>2 DEF MapInv, MapTypes
<1>3. CASE UNCHANGED <<monotonic, lastRefresh, finished>>
  BY <1>0, <1>3 DEF MapInv, MapTypes
<1>4. \/ UNCHANGED <<monotonic, lastRefresh, finished>> \/ MonotonicTick
      \/ \E t \in Tasks : Refreshed(t)
  BY DEF WarmerNext, ShouldTrigger, Trigger, Discard, warmerVars
<1> QED
  BY <1>1, <1>2, <1>3, <1>4

\* should_trigger_refresh says yes within min_refresh_interval_s of a refresh of
\* the workload only if shadow_warm_max_tracked_workloads other workloads were
\* refreshed since: popping an entry before it is entered anew keeps the dict
\* in the order of the refreshes, so that the right entry is forgotten.
THEOREM IntervalKept == WarmerSpec => IntervalRespected
<1> DEFINE Told == \A t \in Tasks : task[t] = Idle /\ task'[t].does = "asked" =>
          \A i \in DOMAIN finished :
              finished[i].id = task'[t].id /\ monotonic - finished[i].at < MinInterval =>
                  Cardinality({finished[j].id : j \in i + 1 .. Len(finished)} \ {task'[t].id})
                      >= MaxTracked
<1>1. ASSUME WarmerInv, MapInv, [WarmerNext]_warmerVars PROVE [Told]_warmerVars
  <2> SUFFICES ASSUME NEW t \in Tasks, task[t] = Idle, task'[t].does = "asked",
                      NEW i \in DOMAIN finished, finished[i].id = task'[t].id,
                      monotonic - finished[i].at < MinInterval
               PROVE  Cardinality({finished[j].id : j \in i + 1 .. Len(finished)} \ {task'[t].id})
                        >= MaxTracked
    OBVIOUS
  <2>0. /\ MapTypes /\ NotForgotten(finished, lastRefresh) /\ WarmerTypes
        /\ MinInterval \in Nat /\ MaxTracked \in Nat
    BY <1>1, WarmerAssumption DEF MapInv, WarmerInv
  <2>1. PICK w \in Workloads : ShouldTrigger(t, w)
    <3>1. task' # task /\ task[t].does = "nothing"
      BY DEF Idle
    <3>2. ASSUME NEW u \in Tasks, (\E v \in Workloads : ShouldTrigger(u, v)) \/ Trigger(u) \/ Refreshed(u) \/ Discard(u)
          PROVE  u = t /\ \E v \in Workloads : ShouldTrigger(t, v)
      <4>1. u = t
        BY <2>0, <3>1, <3>2 DEF ShouldTrigger, Trigger, Refreshed, Discard, WarmerTypes
      <4> QED
        BY <3>1, <3>2, <4>1 DEF Trigger, Refreshed, Discard
    <3> QED
      BY <1>1, <3>1, <3>2 DEF WarmerNext, MonotonicTick, warmerVars
  <2>2. task'[t].id = w /\ monotonic - LastRefresh(w) >= MinInterval
    BY <2>0, <2>1 DEF ShouldTrigger, WarmerTypes
  <2>3. i \in 1 .. Len(finished) /\ finished[i] \in Refresh /\ monotonic \in Nat
    BY <2>0 DEF MapTypes
  <2>4. ASSUME NEW k \in 1 .. Len(lastRefresh), lastRefresh[k].id = w
        PROVE  LastRefresh(w) = lastRefresh[k].at /\ lastRefresh[k].at \in Nat
    <3>0. DOMAIN lastRefresh = 1 .. Len(lastRefresh) /\ lastRefresh[k] \in Refresh
      BY <2>0 DEF MapTypes
    <3>1. Places(lastRefresh, w) = {k}
      BY <2>0, <2>4, <3>0 DEF Places, MapTypes, OneEntryEach
    <3> QED
      BY <3>0, <3>1 DEF LastRefresh, Refresh
  <2>5. ~ \E k \in 1 .. Len(lastRefresh) : lastRefresh[k].id = finished[i].id /\ lastRefresh[k].at >= finished[i].at
    BY <2>0, <2>2, <2>3, <2>4 DEF Refresh
  <2>6. Cardinality(Since(finished, i)) >= MaxTracked
    BY <2>0, <2>3, <2>5 DEF NotForgotten
  <2> QED
    BY <2>6 DEF Since
<1>2. WarmerInv /\ MapInv /\ [WarmerNext]_warmerVars => WarmerInv' /\ MapInv'
  BY WarmerStep, MapStep
<1>3. WarmerInit => WarmerInv /\ MapInv
  BY InitWarmerInv, InitMapInv
<1> QED
  BY <1>1, <1>2, <1>3, PTL DEF WarmerSpec, IntervalRespected

-----------------------------------------------------------------------------
(* The federated benchmark.                                                *)

Publications == [cohort : Cohorts \cup {"none"}, list : Nat, used : SUBSET Orgs]

BenchmarkTypes ==
    /\ lists \in Seq(Seq(Orgs))
    /\ cohort \in [Cohorts -> 0 .. Len(lists)]
    /\ joining \subseteq [org : Orgs, list : 1 .. Len(lists)]
    /\ consumed \in [Orgs -> Nat]
    /\ stage \in [Publishers -> {"idle", "waits", "charges"}]
    /\ pub \in [Publishers -> Publications]
    /\ position \in [Publishers -> Nat]
    /\ paid \in [Publishers -> SUBSET Orgs]

\* A publication that gathered its values refers to a list that exists and has
\* all of their organizations: lists only grow.
UsedAreMembers ==
    \A p \in Publishers : stage[p] # "idle" =>
        /\ pub[p].list \in 1 .. Len(lists)
        /\ \A o \in pub[p].used : \E i \in 1 .. Len(Members(p)) : Members(p)[i] = o

\* The members before the position of the loop have paid.
PassedHavePaid ==
    \A p \in Publishers : stage[p] = "charges" =>
        /\ position[p] >= 1 /\ position[p] <= Len(Members(p)) + 1
        /\ \A i \in 1 .. Len(Members(p)) : i < position[p] => Members(p)[i] \in paid[p]

PayInv == BenchmarkTypes /\ UsedAreMembers /\ PassedHavePaid

\* One publication at a time charges.
LockHeld == \A p \in Publishers : stage[p] = "charges" => lock = p

\* An organization is twice in a list only if two of its joins raced.
DuplicatesRaced ==
    \A l \in 1 .. Len(lists) : \A i, j \in 1 .. Len(lists[l]) :
        lists[l][i] = lists[l][j] /\ i # j => lists[l][i] \in raced

\* The members the loop has still to charge can pay, unless their join raced.
RestCanPay ==
    \A p \in Publishers : stage[p] = "charges" =>
        \A i \in 1 .. Len(Members(p)) : i >= position[p] /\ Members(p)[i] \notin raced =>
            consumed[Members(p)[i]] + Epsilon <= Quarterly

BudgetInv == PayInv /\ LockHeld /\ DuplicatesRaced /\ RestCanPay /\ OverrunOnlyByRacingJoin

-----------------------------------------------------------------------------

LEMMA NoPubType == NoPub \in Publications
  BY DEF NoPub, Publications

LEMMA InitPayInv == BenchmarkInit => PayInv
  BY NoPubType DEF BenchmarkInit, PayInv, BenchmarkTypes, UsedAreMembers, PassedHavePaid

LEMMA TypesStep ==
  ASSUME PayInv, [BenchmarkNext]_benchmarkVars
  PROVE  BenchmarkTypes'
<1> USE BenchmarkAssumption
<1>0. BenchmarkTypes /\ UsedAreMembers /\ PassedHavePaid
  BY DEF PayInv
<1>1. ASSUME NEW c \in Cohorts, CreateCohort(c)
      PROVE  BenchmarkTypes'
  BY <1>0, <1>1 DEF CreateCohort, pubVars, BenchmarkTypes
<1>2. ASSUME NEW c \in Cohorts, NEW o \in Orgs, Join(o, c)
      PROVE  BenchmarkTypes'
  BY <1>0, <1>2 DEF Join, pubVars, BenchmarkTypes
<1>3. ASSUME NEW j \in joining, JoinAppends(j)
      PROVE  BenchmarkTypes'
  <2>1. j \in [org : Orgs, list : 1 .. Len(lists)] /\ lists[j.list] \in Seq(Orgs)
    BY <1>0 DEF BenchmarkTypes
  <2>2. lists' \in Seq(Seq(Orgs)) /\ Len(lists') = Len(lists)
    BY <1>0, <1>3, <2>1 DEF JoinAppends, BenchmarkTypes
  <2> QED
    BY <1>0, <1>3, <2>2 DEF JoinAppends, pubVars, BenchmarkTypes
<1>4. ASSUME NEW o \in Orgs, SubmitMetric(o)
      PROVE  BenchmarkTypes'
  BY <1>0, <1>4 DEF SubmitMetric, pubVars, BenchmarkTypes
<1>5. ASSUME NEW p \in Publishers, NEW c \in Cohorts, Gather(p, c)
      PROVE  BenchmarkTypes'
  <2>1. lists[cohort[c]] \in Seq(Orgs) /\ ToSet(lists[cohort[c]]) \subseteq Orgs
    BY <1>0, <1>5 DEF Gather, BenchmarkTypes, ToSet
  <2>2. [cohort |-> c, list |-> cohort[c], used |-> ToSet(lists[cohort[c]]) \cap submitted]
            \in Publications
    BY <1>0, <2>1 DEF BenchmarkTypes, Publications
  <2> QED
    BY <1>0, <1>5, <2>2 DEF Gather, BenchmarkTypes
<1>6. ASSUME NEW p \in Publishers, CheckBudgets(p)
      PROVE  BenchmarkTypes'
  BY <1>0, <1>6 DEF CheckBudgets, BenchmarkTypes
<1>7. ASSUME NEW p \in Publishers, Exhausted(p) \/ Release(p)
      PROVE  BenchmarkTypes'
  <2>1. CASE Exhausted(p)
    BY <1>0, <2>1, NoPubType DEF Exhausted, BenchmarkTypes
  <2>2. CASE Release(p)
    BY <1>0, <2>2, NoPubType DEF Release, BenchmarkTypes
  <2> QED
    BY <1>7, <2>1, <2>2
<1>8. ASSUME NEW p \in Publishers, Charge(p)
      PROVE  BenchmarkTypes'
  <2>1. pub[p].list \in 1 .. Len(lists) /\ position[p] \in Nat /\ position[p] >= 1
    BY <1>0, <1>8 DEF Charge, BenchmarkTypes, UsedAreMembers, PassedHavePaid
  <2>2. Members(p) \in Seq(Orgs)
    BY <1>0, <2>1 DEF Members, BenchmarkTypes
  <2>3. Members(p)[position[p]] \in Orgs
    BY <1>8, <2>1, <2>2 DEF Charge
  <2>4. consumed' \in [Orgs -> Nat]
    BY <1>0, <1>8, <2>3, SMTT(30) DEF Charge, BenchmarkTypes
  <2>5. paid' \in [Publishers -> SUBSET Orgs]
    BY <1>0, <1>8, <2>3 DEF Charge, BenchmarkTypes
  <2>6. position' \in [Publishers -> Nat] /\ UNCHANGED <<lists, cohort, joining, stage, pub>>
    BY <1>0, <1>8 DEF Charge, BenchmarkTypes
  <2> QED
    BY <1>0, <2>4, <2>5, <2>6 DEF BenchmarkTypes
<1>9. ASSUME ResetBudgets \/ UNCHANGED benchmarkVars
      PROVE  BenchmarkTypes'
  BY <1>0, <1>9 DEF ResetBudgets, benchmarkVars, pubVars, BenchmarkTypes
<1> QED
  BY <1>1, <1>2, <1>3, <1>4, <1>5, <1>6, <1>7, <1>8, <1>9 DEF BenchmarkNext
\* No step removes, reorders or shortens a list: what a publication reads twice
\* is the same list with possibly more members.
LEMMA ListsGrow ==
  ASSUME PayInv, [BenchmarkNext]_benchmarkVars
  PROVE  /\ Len(lists) <= Len(lists')
         /\ \A l \in 1 .. Len(lists) :
               /\ Len(lists[l]) <= Len(lists'[l])
               /\ \A i \in 1 .. Len(lists[l]) : lists'[l][i] = lists[l][i]
<1>0. BenchmarkTypes
  BY DEF PayInv
<1>1. ASSUME NEW c \in Cohorts, CreateCohort(c)
      PROVE  /\ Len(lists) <= Len(lists')
             /\ \A l \in 1 .. Len(lists) : lists'[l] = lists[l]
  BY <1>0, <1>1 DEF CreateCohort, BenchmarkTypes
<1>2. ASSUME NEW j \in joining, JoinAppends(j)
      PROVE  /\ Len(lists) <= Len(lists')
             /\ \A l \in 1 .. Len(lists) :
                   /\ Len(lists[l]) <= Len(lists'[l])
                   /\ \A i \in 1 .. Len(lists[l]) : lists'[l][i] = lists[l][i]
  <2>1. j.list \in 1 .. Len(lists) /\ j.org \in Orgs
    BY <1>0 DEF BenchmarkTypes
  <2>2. lists' = [lists EXCEPT ![j.list] = Append(lists[j.list], j.org)]
    BY <1>2 DEF JoinAppends
  <2>3. Len(lists') = Len(lists)
    BY <1>0, <2>1, <2>2 DEF BenchmarkTypes
  <2>4. ASSUME NEW l \in 1 .. Len(lists)
        PROVE  /\ Len(lists[l]) <= Len(lists'[l])
               /\ \A i \in 1 .. Len(lists[l]) : lists'[l][i] = lists[l][i]
    <3>1. lists[l] \in Seq(Orgs)
      BY <1>0 DEF BenchmarkTypes
    <3>2. lists'[l] = IF l = j.list THEN Append(lists[l], j.org) ELSE lists[l]
      BY <1>0, <2>1, <2>2, SMTT(30) DEF BenchmarkTypes
    <3> QED
      BY <2>1, <3>1, <3>2
  <2> QED
    BY <1>0, <2>3, <2>4 DEF BenchmarkTypes
<1>3. CASE UNCHANGED lists
  <2>1. \A l \in 1 .. Len(lists) : lists[l] \in Seq(Orgs)
    BY <1>0 DEF BenchmarkTypes
  <2> QED
    BY <1>0, <1>3, <2>1 DEF BenchmarkTypes
<1>4. \/ UNCHANGED lists
      \/ \E c \in Cohorts : CreateCohort(c)
      \/ \E j \in joining : JoinAppends(j)
  BY DEF BenchmarkNext, benchmarkVars, Join, SubmitMetric, Gather, CheckBudgets, Exhausted,
         Charge, Release, ResetBudgets
<1>5. \A l \in 1 .. Len(lists) : Len(lists[l]) \in Nat
  BY <1>0 DEF BenchmarkTypes
<1> QED
  BY <1>1, <1>2, <1>3, <1>4, <1>5

\* A publication is changed by its own publisher only.
LEMMA OwnSteps ==
  ASSUME PayInv, [BenchmarkNext]_benchmarkVars, NEW p \in Publishers
  PROVE  \/ /\ stage'[p] = stage[p] /\ pub'[p] = pub[p]
            /\ position'[p] = position[p] /\ paid'[p] = paid[p]
         \/ \E c \in Cohorts : Gather(p, c)
         \/ CheckBudgets(p) \/ Exhausted(p) \/ Charge(p) \/ Release(p)
<1>0. BenchmarkTypes
  BY DEF PayInv
<1>1. ASSUME NEW q \in Publishers, q # p,
             (\E c \in Cohorts : Gather(q, c)) \/ CheckBudgets(q) \/ Exhausted(q)
                \/ Charge(q) \/ Release(q)
      PROVE  /\ stage'[p] = stage[p] /\ pub'[p] = pub[p]
             /\ position'[p] = position[p] /\ paid'[p] = paid[p]
  <2>1. CASE \E c \in Cohorts : Gather(q, c)
    BY <1>0, <1>1, <2>1 DEF Gather, BenchmarkTypes
  <2>2. CASE CheckBudgets(q)
    BY <1>0, <1>1, <2>2 DEF CheckBudgets, BenchmarkTypes
  <2>3. CASE Exhausted(q)
    BY <1>0, <1>1, <2>3 DEF Exhausted, BenchmarkTypes
  <2>4. CASE Charge(q)
    BY <1>0, <1>1, <2>4 DEF Charge, BenchmarkTypes
  <2>5. CASE Release(q)
    BY <1>0, <1>1, <2>5 DEF Release, BenchmarkTypes
  <2> QED
    BY <1>1, <2>1, <2>2, <2>3, <2>4, <2>5
<1>2. \/ UNCHANGED pubVars
      \/ \E q \in Publishers : \/ \E c \in Cohorts : Gather(q, c)
                              \/ CheckBudgets(q) \/ Exhausted(q) \/ Charge(q) \/ Release(q)
  BY DEF BenchmarkNext, benchmarkVars, pubVars, CreateCohort, Join, JoinAppends, SubmitMetric,
         ResetBudgets
<1> QED
  BY <1>1, <1>2 DEF pubVars

LEMMA UsedStep ==
  ASSUME PayInv, [BenchmarkNext]_benchmarkVars
  PROVE  UsedAreMembers'
<1> SUFFICES ASSUME NEW p \in Publishers, stage'[p] # "idle"
             PROVE  /\ pub'[p].list \in 1 .. Len(lists')
                    /\ \A o \in pub'[p].used : \E i \in 1 .. Len(lists'[pub'[p].list]) :
                          lists'[pub'[p].list][i] = o
  BY DEF UsedAreMembers, Members
<1>0. BenchmarkTypes /\ UsedAreMembers /\ BenchmarkTypes'
  BY TypesStep DEF PayInv
<1>1. /\ pub'[p].list \in 1 .. Len(lists)
      /\ \A o \in pub'[p].used : \E i \in 1 .. Len(lists[pub'[p].list]) :
            lists[pub'[p].list][i] = o
  <2>1. CASE \E c \in Cohorts : Gather(p, c)
    <3>1. PICK c \in Cohorts : Gather(p, c)
      BY <2>1
    <3>2. pub'[p] = [cohort |-> c, list |-> cohort[c],
                     used |-> ToSet(lists[cohort[c]]) \cap submitted]
      BY <1>0, <3>1 DEF Gather, BenchmarkTypes
    <3>3. cohort[c] \in 1 .. Len(lists) /\ lists[cohort[c]] \in Seq(Orgs)
      BY <1>0, <3>1 DEF Gather, BenchmarkTypes
    <3> QED
      BY <3>2, <3>3 DEF ToSet
  <2>2. CASE stage'[p] = stage[p] /\ pub'[p] = pub[p]
    BY <1>0, <2>2 DEF UsedAreMembers, Members
  <2>3. CASE CheckBudgets(p) \/ Charge(p)
    <3>1. stage[p] # "idle" /\ pub'[p] = pub[p]
      BY <2>3 DEF CheckBudgets, Charge
    <3> QED
      BY <1>0, <3>1 DEF UsedAreMembers, Members
  <2>4. CASE Exhausted(p) \/ Release(p)
    BY <1>0, <2>4 DEF Exhausted, Release, BenchmarkTypes
  <2> QED
    BY <2>1, <2>2, <2>3, <2>4, OwnSteps
<1>2. Len(lists) \in Nat /\ Len(lists') \in Nat /\ Len(lists) <= Len(lists')
  BY <1>0, ListsGrow DEF BenchmarkTypes
<1>3. /\ Len(lists[pub'[p].list]) \in Nat /\ Len(lists'[pub'[p].list]) \in Nat
      /\ Len(lists[pub'[p].list]) <= Len(lists'[pub'[p].list])
  BY <1>0, <1>1, <1>2, ListsGrow, SMTT(30) DEF BenchmarkTypes
<1>4. \A i \in 1 .. Len(lists[pub'[p].list]) : lists'[pub'[p].list][i] = lists[pub'[p].list][i]
  BY <1>1, ListsGrow
<1> QED
  BY <1>1, <1>2, <1>3, <1>4, SMTT(30)

LEMMA PaidStep ==
  ASSUME PayInv, [BenchmarkNext]_benchmarkVars
  PROVE  PassedHavePaid'
<1> SUFFICES ASSUME NEW p \in Publishers, stage'[p] = "charges"
             PROVE  /\ position'[p] >= 1 /\ position'[p] <= Len(lists'[pub'[p].list]) + 1
                    /\ \A i \in 1 .. Len(lists'[pub'[p].list]) :
                          i < position'[p] => lists'[pub'[p].list][i] \in paid'[p]
  BY DEF PassedHavePaid, Members
<1>0. BenchmarkTypes /\ UsedAreMembers /\ PassedHavePaid /\ BenchmarkTypes'
  BY TypesStep DEF PayInv
<1>1. pub'[p] = pub[p] /\ stage[p] # "idle"
  <2>1. CASE \E c \in Cohorts : Gather(p, c)
    BY <1>0, <2>1 DEF Gather, BenchmarkTypes
  <2>2. CASE stage'[p] = stage[p] /\ pub'[p] = pub[p]
    BY <2>2
  <2>3. CASE CheckBudgets(p) \/ Charge(p)
    BY <2>3 DEF CheckBudgets, Charge
  <2>4. CASE Exhausted(p) \/ Release(p)
    BY <1>0, <2>4 DEF Exhausted, Release, BenchmarkTypes
  <2> QED
    BY <2>1, <2>2, <2>3, <2>4, OwnSteps
<1> DEFINE l == pub[p].list
<1>2. l \in 1 .. Len(lists)
  BY <1>0, <1>1 DEF UsedAreMembers
<1>3. /\ Len(lists[l]) \in Nat /\ Len(lists'[l]) \in Nat /\ Len(lists[l]) <= Len(lists'[l])
      /\ \A i \in 1 .. Len(lists[l]) : lists'[l][i] = lists[l][i]
  <2>1. Len(lists) \in Nat /\ Len(lists') \in Nat /\ Len(lists) <= Len(lists')
    BY <1>0, ListsGrow DEF BenchmarkTypes
  <2>2. l \in 1 .. Len(lists')
    BY <1>2, <2>1
  <2> HIDE DEF l
  <2>3. lists[l] \in Seq(Orgs) /\ lists'[l] \in Seq(Orgs)
    BY <1>0, <1>2, <2>2 DEF BenchmarkTypes
  <2> QED
    BY <1>2, <2>3, ListsGrow
<1>4. position[p] \in Nat /\ position'[p] \in Nat
  BY <1>0 DEF BenchmarkTypes
<1>5. /\ position'[p] >= 1 /\ position'[p] <= Len(lists[l]) + 1
      /\ \A i \in 1 .. Len(lists[l]) : i < position'[p] => lists[l][i] \in paid'[p]
  <2>1. CASE /\ stage'[p] = stage[p] /\ pub'[p] = pub[p]
             /\ position'[p] = position[p] /\ paid'[p] = paid[p]
    BY <1>0, <2>1 DEF PassedHavePaid, Members
  <2>2. CASE \E c \in Cohorts : Gather(p, c)
    BY <1>0, <2>2 DEF Gather, BenchmarkTypes
  <2>3. CASE CheckBudgets(p)
    <3>1. position'[p] = 1
      BY <1>0, <2>3 DEF CheckBudgets, BenchmarkTypes
    <3> QED
      BY <1>3, <3>1
  <2>4. CASE Exhausted(p) \/ Release(p)
    BY <1>0, <2>4 DEF Exhausted, Release, BenchmarkTypes
  <2>5. CASE Charge(p)
    <3>1. /\ position'[p] = position[p] + 1 /\ position[p] <= Len(lists[l])
          /\ paid'[p] = paid[p] \cup {lists[l][position[p]]}
      BY <1>0, <2>5 DEF Charge, BenchmarkTypes, Members
    <3>2. stage[p] = "charges"
      BY <2>5 DEF Charge
    <3>3. position[p] >= 1 /\ \A i \in 1 .. Len(lists[l]) : i < position[p] => lists[l][i] \in paid[p]
      BY <1>0, <3>2 DEF PassedHavePaid, Members
    <3> HIDE DEF l
    <3>4. position'[p] >= 1 /\ position'[p] <= Len(lists[l]) + 1
      BY <1>3, <1>4, <3>1, <3>3
    <3>5. ASSUME NEW i \in 1 .. Len(lists[l]), i < position'[p]
          PROVE  lists[l][i] \in paid'[p]
      <4>1. i < position[p] \/ i = position[p]
        BY <1>3, <1>4, <3>1, <3>5
      <4> QED
        BY <3>1, <3>3, <4>1
    <3> QED
      BY <3>4, <3>5
  <2> QED
    BY <2>1, <2>2, <2>3, <2>4, <2>5, OwnSteps
<1> HIDE DEF l
<1>6. \A i \in 1 .. Len(lists'[l]) : i < position'[p] => lists'[l][i] \in paid'[p]
  BY <1>3, <1>4, <1>5
<1>7. position'[p] >= 1 /\ position'[p] <= Len(lists'[l]) + 1
  BY <1>3, <1>4, <1>5
<1> QED
  BY <1>1, <1>6, <1>7 DEF l

LEMMA InvariantPayInv == BenchmarkSpec => []PayInv
<1>1. PayInv /\ [BenchmarkNext]_benchmarkVars => PayInv'
  BY TypesStep, UsedStep, PaidStep DEF PayInv
<1> QED
  BY <1>1, InitPayInv, PTL DEF BenchmarkSpec

\* No benchmark is returned before every organization whose value is in it was
\* charged, although the cohort's list may grow or be replaced while
\* publish_benchmark runs and the budgets may be reset.
THEOREM ContributorsPay == BenchmarkSpec => EveryContributorPays
<1>1. ASSUME PayInv, [BenchmarkNext]_benchmarkVars,
             NEW p \in Publishers, stage[p] = "charges", stage'[p] = "idle"
      PROVE  pub[p].used \subseteq paid[p]
  <2>0. BenchmarkTypes /\ UsedAreMembers /\ PassedHavePaid
    BY <1>1 DEF PayInv
  <2>1. Release(p)
    <3>1. ~Charge(p) /\ ~CheckBudgets(p) /\ ~Exhausted(p) /\ \A c \in Cohorts : ~Gather(p, c)
      BY <1>1, <2>0 DEF Charge, CheckBudgets, Exhausted, Gather, BenchmarkTypes
    <3> QED
      BY <1>1, <3>1, OwnSteps
  <2>2. position[p] > Len(Members(p)) /\ position[p] \in Nat
    BY <2>0, <2>1 DEF Release, BenchmarkTypes
  <2>3. Len(Members(p)) \in Nat
    BY <1>1, <2>0 DEF UsedAreMembers, Members, BenchmarkTypes
  <2>4. \A i \in 1 .. Len(Members(p)) : Members(p)[i] \in paid[p]
    BY <1>1, <2>0, <2>2, <2>3 DEF PassedHavePaid
  <2> QED
    BY <1>1, <2>0, <2>4 DEF UsedAreMembers
<1>2. PayInv /\ [BenchmarkNext]_benchmarkVars =>
        [\A p \in Publishers : stage[p] = "charges" /\ stage'[p] = "idle" =>
            pub[p].used \subseteq paid[p]]_benchmarkVars
  BY <1>1
<1> QED
  BY <1>2, InvariantPayInv, PTL DEF BenchmarkSpec, EveryContributorPays

-----------------------------------------------------------------------------

LEMMA InitBudgetInv == BenchmarkInit => BudgetInv
<1>1. BenchmarkInit => LockHeld /\ DuplicatesRaced /\ RestCanPay /\ OverrunOnlyByRacingJoin
  BY BenchmarkAssumption DEF BenchmarkInit, LockHeld, DuplicatesRaced, RestCanPay,
     OverrunOnlyByRacingJoin
<1> QED
  BY <1>1, InitPayInv DEF BudgetInv

LEMMA LockStep ==
  ASSUME BudgetInv, [BenchmarkNext]_benchmarkVars
  PROVE  LockHeld'
<1>0. BenchmarkTypes /\ LockHeld
  BY DEF BudgetInv, PayInv
<1>1. ASSUME NEW p \in Publishers, NEW c \in Cohorts, Gather(p, c)
      PROVE  LockHeld'
  BY <1>0, <1>1 DEF Gather, LockHeld, BenchmarkTypes
<1>2. ASSUME NEW p \in Publishers, CheckBudgets(p)
      PROVE  LockHeld'
  <2>1. \A q \in Publishers : stage[q] # "charges"
    BY <1>0, <1>2, BenchmarkAssumption DEF CheckBudgets, Acquire, LockHeld
  <2> QED
    BY <1>0, <1>2, <2>1 DEF CheckBudgets, Acquire, LockHeld, BenchmarkTypes
<1>3. ASSUME NEW p \in Publishers, Exhausted(p)
      PROVE  LockHeld'
  BY <1>0, <1>3 DEF Exhausted, LockHeld, BenchmarkTypes
<1>4. ASSUME NEW p \in Publishers, Release(p)
      PROVE  LockHeld'
  BY <1>0, <1>4 DEF Release, LockHeld, BenchmarkTypes
<1>5. CASE UNCHANGED <<stage, lock>>
  BY <1>0, <1>5 DEF LockHeld
<1>6. \/ UNCHANGED <<stage, lock>>
      \/ \E p \in Publishers : \/ \E c \in Cohorts : Gather(p, c)
                              \/ CheckBudgets(p) \/ Exhausted(p) \/ Release(p)
  BY DEF BenchmarkNext, benchmarkVars, pubVars, CreateCohort, Join, JoinAppends, SubmitMetric,
         Charge, ResetBudgets
<1> QED
  BY <1>1, <1>2, <1>3, <1>4, <1>5, <1>6

LEMMA DuplicatesStep ==
  ASSUME BudgetInv, [BenchmarkNext]_benchmarkVars
  PROVE  DuplicatesRaced'
<1>0. BenchmarkTypes /\ DuplicatesRaced
  BY DEF BudgetInv, PayInv
<1>1. ASSUME NEW c \in Cohorts, CreateCohort(c)
      PROVE  DuplicatesRaced'
  <2>1. /\ Len(lists') = Len(lists) + 1 /\ lists'[Len(lists) + 1] = <<>>
        /\ \A l \in 1 .. Len(lists) : lists'[l] = lists[l]
    BY <1>0, <1>1 DEF CreateCohort, BenchmarkTypes
  <2>2. Len(lists) \in Nat /\ raced' = raced
    BY <1>0, <1>1 DEF CreateCohort, BenchmarkTypes
  <2>3. \A l \in 1 .. Len(lists') : l \in 1 .. Len(lists) \/ lists'[l] = <<>>
    BY <2>1, <2>2
  <2> QED
    BY <1>0, <2>1, <2>2, <2>3 DEF DuplicatesRaced
<1>2. ASSUME NEW j \in joining, JoinAppends(j)
      PROVE  DuplicatesRaced'
  <2>1. j.list \in 1 .. Len(lists) /\ j.org \in Orgs /\ lists[j.list] \in Seq(Orgs)
    BY <1>0 DEF BenchmarkTypes
  <2>2. /\ Len(lists') = Len(lists) /\ lists'[j.list] = Append(lists[j.list], j.org)
        /\ \A l \in 1 .. Len(lists) : l # j.list => lists'[l] = lists[l]
    BY <1>0, <1>2, <2>1 DEF JoinAppends, BenchmarkTypes
  <2>3. /\ raced \subseteq raced'
        /\ j.org \in ToSet(lists[j.list]) => j.org \in raced'
    BY <1>2 DEF JoinAppends
  <2>4. \A i \in 1 .. Len(lists[j.list]) : lists[j.list][i] = j.org => j.org \in raced'
    BY <2>1, <2>3 DEF ToSet
  <2>5. \A i, k \in 1 .. Len(lists'[j.list]) :
            lists'[j.list][i] = lists'[j.list][k] /\ i # k => lists'[j.list][i] \in raced'
    <3> DEFINE s == lists[j.list]
    <3>1. s \in Seq(Orgs) /\ lists'[j.list] = Append(s, j.org)
      BY <2>1, <2>2
    <3>2. \A i, k \in 1 .. Len(s) : s[i] = s[k] /\ i # k => s[i] \in raced'
      BY <1>0, <2>1, <2>3 DEF DuplicatesRaced
    <3>3. \A i \in 1 .. Len(s) : s[i] = j.org => j.org \in raced'
      BY <2>4
    <3> HIDE DEF s
    <3> QED
      BY <2>1, <3>1, <3>2, <3>3
  <2>6. \A l \in 1 .. Len(lists) : l # j.list =>
            \A i, k \in 1 .. Len(lists'[l]) :
                lists'[l][i] = lists'[l][k] /\ i # k => lists'[l][i] \in raced'
    BY <1>0, <2>2, <2>3 DEF DuplicatesRaced
  <2> QED
    BY <2>2, <2>5, <2>6 DEF DuplicatesRaced
<1>3. CASE UNCHANGED <<lists, raced>>
  BY <1>0, <1>3 DEF DuplicatesRaced
<1>4. \/ UNCHANGED <<lists, raced>>
      \/ \E c \in Cohorts : CreateCohort(c)
      \/ \E j \in joining : JoinAppends(j)
  BY DEF BenchmarkNext, benchmarkVars, Join, SubmitMetric, Gather, CheckBudgets, Exhausted,
         Charge, Release, ResetBudgets
<1> QED
  BY <1>1, <1>2, <1>3, <1>4

\* The loop that charges: the organization it charges is not charged again, as
\* it is not in the list again.
LEMMA ChargeKeepsRest ==
  ASSUME BudgetInv, NEW p \in Publishers, Charge(p),
         NEW i \in 1 .. Len(Members(p)), i >= position[p] + 1, Members(p)[i] \notin raced
  PROVE  consumed'[Members(p)[i]] + Epsilon <= Quarterly
<1>0. BenchmarkTypes /\ UsedAreMembers /\ PassedHavePaid /\ DuplicatesRaced /\ RestCanPay
  BY DEF BudgetInv, PayInv
<1>1. /\ stage[p] = "charges" /\ position[p] <= Len(Members(p))
      /\ consumed' = [consumed EXCEPT ![Members(p)[position[p]]] = @ + Epsilon]
  BY DEF Charge
<1>2. pub[p].list \in 1 .. Len(lists) /\ position[p] \in Nat /\ position[p] >= 1
  BY <1>0, <1>1 DEF UsedAreMembers, PassedHavePaid, BenchmarkTypes
<1>3. Members(p) \in Seq(Orgs) /\ position[p] \in 1 .. Len(Members(p)) /\ i # position[p]
  BY <1>0, <1>1, <1>2 DEF Members, BenchmarkTypes
<1>4. Members(p)[i] # Members(p)[position[p]]
  BY <1>0, <1>2, <1>3 DEF DuplicatesRaced, Members
<1>5. consumed'[Members(p)[i]] = consumed[Members(p)[i]]
  BY <1>0, <1>1, <1>3, <1>4 DEF BenchmarkTypes
<1>6. consumed[Members(p)[i]] + Epsilon <= Quarterly
  BY <1>0, <1>1, <1>2, <1>3 DEF RestCanPay
<1> QED
  BY <1>5, <1>6

LEMMA RestStep ==
  ASSUME BudgetInv, [BenchmarkNext]_benchmarkVars
  PROVE  RestCanPay'
<1> SUFFICES ASSUME NEW p \in Publishers, stage'[p] = "charges",
                    NEW i \in 1 .. Len(lists'[pub'[p].list]), i >= position'[p],
                    lists'[pub'[p].list][i] \notin raced'
             PROVE  consumed'[lists'[pub'[p].list][i]] + Epsilon <= Quarterly
  BY DEF RestCanPay, Members
<1>0. /\ PayInv /\ BenchmarkTypes /\ UsedAreMembers /\ PassedHavePaid /\ LockHeld /\ RestCanPay
  BY DEF BudgetInv, PayInv
<1>1. CASE CheckBudgets(p)
  <2>1. /\ \A o \in ToSet(lists[pub[p].list]) : consumed[o] + Epsilon <= Quarterly
        /\ UNCHANGED <<lists, consumed, pub>>
    BY <1>1 DEF CheckBudgets
  <2>2. stage[p] = "waits"
    BY <1>1 DEF CheckBudgets
  <2>3. pub[p].list \in 1 .. Len(lists)
    BY <1>0, <2>2 DEF UsedAreMembers
  <2>4. lists[pub[p].list] \in Seq(Orgs)
    BY <1>0, <2>3 DEF BenchmarkTypes
  <2> QED
    BY <2>1, <2>4 DEF ToSet
<1>2. CASE Charge(p)
  <2>1. position'[p] = position[p] + 1 /\ UNCHANGED <<lists, pub, raced>>
    BY <1>0, <1>2 DEF Charge, BenchmarkTypes
  <2>2. /\ i \in 1 .. Len(Members(p)) /\ i >= position[p] + 1 /\ Members(p)[i] \notin raced
        /\ lists'[pub'[p].list] = Members(p)
    BY <2>1 DEF Members
  <2> QED
    BY <1>2, <2>2, ChargeKeepsRest
<1>3. CASE Exhausted(p) \/ Release(p) \/ \E c \in Cohorts : Gather(p, c)
  BY <1>0, <1>3 DEF Exhausted, Release, Gather, BenchmarkTypes
<1>4. CASE /\ stage'[p] = stage[p] /\ pub'[p] = pub[p]
           /\ position'[p] = position[p] /\ paid'[p] = paid[p]
  <2> DEFINE l == pub[p].list
  <2>1. stage[p] = "charges" /\ pub'[p].list = l /\ l \in 1 .. Len(lists) /\ position[p] \in Nat
    BY <1>0, <1>4 DEF UsedAreMembers, BenchmarkTypes
  <2>2. /\ \A k \in 1 .. Len(lists[l]) : k >= position[p] /\ lists[l][k] \notin raced =>
              consumed[lists[l][k]] + Epsilon <= Quarterly
        /\ lists[l] \in Seq(Orgs)
        /\ lock = p
    BY <1>0, <2>1 DEF RestCanPay, Members, LockHeld, BenchmarkTypes
  <2>3. CASE UNCHANGED <<lists, consumed, raced>>
    BY <1>4, <2>1, <2>2, <2>3
  <2>4. ASSUME NEW c \in Cohorts, CreateCohort(c)
        PROVE  lists'[l] = lists[l] /\ UNCHANGED <<consumed, raced>>
    BY <1>0, <2>1, <2>4 DEF CreateCohort, BenchmarkTypes
  <2>5. ASSUME NEW j \in joining, JoinAppends(j)
        PROVE  consumed'[lists'[l][i]] + Epsilon <= Quarterly
    <3>1. j.list \in 1 .. Len(lists) /\ j.org \in Orgs
      BY <1>0 DEF BenchmarkTypes
    <3>2. lists'[l] = IF j.list = l THEN Append(lists[l], j.org) ELSE lists[l]
      BY <1>0, <2>1, <2>5, <3>1 DEF JoinAppends, BenchmarkTypes
    <3>3. /\ raced \subseteq raced' /\ consumed' = consumed
          /\ j.list = l => j.org \in raced'
      BY <2>1, <2>5 DEF JoinAppends
    <3>4. i \in 1 .. Len(lists'[l]) /\ i >= position[p] /\ lists'[l][i] \notin raced'
      BY <1>4, <2>1
    <3> HIDE DEF l
    <3>5. i \in 1 .. Len(lists[l]) /\ lists'[l][i] = lists[l][i]
      BY <2>2, <3>1, <3>2, <3>3, <3>4
    <3> QED
      BY <2>2, <3>3, <3>4, <3>5
  <2>6. ASSUME ResetBudgets
        PROVE  consumed'[lists'[l][i]] + Epsilon <= Quarterly
    <3>1. consumed' = [o \in Orgs |-> 0] /\ UNCHANGED <<lists, raced>>
      BY <2>6 DEF ResetBudgets
    <3>2. i \in 1 .. Len(lists[l]) /\ i >= position[p] /\ lists[l][i] \notin raced
      BY <1>4, <2>1, <3>1
    <3>3. lists[l][i] \in Orgs /\ consumed[lists[l][i]] \in Nat
      BY <1>0, <2>2, <3>2 DEF BenchmarkTypes
    <3>4. consumed[lists[l][i]] + Epsilon <= Quarterly
      BY <2>2, <3>2
    <3> QED
      BY <3>1, <3>3, <3>4, BenchmarkAssumption
  <2>7. ASSUME NEW q \in Publishers, Charge(q)
        PROVE  consumed'[lists'[l][i]] + Epsilon <= Quarterly
    <3>1. q = p
      BY <1>0, <2>2, <2>7 DEF Charge, LockHeld
    <3> QED
      BY <1>2, <2>1, <2>7, <3>1
  <2>8. \/ UNCHANGED <<lists, consumed, raced>>
        \/ \E c \in Cohorts : CreateCohort(c)
        \/ \E j \in joining : JoinAppends(j)
        \/ ResetBudgets
        \/ \E q \in Publishers : Charge(q)
    BY DEF BenchmarkNext, benchmarkVars, Join, SubmitMetric, Gather, CheckBudgets, Exhausted,
           Release
  <2> QED
    BY <1>4, <2>1, <2>2, <2>3, <2>4, <2>5, <2>6, <2>7, <2>8
<1> QED
  BY <1>0, <1>1, <1>2, <1>3, <1>4, OwnSteps

LEMMA OverrunStep ==
  ASSUME BudgetInv, [BenchmarkNext]_benchmarkVars
  PROVE  OverrunOnlyByRacingJoin'
<1>0. /\ BenchmarkTypes /\ UsedAreMembers /\ PassedHavePaid /\ RestCanPay
      /\ OverrunOnlyByRacingJoin
  BY DEF BudgetInv, PayInv
<1>1. ASSUME NEW p \in Publishers, Charge(p)
      PROVE  OverrunOnlyByRacingJoin'
  <2>1. /\ stage[p] = "charges" /\ position[p] <= Len(Members(p)) /\ raced' = raced
        /\ consumed' = [consumed EXCEPT ![Members(p)[position[p]]] = @ + Epsilon]
    BY <1>1 DEF Charge
  <2>2. pub[p].list \in 1 .. Len(lists) /\ position[p] \in Nat /\ position[p] >= 1
    BY <1>0, <2>1 DEF UsedAreMembers, PassedHavePaid, BenchmarkTypes
  <2>3. Members(p) \in Seq(Orgs) /\ position[p] \in 1 .. Len(Members(p))
    BY <1>0, <2>1, <2>2 DEF Members, BenchmarkTypes
  <2>4. Members(p)[position[p]] \in raced \/ consumed[Members(p)[position[p]]] + Epsilon <= Quarterly
    BY <1>0, <2>1, <2>2, <2>3 DEF RestCanPay
  <2>5. ASSUME NEW o \in Orgs, consumed'[o] > Quarterly
        PROVE  o \in raced'
    <3>1. CASE o = Members(p)[position[p]]
      <4>1. consumed'[o] = consumed[o] + Epsilon
        BY <1>0, <2>1, <3>1 DEF BenchmarkTypes
      <4>2. ~(consumed[o] + Epsilon <= Quarterly)
        BY <1>0, <2>5, <4>1, BenchmarkAssumption DEF BenchmarkTypes
      <4> QED
        BY <2>1, <2>4, <3>1, <4>2
    <3>2. CASE o # Members(p)[position[p]]
      <4>1. consumed'[o] = consumed[o]
        BY <1>0, <2>1, <3>2 DEF BenchmarkTypes
      <4> QED
        BY <1>0, <2>1, <2>5, <4>1 DEF OverrunOnlyByRacingJoin
    <3> QED
      BY <3>1, <3>2
  <2> QED
    BY <2>5 DEF OverrunOnlyByRacingJoin
<1>2. CASE ResetBudgets
  BY <1>2, BenchmarkAssumption DEF ResetBudgets, OverrunOnlyByRacingJoin
<1>3. CASE consumed' = consumed /\ raced \subseteq raced'
  BY <1>0, <1>3 DEF OverrunOnlyByRacingJoin
<1>4. \/ consumed' = consumed /\ raced \subseteq raced'
      \/ ResetBudgets
      \/ \E p \in Publishers : Charge(p)
  BY DEF BenchmarkNext, benchmarkVars, CreateCohort, Join, JoinAppends, SubmitMetric, Gather,
         CheckBudgets, Exhausted, Release
<1> QED
  BY <1>1, <1>2, <1>3, <1>4

\* However many cohorts share members and however publications interleave, a
\* privacy budget is overrun only by an organization whose join met a release
\* being charged or another of its joins: _budget_lock protects all others.
THEOREM BudgetsHold == BenchmarkSpec => []OverrunOnlyByRacingJoin
<1>1. BudgetInv /\ [BenchmarkNext]_benchmarkVars => BudgetInv'
  BY TypesStep, UsedStep, PaidStep, LockStep, DuplicatesStep, RestStep, OverrunStep
     DEF BudgetInv, PayInv
<1>2. BudgetInv => OverrunOnlyByRacingJoin
  BY DEF BudgetInv
<1> QED
  BY <1>1, <1>2, InitBudgetInv, PTL DEF BenchmarkSpec

-----------------------------------------------------------------------------
(* The cost ledger.                                                        *)

\* Every request has a record with the three fields, of whatever values.
Shapes ==
    /\ DOMAIN records = RequestIds /\ DOMAIN billed = RequestIds
    /\ \A i \in RequestIds : DOMAIN records[i] = {"model", "synthetic", "reconciled"}

\* What billing said is in the record, also if it said nothing yet.
RecordsAreBilled == \A i \in RequestIds : records[i].reconciled = billed[i]

LedgerInv == Shapes /\ RecordsAreBilled

-----------------------------------------------------------------------------

LEMMA LedgerInitInv == LedgerInit => LedgerInv
  BY DEF LedgerInit, LedgerInv, Shapes, RecordsAreBilled, NoRecord

\* An upsert keeps the fields and what billing said.
LEMMA UpsertKeepsBill ==
  ASSUME NEW rec, NEW m, NEW c, DOMAIN rec = {"model", "synthetic", "reconciled"}
  PROVE  /\ DOMAIN Upsert(rec, m, c) = {"model", "synthetic", "reconciled"}
         /\ Upsert(rec, m, c).reconciled = rec.reconciled
  BY DEF Upsert

LEMMA LedgerStep ==
  ASSUME LedgerInv, [LedgerNext]_ledgerVars
  PROVE  LedgerInv'
<1> USE DEF LedgerInv, Shapes, RecordsAreBilled
<1>1. CASE \E r \in Rules : RegisterRule(r)
  BY <1>1 DEF RegisterRule
<1>2. ASSUME NEW i \in RequestIds, NEW u \in Usages, Synthetic(i, u)
      PROVE  LedgerInv'
  <2>1. PICK c : records' = [records EXCEPT ![i] = Upsert(@, u.model, c)]
    BY <1>2 DEF Synthetic
  <2>2. /\ DOMAIN Upsert(records[i], u.model, c) = {"model", "synthetic", "reconciled"}
        /\ Upsert(records[i], u.model, c).reconciled = records[i].reconciled
    BY UpsertKeepsBill
  <2>3. billed' = billed
    BY <1>2 DEF Synthetic
  <2> QED
    BY <2>1, <2>2, <2>3
<1>3. ASSUME NEW i \in RequestIds, NEW a \in Bills, Reconcile(i, a)
      PROVE  LedgerInv'
  BY <1>3 DEF Reconcile
<1>4. CASE UNCHANGED ledgerVars
  BY <1>4 DEF ledgerVars
<1> QED
  BY <1>1, <1>2, <1>3, <1>4 DEF LedgerNext

\* However often and late an estimate is delivered, and whatever rules are
\* registered meanwhile, upsert_synthetic leaves the amount reconcile recorded.
THEOREM BillStays == LedgerSpec => []BillingTruthStays
<1>1. LedgerInv /\ [LedgerNext]_ledgerVars => LedgerInv'
  BY LedgerStep
<1>2. LedgerInv => BillingTruthStays
  BY DEF LedgerInv, RecordsAreBilled, BillingTruthStays, NoRecord
<1> QED
  BY <1>1, <1>2, LedgerInitInv, PTL DEF LedgerSpec

-----------------------------------------------------------------------------
(* The price catalog.                                                      *)

Sorted(rs) ==
    \A i, j \in 1 .. Len(rs) : rs[i].model = rs[j].model /\ i < j => rs[i].from <= rs[j].from

\* The catalog: its rules are registered ones, and those of a model are in the
\* order of their dates.
Catalog ==
    /\ rules \in Seq(Rules) /\ Sorted(rules)

\* The rule at position i is the one max gives for the model m at a time.
Used(rs, m, at, i) ==
    LET c == {k \in 1 .. Len(rs) : rs[k].model = m /\ rs[k].from <= at}
    IN  i \in c /\ \A j \in c : rs[i].from > rs[j].from \/ (rs[i].from = rs[j].from /\ i <= j)

\* If a rule is in force, max gives one of them.
LEMMA UsedExists ==
  ASSUME NEW rs \in Seq(Rules), NEW m, NEW at \in Nat,
         \E k \in 1 .. Len(rs) : rs[k].model = m /\ rs[k].from <= at
  PROVE  \E i \in 1 .. Len(rs) : Used(rs, m, at, i)
<1> DEFINE c == {k \in 1 .. Len(rs) : rs[k].model = m /\ rs[k].from <= at}
           f == [k \in c |-> rs[k].from]
<1>1. \A k \in 1 .. Len(rs) : rs[k].from \in Nat
  BY LedgerAssumption
<1>2. c \in SUBSET Nat /\ c # {}
  OBVIOUS
<1>3. f \in [c -> Int] /\ at \in Int /\ (\A i \in c : f[i] <= at) /\ \A i \in c : f[i] = rs[i].from
  BY <1>1
<1>4. \E i \in c : \A j \in c : f[i] > f[j] \/ (f[i] = f[j] /\ i <= j)
  <2> HIDE DEF c, f
  <2> QED
    BY <1>2, <1>3, FirstOfLargest
<1> QED
  BY <1>3, <1>4 DEF Used

\* Resolve for a list of rules.
RuleOf(rs, m, at) ==
    LET c == {i \in DOMAIN rs : rs[i].model = m /\ rs[i].from <= at}
    IN  IF c = {} THEN NoRule
        ELSE rs[CHOOSE i \in c : \A j \in c :
                   rs[i].from > rs[j].from \/ (rs[i].from = rs[j].from /\ i <= j)]

LEMMA RuleOfIsUsed ==
  ASSUME NEW rs \in Seq(Rules), NEW m, NEW at \in Nat
  PROVE  \/ \E i \in 1 .. Len(rs) : Used(rs, m, at, i) /\ RuleOf(rs, m, at) = rs[i]
         \/ /\ ~ \E i \in 1 .. Len(rs) : rs[i].model = m /\ rs[i].from <= at
            /\ RuleOf(rs, m, at) = NoRule
<1> DEFINE c == {i \in DOMAIN rs : rs[i].model = m /\ rs[i].from <= at}
<1>1. c = {i \in 1 .. Len(rs) : rs[i].model = m /\ rs[i].from <= at}
  OBVIOUS
<1>2. CASE c # {}
  <2> DEFINE k == CHOOSE k \in c : \A j \in c :
                     rs[k].from > rs[j].from \/ (rs[k].from = rs[j].from /\ k <= j)
  <2>1. \E i \in 1 .. Len(rs) : Used(rs, m, at, i)
    BY <1>1, <1>2, UsedExists
  <2>2. \E i \in c : \A j \in c : rs[i].from > rs[j].from \/ (rs[i].from = rs[j].from /\ i <= j)
    BY <1>1, <2>1 DEF Used
  <2> HIDE DEF c
  <2>3. k \in c /\ \A j \in c : rs[k].from > rs[j].from \/ (rs[k].from = rs[j].from /\ k <= j)
    BY <2>2
  <2>4. RuleOf(rs, m, at) = rs[k]
    BY <1>2 DEF RuleOf, c
  <2> HIDE DEF k
  <2> QED
    BY <1>1, <2>3, <2>4 DEF Used
<1>3. CASE c = {}
  BY <1>1, <1>3 DEF RuleOf
<1> QED
  BY <1>2, <1>3

\* What registering does to the list.
Entered(rs, new, r, n) ==
    /\ new \in Seq(Rules) /\ Len(new) = Len(rs) + 1 /\ n \in 1 .. Len(rs) + 1 /\ new[n] = r
    /\ n <= Len(rs) => rs[n].model = r.model /\ rs[n].from > r.from
    /\ \A i \in 1 .. n - 1 : ~(rs[i].model = r.model /\ rs[i].from > r.from)
    /\ \A i \in 1 .. Len(rs) : new[IF i < n THEN i ELSE i + 1] = rs[i]

\* A rule of the new list other than the one entered comes from the old list.
LEMMA EnteredOthers ==
  ASSUME NEW rs \in Seq(Rules), NEW new, NEW r, NEW n, Entered(rs, new, r, n),
         NEW k \in 1 .. Len(new), k # n
  PROVE  \E l \in 1 .. Len(rs) : new[k] = rs[l] /\ (k < n => l = k) /\ (~(k < n) => l = k - 1)
<1>0. /\ Len(rs) \in Nat /\ n \in Nat /\ Len(new) = Len(rs) + 1 /\ k \in Nat
      /\ k >= 1 /\ k <= Len(rs) + 1 /\ n <= Len(rs) + 1
  BY DEF Entered
<1>1. CASE k < n
  <2>1. k \in 1 .. Len(rs)
    BY <1>0, <1>1
  <2>2. new[IF k < n THEN k ELSE k + 1] = rs[k]
    BY <2>1 DEF Entered
  <2> QED
    BY <1>1, <2>1, <2>2
<1>2. CASE ~(k < n)
  <2>1. k - 1 \in 1 .. Len(rs) /\ ~(k - 1 < n) /\ (k - 1) + 1 = k
    BY <1>0, <1>2 DEF Entered
  <2>2. new[IF k - 1 < n THEN k - 1 ELSE (k - 1) + 1] = rs[k - 1]
    BY <2>1 DEF Entered
  <2> QED
    BY <1>2, <2>1, <2>2
<1> QED
  BY <1>1, <1>2

\* Inserting before the first later rule keeps the order of the dates.
LEMMA EnteredSorted ==
  ASSUME NEW rs \in Seq(Rules), NEW new, NEW r \in Rules, NEW n, Entered(rs, new, r, n), Sorted(rs)
  PROVE  Sorted(new)
<1> SUFFICES ASSUME NEW i \in 1 .. Len(new), NEW j \in 1 .. Len(new),
                    new[i].model = new[j].model, i < j
             PROVE  new[i].from <= new[j].from
  BY DEF Sorted
<1>0. /\ Len(rs) \in Nat /\ n \in Nat /\ Len(new) = Len(rs) + 1 /\ r.from \in Nat
      /\ \A k \in 1 .. Len(rs) : rs[k].from \in Nat
  BY LedgerAssumption DEF Entered
<1>1. ASSUME NEW k \in 1 .. Len(new), k # n
      PROVE  \E l \in 1 .. Len(rs) : new[k] = rs[l] /\ l = IF k < n THEN k ELSE k - 1
  BY <1>1, EnteredOthers
<1>2. CASE i # n /\ j # n
  BY <1>0, <1>1, <1>2 DEF Sorted
<1>3. CASE i = n
  <2>1. PICK l \in 1 .. Len(rs) : new[j] = rs[l] /\ l = j - 1 /\ n <= l
    BY <1>0, <1>1, <1>3
  <2>2. rs[l].model = r.model /\ rs[n].model = r.model /\ rs[n].from > r.from /\ n \in 1 .. Len(rs)
    BY <1>0, <1>3, <2>1 DEF Entered
  <2>3. rs[n].from <= rs[l].from /\ rs[n].from \in Nat /\ rs[l].from \in Nat
    BY <1>0, <2>1, <2>2 DEF Sorted
  <2> QED
    BY <1>0, <1>3, <2>1, <2>2, <2>3 DEF Entered
<1>4. CASE j = n
  <2>1. PICK l \in 1 .. Len(rs) : new[i] = rs[l] /\ l = i /\ l <= n - 1
    BY <1>0, <1>1, <1>4
  <2> QED
    BY <1>0, <1>4, <2>1 DEF Entered
<1> QED
  BY <1>2, <1>3, <1>4

\* A rule in use stays in use unless the new one is in force from a later date.
LEMMA EnteredUsed ==
  ASSUME NEW rs \in Seq(Rules), NEW new, NEW r \in Rules, NEW n, Entered(rs, new, r, n), Sorted(rs),
         NEW m, NEW at \in Nat, NEW i \in 1 .. Len(rs), Used(rs, m, at, i),
         NEW k \in 1 .. Len(new), Used(new, m, at, k)
  PROVE  new[k] = rs[i] \/ new[k].from > rs[i].from
<1>0. /\ Len(rs) \in Nat /\ n \in Nat /\ Len(new) = Len(rs) + 1 /\ r.from \in Nat
      /\ \A l \in 1 .. Len(rs) : rs[l].from \in Nat
      /\ \A l \in 1 .. Len(new) : new[l].from \in Nat
  BY LedgerAssumption DEF Entered
<1> DEFINE i2 == IF i < n THEN i ELSE i + 1
<1>1. i2 \in 1 .. Len(new) /\ new[i2] = rs[i]
  BY <1>0 DEF Entered
<1>2. new[k].from > rs[i].from \/ (new[k].from = rs[i].from /\ k <= i2)
  <2>1. rs[i].model = m /\ rs[i].from <= at
    BY DEF Used
  <2> QED
    BY <1>1, <2>1 DEF Used
<1>3. ASSUME new[k].from = rs[i].from, k <= i2 PROVE new[k] = rs[i]
  <2>0. new[k].model = m /\ rs[i].model = m /\ new[k].from <= at
    BY DEF Used
  <2>1. CASE k = n
    <3>1. r.model = m /\ r.from = rs[i].from
      BY <1>3, <2>0, <2>1 DEF Entered
    <3>2. ~(i < n)
      BY <1>0, <1>3, <2>1
    <3>3. n \in 1 .. Len(rs) /\ n <= i /\ rs[n].model = m /\ rs[n].from > r.from
      BY <1>0, <2>1, <3>1, <3>2 DEF Entered
    <3>4. rs[n].from <= rs[i].from
      BY <1>0, <2>0, <3>3, SMTT(30) DEF Sorted
    <3> QED
      BY <1>0, <3>1, <3>3, <3>4
  <2>2. CASE k # n
    <3>1. PICK l \in 1 .. Len(rs) : new[k] = rs[l] /\ l = IF k < n THEN k ELSE k - 1
      BY <2>2, EnteredOthers
    <3>2. l <= i
      BY <1>0, <1>3, <2>2, <3>1
    <3>3. i <= l
      BY <1>0, <1>3, <2>0, <3>1, SMTT(30) DEF Used
    <3> QED
      BY <1>0, <3>1, <3>2, <3>3
  <2> QED
    BY <2>1, <2>2
<1> QED
  BY <1>2, <1>3

\* Every step keeps the catalog in order.
LEMMA CatalogStep ==
  ASSUME Catalog, [LedgerNext]_ledgerVars
  PROVE  /\ Catalog'
         /\ \/ rules' = rules
            \/ \E r \in Rules, n \in Nat : Entered(rules, rules', r, n)
<1>0. rules \in Seq(Rules) /\ Sorted(rules) /\ Len(rules) \in Nat
  BY DEF Catalog
<1>1. ASSUME NEW r \in Rules, RegisterRule(r)
      PROVE  Catalog' /\ \E n \in Nat : Entered(rules, rules', r, n)
  <2>1. PICK n \in 1 .. Len(rules) + 1 :
              /\ n <= Len(rules) => rules[n].model = r.model /\ rules[n].from > r.from
              /\ \A i \in 1 .. n - 1 : ~(rules[i].model = r.model /\ rules[i].from > r.from)
              /\ rules' = InsertAt(rules, n, r)
    BY <1>1 DEF RegisterRule
  <2>2. /\ rules' \in Seq(Rules) /\ Len(rules') = Len(rules) + 1 /\ rules'[n] = r
        /\ \A i \in 1 .. Len(rules) : rules'[IF i < n THEN i ELSE i + 1] = rules[i]
    BY <1>0, <2>1, InsertAtFacts
  <2>3. Entered(rules, rules', r, n) /\ n \in Nat
    BY <2>1, <2>2 DEF Entered
  <2>4. Sorted(rules')
    BY <1>0, <2>3, EnteredSorted
  <2> QED
    BY <2>2, <2>3, <2>4 DEF Catalog
<1>2. CASE rules' = rules
  BY <1>0, <1>2 DEF Catalog
<1>3. rules' = rules \/ \E r \in Rules : RegisterRule(r)
  BY DEF LedgerNext, Synthetic, Reconcile, ledgerVars
<1> QED
  BY <1>1, <1>2, <1>3

\* Registering a rule, for whatever date and in whatever order, changes the
\* price of a usage only to that of a rule in force from a later date.
THEOREM PricesStable == LedgerSpec => PastPricesStable
<1>1. LedgerInit => Catalog
  BY DEF LedgerInit, Catalog, Sorted
<1>2. Catalog /\ [LedgerNext]_ledgerVars => Catalog'
  BY CatalogStep
<1>3. ASSUME Catalog, [LedgerNext]_ledgerVars
      PROVE  [\A u \in Usages : Resolve(u.model, u.at)' # Resolve(u.model, u.at) =>
                 Resolve(u.model, u.at)'.from > Resolve(u.model, u.at).from]_ledgerVars
  <2> SUFFICES ASSUME NEW u \in Usages
               PROVE  Resolve(u.model, u.at)' = Resolve(u.model, u.at)
                        \/ Resolve(u.model, u.at)'.from > Resolve(u.model, u.at).from
    OBVIOUS
  <2> DEFINE old == RuleOf(rules, u.model, u.at)
             new == RuleOf(rules', u.model, u.at)
  <2>0. u.at \in Nat /\ rules \in Seq(Rules) /\ rules' \in Seq(Rules) /\ Sorted(rules)
    BY <1>3, CatalogStep, LedgerAssumption DEF Catalog
  <2>1. Resolve(u.model, u.at) = old /\ Resolve(u.model, u.at)' = new
    BY DEF Resolve, Candidates, RuleOf
  <2>2. /\ \/ \E i \in 1 .. Len(rules) : Used(rules, u.model, u.at, i) /\ old = rules[i]
           \/ /\ ~ \E i \in 1 .. Len(rules) : rules[i].model = u.model /\ rules[i].from <= u.at
              /\ old = NoRule
        /\ \/ \E i \in 1 .. Len(rules') : Used(rules', u.model, u.at, i) /\ new = rules'[i]
           \/ /\ ~ \E i \in 1 .. Len(rules') : rules'[i].model = u.model /\ rules'[i].from <= u.at
              /\ new = NoRule
    BY <2>0, RuleOfIsUsed
  <2>3. CASE rules' = rules
    BY <2>1, <2>3
  <2>4. ASSUME NEW r \in Rules, NEW n \in Nat, Entered(rules, rules', r, n)
        PROVE  new = old \/ new.from > old.from
    <3> HIDE DEF old, new
    <3>1. ASSUME NEW k \in 1 .. Len(rules'), Used(rules', u.model, u.at, k), new = rules'[k]
          PROVE  new = old \/ new.from > old.from
      <4>1. CASE old = NoRule
        <5>1. rules'[k].from \in Nat
          BY <2>0, LedgerAssumption
        <5> QED
          BY <3>1, <4>1, <5>1 DEF NoRule
      <4>2. ASSUME NEW i \in 1 .. Len(rules), Used(rules, u.model, u.at, i), old = rules[i]
            PROVE  new = old \/ new.from > old.from
        BY <2>0, <2>4, <3>1, <4>2, EnteredUsed
      <4> QED
        BY <2>2, <4>1, <4>2
    <3>2. ASSUME ~ \E k \in 1 .. Len(rules') : rules'[k].model = u.model /\ rules'[k].from <= u.at,
                 new = NoRule
          PROVE  new = old
      <4>1. ASSUME NEW i \in 1 .. Len(rules), rules[i].model = u.model, rules[i].from <= u.at
            PROVE  FALSE
        <5>1. \E k \in 1 .. Len(rules') : rules'[k] = rules[i]
          <6>1. rules'[IF i < n THEN i ELSE i + 1] = rules[i] /\ Len(rules') = Len(rules) + 1
            BY <2>4 DEF Entered
          <6>2. Len(rules) \in Nat /\ (IF i < n THEN i ELSE i + 1) \in 1 .. Len(rules) + 1
            BY <2>0, <2>4
          <6> QED
            BY <6>1, <6>2
        <5> QED
          BY <3>2, <4>1, <5>1
      <4> QED
        BY <2>2, <3>2, <4>1 DEF Used
    <3> QED
      BY <2>2, <3>1, <3>2
  <2>5. rules' = rules \/ \E r \in Rules, n \in Nat : Entered(rules, rules', r, n)
    BY <1>3, CatalogStep
  <2> QED
    BY <2>1, <2>3, <2>4, <2>5
<1> QED
  BY <1>1, <1>2, <1>3, PTL DEF LedgerSpec, PastPricesStable

-----------------------------------------------------------------------------
(* Ingestion.                                                              *)

\* What a request may have been answered.
Statuses == {0, 200, 401, 413, 422, 429, 500, 503}

Asked == [req : Requests, pod : Pods, status : Statuses, checked : BOOLEAN, published : Nat]
Said == [pod : Pods, time : Nat, at : Nat, back : BOOLEAN, ok : BOOLEAN]

IngestTypes ==
    /\ ValidConfig(cfg)
    /\ skew \in [Pods -> 0 .. MaxSkew]
    /\ delay \in 0 .. MaxDelay
    /\ now \in Nat
    /\ windows \in [Pods -> [Keys -> Seq(Int)]]
    /\ buckets \in [Keys -> [tokens : Nat, at : Nat, expires : Nat]]
    /\ asked \in Seq(Asked)
    /\ log \in [Keys -> Seq(Said)]
    /\ faults \in Nat

\* A request that the middlewares and the limiter let in, or that published, came
\* with a token of the tenant to a pod that ingests, and the shared limiter said
\* yes to its subject, unless Redis failed.
Guarded(a) ==
    ProductionLike(cfg) /\ (a.status = 0 \/ a.published > 0) =>
        /\ a.req.token = "valid" /\ a.req.tenant = "ours"
        /\ AcceptsIngestion(cfg)
        /\ faults = 0 => \E n \in DOMAIN log[a.req.sub] : log[a.req.sub][n].ok

\* What the handler of a request has published: nothing before all its events
\* are checked, then one event after the other, and all of them with 200.
Told(a) ==
    /\ ~a.checked => a.published = 0 /\ a.status # 200
    /\ a.checked /\ a.status = 0 => Check(a.req) = 0 /\ a.published < Len(a.req.events)
    /\ a.status = 200 => a.published = Len(a.req.events)
    /\ a.status = 500 => a.published = 0 \/ a.published < Len(a.req.events)
    /\ a.status \notin {0, 200, 500} => a.published = 0
    /\ a.published > 0 => Check(a.req) = 0

IngestInv ==
    /\ IngestTypes
    /\ \A i \in DOMAIN asked : Guarded(asked[i])
    /\ ProductionLike(cfg) => \A p \in Pods, k \in Keys : windows[p][k] = <<>>
    /\ \A i \in DOMAIN asked : Told(asked[i])

-----------------------------------------------------------------------------

LEMMA LeastOf ==
  ASSUME NEW S, S \subseteq Nat, S # {}
  PROVE  /\ Min(S) \in S
         /\ \A y \in S : Min(S) <= y
<1>1. PICK x \in S : \A y \in S : ~(<<y, x>> \in OpToRel(<, Nat))
  BY WFMin, NatLessThanWellFounded
<1>2. \A y \in S : x <= y
  <2> TAKE y \in S
  <2>1. x \in Nat /\ y \in Nat
    OBVIOUS
  <2>2. ~(y < x)
    BY <1>1, <2>1 DEF OpToRel
  <2> QED
    BY <2>1, <2>2
<1> QED
  BY <1>2 DEF Min

\* Whoever reaches a limiter passed every middleware.
LEMMA PassedAll ==
  ASSUME NEW r, Refusal(r) = 0
  PROVE  Surface = 0 /\ Auth(r) = 0 /\ BodyLimit(r) = 0 /\ AcceptsIngestion(cfg)
<1> DEFINE checks == <<Surface, Auth(r), BodyLimit(r), IF AcceptsIngestion(cfg) THEN 0 ELSE 503>>
<1> DEFINE failed == {i \in DOMAIN checks : checks[i] # 0}
<1>1. failed \subseteq Nat /\ DOMAIN checks = 1 .. 4
  OBVIOUS
<1>2. failed = {}
  <2> SUFFICES ASSUME failed # {} PROVE FALSE
    OBVIOUS
  <2>1. Refusal(r) = checks[Min(failed)]
    BY DEF Refusal
  <2> HIDE DEF failed
  <2>2. Min(failed) \in failed
    BY <1>1, LeastOf
  <2> QED
    BY <2>1, <2>2 DEF failed
<1>3. checks[1] = 0 /\ checks[2] = 0 /\ checks[3] = 0 /\ checks[4] = 0
  BY <1>1, <1>2
<1> QED
  BY <1>3

LEMMA RefusalStatus ==
  ASSUME NEW r, Refusal(r) # 0
  PROVE  Refusal(r) \in {401, 413, 503}
<1> DEFINE checks == <<Surface, Auth(r), BodyLimit(r), IF AcceptsIngestion(cfg) THEN 0 ELSE 503>>
<1> DEFINE failed == {i \in DOMAIN checks : checks[i] # 0}
<1>1. failed \subseteq Nat /\ DOMAIN checks = 1 .. 4
  OBVIOUS
<1>2. failed # {} /\ Refusal(r) = checks[Min(failed)]
  BY DEF Refusal
<1>3. Min(failed) \in failed
  <2> HIDE DEF failed
  <2> QED
    BY <1>1, <1>2, LeastOf
<1>4. PICK i \in 1 .. 4 : Refusal(r) = checks[i] /\ checks[i] # 0
  BY <1>1, <1>2, <1>3
<1>5. /\ Surface \in {0, 503} /\ Auth(r) \in {0, 401} /\ BodyLimit(r) \in {0, 413}
  BY DEF Surface, Auth, BodyLimit
<1>6. i = 1 \/ i = 2 \/ i = 3 \/ i = 4
  BY <1>4
<1> QED
  BY <1>4, <1>5, <1>6

LEMMA CheckStatus ==
  ASSUME NEW r \in Requests
  PROVE  /\ Check(r) \in {0, 413, 422, 500}
         /\ Check(r) = 0 => /\ \A n \in DOMAIN r.events : r.events[n] = "good"
                            /\ r.batch => Len(r.events) <= MaxBatch
         /\ Len(r.events) \in Nat /\ (r.events = <<>> <=> Len(r.events) = 0)
<1>1. r.events \in Seq({"good", "schema", "construct"})
  BY IngestionAssumption
<1>2. Len(r.events) \in Nat /\ MaxBatch \in Nat /\ (r.events = <<>> <=> Len(r.events) = 0)
  BY <1>1, LenProperties, EmptySeq, IngestionAssumption
<1> QED
  BY <1>2 DEF Check

LEMMA KeyOf ==
  ASSUME NEW r \in Requests
  PROVE  RateKey(r) \in Keys
  BY DEF RateKey, Keys

\* In production the middlewares pass only tokens of the tenant, a caller is
\* counted by subject, and a pod that ingests uses the shared limiter.
LEMMA ProductionPass ==
  ASSUME NEW r, ValidConfig(cfg), ProductionLike(cfg), Refusal(r) = 0
  PROVE  /\ r.token = "valid" /\ r.tenant = "ours" /\ RateKey(r) = r.sub
         /\ AcceptsIngestion(cfg) /\ Limiter(cfg) = "redis"
<1>1. cfg.auth /\ ~NonProduction(cfg)
  BY DEF ValidConfig, AuthSettings, ProductionLike, NonProduction
<1>2. Auth(r) = 0 /\ AcceptsIngestion(cfg)
  BY PassedAll
<1>3. r.token = "valid" /\ r.tenant = "ours"
  BY <1>1, <1>2 DEF Auth
<1>4. Limiter(cfg) = "redis"
  BY <1>2 DEF ValidConfig, AcceptsIngestion
<1> QED
  BY <1>1, <1>2, <1>3, <1>4 DEF RateKey

LEMMA Appended ==
  ASSUME NEW S, NEW s \in Seq(S), NEW e \in S
  PROVE  /\ Append(s, e) \in Seq(S)
         /\ Len(s) \in Nat /\ Len(Append(s, e)) = Len(s) + 1
         /\ DOMAIN s = 1 .. Len(s)
         /\ DOMAIN Append(s, e) = 1 .. Len(s) + 1
         /\ \A n \in 1 .. Len(s) : Append(s, e)[n] = s[n]
         /\ Append(s, e)[Len(s) + 1] = e
  BY AppendProperties, LenProperties

\* A request that is refused, by a middleware or by a limiter, or let in.
LEMMA AnswerStep ==
  ASSUME IngestTypes, NEW r \in Requests, NEW p \in Pods, NEW status \in Statuses
  PROVE  /\ Answer(r, p, status) \in Seq(Asked)
         /\ DOMAIN asked = 1 .. Len(asked) /\ Len(asked) \in Nat
         /\ DOMAIN Answer(r, p, status) = 1 .. Len(asked) + 1
         /\ \A i \in 1 .. Len(asked) : Answer(r, p, status)[i] = asked[i]
         /\ Answer(r, p, status)[Len(asked) + 1].req = r
         /\ Answer(r, p, status)[Len(asked) + 1].status = status
         /\ ~Answer(r, p, status)[Len(asked) + 1].checked
         /\ Answer(r, p, status)[Len(asked) + 1].published = 0
<1> DEFINE a == [req |-> r, pod |-> p, status |-> status, checked |-> FALSE, published |-> 0]
<1>1. a \in Asked /\ a.req = r /\ a.status = status /\ ~a.checked /\ a.published = 0
  BY DEF Asked
<1>2. asked \in Seq(Asked) /\ Answer(r, p, status) = Append(asked, a)
  BY DEF IngestTypes, Answer
<1> HIDE DEF a
<1> QED
  BY <1>1, <1>2, Appended

\* The two steps that ask a limiter log what it said under the caller's key.
LEMMA LogStep ==
  ASSUME IngestTypes, NEW k \in Keys, NEW e \in Said,
         log' = [log EXCEPT ![k] = Append(@, e)]
  PROVE  /\ log' \in [Keys -> Seq(Said)]
         /\ \A j \in Keys : j # k => log'[j] = log[j]
         /\ \A j \in Keys : DOMAIN log[j] \subseteq DOMAIN log'[j]
         /\ \A j \in Keys : \A n \in DOMAIN log[j] : log'[j][n] = log[j][n]
         /\ DOMAIN log[k] = 1 .. Len(log[k]) /\ Len(log[k]) \in Nat
         /\ DOMAIN log'[k] = 1 .. Len(log[k]) + 1 /\ Len(log'[k]) = Len(log[k]) + 1
         /\ log'[k][Len(log[k]) + 1] = e
<1>1. log \in [Keys -> Seq(Said)] /\ log[k] \in Seq(Said)
  BY DEF IngestTypes
<1>2. log'[k] = Append(log[k], e) /\ \A j \in Keys : j # k => log'[j] = log[j]
  BY <1>1
<1>3. /\ log'[k] \in Seq(Said)
      /\ Len(log[k]) \in Nat /\ Len(log'[k]) = Len(log[k]) + 1
      /\ DOMAIN log[k] = 1 .. Len(log[k])
      /\ DOMAIN log'[k] = 1 .. Len(log[k]) + 1
      /\ \A n \in 1 .. Len(log[k]) : log'[k][n] = log[k][n]
      /\ log'[k][Len(log[k]) + 1] = e
  BY <1>1, <1>2, Appended
<1>4. log' \in [Keys -> Seq(Said)]
  BY <1>1, <1>2, <1>3
<1>5. ASSUME NEW j \in Keys
      PROVE  DOMAIN log[j] \subseteq DOMAIN log'[j] /\ \A n \in DOMAIN log[j] : log'[j][n] = log[j][n]
  BY <1>2, <1>3
<1> QED
  BY <1>2, <1>3, <1>4, <1>5

LEMMA ClockIsNat ==
  ASSUME IngestTypes, NEW p \in Pods
  PROVE  Clock(p) \in Nat /\ skew[p] \in Nat
  BY IngestionAssumption DEF IngestTypes, Clock

-----------------------------------------------------------------------------
(* What each action does, as far as the invariants depend on it.            *)

LEMMA RefuseEffect ==
  ASSUME IngestTypes, NEW r \in Requests, NEW p \in Pods, Refuse(r, p)
  PROVE  /\ Refusal(r) \in {401, 413, 503} /\ asked' = Answer(r, p, Refusal(r))
         /\ UNCHANGED <<cfg, skew, delay, now, windows, buckets, log, faults>>
  BY RefusalStatus DEF Refuse

\* The sliding window says yes when the deque without its old head has room.
WindowSays(r, p, k, kept, allowed, clean) ==
    /\ allowed <=> Len(kept) < Limit
    /\ Refusal(r) = 0 /\ Limiter(cfg) = "memory"
    /\ windows' = [windows EXCEPT ![p] = [j \in Keys |->
             IF j = k THEN IF allowed THEN Append(kept, Clock(p)) ELSE kept
             ELSE IF clean /\ Stale(windows[p][j], Clock(p) - Window) THEN <<>> ELSE windows[p][j]]]
    /\ log' = [log EXCEPT ![k] =
                 Append(@, [pod |-> p, time |-> now, at |-> Clock(p), back |-> FALSE,
                            ok |-> allowed])]
    /\ asked' = Answer(r, p, IF allowed THEN 0 ELSE 429)
    /\ UNCHANGED <<cfg, skew, delay, now, buckets, faults>>

LEMMA AskWindowEffect ==
  ASSUME IngestTypes, NEW r \in Requests, NEW p \in Pods, AskWindow(r, p)
  PROVE  \E allowed \in BOOLEAN, clean \in BOOLEAN :
            WindowSays(r, p, RateKey(r), Kept(windows[p][RateKey(r)], Clock(p) - Window), allowed, clean)
<1> DEFINE k == RateKey(r)
<1> DEFINE kept == Kept(windows[p][k], Clock(p) - Window)
<1> WITNESS (Len(kept) < Limit) \in BOOLEAN, (ops[p] + 1 >= CleanupOps) \in BOOLEAN
<1> QED
  BY DEF AskWindow, IngestTypes, WindowSays

\* When a call may have read the clock of its pod.
LEMMA SentFacts ==
  ASSUME IngestTypes, NEW p \in Pods, NEW sent \in SentAt
  PROVE  /\ sent \in Nat /\ sent + skew[p] \in Nat /\ delay \in Nat /\ now \in Nat
         /\ sent <= now /\ now <= sent + delay
<1>1. MaxDelay \in Nat
  BY IngestionAssumption
<1> QED
  BY <1>1, ClockIsNat DEF IngestTypes, SentAt

\* The script: the tokens that are there and those that flowed back, at most a
\* full bucket, minus the price of a request that is allowed.  A request whose
\* reply is lost is let in without being allowed.
BucketSays(r, p, k, clock, full, allowed, back, status) ==
    /\ Refusal(r) = 0 /\ Limiter(cfg) = "redis"
    /\ clock <= now + skew[p] /\ now + skew[p] <= clock + delay
    /\ full <= Limit * Window
    /\ now < buckets[k].expires =>
          /\ back <=> clock < buckets[k].at
          /\ back => full <= buckets[k].tokens
          /\ ~back => full <= buckets[k].tokens + (clock - buckets[k].at) * Limit
    /\ ~(now < buckets[k].expires) => ~back
    /\ allowed => full >= Window
    /\ buckets' = [buckets EXCEPT ![k] =
                     [tokens |-> IF allowed THEN full - Window ELSE full,
                      at |-> clock, expires |-> now + 2 * Window]]
    /\ log' = [log EXCEPT ![k] =
                 Append(@, [pod |-> p, time |-> now, at |-> clock, back |-> back, ok |-> allowed])]
    /\ asked' = Answer(r, p, status)
    /\ status = 0 /\ faults' = 0 => allowed
    /\ faults' \in {faults, faults + 1}
    /\ UNCHANGED <<cfg, skew, delay, now, windows>>

LEMMA RunScriptEffect ==
  ASSUME IngestTypes, NEW r \in Requests, NEW p \in Pods, NEW sent \in SentAt,
         AskBucket(r, p, sent) \/ LoseReply(r, p, sent)
  PROVE  \E allowed \in BOOLEAN, back \in BOOLEAN, full \in Nat, status \in {0, 429} :
            BucketSays(r, p, RateKey(r), sent + skew[p], full, allowed, back, status)
<1> DEFINE k == RateKey(r)
<1> DEFINE clock == sent + skew[p]
<1> DEFINE b == IF now < buckets[k].expires THEN buckets[k]
                ELSE [tokens |-> Limit * Window, at |-> clock, expires |-> 0]
<1> DEFINE elapsed == Max({0, clock - b.at})
<1> DEFINE full == Min({Limit * Window, b.tokens + elapsed * Limit})
<1> DEFINE allowed == full >= Window
<1> DEFINE status == IF LoseReply(r, p, sent) THEN 0 ELSE IF allowed THEN 0 ELSE 429
<1>0. clock <= now + skew[p] /\ now + skew[p] <= clock + delay
  <2> DEFINE ahead == skew[p]
  <2>1. sent \in Nat /\ ahead \in Nat /\ delay \in Nat /\ now \in Nat /\ sent <= now /\ now <= sent + delay
    BY SentFacts, ClockIsNat
  <2> HIDE DEF ahead
  <2>2. sent + ahead <= now + ahead /\ now + ahead <= sent + ahead + delay
    BY <2>1
  <2> QED
    BY <2>2 DEF ahead
<1>1. k \in Keys /\ clock \in Nat /\ now \in Nat /\ Limit \in Nat \ {0} /\ Window \in Nat \ {0}
  BY KeyOf, SentFacts, IngestionAssumption DEF IngestTypes
<1>2. buckets[k] \in [tokens : Nat, at : Nat, expires : Nat] /\ faults \in Nat
  BY <1>1 DEF IngestTypes
<1>8. /\ Refusal(r) = 0 /\ Limiter(cfg) = "redis"
      /\ buckets' = [buckets EXCEPT ![k] =
                       [tokens |-> IF allowed THEN full - Window ELSE full,
                        at |-> clock, expires |-> now + 2 * Window]]
      /\ log' = [log EXCEPT ![k] =
                   Append(@, [pod |-> p, time |-> now, at |-> clock, back |-> clock < b.at,
                              ok |-> allowed])]
      /\ UNCHANGED <<cfg, skew, delay, now, windows>>
  <2>1. RunScript(r, p, sent)
    BY DEF AskBucket, LoseReply
  <2> DEFINE said == [ok |-> allowed, back |-> clock < b.at,
                      bucket |-> [tokens |-> IF allowed THEN full - Window ELSE full,
                                  at |-> clock, expires |-> now + 2 * Window]]
  <2>2. Script(k, clock) = said
    BY Zenon DEF Script, Lifetime
  <2>3. /\ Refusal(r) = 0 /\ Limiter(cfg) = "redis"
        /\ buckets' = [buckets EXCEPT ![k] = Script(k, clock).bucket]
        /\ log' = [log EXCEPT ![k] =
                     Append(@, [pod |-> p, time |-> now, at |-> clock, back |-> Script(k, clock).back,
                                ok |-> Script(k, clock).ok])]
        /\ UNCHANGED <<cfg, skew, delay, now, windows>>
    BY <2>1, Zenon DEF RunScript
  <2> HIDE DEF k, clock, b, elapsed, full, allowed
  <2>4. /\ said.ok = allowed /\ said.back = (clock < b.at)
        /\ said.bucket = [tokens |-> IF allowed THEN full - Window ELSE full,
                          at |-> clock, expires |-> now + 2 * Window]
    OBVIOUS
  <2> HIDE DEF said
  <2> QED
    BY <2>2, <2>3, <2>4
<1>10. /\ asked' = Answer(r, p, status)
       /\ status = 0 /\ faults' = 0 => allowed
       /\ faults' \in {faults, faults + 1} /\ status \in {0, 429}
  <2>1. CASE LoseReply(r, p, sent)
    <3>1. asked' = Answer(r, p, 0) /\ faults' = faults + 1 /\ status = 0
      BY <2>1 DEF LoseReply
    <3> QED
      BY <1>2, <3>1
  <2>2. CASE ~LoseReply(r, p, sent)
    <3>1. asked' = Answer(r, p, IF Script(k, clock).ok THEN 0 ELSE 429) /\ faults' = faults
      BY <2>2 DEF AskBucket
    <3>2. Script(k, clock).ok = allowed
      BY DEF Script
    <3>3. status = IF allowed THEN 0 ELSE 429
      BY <2>2
    <3>4. asked' = Answer(r, p, IF allowed THEN 0 ELSE 429)
      BY <3>1, <3>2
    <3>5. allowed \in BOOLEAN
      OBVIOUS
    <3> HIDE DEF status, allowed
    <3>6. CASE allowed
      BY <3>1, <3>3, <3>4, <3>6
    <3>7. CASE ~allowed
      BY <3>1, <3>3, <3>4, <3>7
    <3> QED
      BY <3>5, <3>6, <3>7
  <2> QED
    BY <2>1, <2>2
<1>3. Limit * Window \in Nat
  BY <1>1
<1>4. b.tokens \in Nat /\ b.at \in Nat
  BY <1>1, <1>2, <1>3
<1>5. elapsed \in Nat /\ elapsed = IF clock < b.at THEN 0 ELSE clock - b.at
  <2> HIDE DEF b, clock
  <2> QED
    BY <1>1, <1>4 DEF Max
<1>6. elapsed * Limit \in Nat /\ (elapsed = 0 => elapsed * Limit = 0)
  <2> HIDE DEF elapsed
  <2> QED
    BY <1>1, <1>5
<1>7. full \in Nat /\ full <= Limit * Window /\ full <= b.tokens + elapsed * Limit
  <2> DEFINE x == Limit * Window
  <2> DEFINE y == b.tokens + elapsed * Limit
  <2>1. x \in Nat /\ y \in Nat
    BY <1>3, <1>4, <1>6
  <2> HIDE DEF x, y
  <2>2. Min({x, y}) \in Nat /\ Min({x, y}) <= x /\ Min({x, y}) <= y
    BY <2>1, LeastOf
  <2> QED
    BY <2>2 DEF x, y
<1>9. /\ now < buckets[k].expires => b = buckets[k]
      /\ ~(now < buckets[k].expires) => ~(clock < b.at)
  BY <1>1
<1>11. allowed => full >= Window
  OBVIOUS
<1> allowed \in BOOLEAN /\ (clock < b.at) \in BOOLEAN
  OBVIOUS
<1> SUFFICES \E a \in BOOLEAN, o \in BOOLEAN, f \in Nat, s \in {0, 429} :
                BucketSays(r, p, k, clock, f, a, o, s)
  BY Zenon
<1> HIDE DEF k, clock, b, elapsed, full, allowed, status
<1>12. BucketSays(r, p, k, clock, full, allowed, clock < b.at, status)
  BY <1>0, <1>1, <1>4, <1>5, <1>6, <1>7, <1>8, <1>9, <1>10, <1>11, SMTT(30) DEF BucketSays
<1> DEFINE back == clock < b.at
<1>13. BucketSays(r, p, k, clock, full, allowed, back, status)
  BY <1>12
<1>14. allowed \in BOOLEAN /\ back \in BOOLEAN /\ full \in Nat /\ status \in {0, 429}
  BY <1>7, <1>10
<1> HIDE DEF back
<1> USE <1>14
<1> WITNESS allowed \in BOOLEAN, back \in BOOLEAN, full \in Nat, status \in {0, 429}
<1> QED
  BY <1>13

\* What is left of it for the invariants: what it logs and that types stay.
ScriptRan(r, p, status) ==
    /\ Refusal(r) = 0 /\ UNCHANGED <<cfg, skew, delay, now, windows>>
    /\ faults' \in {faults, faults + 1} /\ asked' = Answer(r, p, status)
    /\ status = 0 /\ faults' = 0 => \E n \in DOMAIN log'[RateKey(r)] : log'[RateKey(r)][n].ok
    /\ buckets' \in [Keys -> [tokens : Nat, at : Nat, expires : Nat]]
    /\ log' \in [Keys -> Seq(Said)]
    /\ \A j \in Keys : DOMAIN log[j] \subseteq DOMAIN log'[j]
    /\ \A j \in Keys : \A n \in DOMAIN log[j] : log'[j][n] = log[j][n]

LEMMA ScriptTyped ==
  ASSUME IngestTypes, NEW r \in Requests, NEW p \in Pods, NEW k \in Keys, k = RateKey(r),
         NEW clock \in Nat, NEW full \in Nat, NEW allowed \in BOOLEAN, NEW back \in BOOLEAN,
         NEW status \in {0, 429}, BucketSays(r, p, k, clock, full, allowed, back, status)
  PROVE  ScriptRan(r, p, status)
<1> DEFINE e == [pod |-> p, time |-> now, at |-> clock, back |-> back, ok |-> allowed]
<1>1. Window \in Nat /\ now \in Nat
  BY IngestionAssumption DEF IngestTypes
<1>2. e \in Said /\ e.ok = allowed
  BY <1>1 DEF Said
<1>3. buckets' \in [Keys -> [tokens : Nat, at : Nat, expires : Nat]]
  <2> DEFINE b == [tokens |-> IF allowed THEN full - Window ELSE full,
                   at |-> clock, expires |-> now + 2 * Window]
  <2>1. b \in [tokens : Nat, at : Nat, expires : Nat]
    BY <1>1 DEF BucketSays
  <2>2. buckets' = [buckets EXCEPT ![k] = b]
    BY DEF BucketSays
  <2> HIDE DEF b
  <2> QED
    BY <2>1, <2>2 DEF IngestTypes
<1>4. log' = [log EXCEPT ![k] = Append(@, e)]
  BY DEF BucketSays
<1>5. /\ Refusal(r) = 0 /\ UNCHANGED <<cfg, skew, delay, now, windows>>
      /\ faults' \in {faults, faults + 1} /\ asked' = Answer(r, p, status)
      /\ status = 0 /\ faults' = 0 => allowed
  BY DEF BucketSays
<1> HIDE DEF e
<1>6. /\ log' \in [Keys -> Seq(Said)]
      /\ \A j \in Keys : DOMAIN log[j] \subseteq DOMAIN log'[j]
      /\ \A j \in Keys : \A n \in DOMAIN log[j] : log'[j][n] = log[j][n]
      /\ Len(log[k]) \in Nat /\ DOMAIN log'[k] = 1 .. Len(log[k]) + 1
      /\ log'[k][Len(log[k]) + 1] = e
  <2>1. log' \in [Keys -> Seq(Said)]
    BY <1>2, <1>4, LogStep
  <2>2. \A j \in Keys : DOMAIN log[j] \subseteq DOMAIN log'[j]
    BY <1>2, <1>4, LogStep
  <2>3. \A j \in Keys : \A n \in DOMAIN log[j] : log'[j][n] = log[j][n]
    BY <1>2, <1>4, LogStep
  <2>4. Len(log[k]) \in Nat /\ DOMAIN log'[k] = 1 .. Len(log[k]) + 1
    BY <1>2, <1>4, LogStep
  <2>5. log'[k][Len(log[k]) + 1] = e
    <3>1. log[k] \in Seq(Said) /\ log'[k] = Append(log[k], e)
      BY <1>4 DEF IngestTypes
    <3> QED
      BY <1>2, <3>1, Appended
  <2> QED
    BY <2>1, <2>2, <2>3, <2>4, <2>5
<1>7. allowed => \E n \in DOMAIN log'[k] : log'[k][n].ok
  <2>1. Len(log[k]) + 1 \in DOMAIN log'[k]
    BY <1>6
  <2> QED
    BY <1>2, <1>6, <2>1
<1> QED
  BY <1>3, <1>5, <1>6, <1>7 DEF ScriptRan

LEMMA RunScriptTyped ==
  ASSUME IngestTypes, NEW r \in Requests, NEW p \in Pods, NEW sent \in SentAt,
         AskBucket(r, p, sent) \/ LoseReply(r, p, sent)
  PROVE  \E status \in {0, 429} : ScriptRan(r, p, status)
<1> DEFINE k == RateKey(r)
<1> DEFINE clock == sent + skew[p]
<1>1. PICK allowed \in BOOLEAN, back \in BOOLEAN, full \in Nat, status \in {0, 429} :
         BucketSays(r, p, k, clock, full, allowed, back, status)
  BY RunScriptEffect
<1>2. k \in Keys
  BY KeyOf
<1>3. clock \in Nat
  BY SentFacts
<1>4. k = RateKey(r)
  OBVIOUS
<1> HIDE DEF k, clock
<1>5. ScriptRan(r, p, status)
  BY <1>1, <1>2, <1>3, <1>4, ScriptTyped
<1> QED
  BY <1>5

LEMMA AskNothingEffect ==
  ASSUME IngestTypes, NEW r \in Requests, NEW p \in Pods, AskNothing(r, p)
  PROVE  /\ Refusal(r) = 0 /\ Limiter(cfg) = "redis" /\ faults' = faults + 1
         /\ asked' = Answer(r, p, 0)
         /\ UNCHANGED <<cfg, skew, delay, now, windows, buckets, log>>
  BY DEF AskNothing

\* A handler goes on with a request that was let in: what it has published and
\* what it answers fit.
LEMMA HandleEffect ==
  ASSUME IngestInv, NEW i \in DOMAIN asked, Validate(i) \/ Publish(i) \/ PublishFails(i)
  PROVE  \E a \in Asked :
            /\ asked[i].status = 0 /\ a.req = asked[i].req /\ Told(a)
            /\ asked' = [asked EXCEPT ![i] = a]
            /\ faults' \in {faults, faults + 1}
            /\ UNCHANGED <<cfg, skew, delay, now, windows, buckets, log>>
<1> DEFINE o == asked[i]
<1> DEFINE q == o.req
<1>1. asked \in Seq(Asked) /\ o \in Asked /\ q \in Requests
  <2>1. asked \in Seq(Asked) /\ i \in 1 .. Len(asked)
    BY LenProperties DEF IngestInv, IngestTypes
  <2>2. asked[i] \in Asked
    BY <2>1, ElementOfSeq
  <2> QED
    BY <2>1, <2>2 DEF Asked
<1>2. o.status = 0 /\ o.published \in Nat /\ Told(o)
  BY <1>1 DEF Validate, Publish, PublishFails, Waiting, Asked, IngestInv
<1>3. /\ Check(q) \in {0, 413, 422, 500} /\ Len(q.events) \in Nat
  BY <1>1, CheckStatus
<1>4. CASE Validate(i)
  <2> DEFINE s == IF Check(q) # 0 THEN Check(q) ELSE Reply(q, 0)
  <2> DEFINE a == [o EXCEPT !.checked = TRUE, !.status = s]
  <2>1. ~o.checked /\ o.published = 0
    BY <1>2, <1>4 DEF Validate, Told
  <2>2. /\ asked' = [asked EXCEPT ![i] = a] /\ faults' = faults
        /\ UNCHANGED <<cfg, skew, delay, now, windows, buckets, log>>
    BY <1>1, <1>4 DEF Validate
  <2>3. /\ s \in {0, 200, 413, 422, 500} /\ (s \in {0, 200} => Check(q) = 0)
        /\ (s = 200 => Len(q.events) = 0) /\ (s = 0 => Len(q.events) # 0)
    BY <1>3 DEF Reply
  <2>4. s \in Statuses
    BY <2>3 DEF Statuses
  <2> HIDE DEF s
  <2>5. a \in Asked /\ a.req = q /\ a.checked /\ a.status = s /\ a.published = 0
    BY <1>1, <2>1, <2>4 DEF Asked
  <2> HIDE DEF a, q
  <2>6. Told(a)
    BY <1>3, <2>3, <2>5 DEF Told
  <2> QED
    BY <1>2, <2>2, <2>5, <2>6 DEF q
<1>5. CASE Publish(i)
  <2> DEFINE n == o.published + 1
  <2> DEFINE s == Reply(q, n)
  <2> DEFINE a == [o EXCEPT !.published = n, !.status = s]
  <2>1. o.checked /\ Check(q) = 0 /\ o.published < Len(q.events)
    BY <1>2, <1>5 DEF Publish, Told
  <2>2. /\ asked' = [asked EXCEPT ![i] = a] /\ faults' = faults
        /\ UNCHANGED <<cfg, skew, delay, now, windows, buckets, log>>
    BY <1>1, <1>5 DEF Publish
  <2>3. /\ s \in {0, 200} /\ (s = 200 => n = Len(q.events)) /\ (s = 0 => n < Len(q.events))
        /\ n \in Nat
    BY <1>2, <1>3, <2>1 DEF Reply
  <2>4. s \in Statuses
    BY <2>3 DEF Statuses
  <2> HIDE DEF s, n
  <2>5. a \in Asked /\ a.req = q /\ a.checked /\ a.status = s /\ a.published = n
    BY <1>1, <2>1, <2>3, <2>4 DEF Asked
  <2> HIDE DEF a, q
  <2>6. Told(a)
    BY <1>3, <2>1, <2>3, <2>5 DEF Told
  <2> QED
    BY <1>2, <2>2, <2>5, <2>6 DEF q
<1>6. CASE PublishFails(i)
  <2> DEFINE c == 500
  <2> DEFINE a == [o EXCEPT !.status = c]
  <2>1. o.checked /\ Check(q) = 0 /\ o.published < Len(q.events)
    BY <1>2, <1>6 DEF PublishFails, Told
  <2>2. /\ asked' = [asked EXCEPT ![i].status = c] /\ faults' = faults + 1
        /\ UNCHANGED <<cfg, skew, delay, now, windows, buckets, log>>
    BY <1>6 DEF PublishFails
  <2>3. c \in Statuses /\ c \in {0, 200, 500} /\ c # 0 /\ c # 200
    BY DEF Statuses
  <2> HIDE DEF c
  <2>4. asked' = [asked EXCEPT ![i] = a]
    BY <1>1, <2>2
  <2>5. a \in Asked /\ a.req = q /\ a.checked /\ a.status = c /\ a.published = o.published
    BY <1>1, <2>1, <2>3 DEF Asked
  <2> HIDE DEF a, q
  <2>6. Told(a)
    BY <1>3, <2>1, <2>3, <2>5 DEF Told
  <2> QED
    BY <1>2, <2>2, <2>4, <2>5, <2>6 DEF q
<1> QED
  BY <1>4, <1>5, <1>6

\* The part of a deque that the popleft loop leaves.
LEMMA KeptFacts ==
  ASSUME NEW s \in Seq(Int), NEW c \in Int
  PROVE  /\ Kept(s, c) \in Seq(Int)
         /\ \E d \in 0 .. Len(s) :
               /\ Len(Kept(s, c)) = Len(s) - d
               /\ \A m \in 1 .. Len(s) - d : Kept(s, c)[m] = s[m + d]
               /\ \A m \in 1 .. d : s[m] <= c
<1> DEFINE S == {n \in 1 .. Len(s) : s[n] > c} \cup {Len(s) + 1}
<1> DEFINE first == Min(S)
<1>1. Len(s) \in Nat /\ \A n \in 1 .. Len(s) : s[n] \in Int
  BY LenProperties, ElementOfSeq
<1>2. S \subseteq Nat /\ S # {}
  BY <1>1
<1>3. first \in S /\ \A n \in S : first <= n
  <2> HIDE DEF S
  <2> QED
    BY <1>2, LeastOf
<1>4. first \in 1 .. Len(s) + 1 /\ \A m \in 1 .. first - 1 : s[m] <= c
  <2>1. first \in 1 .. Len(s) + 1
    BY <1>1, <1>3
  <2>2. ASSUME NEW m \in 1 .. first - 1, s[m] > c
        PROVE  FALSE
    <3>1. m \in 1 .. Len(s) /\ m < first
      BY <1>1, <2>1
    <3>2. m \in S
      BY <2>2, <3>1
    <3>3. first <= m
      BY <1>3, <3>2
    <3> HIDE DEF first
    <3> QED
      BY <1>1, <2>1, <3>1, <3>3
  <2>3. ASSUME NEW m \in 1 .. first - 1
        PROVE  m \in 1 .. Len(s)
    BY <1>1, <2>1
  <2> QED
    BY <1>1, <2>1, <2>2, <2>3
<1> DEFINE k == SubSeq(s, first, Len(s))
<1>5. Kept(s, c) = k
  BY DEF Kept
<1> HIDE DEF S, first
<1>6. k \in Seq(Int) /\ Len(k) = Len(s) - (first - 1)
      /\ \A m \in 1 .. Len(s) - (first - 1) : k[m] = s[m + (first - 1)]
  BY <1>1, <1>4
<1>7. first - 1 \in 0 .. Len(s)
  BY <1>1, <1>4
<1> QED
  BY <1>4, <1>5, <1>6, <1>7

LEMMA WindowsType ==
  ASSUME IngestTypes, NEW r, NEW p \in Pods, NEW k \in Keys, NEW allowed \in BOOLEAN, NEW clean \in BOOLEAN,
         NEW kept \in Seq(Int), WindowSays(r, p, k, kept, allowed, clean)
  PROVE  windows' \in [Pods -> [Keys -> Seq(Int)]]
<1>1. Clock(p) \in Int
  BY ClockIsNat
<1>2. Append(kept, Clock(p)) \in Seq(Int) /\ <<>> \in Seq(Int)
  BY <1>1, Appended
<1>3. \A j \in Keys : windows[p][j] \in Seq(Int)
  BY DEF IngestTypes
<1>4. windows'[p] \in [Keys -> Seq(Int)]
  BY <1>2, <1>3 DEF IngestTypes, WindowSays
<1> QED
  BY <1>4 DEF IngestTypes, WindowSays

-----------------------------------------------------------------------------

LEMMA InitIngestInv == Init => IngestInv
<1> SUFFICES ASSUME Init PROVE IngestInv
  OBVIOUS
<1>1. Limit * Window \in Nat
  BY IngestionAssumption
<1>2. IngestTypes
  BY <1>1 DEF Init, IngestTypes
<1> QED
  BY <1>2 DEF Init, IngestInv

\* Only a step that asks the sliding window changes the deques, and in
\* production none does.
LEMMA IngestStep ==
  ASSUME IngestInv, [Next]_vars
  PROVE  IngestInv'
<1>0. /\ IngestTypes
      /\ \A i \in DOMAIN asked : Guarded(asked[i])
      /\ ProductionLike(cfg) => \A p \in Pods, k \in Keys : windows[p][k] = <<>>
      /\ \A i \in DOMAIN asked : Told(asked[i])
  BY DEF IngestInv
<1>1. CASE Tick
  <2>1. /\ UNCHANGED <<cfg, skew, delay, windows, buckets, asked, log, faults>> /\ now' = now + 1
    BY <1>1 DEF Tick
  <2>2. IngestTypes'
    BY <1>0, <2>1 DEF IngestTypes, ValidConfig, AuthSettings, Limiter, ProductionLike, NonProduction
  <2>3. \A i \in DOMAIN asked' : Guarded(asked[i])'
    BY <1>0, <2>1 DEF Guarded, ProductionLike, AcceptsIngestion
  <2> QED
    BY <1>0, <2>1, <2>2, <2>3 DEF IngestInv, ProductionLike
\* A step that answers request number Len(asked) + 1.
<1>2. ASSUME NEW r \in Requests, NEW p \in Pods, NEW status \in Statuses \ {200, 500},
             asked' = Answer(r, p, status), cfg' = cfg,
             faults' \in {faults, faults + 1},
             \A j \in Keys : /\ DOMAIN log[j] \subseteq DOMAIN log'[j]
                            /\ \A n \in DOMAIN log[j] : log'[j][n] = log[j][n],
             status = 0 => /\ Refusal(r) = 0
                           /\ faults' = 0 => \E n \in DOMAIN log'[RateKey(r)] : log'[RateKey(r)][n].ok
      PROVE  /\ \A i \in DOMAIN asked' : Guarded(asked[i])'
             /\ \A i \in DOMAIN asked' : Told(asked'[i])
  <2>1. /\ DOMAIN asked = 1 .. Len(asked) /\ Len(asked) \in Nat
        /\ DOMAIN asked' = 1 .. Len(asked) + 1
        /\ \A i \in 1 .. Len(asked) : asked'[i] = asked[i]
        /\ asked'[Len(asked) + 1].req = r
        /\ asked'[Len(asked) + 1].status = status
        /\ ~asked'[Len(asked) + 1].checked
        /\ asked'[Len(asked) + 1].published = 0
    BY <1>0, <1>2, AnswerStep
  <2>2. ASSUME NEW i \in DOMAIN asked' PROVE i \in DOMAIN asked \/ i = Len(asked) + 1
    BY <2>1
  <2>3. ASSUME NEW i \in DOMAIN asked PROVE Guarded(asked[i])'
    <3>1. asked'[i] = asked[i] /\ asked[i].req.sub \in Keys /\ (faults' = 0 => faults = 0)
      <4>1. asked \in Seq(Asked) /\ i \in 1 .. Len(asked)
        BY <1>0, <2>1 DEF IngestTypes
      <4>2. asked[i] \in Asked
        BY <4>1, ElementOfSeq
      <4> QED
        BY <1>0, <1>2, <2>1, <4>2 DEF Asked, Keys, IngestTypes
    <3>2. Guarded(asked[i])
      BY <1>0
    <3> QED
      BY <1>2, <3>1, <3>2 DEF Guarded, ProductionLike, AcceptsIngestion
  <2>4. ASSUME NEW i, i = Len(asked) + 1 PROVE Guarded(asked[i])'
    <3>1. SUFFICES ASSUME ProductionLike(cfg), status = 0
                   PROVE  /\ r.token = "valid" /\ r.tenant = "ours"
                          /\ AcceptsIngestion(cfg)
                          /\ faults' = 0 => \E n \in DOMAIN log'[r.sub] : log'[r.sub][n].ok
      <4> DEFINE a == asked'[i]
      <4>1. a.req = r /\ a.status = status /\ a.published = 0
        BY <2>1, <2>4
      <4>2. Guarded(asked[i])' <=>
              (ProductionLike(cfg) /\ (a.status = 0 \/ a.published > 0) =>
                /\ a.req.token = "valid" /\ a.req.tenant = "ours"
                /\ AcceptsIngestion(cfg)
                /\ faults' = 0 => \E n \in DOMAIN log'[a.req.sub] : log'[a.req.sub][n].ok)
        BY <1>2, <2>1 DEF Guarded, ProductionLike, AcceptsIngestion
      <4> HIDE DEF a
      <4> QED
        BY <4>1, <4>2
    <3>2. r.token = "valid" /\ r.tenant = "ours" /\ RateKey(r) = r.sub /\ AcceptsIngestion(cfg)
      BY <1>0, <1>2, <3>1, ProductionPass DEF IngestTypes
    <3> QED
      BY <1>2, <3>1, <3>2
  <2>5. \A i \in DOMAIN asked' : Guarded(asked[i])'
    BY <2>2, <2>3, <2>4
  <2>6. ASSUME NEW i \in DOMAIN asked'
        PROVE  Told(asked'[i])
    <3>1. CASE i \in DOMAIN asked
      BY <1>0, <2>1, <3>1
    <3>2. CASE i = Len(asked) + 1
      <4> DEFINE a == asked'[i]
      <4>1. ~a.checked /\ a.published = 0 /\ a.status \notin {200, 500}
        BY <1>2, <2>1, <3>2
      <4> HIDE DEF a
      <4>2. Told(a)
        BY <4>1 DEF Told
      <4> QED
        BY <4>2 DEF a
    <3> QED
      BY <2>2, <3>1, <3>2
  <2> QED
    BY <2>5, <2>6
\* What the other variables must keep in such a step.
<1>3. ASSUME NEW r \in Requests, NEW p \in Pods, NEW status \in Statuses,
             asked' = Answer(r, p, status), UNCHANGED <<cfg, skew, delay, now>>,
             faults' \in {faults, faults + 1},
             windows' \in [Pods -> [Keys -> Seq(Int)]],
             buckets' \in [Keys -> [tokens : Nat, at : Nat, expires : Nat]],
             log' \in [Keys -> Seq(Said)]
      PROVE  IngestTypes'
  <2>1. asked' \in Seq(Asked)
    BY <1>0, <1>3, AnswerStep
  <2> QED
    BY <1>0, <1>3, <2>1 DEF IngestTypes, ValidConfig, AuthSettings, Limiter, ProductionLike, NonProduction
<1>4. {0, 401, 413, 429, 503} \subseteq Statuses \ {200, 500}
  BY DEF Statuses
<1>5. ASSUME NEW r \in Requests, NEW p \in Pods, Refuse(r, p)
      PROVE  IngestInv'
  <2>1. /\ Refusal(r) \in {401, 413, 503} /\ asked' = Answer(r, p, Refusal(r))
        /\ UNCHANGED <<cfg, skew, delay, now, windows, buckets, log, faults>>
    BY <1>0, <1>5, RefuseEffect
  <2>2. Refusal(r) \in Statuses \ {200, 500} /\ Refusal(r) # 0
    BY <1>4, <2>1
  <2>3. IngestTypes'
    <3>1. /\ windows' \in [Pods -> [Keys -> Seq(Int)]]
          /\ buckets' \in [Keys -> [tokens : Nat, at : Nat, expires : Nat]]
          /\ log' \in [Keys -> Seq(Said)]
          /\ UNCHANGED <<cfg, skew, delay, now>> /\ faults' = faults
      BY <1>0, <2>1 DEF IngestTypes
    <3> QED
      BY <1>3, <2>1, <2>2, <3>1
  <2>4. /\ \A i \in DOMAIN asked' : Guarded(asked[i])'
        /\ \A i \in DOMAIN asked' : Told(asked'[i])
    BY <1>2, <2>1, <2>2
  <2> QED
    BY <1>0, <2>1, <2>3, <2>4 DEF IngestInv, ProductionLike
<1>6. ASSUME NEW r \in Requests, NEW p \in Pods, AskWindow(r, p)
      PROVE  IngestInv'
  <2> DEFINE k == RateKey(r)
  <2> DEFINE kept == Kept(windows[p][k], Clock(p) - Window)
  <2>0. PICK allowed \in BOOLEAN, clean \in BOOLEAN : WindowSays(r, p, k, kept, allowed, clean)
    BY <1>0, <1>6, AskWindowEffect
  <2>1. /\ Refusal(r) = 0 /\ Limiter(cfg) = "memory"
        /\ windows' = [windows EXCEPT ![p] = [j \in Keys |->
               IF j = k THEN IF allowed THEN Append(kept, Clock(p)) ELSE kept
               ELSE IF clean /\ Stale(windows[p][j], Clock(p) - Window) THEN <<>> ELSE windows[p][j]]]
        /\ log' = [log EXCEPT ![k] =
                     Append(@, [pod |-> p, time |-> now, at |-> Clock(p), back |-> FALSE,
                                ok |-> allowed])]
        /\ asked' = Answer(r, p, IF allowed THEN 0 ELSE 429)
        /\ UNCHANGED <<cfg, skew, delay, now, buckets, faults>>
    BY <2>0 DEF WindowSays
  <2>2. k \in Keys /\ Clock(p) - Window \in Int /\ windows[p][k] \in Seq(Int)
    BY <1>0, KeyOf, ClockIsNat, IngestionAssumption, SMTT(30) DEF IngestTypes
  <2>3. kept \in Seq(Int)
    BY <2>2, KeptFacts
  <2> DEFINE e == [pod |-> p, time |-> now, at |-> Clock(p), back |-> FALSE, ok |-> allowed]
  <2>4. e \in Said /\ e.ok = allowed
    BY <1>0, ClockIsNat DEF Said, IngestTypes
  <2> DEFINE s == IF allowed THEN 0 ELSE 429
  <2>5. s \in Statuses \ {200, 500} /\ (s = 0 <=> allowed)
    BY <1>4
  <2>6. windows' \in [Pods -> [Keys -> Seq(Int)]]
    <3> HIDE DEF k, kept
    <3> QED
      BY <1>0, <2>0, <2>2, <2>3, WindowsType
  <2> HIDE DEF k, kept, e, s
  <2>7. /\ log' \in [Keys -> Seq(Said)]
        /\ \A j \in Keys : DOMAIN log[j] \subseteq DOMAIN log'[j]
        /\ \A j \in Keys : \A n \in DOMAIN log[j] : log'[j][n] = log[j][n]
        /\ Len(log[k]) \in Nat /\ DOMAIN log'[k] = 1 .. Len(log[k]) + 1
        /\ log'[k][Len(log[k]) + 1] = e
    <3>1. log' = [log EXCEPT ![k] = Append(@, e)]
      BY <2>1 DEF e
    <3> QED
      BY <1>0, <2>2, <2>4, <3>1, LogStep
  <2>8. asked' = Answer(r, p, s)
    BY <2>1 DEF s
  <2>9. IngestTypes'
    <3>1. /\ buckets' \in [Keys -> [tokens : Nat, at : Nat, expires : Nat]]
          /\ UNCHANGED <<cfg, skew, delay, now>> /\ faults' = faults
      BY <1>0, <2>1 DEF IngestTypes
    <3> QED
      BY <1>3, <2>5, <2>6, <2>7, <2>8, <3>1
  <2>10. s = 0 => \E n \in DOMAIN log'[k] : log'[k][n].ok
    <3>1. Len(log[k]) + 1 \in DOMAIN log'[k]
      BY <2>7
    <3> QED
      BY <2>4, <2>5, <2>7, <3>1
  <2>11. /\ \A i \in DOMAIN asked' : Guarded(asked[i])'
         /\ \A i \in DOMAIN asked' : Told(asked'[i])
    <3>1. s = 0 => /\ Refusal(r) = 0
                   /\ faults' = 0 => \E n \in DOMAIN log'[RateKey(r)] : log'[RateKey(r)][n].ok
      BY <2>1, <2>10 DEF k
    <3> QED
      BY <1>2, <2>1, <2>5, <2>7, <2>8, <3>1
  <2>12. ~ProductionLike(cfg)
    BY <1>0, <2>1, ProductionPass DEF IngestTypes
  <2> QED
    BY <2>1, <2>9, <2>11, <2>12 DEF IngestInv, ProductionLike
<1>7. ASSUME NEW r \in Requests, NEW p \in Pods, NEW sent \in SentAt,
             AskBucket(r, p, sent) \/ LoseReply(r, p, sent)
      PROVE  IngestInv'
  <2>1. PICK status \in {0, 429} : ScriptRan(r, p, status)
    BY <1>0, <1>7, RunScriptTyped
  <2>2. status \in Statuses \ {200, 500}
    BY <1>4
  <2>3. /\ Refusal(r) = 0 /\ UNCHANGED <<cfg, skew, delay, now, windows>>
        /\ faults' \in {faults, faults + 1} /\ asked' = Answer(r, p, status)
        /\ status = 0 /\ faults' = 0 => \E n \in DOMAIN log'[RateKey(r)] : log'[RateKey(r)][n].ok
        /\ buckets' \in [Keys -> [tokens : Nat, at : Nat, expires : Nat]]
        /\ log' \in [Keys -> Seq(Said)]
        /\ \A j \in Keys : DOMAIN log[j] \subseteq DOMAIN log'[j]
        /\ \A j \in Keys : \A n \in DOMAIN log[j] : log'[j][n] = log[j][n]
    BY <2>1 DEF ScriptRan
  <2>8. IngestTypes'
    <3>1. windows' \in [Pods -> [Keys -> Seq(Int)]]
      BY <1>0, <2>3 DEF IngestTypes
    <3> QED
      BY <1>3, <2>2, <2>3, <3>1
  <2>10. /\ \A i \in DOMAIN asked' : Guarded(asked[i])'
         /\ \A i \in DOMAIN asked' : Told(asked'[i])
    BY <1>2, <2>2, <2>3
  <2> QED
    BY <1>0, <2>3, <2>8, <2>10 DEF IngestInv, ProductionLike
<1>8. ASSUME NEW r \in Requests, NEW p \in Pods, AskNothing(r, p)
      PROVE  IngestInv'
  <2>1. /\ Refusal(r) = 0 /\ faults' = faults + 1 /\ asked' = Answer(r, p, 0)
        /\ UNCHANGED <<cfg, skew, delay, now, windows, buckets, log>>
    BY <1>0, <1>8, AskNothingEffect
  <2>2. IngestTypes'
    <3>1. /\ windows' \in [Pods -> [Keys -> Seq(Int)]]
          /\ buckets' \in [Keys -> [tokens : Nat, at : Nat, expires : Nat]]
          /\ log' \in [Keys -> Seq(Said)]
          /\ UNCHANGED <<cfg, skew, delay, now>> /\ faults' \in {faults, faults + 1}
      BY <1>0, <2>1 DEF IngestTypes
    <3> QED
      BY <1>3, <1>4, <2>1, <3>1
  <2>3. faults' # 0
    BY <1>0, <2>1 DEF IngestTypes
  <2>4. /\ \A i \in DOMAIN asked' : Guarded(asked[i])'
        /\ \A i \in DOMAIN asked' : Told(asked'[i])
    BY <1>2, <1>4, <2>1, <2>3
  <2> QED
    BY <1>0, <2>1, <2>2, <2>4 DEF IngestInv, ProductionLike
<1>9. ASSUME NEW i \in DOMAIN asked, Validate(i) \/ Publish(i) \/ PublishFails(i)
      PROVE  IngestInv'
  <2>1. PICK a \in Asked :
           /\ asked[i].status = 0 /\ a.req = asked[i].req /\ Told(a)
           /\ asked' = [asked EXCEPT ![i] = a]
           /\ faults' \in {faults, faults + 1}
           /\ UNCHANGED <<cfg, skew, delay, now, windows, buckets, log>>
    BY <1>9, HandleEffect
  <2>2. asked \in Seq(Asked) /\ Len(asked) \in Nat /\ DOMAIN asked = 1 .. Len(asked) /\ asked[i] \in Asked
    <3>1. asked \in Seq(Asked)
      BY <1>0 DEF IngestTypes
    <3> QED
      BY <3>1, LenProperties, ElementOfSeq
  <2>5. /\ asked' \in Seq(Asked) /\ DOMAIN asked' = DOMAIN asked /\ asked'[i] = a
        /\ \A n \in DOMAIN asked : n # i => asked'[n] = asked[n]
    BY <2>1, <2>2, ExceptSeq
  <2>6. IngestTypes'
    BY <1>0, <2>1, <2>5 DEF IngestTypes, ValidConfig, AuthSettings, Limiter, ProductionLike, NonProduction
  <2>7. ASSUME NEW n \in DOMAIN asked' PROVE Guarded(asked[n])'
    <3>1. faults' = 0 => faults = 0
      BY <1>0, <2>1 DEF IngestTypes
    <3>2. Guarded(asked[n]) /\ Guarded(asked[i])
      BY <1>0, <2>5
    <3>3. asked'[n].req = asked[n].req
      BY <2>1, <2>5
    <3>4. CASE n = i
      BY <2>1, <2>5, <3>1, <3>2, <3>4 DEF Guarded, ProductionLike, AcceptsIngestion
    <3>5. CASE n # i
      BY <2>1, <2>5, <3>1, <3>2, <3>5 DEF Guarded, ProductionLike, AcceptsIngestion
    <3> QED
      BY <3>4, <3>5
  <2>8. ASSUME NEW n \in DOMAIN asked'
        PROVE  Told(asked'[n])
    BY <1>0, <2>1, <2>5
  <2> QED
    BY <1>0, <2>1, <2>6, <2>7, <2>8 DEF IngestInv, ProductionLike
<1>10. CASE UNCHANGED vars
  <2>1. UNCHANGED <<cfg, skew, delay, now, windows, buckets, asked, log, faults>>
    BY <1>10 DEF vars
  <2>2. IngestTypes'
    BY <1>0, <2>1 DEF IngestTypes, ValidConfig, AuthSettings, Limiter, ProductionLike, NonProduction
  <2>3. \A i \in DOMAIN asked' : Guarded(asked[i])'
    BY <1>0, <2>1 DEF Guarded, ProductionLike, AcceptsIngestion
  <2> QED
    BY <1>0, <2>1, <2>2, <2>3 DEF IngestInv, ProductionLike
<1> QED
  <2>1. CASE \E r \in Requests, p \in Pods : \E sent \in SentAt :
                AskBucket(r, p, sent) \/ LoseReply(r, p, sent)
    BY <1>7, <2>1
  <2>2. CASE \E i \in DOMAIN asked : Validate(i) \/ Publish(i) \/ PublishFails(i)
    BY <1>9, <2>2
  <2> QED
    BY <1>1, <1>5, <1>6, <1>8, <1>10, <2>1, <2>2 DEF Next, Serve, Handle

\* What a client is told of its batch is what reached the bus: 200 stands for
\* every event, a client error (a middleware's, the limiter's or the schema's) for
\* none and a server error for a part at most; and nothing of a batch is published
\* unless all of it was accepted, although the handler of ingest_events_batch waits
\* for the bus after every event.
THEOREM AnswersTell == Spec => []PublishedAsAnswered
<1>1. IngestInv => PublishedAsAnswered
  <2> SUFFICES ASSUME IngestInv, NEW i \in DOMAIN asked, NEW a, a = asked[i]
               PROVE  /\ a.status = 200 => a.published = Len(a.req.events)
                      /\ a.status \in 400 .. 499 => a.published = 0
                      /\ a.status \in {0, 500, 503} /\ a.req.events # <<>>
                            => a.published < Len(a.req.events)
                      /\ a.published > 0 => /\ \A n \in DOMAIN a.req.events : a.req.events[n] = "good"
                                            /\ a.req.batch => Len(a.req.events) <= MaxBatch
    BY DEF PublishedAsAnswered
  <2>1. asked \in Seq(Asked) /\ Told(a)
    BY DEF IngestInv, IngestTypes
  <2>2. a \in Asked
    BY <2>1, LenProperties, ElementOfSeq
  <2>3. a.req \in Requests /\ a.published \in Nat
    BY <2>2 DEF Asked
  <2>4. /\ Check(a.req) = 0 => /\ \A n \in DOMAIN a.req.events : a.req.events[n] = "good"
                               /\ a.req.batch => Len(a.req.events) <= MaxBatch
        /\ Len(a.req.events) \in Nat /\ (a.req.events = <<>> <=> Len(a.req.events) = 0)
    BY <2>3, CheckStatus
  <2>5. a.status \in 400 .. 499 => a.status \notin {0, 200, 500}
    OBVIOUS
  <2>6. a.status = 503 => a.status \notin {0, 200, 500}
    OBVIOUS
  <2> DEFINE done == a.published
  <2> DEFINE size == Len(a.req.events)
  <2>7. /\ a.status = 200 => done = size
        /\ a.status \notin {0, 200, 500} => done = 0
        /\ a.status = 0 => done = 0 \/ done < size
        /\ a.status = 500 => done = 0 \/ done < size
        /\ done > 0 => Check(a.req) = 0
    BY <2>1 DEF Told
  <2>8. done \in Nat /\ size \in Nat /\ (a.req.events = <<>> <=> size = 0)
    BY <2>3, <2>4
  <2>9. a.published > 0 => /\ \A n \in DOMAIN a.req.events : a.req.events[n] = "good"
                           /\ a.req.batch => Len(a.req.events) <= MaxBatch
    BY <2>4, <2>7
  <2>10. a.status = 200 => a.published = Len(a.req.events)
    BY <2>7
  <2>11. a.status \in 400 .. 499 => a.published = 0
    BY <2>5, <2>7
  <2> HIDE DEF done, size
  <2>12. a.status \in {0, 500, 503} /\ a.req.events # <<>> => done < size
    BY <2>6, <2>7, <2>8
  <2>13. a.status \in {0, 500, 503} /\ a.req.events # <<>> => a.published < Len(a.req.events)
    BY <2>12 DEF done, size
  <2> QED
    BY <2>9, <2>10, <2>11, <2>13
<1> QED
  BY <1>1, InitIngestInv, IngestStep, PTL DEF Spec

\* Under every configuration that _validate_runtime_settings accepts for
\* production or staging, what reaches the bus came with a token of the tenant to
\* a pod that ingests and, unless Redis failed, was counted by the shared limiter.
THEOREM GuardedInProduction == Spec => []ProductionGuarded
<1>1. IngestInv => ProductionGuarded
  BY ZenonT(40) DEF IngestInv, ProductionGuarded, Guarded
<1> QED
  BY <1>1, InitIngestInv, IngestStep, PTL DEF Spec

-----------------------------------------------------------------------------
(* The sliding window.                                                     *)

\* The entries of a deque that are newer than a cutoff.
Beyond(s, cutoff) == {m \in 1 .. Len(s) : s[m] > cutoff}

\* The requests of a caller that a pod let in less than a window before t.
Recent(p, k, t) ==
    {n \in DOMAIN log[k] : log[k][n].ok /\ log[k][n].pod = p /\ log[k][n].time > t - Window}

\* A deque is short, sorted and not ahead of the clock of its pod.
Deque(s, clock) ==
    /\ Len(s) <= Limit
    /\ \A m, n \in 1 .. Len(s) : m <= n => s[m] <= s[n]
    /\ \A m \in 1 .. Len(s) : s[m] <= clock

\* A deque still holds an entry for every request that counts, now or later.
Remembered(p, k, t) ==
    Cardinality(Recent(p, k, t)) <= Cardinality(Beyond(windows[p][k], t + skew[p] - Window))

WindowOK(p, k) ==
    /\ Deque(windows[p][k], Clock(p))
    /\ \A t \in Nat : t >= now => Remembered(p, k, t)

WindowInv ==
    /\ IngestInv
    /\ Limiter(cfg) = "memory" => \A p \in Pods, k \in Keys : WindowOK(p, k)
    /\ WindowBound

-----------------------------------------------------------------------------

LEMMA UpTo ==
  ASSUME NEW n \in Nat
  PROVE  IsFiniteSet(1 .. n) /\ Cardinality(1 .. n) = n
<1>1. 1 \in Int /\ n \in Int
  OBVIOUS
<1>2. IsFiniteSet(1 .. n) /\ Cardinality(1 .. n) = IF 1 > n THEN 0 ELSE n - 1 + 1
  BY <1>1, FS_Interval
<1> QED
  BY <1>2

LEMMA BeyondFinite ==
  ASSUME NEW s \in Seq(Int), NEW c \in Int
  PROVE  /\ IsFiniteSet(Beyond(s, c)) /\ Cardinality(Beyond(s, c)) \in Nat
         /\ Cardinality(Beyond(s, c)) <= Len(s)
<1>1. Len(s) \in Nat
  BY LenProperties
<1>2. IsFiniteSet(1 .. Len(s)) /\ Cardinality(1 .. Len(s)) = Len(s)
  BY <1>1, UpTo
<1>3. Beyond(s, c) \in SUBSET (1 .. Len(s))
  BY DEF Beyond
<1>4. IsFiniteSet(Beyond(s, c)) /\ Cardinality(Beyond(s, c)) <= Cardinality(1 .. Len(s))
  BY <1>2, <1>3, FS_Subset
<1> QED
  BY <1>2, <1>4, FS_CardinalityType

\* The popleft loop drops nothing that a later cutoff still counts.
LEMMA BeyondKept ==
  ASSUME NEW s \in Seq(Int), NEW c \in Int, NEW c2 \in Int, c <= c2
  PROVE  Cardinality(Beyond(s, c2)) <= Cardinality(Beyond(Kept(s, c), c2))
<1> DEFINE w == Kept(s, c)
<1>1. w \in Seq(Int) /\ Len(s) \in Nat /\ \A m \in 1 .. Len(s) : s[m] \in Int
  BY KeptFacts, LenProperties, ElementOfSeq
<1>2. PICK d \in 0 .. Len(s) :
         /\ Len(w) = Len(s) - d
         /\ \A m \in 1 .. Len(s) - d : w[m] = s[m + d]
         /\ \A m \in 1 .. d : s[m] <= c
  BY KeptFacts
<1> HIDE DEF w
<1> DEFINE S == Beyond(s, c2)
<1> DEFINE T == Beyond(w, c2)
<1> DEFINE f == [m \in S |-> m - d]
<1>3. \A m \in S : m \in 1 .. Len(s) /\ s[m] > c2
  BY DEF Beyond
<1>4. ASSUME NEW m \in S PROVE m - d \in T
  <2>1. m \in 1 .. Len(s) /\ s[m] > c2 /\ s[m] \in Int
    BY <1>1, <1>3
  <2>2. m > d
    BY <1>1, <1>2, <2>1
  <2>3. m - d \in 1 .. Len(s) - d /\ (m - d) + d = m
    BY <1>1, <2>1, <2>2
  <2>4. w[m - d] = s[m]
    BY <1>2, <2>3
  <2> QED
    BY <1>2, <2>1, <2>3, <2>4 DEF Beyond
<1>5. f \in [S -> T] /\ \A m, n \in S : f[m] = f[n] => m = n
  <2>1. f \in [S -> T]
    BY <1>4
  <2>2. ASSUME NEW m \in S, NEW n \in S, m - d = n - d PROVE m = n
    BY <1>3, <2>2
  <2> QED
    BY <2>1, <2>2
<1>6. f \in Injection(S, T)
  BY <1>5 DEF Injection, IsInjective
<1>7. IsFiniteSet(T)
  BY <1>1, BeyondFinite
<1> HIDE DEF f, S, T
<1>8. Cardinality(S) <= Cardinality(T)
  BY <1>6, <1>7, FS_Injection
<1> QED
  BY <1>8 DEF S, T, w

LEMMA BeyondAppend ==
  ASSUME NEW s \in Seq(Int), NEW e \in Int, NEW c \in Int
  PROVE  Cardinality(Beyond(Append(s, e), c)) = Cardinality(Beyond(s, c)) + (IF e > c THEN 1 ELSE 0)
<1>1. /\ Len(s) \in Nat /\ Len(Append(s, e)) = Len(s) + 1
      /\ \A n \in 1 .. Len(s) : Append(s, e)[n] = s[n]
      /\ Append(s, e)[Len(s) + 1] = e
  BY Appended
<1>2. Beyond(Append(s, e), c) = Beyond(s, c) \cup (IF e > c THEN {Len(s) + 1} ELSE {})
  BY <1>1 DEF Beyond
<1>3. Len(s) + 1 \notin Beyond(s, c) /\ IsFiniteSet(Beyond(s, c)) /\ Cardinality(Beyond(s, c)) \in Nat
  <2>1. ~(Len(s) + 1 \in 1 .. Len(s))
    BY <1>1
  <2>2. Beyond(s, c) \in SUBSET (1 .. Len(s))
    BY DEF Beyond
  <2>3. IsFiniteSet(Beyond(s, c)) /\ Cardinality(Beyond(s, c)) \in Nat
    BY BeyondFinite
  <2> QED
    BY <2>1, <2>2, <2>3
<1> DEFINE S == Beyond(s, c)
<1>4. Cardinality(S \cup {Len(s) + 1}) = Cardinality(S) + 1
  <2> HIDE DEF S
  <2> QED
    BY <1>3, FS_AddElement DEF S
<1>5. CASE e > c
  BY <1>2, <1>3, <1>4, <1>5
<1>6. CASE ~(e > c)
  <2>1. Beyond(Append(s, e), c) = Beyond(s, c)
    BY <1>2, <1>6
  <2> QED
    BY <1>3, <1>6, <2>1
<1> QED
  BY <1>5, <1>6

LEMMA StaleForgotten ==
  ASSUME NEW s \in Seq(Int), NEW clock \in Int, Deque(s, clock), NEW c \in Int, NEW c2 \in Int, c <= c2,
         Stale(s, c)
  PROVE  Beyond(s, c2) = {}
<1>1. Len(s) \in Nat /\ \A m \in 1 .. Len(s) : s[m] \in Int
  BY LenProperties, ElementOfSeq
<1>2. ASSUME NEW m \in 1 .. Len(s), s[m] > c2 PROVE FALSE
  <2>1. s # <<>> /\ Len(s) \in 1 .. Len(s)
    BY <1>1, <1>2
  <2>2. s[m] <= s[Len(s)] /\ s[Len(s)] <= c
    BY <1>1, <2>1 DEF Deque, Stale
  <2> QED
    BY <1>1, <1>2, <2>1, <2>2
<1> QED
  BY <1>2 DEF Beyond

\* A deque that lost its head, or all of it, is still one, also with the
\* reading of its clock at the end if there is room.
LEMMA DequeStep ==
  ASSUME NEW s \in Seq(Int), NEW clock \in Int, Deque(s, clock), NEW c \in Int, Limit \in Nat
  PROVE  /\ Deque(Kept(s, c), clock)
         /\ Deque(<<>>, clock)
         /\ Len(Kept(s, c)) < Limit => Deque(Append(Kept(s, c), clock), clock)
<1> DEFINE w == Kept(s, c)
<1>1. w \in Seq(Int) /\ Len(s) \in Nat
  BY KeptFacts, LenProperties
<1>2. PICK d \in 0 .. Len(s) :
         /\ Len(w) = Len(s) - d
         /\ \A m \in 1 .. Len(s) - d : w[m] = s[m + d]
  BY KeptFacts
<1> HIDE DEF w
<1>3. Deque(w, clock)
  <2>1. \A m \in 1 .. Len(w) : m + d \in 1 .. Len(s) /\ w[m] = s[m + d]
    <3> TAKE m \in 1 .. Len(w)
    <3>1. Len(w) = Len(s) - d /\ d \in 0 .. Len(s)
      BY <1>2
    <3>2. m \in 1 .. Len(s) - d /\ m + d \in 1 .. Len(s)
      BY <1>1, <3>1
    <3> QED
      BY <1>2, <3>2
  <2>2. Len(w) <= Limit /\ \A m \in 1 .. Len(w) : w[m] <= clock
    BY <1>1, <1>2, <2>1, SMTT(30) DEF Deque
  <2>3. ASSUME NEW m \in 1 .. Len(w), NEW n \in 1 .. Len(w), m <= n
        PROVE  w[m] <= w[n]
    <3>1. m + d \in 1 .. Len(s) /\ n + d \in 1 .. Len(s) /\ m + d <= n + d
      BY <1>1, <2>1, <2>3
    <3>2. s[m + d] <= s[n + d]
      BY <3>1 DEF Deque
    <3> QED
      BY <2>1, <3>2
  <2> QED
    BY <2>2, <2>3 DEF Deque
<1>4. /\ Len(w) \in Nat /\ Len(Append(w, clock)) = Len(w) + 1
      /\ \A n \in 1 .. Len(w) : Append(w, clock)[n] = w[n]
      /\ Append(w, clock)[Len(w) + 1] = clock
  BY <1>1, Appended
<1>5. Len(w) < Limit => Deque(Append(w, clock), clock)
  BY <1>3, <1>4 DEF Deque
<1>6. Deque(<<>>, clock)
  BY DEF Deque
<1> QED
  BY <1>3, <1>5, <1>6 DEF w

LEMMA RecentFinite ==
  ASSUME IngestTypes, NEW p \in Pods, NEW k \in Keys, NEW t \in Int
  PROVE  IsFiniteSet(Recent(p, k, t)) /\ Cardinality(Recent(p, k, t)) \in Nat
<1>1. log[k] \in Seq(Said)
  BY DEF IngestTypes
<1>2. Len(log[k]) \in Nat /\ DOMAIN log[k] = 1 .. Len(log[k])
  BY <1>1, LenProperties
<1>3. IsFiniteSet(DOMAIN log[k]) /\ Recent(p, k, t) \in SUBSET (DOMAIN log[k])
  BY <1>2, FS_Interval DEF Recent
<1> QED
  BY <1>3, FS_Subset, FS_CardinalityType

\* An answer of the limiter adds itself to the requests that count, if it is
\* a yes of this pod and of this window.
LEMMA RecentStep ==
  ASSUME IngestTypes, NEW k \in Keys, NEW e \in Said, log' = [log EXCEPT ![k] = Append(@, e)],
         NEW p \in Pods, NEW j \in Keys, NEW t \in Int
  PROVE  /\ j # k \/ e.pod # p \/ ~e.ok => Recent(p, j, t)' = Recent(p, j, t)
         /\ j = k /\ e.pod = p /\ e.ok =>
               Cardinality(Recent(p, j, t)')
                  = Cardinality(Recent(p, j, t)) + (IF e.time > t - Window THEN 1 ELSE 0)
<1>1. /\ \A i \in Keys : i # k => log'[i] = log[i]
      /\ \A n \in DOMAIN log[k] : log'[k][n] = log[k][n]
      /\ DOMAIN log[k] = 1 .. Len(log[k]) /\ Len(log[k]) \in Nat
      /\ DOMAIN log'[k] = 1 .. Len(log[k]) + 1
      /\ log'[k][Len(log[k]) + 1] = e
  BY LogStep
<1> DEFINE new == Len(log[k]) + 1
<1>2. /\ DOMAIN log'[k] = DOMAIN log[k] \cup {new} /\ new \notin DOMAIN log[k] /\ log'[k][new] = e
      /\ \A n \in DOMAIN log[k] : log'[k][n] = log[k][n]
  BY <1>1
<1> HIDE DEF new
<1>3. CASE j # k
  BY <1>1, <1>3 DEF Recent
<1>4. CASE j = k /\ (e.pod # p \/ ~e.ok \/ ~(e.time > t - Window))
  <2>1. Recent(p, k, t)' = Recent(p, k, t)
    BY <1>2, <1>4 DEF Recent
  <2>2. Cardinality(Recent(p, k, t)) \in Nat
    BY RecentFinite
  <2> QED
    BY <1>4, <2>1, <2>2
<1>5. CASE j = k /\ e.pod = p /\ e.ok /\ e.time > t - Window
  <2>1. Recent(p, k, t)' = Recent(p, k, t) \cup {new} /\ new \notin Recent(p, k, t)
    BY <1>2, <1>5 DEF Recent
  <2>2. IsFiniteSet(Recent(p, k, t))
    BY RecentFinite
  <2>3. Cardinality(Recent(p, k, t) \cup {new}) = Cardinality(Recent(p, k, t)) + 1
    BY <2>1, <2>2, FS_AddElement
  <2> QED
    BY <1>5, <2>1, <2>3
<1> QED
  BY <1>3, <1>4, <1>5

\* Asking the window for one caller keeps what the deques of all remember.
LEMMA AskWindowOK ==
  ASSUME IngestTypes, NEW r, NEW p \in Pods, NEW k \in Keys, NEW allowed \in BOOLEAN, NEW clean \in BOOLEAN,
         WindowSays(r, p, k, Kept(windows[p][k], Clock(p) - Window), allowed, clean),
         NEW q \in Pods, NEW j \in Keys, WindowOK(q, j)
  PROVE  WindowOK(q, j)'
<1> DEFINE c == Clock(p) - Window
<1> DEFINE kept == Kept(windows[p][k], c)
<1> DEFINE e == [pod |-> p, time |-> now, at |-> Clock(p), back |-> FALSE, ok |-> allowed]
<1>0. /\ Window \in Nat /\ Limit \in Nat /\ now \in Nat /\ skew[q] \in Nat /\ skew[p] \in Nat
      /\ Clock(p) \in Nat /\ Clock(q) \in Nat /\ Clock(p) = now + skew[p] /\ c \in Int
      /\ windows[p][k] \in Seq(Int) /\ windows[q][j] \in Seq(Int)
      /\ e \in Said /\ e.pod = p /\ e.time = now /\ e.ok = allowed
  <2>1. /\ Window \in Nat /\ Limit \in Nat /\ now \in Nat /\ skew[q] \in Nat /\ skew[p] \in Nat
        /\ Clock(p) \in Nat /\ Clock(q) \in Nat /\ Clock(p) = now + skew[p]
    BY ClockIsNat, IngestionAssumption DEF IngestTypes, Clock
  <2>2. windows[p][k] \in Seq(Int) /\ windows[q][j] \in Seq(Int)
    BY DEF IngestTypes
  <2>3. e \in Said /\ e.pod = p /\ e.time = now /\ e.ok = allowed
    BY <2>1 DEF Said
  <2>4. c \in Int
    BY <2>1
  <2> QED
    BY <2>1, <2>2, <2>3, <2>4
<1>1. /\ allowed <=> Len(kept) < Limit
      /\ log' = [log EXCEPT ![k] = Append(@, e)]
      /\ now' = now /\ skew' = skew /\ Clock(q)' = Clock(q)
  BY DEF WindowSays, Clock
<1>2. /\ q # p => windows'[q][j] = windows[q][j]
      /\ q = p /\ j = k => windows'[q][j] = IF allowed THEN Append(kept, Clock(p)) ELSE kept
      /\ q = p /\ j # k =>
            windows'[q][j] = IF clean /\ Stale(windows[p][j], c) THEN <<>> ELSE windows[p][j]
  BY DEF WindowSays, IngestTypes
<1>3. kept \in Seq(Int)
  BY <1>0, KeptFacts
<1> HIDE DEF kept, e, c
<1>4. Deque(windows[q][j], Clock(q)) /\ \A t \in Nat : t >= now => Remembered(q, j, t)
  BY DEF WindowOK
<1>5. Deque(windows'[q][j], Clock(q))
  <2>1. /\ Deque(Kept(windows[q][j], c), Clock(q))
        /\ Deque(<<>>, Clock(q))
        /\ Len(Kept(windows[q][j], c)) < Limit => Deque(Append(Kept(windows[q][j], c), Clock(q)), Clock(q))
    BY <1>0, <1>4, DequeStep
  <2>2. CASE q = p /\ j = k
    BY <1>1, <1>2, <2>1, <2>2 DEF kept
  <2>3. CASE q = p /\ j # k
    BY <1>2, <1>4, <2>1, <2>3
  <2>4. CASE q # p
    BY <1>2, <1>4, <2>4
  <2> QED
    BY <2>2, <2>3, <2>4
<1>6. ASSUME NEW t \in Nat, t >= now
      PROVE  Cardinality(Recent(q, j, t)') <= Cardinality(Beyond(windows'[q][j], t + skew[q] - Window))
  <2> DEFINE c2 == t + skew[q] - Window
  <2>0. c2 \in Int /\ t \in Int /\ (q = p => c <= c2)
    BY <1>0, <1>6, SMTT(30) DEF c
  <2>1. Cardinality(Recent(q, j, t)) <= Cardinality(Beyond(windows[q][j], c2))
    BY <1>4, <1>6 DEF Remembered
  <2>2. /\ j # k \/ e.pod # q \/ ~e.ok => Recent(q, j, t)' = Recent(q, j, t)
        /\ j = k /\ e.pod = q /\ e.ok =>
              Cardinality(Recent(q, j, t)')
                 = Cardinality(Recent(q, j, t)) + (IF e.time > t - Window THEN 1 ELSE 0)
    <3>1. log' = [log EXCEPT ![k] = Append(@, e)] /\ e \in Said
      BY <1>0, <1>1
    <3> QED
      BY <2>0, <3>1, RecentStep, ZenonT(40)
  <2> HIDE DEF c2
  <2>3. /\ Cardinality(Recent(q, j, t)) \in Nat
        /\ Cardinality(Beyond(windows[q][j], c2)) \in Nat
        /\ Cardinality(Beyond(kept, c2)) \in Nat
    <3>1. Cardinality(Recent(q, j, t)) \in Nat
      BY <2>0, RecentFinite
    <3> QED
      BY <1>0, <1>3, <2>0, <3>1, BeyondFinite
  <2>4. CASE q = p /\ j = k
    <3>1. Cardinality(Beyond(windows[q][j], c2)) <= Cardinality(Beyond(kept, c2))
      BY <1>0, <2>0, <2>4, BeyondKept DEF kept
    <3>2. CASE allowed
      <4>1. Cardinality(Beyond(Append(kept, Clock(p)), c2))
              = Cardinality(Beyond(kept, c2)) + (IF Clock(p) > c2 THEN 1 ELSE 0)
        BY <1>0, <1>3, <2>0, BeyondAppend, SMTT(30)
      <4>2. now > t - Window <=> Clock(p) > c2
        BY <1>0, <2>4 DEF c2
      <4>3. Cardinality(Recent(q, j, t)')
              = Cardinality(Recent(q, j, t)) + (IF Clock(p) > c2 THEN 1 ELSE 0)
        BY <1>0, <2>2, <2>4, <3>2, <4>2
      <4>4. windows'[q][j] = Append(kept, Clock(p))
        BY <1>2, <2>4, <3>2
      <4>5. Cardinality(Recent(q, j, t)') <= Cardinality(Beyond(Append(kept, Clock(p)), c2))
        BY <2>1, <2>3, <3>1, <4>1, <4>3
      <4> QED
        BY <4>4, <4>5 DEF c2
    <3>3. CASE ~allowed
      <4>1. Recent(q, j, t)' = Recent(q, j, t) /\ windows'[q][j] = kept
        BY <1>0, <1>2, <2>2, <2>4, <3>3
      <4> QED
        BY <2>1, <2>3, <3>1, <4>1 DEF c2
    <3> QED
      BY <3>2, <3>3
  <2>5. CASE q = p /\ j # k /\ clean /\ Stale(windows[p][j], c)
    <3>1. Beyond(windows[q][j], c2) = {}
      BY <1>0, <1>4, <2>0, <2>5, StaleForgotten
    <3>2. windows'[q][j] = <<>> /\ Beyond(<<>>, c2) = {}
      BY <1>2, <2>5 DEF Beyond
    <3> QED
      BY <2>1, <2>2, <2>5, <3>1, <3>2 DEF c2
  <2>6. CASE q # p \/ (j # k /\ ~(clean /\ Stale(windows[p][j], c)))
    <3>1. windows'[q][j] = windows[q][j] /\ Recent(q, j, t)' = Recent(q, j, t)
      BY <1>0, <1>2, <2>2, <2>6
    <3> QED
      BY <2>1, <3>1 DEF c2
  <2> QED
    BY <2>4, <2>5, <2>6
<1> QED
  BY <1>1, <1>5, <1>6 DEF WindowOK, Remembered

\* Validated settings and clocks do not change.
LEMMA SettingsStay ==
  ASSUME [Next]_vars
  PROVE  cfg' = cfg /\ skew' = skew /\ delay' = delay
<1>1. CASE Tick
  BY <1>1 DEF Tick
<1>2. ASSUME NEW r \in Requests, NEW p \in Pods,
             \/ Refuse(r, p) \/ AskWindow(r, p) \/ AskNothing(r, p)
             \/ \E sent \in SentAt : AskBucket(r, p, sent) \/ LoseReply(r, p, sent)
      PROVE  cfg' = cfg /\ skew' = skew /\ delay' = delay
  BY <1>2 DEF Refuse, AskWindow, AskBucket, AskNothing, LoseReply, RunScript
<1>3. ASSUME NEW i, Validate(i) \/ Publish(i) \/ PublishFails(i)
      PROVE  cfg' = cfg /\ skew' = skew /\ delay' = delay
  BY <1>3 DEF Validate, Publish, PublishFails
<1>4. CASE UNCHANGED vars
  BY <1>4 DEF vars
<1> QED
  BY <1>1, <1>2, <1>3, <1>4 DEF Next, Serve, Handle

LEMMA InitWindowInv == Init => WindowInv
<1> SUFFICES ASSUME Init PROVE WindowInv
  OBVIOUS
<1>1. IngestInv /\ IngestTypes
  BY InitIngestInv DEF IngestInv
<1>2. ASSUME NEW p \in Pods, NEW k \in Keys PROVE WindowOK(p, k)
  <2>1. windows[p][k] = <<>> /\ log[k] = <<>>
    BY DEF Init
  <2>2. \A t \in Nat : Recent(p, k, t) = {} /\ Beyond(windows[p][k], t + skew[p] - Window) = {}
    BY <2>1 DEF Recent, Beyond
  <2>3. \A t \in Nat : Remembered(p, k, t)
    <3>1. Cardinality({}) <= Cardinality({})
      BY FS_EmptySet
    <3> QED
      BY <2>2, <3>1 DEF Remembered
  <2>4. Deque(windows[p][k], Clock(p))
    BY <2>1, IngestionAssumption DEF Deque
  <2> QED
    BY <2>3, <2>4 DEF WindowOK
<1>3. WindowBound
  BY DEF Init, WindowBound
<1> QED
  BY <1>1, <1>2, <1>3 DEF WindowInv

LEMMA WindowStep ==
  ASSUME WindowInv, [Next]_vars
  PROVE  WindowInv'
<1>0. /\ IngestInv /\ IngestInv' /\ IngestTypes /\ IngestTypes' /\ WindowBound
      /\ Limiter(cfg) = "memory" => \A p \in Pods, k \in Keys : WindowOK(p, k)
  BY IngestStep DEF WindowInv, IngestInv
<1>1. cfg' = cfg /\ skew' = skew /\ Limiter(cfg)' = Limiter(cfg)
  <2>1. cfg' = cfg /\ skew' = skew
    BY SettingsStay
  <2> QED
    BY <2>1 DEF Limiter, ProductionLike
<1>2. SUFFICES ASSUME Limiter(cfg) = "memory"
               PROVE  /\ \A p \in Pods, k \in Keys : WindowOK(p, k)'
                      /\ WindowBound'
  BY <1>0, <1>1 DEF WindowInv, WindowBound
<1>3. CASE windows' = windows /\ log' = log /\ now' \in {now, now + 1}
  <2>1. ASSUME NEW p \in Pods, NEW k \in Keys PROVE WindowOK(p, k)'
    <3>1. /\ now \in Nat /\ Clock(p) \in Nat /\ Clock(p)' \in Nat /\ Clock(p) <= Clock(p)' /\ now <= now'
          /\ windows[p][k] \in Seq(Int)
      <4>1. now \in Nat /\ windows[p][k] \in Seq(Int) /\ skew[p] \in Nat
        BY <1>0, ClockIsNat DEF IngestTypes
      <4>2. Clock(p) = now + skew[p] /\ Clock(p)' = now' + skew[p]
        BY <1>1 DEF Clock
      <4>3. now' \in Nat /\ now <= now'
        BY <1>3, <4>1
      <4> QED
        BY <4>1, <4>2, <4>3
    <3>2. WindowOK(p, k) /\ Len(windows[p][k]) \in Nat /\ \A m \in 1 .. Len(windows[p][k]) : windows[p][k][m] \in Int
      BY <1>0, <1>2, <3>1, LenProperties, ElementOfSeq
    <3>3. Deque(windows[p][k], Clock(p)')
      BY <3>1, <3>2 DEF WindowOK, Deque
    <3>4. ASSUME NEW t \in Nat, t >= now' PROVE Remembered(p, k, t)'
      <4>1. t >= now
        BY <1>3, <3>1, <3>4
      <4>2. Remembered(p, k, t)
        BY <3>2, <4>1 DEF WindowOK
      <4> QED
        BY <1>1, <1>3, <4>2 DEF Remembered, Recent
    <3> QED
      BY <1>3, <3>3, <3>4 DEF WindowOK
  <2>2. WindowBound'
    BY <1>0, <1>1, <1>2, <1>3 DEF WindowBound, Admitted
  <2> QED
    BY <2>1, <2>2
<1>4. ASSUME NEW r \in Requests, NEW p \in Pods, AskWindow(r, p)
      PROVE  /\ \A q \in Pods, j \in Keys : WindowOK(q, j)'
             /\ WindowBound'
  <2> DEFINE k == RateKey(r)
  <2>1. PICK allowed \in BOOLEAN, clean \in BOOLEAN :
           WindowSays(r, p, k, Kept(windows[p][k], Clock(p) - Window), allowed, clean)
    BY <1>0, <1>4, AskWindowEffect
  <2>2. k \in Keys
    BY KeyOf
  <2> HIDE DEF k
  <2>3. \A q \in Pods, j \in Keys : WindowOK(q, j)'
    BY <1>0, <1>2, <2>1, <2>2, AskWindowOK
  <2> DEFINE e == [pod |-> p, time |-> now, at |-> Clock(p), back |-> FALSE, ok |-> allowed]
  <2>4. e \in Said /\ e.time = now /\ now \in Nat /\ now' = now
    BY <1>0, <2>1, ClockIsNat DEF Said, IngestTypes, WindowSays
  <2>5. /\ \A j \in Keys : j # k => log'[j] = log[j]
        /\ \A n \in DOMAIN log[k] : log'[k][n] = log[k][n]
        /\ DOMAIN log[k] = 1 .. Len(log[k]) /\ Len(log[k]) \in Nat
        /\ DOMAIN log'[k] = 1 .. Len(log[k]) + 1
        /\ log'[k][Len(log[k]) + 1] = e
    <3>1. log' = [log EXCEPT ![k] = Append(@, e)]
      BY <2>1 DEF WindowSays
    <3> HIDE DEF e
    <3> QED
      BY <1>0, <2>2, <2>4, <3>1, LogStep
  <2> HIDE DEF e
  <2>6. ASSUME NEW j \in Keys, NEW q \in Pods, NEW i \in DOMAIN log'[j]
        PROVE  Cardinality({n \in Admitted(j, 1, i)' : /\ log'[j][n].pod = q
                                                      /\ log'[j][n].time > log'[j][i].time - Window}) <= Limit
    <3> DEFINE S == {n \in Admitted(j, 1, i)' : /\ log'[j][n].pod = q
                                                /\ log'[j][n].time > log'[j][i].time - Window}
    <3>1. CASE i \in DOMAIN log[j]
      <4>0. DOMAIN log[j] = 1 .. Len(log[j]) /\ Len(log[j]) \in Nat
        <5>1. log[j] \in Seq(Said)
          BY <1>0 DEF IngestTypes
        <5> QED
          BY <5>1, LenProperties
      <4>1. \A n \in 1 .. i : n \in DOMAIN log[j]
        BY <3>1, <4>0
      <4>2. \A n \in 1 .. i : log'[j][n] = log[j][n]
        BY <2>5, <4>1
      <4>3. i \in 1 .. i
        BY <3>1, <4>0
      <4>4. S = {n \in Admitted(j, 1, i) : /\ log[j][n].pod = q
                                          /\ log[j][n].time > log[j][i].time - Window}
        BY <4>2, <4>3 DEF Admitted
      <4>5. Cardinality({n \in Admitted(j, 1, i) : /\ log[j][n].pod = q
                                                   /\ log[j][n].time > log[j][i].time - Window}) <= Limit
        BY <1>0, <1>2, <3>1 DEF WindowBound
      <4> HIDE DEF S
      <4>6. Cardinality(S) <= Limit
        BY <4>4, <4>5
      <4> QED
        BY <4>6 DEF S
    <3>2. CASE i \notin DOMAIN log[j]
      <4>1. j = k /\ i = Len(log[k]) + 1
        BY <2>5, <3>2
      <4>2. log'[j][i].time = now /\ DOMAIN log'[j] = 1 .. i
        BY <2>4, <2>5, <4>1
      <4>3. S = Recent(q, j, now)'
        BY <2>4, <4>2 DEF Admitted, Recent
      <4>4. Cardinality(Recent(q, j, now)') <= Limit
        <5> DEFINE R == Recent(q, j, now)'
        <5> DEFINE w == windows'[q][j]
        <5> DEFINE c == now + skew[q] - Window
        <5>1. c \in Int /\ w \in Seq(Int) /\ Limit \in Nat
          <6>1. skew[q] \in Nat /\ Window \in Nat /\ Limit \in Nat
            BY <1>0, ClockIsNat, IngestionAssumption
          <6>2. w \in Seq(Int)
            BY <1>0 DEF IngestTypes
          <6> QED
            BY <2>4, <6>1, <6>2
        <5>2. Cardinality(R) <= Cardinality(Beyond(w, c)) /\ Len(w) <= Limit
          <6>1. WindowOK(q, j)'
            BY <2>3
          <6> QED
            BY <1>1, <2>4, <6>1 DEF WindowOK, Remembered, Deque
        <5>3. R \in SUBSET (1 .. i) /\ IsFiniteSet(1 .. i)
          <6>1. R \subseteq DOMAIN log'[j]
            BY DEF Recent
          <6>2. i \in Int /\ 1 \in Int
            BY <2>5, <4>1
          <6>3. IsFiniteSet(1 .. i)
            BY <6>2, FS_Interval
          <6> HIDE DEF R
          <6> QED
            BY <4>2, <6>1, <6>3
        <5> HIDE DEF R, w, c
        <5>4. Cardinality(R) \in Nat
          BY <5>3, FS_Subset, FS_CardinalityType
        <5>5. Cardinality(Beyond(w, c)) \in Nat /\ Cardinality(Beyond(w, c)) <= Len(w) /\ Len(w) \in Nat
          BY <5>1, BeyondFinite, LenProperties
        <5>6. Cardinality(R) <= Limit
          BY <5>1, <5>2, <5>4, <5>5
        <5> QED
          BY <5>6 DEF R
      <4> HIDE DEF S
      <4>5. Cardinality(S) <= Limit
        BY <4>3, <4>4
      <4> QED
        BY <4>5 DEF S
    <3> QED
      BY <3>1, <3>2
  <2>7. WindowBound'
    BY <2>6 DEF WindowBound
  <2> QED
    BY <2>3, <2>7
<1>5. CASE Tick
  BY <1>3, <1>5 DEF Tick
<1>6. ASSUME NEW r \in Requests, NEW p \in Pods,
             \/ Refuse(r, p) \/ AskNothing(r, p)
             \/ \E sent \in SentAt : AskBucket(r, p, sent) \/ LoseReply(r, p, sent)
      PROVE  windows' = windows /\ log' = log /\ now' = now
  BY <1>2, <1>6 DEF Refuse, AskNothing, AskBucket, LoseReply, RunScript
<1>7. ASSUME NEW i \in DOMAIN asked, Validate(i) \/ Publish(i) \/ PublishFails(i)
      PROVE  windows' = windows /\ log' = log /\ now' = now
  BY <1>7 DEF Validate, Publish, PublishFails
<1>8. CASE UNCHANGED vars
  BY <1>3, <1>8 DEF vars
<1>9. CASE \E r \in Requests, p \in Pods :
              \/ Refuse(r, p) \/ AskNothing(r, p)
              \/ \E sent \in SentAt : AskBucket(r, p, sent) \/ LoseReply(r, p, sent)
  BY <1>3, <1>6, <1>9
<1>10. CASE \E i \in DOMAIN asked : Validate(i) \/ Publish(i) \/ PublishFails(i)
  BY <1>3, <1>7, <1>10
<1>11. CASE \E r \in Requests, p \in Pods : AskWindow(r, p)
  BY <1>4, <1>11
<1> QED
  BY <1>5, <1>8, <1>9, <1>10, <1>11 DEF Next, Serve, Handle

\* SlidingWindowRateLimiter lets no more than its limit of one caller's requests
\* through a pod in any window, although it drops the head of a deque on every
\* call and whole deques of other callers every _cleanup_interval_ops calls.
THEOREM WindowHolds == Spec => []WindowBound
<1>1. WindowInv => WindowBound
  BY DEF WindowInv
<1> QED
  BY <1>1, InitWindowInv, WindowStep, PTL DEF Spec

-----------------------------------------------------------------------------
(* The token bucket.                                                       *)

AdmittedIn(s, i, j) == {n \in i .. j : s[n].ok}
BacksIn(s, i, j) == {n \in i + 1 .. j : s[n].back}

\* The time with which the script was called, at most the delay of a call behind
\* the clock of its pod.
Shown(s, n) == s[n].at

Stamped(e) == e.at <= e.time + skew[e.pod] /\ e.time + skew[e.pod] <= e.at + delay

\* What was let in since answer i and what is left is covered by a full bucket
\* and by the way the clock has moved forward, ways back counted twice.
Solvent(s, b, i) ==
    Window * Cardinality(AdmittedIn(s, i, Len(s))) + b.tokens
        <= Limit * (Window + b.at - Shown(s, i) + Drift * Cardinality(BacksIn(s, i, Len(s))))

BucketOK(s, b) ==
    s # <<>> =>
        /\ s[Len(s)].time <= now
        /\ b.expires = s[Len(s)].time + 2 * Window
        /\ b.at = Shown(s, Len(s))
        /\ \A n \in 1 .. Len(s) : Stamped(s[n])
        /\ \A i \in 1 .. Len(s) : Solvent(s, b, i)

\* TokenBound for two answers of one caller.
Between(s, i, j) ==
    Window * Cardinality(AdmittedIn(s, i, j))
        <= Limit * (Window + (s[j].time - s[i].time) + Drift * (1 + Cardinality(BacksIn(s, i, j))))

TokenInv ==
    /\ IngestInv
    /\ Limiter(cfg) = "redis" =>
          \A k \in Keys : /\ BucketOK(log[k], buckets[k])
                          /\ \A i, j \in 1 .. Len(log[k]) : i <= j => Between(log[k], i, j)

-----------------------------------------------------------------------------

LEMMA GreatestOf ==
  ASSUME NEW b \in Nat, NEW S, S \subseteq 0 .. b, S # {}
  PROVE  /\ Max(S) \in S
         /\ \A y \in S : Max(S) >= y
<1> DEFINE T == {b - x : x \in S}
<1>1. T \subseteq Nat /\ T # {}
  <2>1. \A x \in S : b - x \in Nat
    OBVIOUS
  <2>2. PICK x \in S : TRUE
    OBVIOUS
  <2>3. b - x \in T
    OBVIOUS
  <2> QED
    BY <2>1, <2>3
<1>2. Min(T) \in T /\ \A y \in T : Min(T) <= y
  <2> HIDE DEF T
  <2> QED
    BY <1>1, LeastOf
<1>3. PICK x \in S : Min(T) = b - x
  BY <1>2
<1>4. \A y \in S : x >= y
  <2> TAKE y \in S
  <2>1. b - y \in T
    OBVIOUS
  <2>2. b - x <= b - y
    BY <1>2, <1>3, <2>1
  <2>3. x \in Nat /\ y \in Nat
    OBVIOUS
  <2> HIDE DEF T
  <2> QED
    BY <2>2, <2>3
<1> QED
  BY <1>4 DEF Max

\* Two clocks are never further apart than Drift without the delay.
LEMMA DriftFacts ==
  ASSUME IngestTypes, NEW p \in Pods
  PROVE  /\ Drift \in Nat /\ Drift <= MaxSkew + MaxDelay /\ delay \in Nat
         /\ \A q, r \in Pods : skew[q] - skew[r] + delay <= Drift
<1> DEFINE S == {skew[q] : q \in Pods}
<1>1. MaxSkew \in Nat /\ skew \in [Pods -> 0 .. MaxSkew] /\ MaxDelay \in Nat /\ delay \in 0 .. MaxDelay
  BY IngestionAssumption DEF IngestTypes
<1>2. S \subseteq 0 .. MaxSkew /\ S \subseteq Nat /\ S # {} /\ \A q \in Pods : skew[q] \in S
  BY <1>1
<1> HIDE DEF S
<1>3. /\ Max(S) \in S /\ \A y \in S : Max(S) >= y
      /\ Min(S) \in S /\ \A y \in S : Min(S) <= y
  BY <1>1, <1>2, GreatestOf, LeastOf
<1>4. Drift = Max(S) - Min(S) + delay
  BY DEF Drift, S
<1>5. Max(S) \in 0 .. MaxSkew /\ Min(S) \in 0 .. MaxSkew /\ Max(S) >= Min(S)
  BY <1>2, <1>3
<1>6. ASSUME NEW q \in Pods, NEW r \in Pods PROVE skew[q] - skew[r] + delay <= Drift
  <2>1. skew[q] \in Nat /\ skew[r] \in Nat /\ skew[q] <= Max(S) /\ skew[r] >= Min(S)
    BY <1>1, <1>2, <1>3
  <2> QED
    BY <1>1, <1>4, <1>5, <2>1
<1> QED
  BY <1>1, <1>4, <1>5, <1>6

LEMMA CountsFinite ==
  ASSUME NEW s, NEW i \in Int, NEW j \in Int
  PROVE  /\ IsFiniteSet(AdmittedIn(s, i, j)) /\ Cardinality(AdmittedIn(s, i, j)) \in Nat
         /\ IsFiniteSet(BacksIn(s, i, j)) /\ Cardinality(BacksIn(s, i, j)) \in Nat
<1>1. i + 1 \in Int
  OBVIOUS
<1>2. IsFiniteSet(i .. j) /\ IsFiniteSet(i + 1 .. j)
  BY <1>1, FS_Interval
<1>3. AdmittedIn(s, i, j) \in SUBSET (i .. j) /\ BacksIn(s, i, j) \in SUBSET (i + 1 .. j)
  BY DEF AdmittedIn, BacksIn
<1>4. IsFiniteSet(AdmittedIn(s, i, j)) /\ IsFiniteSet(BacksIn(s, i, j))
  BY <1>2, <1>3, FS_Subset
<1> QED
  BY <1>4, FS_CardinalityType

\* One more answer of the limiter.
LEMMA CountAppend ==
  ASSUME NEW s \in Seq(Said), NEW e \in Said, NEW i \in 1 .. Len(s) + 1
  PROVE  /\ Cardinality(AdmittedIn(Append(s, e), i, Len(s) + 1))
               = Cardinality(AdmittedIn(s, i, Len(s))) + (IF e.ok THEN 1 ELSE 0)
         /\ i <= Len(s) =>
               Cardinality(BacksIn(Append(s, e), i, Len(s) + 1))
                  = Cardinality(BacksIn(s, i, Len(s))) + (IF e.back THEN 1 ELSE 0)
         /\ i = Len(s) + 1 => /\ Cardinality(AdmittedIn(s, i, Len(s))) = 0
                              /\ Cardinality(BacksIn(Append(s, e), i, Len(s) + 1)) = 0
<1> DEFINE l == Append(s, e)
<1> DEFINE n == Len(s) + 1
<1>1. /\ Len(s) \in Nat /\ i \in Int /\ n \in Nat /\ n = Len(s) + 1
      /\ \A m \in 1 .. Len(s) : l[m] = s[m]
      /\ l[n] = e
  BY Appended
<1> HIDE DEF l, n
<1>2. AdmittedIn(l, i, n) = AdmittedIn(s, i, Len(s)) \cup (IF e.ok THEN {n} ELSE {})
  BY <1>1 DEF AdmittedIn
<1>3. i <= Len(s) => BacksIn(l, i, n) = BacksIn(s, i, Len(s)) \cup (IF e.back THEN {n} ELSE {})
  BY <1>1 DEF BacksIn
<1>4. n \notin AdmittedIn(s, i, Len(s)) /\ n \notin BacksIn(s, i, Len(s))
  BY <1>1 DEF AdmittedIn, BacksIn
<1>5. i = n => AdmittedIn(s, i, Len(s)) = {} /\ BacksIn(l, i, n) = {}
  BY <1>1 DEF AdmittedIn, BacksIn
<1>6. /\ IsFiniteSet(AdmittedIn(s, i, Len(s))) /\ Cardinality(AdmittedIn(s, i, Len(s))) \in Nat
      /\ IsFiniteSet(BacksIn(s, i, Len(s))) /\ Cardinality(BacksIn(s, i, Len(s))) \in Nat
  BY <1>1, CountsFinite
<1>7. /\ Cardinality(AdmittedIn(s, i, Len(s)) \cup {n}) = Cardinality(AdmittedIn(s, i, Len(s))) + 1
      /\ Cardinality(BacksIn(s, i, Len(s)) \cup {n}) = Cardinality(BacksIn(s, i, Len(s))) + 1
  BY <1>4, <1>6, FS_AddElement
<1>8. Cardinality(AdmittedIn(l, i, n)) = Cardinality(AdmittedIn(s, i, Len(s))) + (IF e.ok THEN 1 ELSE 0)
  <2>1. CASE e.ok
    BY <1>2, <1>7, <2>1
  <2>2. CASE ~e.ok
    <3>1. AdmittedIn(l, i, n) = AdmittedIn(s, i, Len(s))
      BY <1>2, <2>2
    <3> QED
      BY <1>6, <2>2, <3>1
  <2> QED
    BY <2>1, <2>2
<1>9. ASSUME i <= Len(s)
      PROVE  Cardinality(BacksIn(l, i, n)) = Cardinality(BacksIn(s, i, Len(s))) + (IF e.back THEN 1 ELSE 0)
  <2>1. CASE e.back
    BY <1>3, <1>7, <1>9, <2>1
  <2>2. CASE ~e.back
    <3>1. BacksIn(l, i, n) = BacksIn(s, i, Len(s))
      BY <1>3, <1>9, <2>2
    <3> QED
      BY <1>6, <2>2, <3>1
  <2> QED
    BY <2>1, <2>2
<1>10. i = n => Cardinality(AdmittedIn(s, i, Len(s))) = 0 /\ Cardinality(BacksIn(l, i, n)) = 0
  BY <1>5, FS_EmptySet
<1> QED
  BY <1>1, <1>8, <1>9, <1>10 DEF l, n

\* Answers that are logged keep their counts.
LEMMA CountPrefix ==
  ASSUME NEW s \in Seq(Said), NEW e \in Said, NEW i \in 1 .. Len(s), NEW j \in 1 .. Len(s)
  PROVE  /\ AdmittedIn(Append(s, e), i, j) = AdmittedIn(s, i, j)
         /\ BacksIn(Append(s, e), i, j) = BacksIn(s, i, j)
<1>1. Len(s) \in Nat /\ \A m \in 1 .. Len(s) : Append(s, e)[m] = s[m]
  BY Appended
<1>2. i .. j \subseteq 1 .. Len(s) /\ i + 1 .. j \subseteq 1 .. Len(s)
  BY <1>1
<1> QED
  BY <1>1, <1>2 DEF AdmittedIn, BacksIn

\* The arithmetic of a refill: d units of time give back d * l tokens, and the
\* clock, with what is granted for ways back, moved by d at least.
LEMMA Refill ==
  ASSUME NEW l \in Nat, NEW spent \in Int, NEW tok \in Int, NEW full \in Int, NEW d \in Int,
         NEW x \in Int, NEW y \in Int,
         spent + tok <= l * x, full <= tok + d * l, x + d <= y
  PROVE  spent + full <= l * y
<1>1. l * x \in Int /\ l * y \in Int /\ d * l \in Int /\ l * (x + d) \in Int
  OBVIOUS
<1>2. l * x + d * l = l * (x + d)
  OBVIOUS
<1>3. l * (x + d) <= l * y
  <2>1. y - (x + d) \in Nat
    OBVIOUS
  <2>2. l * (y - (x + d)) >= 0 /\ l * (y - (x + d)) = l * y - l * (x + d)
    BY <2>1
  <2> QED
    BY <1>1, <2>2
<1> QED
  BY <1>1, <1>2, <1>3

LEMMA Times ==
  ASSUME NEW w \in Nat, NEW a \in Nat
  PROVE  /\ w * a \in Nat /\ w * (a + 0) = w * a /\ w * (a + 1) = w * a + w
         /\ w * (1 + a) = w * a + w /\ w * 0 = 0 /\ w * 1 = w
  OBVIOUS

LEMMA Scaled ==
  ASSUME NEW l \in Nat, NEW x \in Int, NEW y \in Int, x <= y
  PROVE  l * x \in Int /\ l * y \in Int /\ l * x <= l * y
<1>1. y - x \in Nat
  OBVIOUS
<1>2. l * (y - x) >= 0 /\ l * (y - x) = l * y - l * x
  BY <1>1
<1> QED
  BY <1>2

\* How much a caller may be credited when the script is called: the way of the
\* clock since the last call, nothing if the clock is behind, and a full bucket
\* if the key has expired, which takes two windows of time.
LEMMA Credit ==
  ASSUME IngestTypes, MaxSkew + MaxDelay <= Window, NEW r, NEW p \in Pods, NEW k \in Keys,
         NEW clock \in Nat, NEW status,
         NEW full \in Nat, NEW allowed \in BOOLEAN, NEW back \in BOOLEAN,
         BucketSays(r, p, k, clock, full, allowed, back, status),
         BucketOK(log[k], buckets[k]), log[k] # <<>>
  PROVE  \E d \in Nat : /\ full <= buckets[k].tokens + d * Limit
                        /\ buckets[k].at + d <= clock + (IF back THEN Drift ELSE 0)
<1> DEFINE s == log[k]
<1> DEFINE b == buckets[k]
<1> DEFINE n == Len(s)
<1>1. /\ Window \in Nat /\ Limit \in Nat /\ now \in Nat /\ delay \in Nat
      /\ Drift \in Nat /\ Drift <= MaxSkew + MaxDelay /\ MaxSkew \in Nat /\ MaxDelay \in Nat
  BY DriftFacts, IngestionAssumption DEF IngestTypes
<1>2. b.tokens \in Nat /\ b.at \in Nat /\ b.expires \in Nat
  BY DEF IngestTypes
<1>3. s[n] \in Said
  <2>1. s \in Seq(Said)
    BY DEF IngestTypes
  <2>2. Len(s) \in Nat /\ Len(s) # 0
    BY <2>1, LenProperties, EmptySeq
  <2>3. n \in 1 .. Len(s)
    BY <2>2
  <2> QED
    BY <2>1, <2>3, ElementOfSeq
<1>4. /\ s[n].time \in Nat /\ s[n].pod \in Pods /\ s[n].time <= now
      /\ b.expires = s[n].time + 2 * Window /\ b.at <= s[n].time + skew[s[n].pod]
  <2>1. n \in 1 .. Len(s)
    <3>1. s \in Seq(Said)
      BY DEF IngestTypes
    <3>2. Len(s) \in Nat /\ Len(s) # 0
      BY <3>1, LenProperties, EmptySeq
    <3> QED
      BY <3>2
  <2> QED
    BY <1>3, <2>1 DEF Said, BucketOK, Shown, Stamped
\* As numbers: the last call came at last, with a clock ahead by there.
<1> DEFINE last == s[n].time
<1> DEFINE there == skew[s[n].pod]
<1> DEFINE here == skew[p]
<1>5. /\ here \in Nat /\ there \in Nat /\ there - here + delay <= Drift
      /\ last \in Nat /\ last <= now /\ b.expires = last + 2 * Window /\ b.at <= last + there
      /\ now + here <= clock + delay
  BY <1>4, ClockIsNat, DriftFacts DEF BucketSays
<1>6. /\ full <= Limit * Window
      /\ now < b.expires =>
            /\ back <=> clock < b.at
            /\ back => full <= b.tokens
            /\ ~back => full <= b.tokens + (clock - b.at) * Limit
      /\ ~(now < b.expires) => ~back
  BY DEF BucketSays
<1> HIDE DEF s, b, n, last, there, here
<1>7. CASE ~(now < b.expires)
  <2>1. ~back /\ b.at + Window <= clock
    BY <1>1, <1>2, <1>5, <1>6, <1>7, SMTT(30)
  <2>2. Limit * Window \in Nat /\ Limit * Window = Window * Limit
    BY <1>1
  <2>3. full <= b.tokens + Window * Limit
    BY <1>2, <1>6, <2>2
  <2> QED
    BY <1>1, <2>1, <2>3 DEF b
<1>8. CASE now < b.expires /\ back
  <2>1. full <= b.tokens + 0 * Limit
    BY <1>1, <1>2, <1>6, <1>8
  <2>2. b.at + 0 <= clock + Drift
    BY <1>1, <1>2, <1>5, SMTT(30)
  <2> QED
    BY <1>8, <2>1, <2>2 DEF b
<1>9. CASE now < b.expires /\ ~back
  <2>1. clock - b.at \in Nat /\ b.at + (clock - b.at) <= clock + 0
    BY <1>1, <1>2, <1>6, <1>9
  <2>2. full <= b.tokens + (clock - b.at) * Limit
    BY <1>6, <1>9
  <2> QED
    BY <1>9, <2>1, <2>2 DEF b
<1> QED
  BY <1>7, <1>8, <1>9

LEMMA Moved ==
  ASSUME NEW w \in Int, NEW at \in Int, NEW d \in Int, NEW clock \in Int, NEW g \in Int,
         NEW sh \in Int, NEW u \in Int, NEW v \in Int, at + d <= clock + g, v = u + g
  PROVE  /\ w + at - sh + u \in Int /\ w + clock - sh + v \in Int
         /\ (w + at - sh + u) + d <= w + clock - sh + v
  OBVIOUS

LEMMA AskBucketOK ==
  ASSUME IngestTypes, MaxSkew + MaxDelay <= Window, NEW r, NEW p \in Pods, NEW k \in Keys,
         NEW clock \in Nat, NEW status,
         NEW full \in Nat, NEW allowed, NEW back, allowed \in BOOLEAN, back \in BOOLEAN,
         BucketSays(r, p, k, clock, full, allowed, back, status),
         BucketOK(log[k], buckets[k]), NEW after, NEW left, after = log'[k], left = buckets'[k]
  PROVE  /\ BucketOK(after, left)
         /\ Len(after) = Len(log[k]) + 1
         /\ \A i \in 1 .. Len(after) : Between(after, i, Len(after))
<1> SUFFICES /\ BucketOK(log'[k], buckets'[k])
             /\ Len(log'[k]) = Len(log[k]) + 1
             /\ \A i \in 1 .. Len(log'[k]) : Between(log'[k], i, Len(log'[k]))
  OBVIOUS
<1> DEFINE s == log[k]
<1> DEFINE e == [pod |-> p, time |-> now, at |-> clock, back |-> back, ok |-> allowed]
<1> DEFINE l == Append(s, e)
<1> DEFINE b == buckets'[k]
<1> DEFINE n == Len(s) + 1
<1>1. /\ Window \in Nat /\ Limit \in Nat /\ now \in Nat /\ Drift \in Nat /\ delay \in Nat
      /\ skew[p] \in Nat /\ clock <= now + skew[p] /\ now + skew[p] <= clock + delay
  BY ClockIsNat, DriftFacts, IngestionAssumption DEF IngestTypes, BucketSays
<1>2. /\ e \in Said /\ e.pod = p /\ e.time = now /\ e.at = clock /\ e.back = back /\ e.ok = allowed
  BY <1>1 DEF Said
<1>3. s \in Seq(Said) /\ log'[k] = l
  BY DEF IngestTypes, BucketSays
<1>4. /\ b.tokens = IF allowed THEN full - Window ELSE full
      /\ b.at = clock /\ b.expires = now + 2 * Window
  BY DEF IngestTypes, BucketSays
<1>5. full <= Limit * Window /\ (allowed => full >= Window)
  BY DEF BucketSays
<1>old. buckets[k].tokens \in Nat /\ buckets[k].at \in Nat
  BY DEF IngestTypes
<1> HIDE DEF e
<1>6. /\ Len(s) \in Nat /\ n \in Nat /\ Len(l) = n /\ l \in Seq(Said) /\ l # <<>>
      /\ \A m \in 1 .. Len(s) : l[m] = s[m]
      /\ l[n] = e
  BY <1>2, <1>3, Appended, AppendProperties
<1>7. \A m \in 1 .. n : /\ l[m] \in Said /\ l[m].pod \in Pods /\ l[m].time \in Nat
                         /\ skew[l[m].pod] \in Nat /\ Shown(l, m) \in Nat /\ Stamped(l[m])
                         /\ skew[p] - skew[l[m].pod] + delay <= Drift
  <2> TAKE m \in 1 .. n
  <2>1. l[m] \in Said
    BY <1>6, ElementOfSeq
  <2>2. l[m].pod \in Pods /\ l[m].time \in Nat /\ l[m].at \in Nat
    BY <2>1 DEF Said
  <2>3. skew[l[m].pod] \in Nat /\ skew[p] - skew[l[m].pod] + delay <= Drift
    BY <2>2, ClockIsNat, DriftFacts
  <2>4. Stamped(l[m])
    <3>1. CASE m = n
      BY <1>1, <1>2, <1>6, <3>1 DEF Stamped
    <3>2. CASE m # n
      <4>1. m \in 1 .. Len(s) /\ l[m] = s[m]
        BY <1>6, <3>2
      <4>2. s # <<>>
        BY <1>6, <4>1
      <4> QED
        BY <4>1, <4>2 DEF BucketOK
    <3> QED
      BY <3>1, <3>2
  <2> QED
    BY <2>1, <2>2, <2>3, <2>4 DEF Shown
<1>8. /\ l[n].time = now /\ Shown(l, n) = clock
  BY <1>1, <1>2, <1>6 DEF Shown
\* What is spent and what is left, after the answer.
<1>9. ASSUME NEW i \in 1 .. n
      PROVE  /\ Cardinality(AdmittedIn(l, i, n)) \in Nat /\ Cardinality(BacksIn(l, i, n)) \in Nat
             /\ Cardinality(AdmittedIn(s, i, Len(s))) \in Nat /\ Cardinality(BacksIn(s, i, Len(s))) \in Nat
             /\ Window * Cardinality(AdmittedIn(l, i, n)) \in Nat
             /\ Window * Cardinality(AdmittedIn(s, i, Len(s))) \in Nat
             /\ Window * Cardinality(AdmittedIn(l, i, n)) + b.tokens
                   = Window * Cardinality(AdmittedIn(s, i, Len(s))) + full
  <2>1. /\ Cardinality(AdmittedIn(l, i, n)) \in Nat /\ Cardinality(BacksIn(l, i, n)) \in Nat
        /\ Cardinality(AdmittedIn(s, i, Len(s))) \in Nat /\ Cardinality(BacksIn(s, i, Len(s))) \in Nat
    <3>1. i \in Int /\ n \in Int /\ Len(s) \in Int
      BY <1>6
    <3> HIDE DEF l, n, s
    <3> QED
      BY <3>1, CountsFinite
  <2>2. Cardinality(AdmittedIn(l, i, n)) = Cardinality(AdmittedIn(s, i, Len(s))) + (IF allowed THEN 1 ELSE 0)
    BY <1>2, <1>3, CountAppend
  <2> DEFINE a == Cardinality(AdmittedIn(s, i, Len(s)))
  <2> DEFINE a2 == Cardinality(AdmittedIn(l, i, n))
  <2>3. a \in Nat /\ a2 \in Nat /\ a2 = a + (IF allowed THEN 1 ELSE 0)
    BY <2>1, <2>2
  <2> HIDE DEF a, a2
  <2>4. /\ Window * a \in Nat /\ Window * a2 \in Nat
        /\ Window * a2 = Window * a + (IF allowed THEN Window ELSE 0)
    BY <1>1, <2>3, Times
  <2>5. Window * a2 + b.tokens = Window * a + full
    BY <1>1, <1>4, <2>4
  <2> QED
    BY <2>1, <2>4, <2>5 DEF a, a2
<1>10. ASSUME NEW i \in 1 .. n
       PROVE  Solvent(l, b, i)
  <2> DEFINE a == Cardinality(AdmittedIn(s, i, Len(s)))
  <2> DEFINE c == Cardinality(BacksIn(s, i, Len(s)))
  <2> DEFINE c2 == Cardinality(BacksIn(l, i, n))
  <2> DEFINE y == Window + clock - Shown(l, i) + Drift * c2
  <2>1. a \in Nat /\ c \in Nat /\ c2 \in Nat /\ Window * a \in Nat
    BY <1>9
  <2>2. Shown(l, i) \in Nat
    BY <1>7
  <2>3. CASE i = n
    <3>1. a = 0 /\ c2 = 0
      BY <1>2, <1>3, <2>3, CountAppend
    <3> HIDE DEF a, c2
    <3>2. Window * a = 0 /\ y = Window
      BY <1>1, <1>8, <2>3, <3>1
    <3>3. Window * a + full <= Limit * y
      BY <1>1, <1>5, <3>2
    <3> QED
      BY <1>4, <1>6, <1>9, <3>3 DEF Solvent, a, c2
  <2>4. CASE i # n
    <3>0. i \in 1 .. Len(s) /\ i <= Len(s) /\ s # <<>> /\ Shown(l, i) = Shown(s, i)
      <4>1. i \in 1 .. Len(s)
        BY <1>6, <2>4
      <4>2. s # <<>> /\ l[i] = s[i]
        BY <1>6, <4>1
      <4> QED
        BY <1>6, <4>1, <4>2 DEF Shown
    <3>1. PICK d \in Nat : /\ full <= buckets[k].tokens + d * Limit
                           /\ buckets[k].at + d <= clock + (IF back THEN Drift ELSE 0)
      BY <3>0, Credit
    <3> DEFINE x == Window + buckets[k].at - Shown(s, i) + Drift * c
    <3>2. Window * a + buckets[k].tokens <= Limit * x
      BY <3>0 DEF BucketOK, Solvent
    <3>3. c2 = c + (IF back THEN 1 ELSE 0)
      BY <1>2, <1>3, <3>0, CountAppend
    <3> HIDE DEF a, c, c2
    <3>4. /\ Drift * c \in Nat /\ Drift * c2 \in Nat
          /\ Drift * c2 = Drift * c + (IF back THEN Drift ELSE 0)
      BY <1>1, <2>1, <3>3, Times
    <3>5. x \in Int /\ y \in Int /\ x + d <= y
      <4> DEFINE u == Drift * c
      <4> DEFINE v == Drift * c2
      <4> HIDE DEF u, v
      <4>1. u \in Nat /\ v \in Nat /\ v = u + (IF back THEN Drift ELSE 0)
        BY <3>4 DEF u, v
      <4>2. /\ x = Window + buckets[k].at - Shown(s, i) + u
            /\ y = Window + clock - Shown(s, i) + v
        BY <3>0 DEF u, v
      <4> HIDE DEF x, y
      <4>3. Shown(s, i) \in Nat
        BY <2>2, <3>0
      <4> DEFINE g == IF back THEN Drift ELSE 0
      <4>4. g \in Int /\ v = u + g /\ buckets[k].at + d <= clock + g
        BY <1>1, <3>1, <4>1
      <4>5. Window \in Int /\ buckets[k].at \in Int /\ d \in Int /\ clock \in Int /\ Shown(s, i) \in Int
            /\ u \in Int /\ v \in Int
        BY <1>1, <1>old, <4>1, <4>3
      <4> DEFINE at == buckets[k].at
      <4> DEFINE sh == Shown(s, i)
      <4>6. /\ {Window, at, d, clock, sh, u, v, g} \subseteq Int
            /\ v = u + g /\ at + d <= clock + g
        BY <4>4, <4>5
      <4>7. x = Window + at - sh + u /\ y = Window + clock - sh + v
        BY <4>2
      <4> HIDE DEF g, at, sh
      <4>8. /\ Window + at - sh + u \in Int
            /\ Window + clock - sh + v \in Int
            /\ (Window + at - sh + u) + d <= Window + clock - sh + v
        BY <4>6, Moved, ZenonT(40)
      <4> QED
        BY <4>7, <4>8
    <3> HIDE DEF x, y
    <3>6. Window * a + full <= Limit * y
      <4> DEFINE w == Window * a
      <4> DEFINE t == buckets[k].tokens
      <4>1. w \in Int /\ t \in Int /\ d \in Int /\ w + t <= Limit * x /\ full <= t + d * Limit /\ x + d <= y
        BY <1>old, <2>1, <3>1, <3>2, <3>5
      <4> HIDE DEF w, t
      <4>2. w + full <= Limit * y
        BY <1>1, <3>5, <4>1, Refill
      <4> QED
        BY <4>2 DEF w
    <3> QED
      BY <1>4, <1>6, <1>9, <3>6 DEF Solvent, a, c2, y
  <2> QED
    BY <2>3, <2>4
<1>11. ASSUME NEW i \in 1 .. n
       PROVE  Between(l, i, n)
  <2> DEFINE a2 == Cardinality(AdmittedIn(l, i, n))
  <2> DEFINE c2 == Cardinality(BacksIn(l, i, n))
  <2> DEFINE y == Window + clock - Shown(l, i) + Drift * c2
  <2> DEFINE z == Window + (now - l[i].time) + Drift * (1 + c2)
  <2>1. Window * a2 \in Nat /\ c2 \in Nat /\ b.tokens \in Nat
    BY <1>1, <1>4, <1>5, <1>9
  <2>2. Window * a2 + b.tokens <= Limit * y
    BY <1>4, <1>6, <1>10 DEF Solvent
  <2> HIDE DEF a2, c2
  <2>3. y \in Int /\ z \in Int /\ y <= z
    <3> DEFINE u == Drift * c2
    <3> DEFINE v == Drift * (1 + c2)
    <3> HIDE DEF u, v
    <3>1. u \in Nat /\ v = u + Drift
      BY <1>1, <2>1, Times DEF u, v
    <3>2. /\ y = Window + clock - Shown(l, i) + u
          /\ z = Window + (now - l[i].time) + v
      BY DEF u, v
    <3> DEFINE since == l[i].time
    <3> DEFINE here == skew[p]
    <3> DEFINE there == skew[l[i].pod]
    <3> DEFINE sh == Shown(l, i)
    <3>3. /\ since \in Nat /\ there \in Nat /\ here \in Nat /\ sh \in Nat
          /\ since + there <= sh + delay /\ here - there + delay <= Drift
          /\ clock <= now + here
      BY <1>1, <1>7, ClockIsNat DEF Shown, Stamped
    <3> HIDE DEF y, z, l, since, here, there, sh
    <3>4. clock - sh <= (now - since) + Drift
      BY <1>1, <3>3
    <3>6. /\ Window + clock - sh + u <= Window + (now - since) + v
          /\ Window + clock - sh + u \in Int /\ Window + (now - since) + v \in Int
      BY <1>1, <3>1, <3>3, <3>4
    <3>7. y = Window + clock - sh + u /\ z = Window + (now - since) + v
      BY <3>2 DEF since, sh
    <3> QED
      BY <3>6, <3>7
  <2> HIDE DEF y, z
  <2>4. Limit * y \in Int /\ Limit * z \in Int /\ Limit * y <= Limit * z
    BY <1>1, <2>3, Scaled
  <2>5. Window * a2 <= Limit * z
    BY <2>1, <2>2, <2>4
  <2> QED
    BY <1>8, <2>5 DEF Between, a2, c2, z
<1>12. BucketOK(l, b)
  BY <1>1, <1>4, <1>6, <1>7, <1>8, <1>10 DEF BucketOK
<1> QED
  BY <1>3, <1>6, <1>11, <1>12

LEMMA InitTokenInv == Init => TokenInv
<1> SUFFICES ASSUME Init PROVE TokenInv
  OBVIOUS
<1>1. IngestInv
  BY InitIngestInv
<1>2. \A k \in Keys : log[k] = <<>> /\ Len(log[k]) = 0
  BY DEF Init
<1> QED
  BY <1>1, <1>2 DEF TokenInv, BucketOK

LEMMA TokenStep ==
  ASSUME MaxSkew + MaxDelay <= Window, TokenInv, [Next]_vars
  PROVE  TokenInv'
<1>0. /\ IngestInv /\ IngestInv' /\ IngestTypes /\ IngestTypes'
      /\ Limiter(cfg) = "redis" =>
            \A k \in Keys : /\ BucketOK(log[k], buckets[k])
                            /\ \A i, j \in 1 .. Len(log[k]) : i <= j => Between(log[k], i, j)
  BY IngestStep DEF TokenInv, IngestInv
<1>1. /\ cfg' = cfg /\ skew' = skew /\ delay' = delay
      /\ Limiter(cfg)' = Limiter(cfg) /\ Drift' = Drift
  <2>1. cfg' = cfg /\ skew' = skew /\ delay' = delay
    BY SettingsStay
  <2> QED
    BY <2>1 DEF Limiter, ProductionLike, Drift
<1>2. SUFFICES ASSUME Limiter(cfg) = "redis", NEW k \in Keys
               PROVE  /\ BucketOK(log[k], buckets[k])'
                      /\ \A i, j \in 1 .. Len(log'[k]) : i <= j => Between(log[k], i, j)'
  BY <1>0, <1>1 DEF TokenInv
<1>3. /\ BucketOK(log[k], buckets[k])
      /\ \A i, j \in 1 .. Len(log[k]) : i <= j => Between(log[k], i, j)
  BY <1>0, <1>2
<1>4. log[k] \in Seq(Said) /\ Len(log[k]) \in Nat /\ now \in Nat
  BY <1>0, LenProperties DEF IngestTypes
<1>5. CASE buckets'[k] = buckets[k] /\ log'[k] = log[k] /\ now' \in {now, now + 1}
  <2>1. \A i, j \in 1 .. Len(log'[k]) : i <= j => Between(log[k], i, j)'
    BY <1>1, <1>3, <1>5 DEF Between
  <2>2. ASSUME log[k] # <<>>
        PROVE  log[k][Len(log[k])].time <= now'
    <3>1. log[k][Len(log[k])] \in Said
      <4>1. Len(log[k]) # 0
        BY <1>4, <2>2, EmptySeq
      <4>2. Len(log[k]) \in 1 .. Len(log[k])
        BY <1>4, <4>1
      <4> QED
        BY <1>4, <4>2, ElementOfSeq
    <3>2. log[k][Len(log[k])].time <= now /\ log[k][Len(log[k])].time \in Nat
      BY <1>3, <2>2, <3>1 DEF BucketOK, Said
    <3> QED
      BY <1>4, <1>5, <3>2
  <2>3. BucketOK(log[k], buckets[k])'
    BY <1>1, <1>3, <1>5, <2>2 DEF BucketOK, Solvent, Shown, Stamped
  <2> QED
    BY <2>1, <2>3
<1>6. ASSUME NEW r \in Requests, NEW p \in Pods, NEW sent \in SentAt,
             AskBucket(r, p, sent) \/ LoseReply(r, p, sent)
      PROVE  /\ BucketOK(log[k], buckets[k])'
             /\ \A i, j \in 1 .. Len(log'[k]) : i <= j => Between(log[k], i, j)'
  <2>0. PICK clock \in Nat : clock = sent + skew[p]
    BY <1>0, SentFacts
  <2>1. PICK allowed \in BOOLEAN, back \in BOOLEAN, full \in Nat, status \in {0, 429} :
           BucketSays(r, p, RateKey(r), clock, full, allowed, back, status)
    BY <1>0, <1>6, <2>0, RunScriptEffect
  <2>2. RateKey(r) \in Keys /\ now' = now
    BY <2>1, KeyOf DEF BucketSays
  <2>3. CASE k # RateKey(r)
    <3>1. buckets'[k] = buckets[k] /\ log'[k] = log[k]
      BY <1>0, <2>1, <2>2, <2>3 DEF BucketSays, IngestTypes
    <3> QED
      BY <1>5, <2>2, <3>1
  <2>4. CASE k = RateKey(r)
    <3>0. BucketSays(r, p, k, clock, full, allowed, back, status)
      BY <2>1, <2>4
    <3>1. /\ BucketOK(log'[k], buckets'[k])
          /\ Len(log'[k]) = Len(log[k]) + 1
          /\ \A i \in 1 .. Len(log'[k]) : Between(log'[k], i, Len(log'[k]))
      <4>1. IngestTypes /\ BucketOK(log[k], buckets[k])
        BY <1>0, <1>3
      <4>2. PICK after, left : after = log'[k] /\ left = buckets'[k]
        OBVIOUS
      <4>3. /\ BucketOK(after, left)
            /\ Len(after) = Len(log[k]) + 1
            /\ \A i \in 1 .. Len(after) : Between(after, i, Len(after))
        BY <3>0, <4>1, <4>2, AskBucketOK
      <4> QED
        BY <4>2, <4>3
    <3>2. BucketOK(log[k], buckets[k])'
      BY <1>1, <2>2, <3>1 DEF BucketOK, Solvent, Shown, Stamped
    <3> DEFINE e == [pod |-> p, time |-> now, at |-> clock, back |-> back, ok |-> allowed]
    <3>3. log'[k] = Append(log[k], e) /\ e \in Said
      BY <1>0, <1>4, <2>0, <3>0 DEF BucketSays, IngestTypes, Said
    <3> HIDE DEF e
    <3>4. \A m \in 1 .. Len(log[k]) : log'[k][m] = log[k][m]
      BY <1>4, <3>3, Appended
    <3>5. ASSUME NEW i \in 1 .. Len(log'[k]), NEW j \in 1 .. Len(log'[k]), i <= j
          PROVE  Between(log[k], i, j)'
      <4>1. CASE j = Len(log'[k])
        <5>1. Between(log'[k], i, j)
          BY <3>1, <4>1
        <5> QED
          BY <1>1, <5>1 DEF Between
      <4>2. CASE j # Len(log'[k])
        <5>1. i \in 1 .. Len(log[k]) /\ j \in 1 .. Len(log[k])
          BY <1>4, <3>1, <3>5, <4>2
        <5>2. Between(log[k], i, j)
          BY <1>3, <3>5, <5>1
        <5>3. /\ AdmittedIn(log'[k], i, j) = AdmittedIn(log[k], i, j)
              /\ BacksIn(log'[k], i, j) = BacksIn(log[k], i, j)
          BY <1>4, <3>3, <5>1, CountPrefix
        <5>4. log'[k][i] = log[k][i] /\ log'[k][j] = log[k][j]
          BY <3>4, <5>1
        <5> QED
          BY <1>1, <5>2, <5>3, <5>4 DEF Between
      <4> QED
        BY <4>1, <4>2
    <3> QED
      BY <3>2, <3>5
  <2> QED
    BY <2>3, <2>4
<1>7. CASE Tick
  BY <1>5, <1>7 DEF Tick
<1>8. ASSUME NEW r \in Requests, NEW p \in Pods, Refuse(r, p) \/ AskNothing(r, p) \/ AskWindow(r, p)
      PROVE  buckets' = buckets /\ log' = log /\ now' = now
  BY <1>2, <1>8 DEF Refuse, AskNothing, AskWindow
<1>9. ASSUME NEW i \in DOMAIN asked, Validate(i) \/ Publish(i) \/ PublishFails(i)
      PROVE  buckets' = buckets /\ log' = log /\ now' = now
  BY <1>9 DEF Validate, Publish, PublishFails
<1>10. CASE UNCHANGED vars
  BY <1>5, <1>10 DEF vars
<1>11. CASE \E r \in Requests, p \in Pods : Refuse(r, p) \/ AskNothing(r, p) \/ AskWindow(r, p)
  BY <1>5, <1>8, <1>11
<1>12. CASE \E i \in DOMAIN asked : Validate(i) \/ Publish(i) \/ PublishFails(i)
  BY <1>5, <1>9, <1>12
<1>13. CASE \E r \in Requests, p \in Pods : \E sent \in SentAt :
               AskBucket(r, p, sent) \/ LoseReply(r, p, sent)
  BY <1>6, <1>13
<1> QED
  BY <1>7, <1>10, <1>11, <1>12, <1>13 DEF Next, Serve, Handle

\* RedisTokenBucketRateLimiter, called by pods whose clocks and whose calls' delays
\* together differ by no more than its window of a minute, grants a full bucket and
\* what flows back in between, and that drift once and once more for every call with
\* a time behind, also when replies are lost and calls arrive late or out of order.
THEOREM TokensHold ==
  ASSUME MaxSkew + MaxDelay <= Window
  PROVE  Spec => []TokenBound
<1>1. TokenInv => TokenBound
  <2> SUFFICES ASSUME TokenInv, Limiter(cfg) = "redis", NEW k \in Keys,
                      NEW i \in DOMAIN log[k], NEW j \in DOMAIN log[k], i <= j
               PROVE  Window * Cardinality(Admitted(k, i, j))
                         <= Limit * (Window + (log[k][j].time - log[k][i].time)
                                      + Drift * (1 + Cardinality({n \in i + 1 .. j : log[k][n].back})))
    BY DEF TokenBound
  <2>1. i \in 1 .. Len(log[k]) /\ j \in 1 .. Len(log[k])
    <3>1. log[k] \in Seq(Said)
      BY DEF TokenInv, IngestInv, IngestTypes
    <3> QED
      BY <3>1, LenProperties
  <2>2. Between(log[k], i, j)
    BY <2>1 DEF TokenInv
  <2> QED
    BY <2>2 DEF Between, Admitted, AdmittedIn, BacksIn
<1>2. TokenInv /\ [Next]_vars => TokenInv'
  BY TokenStep
<1> QED
  BY <1>1, <1>2, InitTokenInv, PTL DEF Spec

=============================================================================
