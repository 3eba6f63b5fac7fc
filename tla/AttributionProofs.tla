------------------------- MODULE AttributionProofs -------------------------
(***************************************************************************)
(* The attribution pipeline for any ids, keys, people, teams, workloads,   *)
(* policies, demo graph, cache size and time to live.  Three inductive     *)
(* invariants, each resting on the one before:                             *)
(*   GraphInv    the active index is exact and Neo4j mirrors the store;    *)
(*   ServingInv  every cached result is dated no later than the graph's    *)
(*               last answer with its owner;                               *)
(*   HistoryInv  the memberships of a person tell the moves handled.       *)
(* They give ActiveIndexExact, BackendsAgree, ServedOwnerRecent,           *)
(* OwnPolicyStays and MembershipIsHistory.                                 *)
(*                                                                         *)
(* Last, resolve on a cache miss, for any contexts: ResolveInv says where  *)
(* the best cluster and the result come from, and what the methods, the    *)
(* combination of evidence and the calibration can return gives            *)
(* StrongestSurvives, EvidenceDecides and GuessesStayEstimates.            *)
(***************************************************************************)
EXTENDS Attribution, Reconciliation, FiniteSetTheorems, SequenceTheorems, TLAPS

-----------------------------------------------------------------------------
(* Times as ISO strings.                                                   *)

\* isoformat: a time is its seconds and, when it is not whole, a fraction.
LEMMA IsoShape ==
  ASSUME NEW t \in Nat
  PROVE  /\ t \div 2 \in Nat /\ t % 2 \in {0, 1} /\ t = 2 * (t \div 2) + (t % 2)
         /\ t % 2 = 0 => Iso(t) = <<t \div 2, 43>>
         /\ t % 2 = 1 => Iso(t) = <<t \div 2, 46, 5, 43>>
<1>1. t \div 2 \in Nat /\ t % 2 \in {0, 1} /\ t = 2 * (t \div 2) + (t % 2)
  <2>1. t \div 2 \in Nat
    OBVIOUS
  <2>2. t % 2 \in 0 .. 1
    OBVIOUS
  <2>3. t = 2 * (t \div 2) + (t % 2)
    OBVIOUS
  <2> QED
    BY <2>1, <2>2, <2>3
<1> DEFINE s == t \div 2
<1>2. s \in Nat
  BY <1>1
<1> HIDE DEF s
<1>3. <<s>> \o <<43>> = <<s, 43>>
  <2>1. <<s>> \in Seq(Nat) /\ <<43>> \in Seq(Nat) /\ <<s, 43>> \in Seq(Nat)
    BY <1>2
  <2> DEFINE c == <<s>> \o <<43>>
  <2>2. c \in Seq(Nat) /\ Len(c) = 2 /\ c[1] = s /\ c[2] = 43
    BY <2>1, ConcatProperties
  <2> HIDE DEF c
  <2>3. c = <<s, 43>>
    BY <2>1, <2>2, SeqEqual
  <2> QED
    BY <2>3 DEF c
<1>4. <<s>> \o <<46, 5, 43>> = <<s, 46, 5, 43>>
  <2>1. <<s>> \in Seq(Nat) /\ <<46, 5, 43>> \in Seq(Nat) /\ <<s, 46, 5, 43>> \in Seq(Nat)
    BY <1>2
  <2> DEFINE c == <<s>> \o <<46, 5, 43>>
  <2>2. /\ c \in Seq(Nat) /\ Len(c) = 4
        /\ c[1] = s /\ c[2] = 46 /\ c[3] = 5 /\ c[4] = 43
    BY <2>1, ConcatProperties
  <2> HIDE DEF c
  <2>3. c = <<s, 46, 5, 43>>
    BY <2>1, <2>2, SeqEqual
  <2> QED
    BY <2>3 DEF c
<1> QED
  BY <1>1, <1>3, <1>4 DEF Iso, s

\* An ISO string has characters, so it is never the empty string of an open end.
LEMMA IsoSeq ==
  ASSUME NEW t \in Nat
  PROVE  Iso(t) \in Seq(Nat) /\ Iso(t) # <<>>
<1> DEFINE s == t \div 2
<1>1. s \in Nat
  BY IsoShape
<1> HIDE DEF s
<1>2. <<s, 43>> \in Seq(Nat) /\ <<s, 46, 5, 43>> \in Seq(Nat) /\ <<s, 43>> # <<>> /\ <<s, 46, 5, 43>> # <<>>
  BY <1>1
<1> QED
  BY <1>2, IsoShape DEF s

\* fromisoformat undoes isoformat.
LEMMA IsoInverse ==
  ASSUME NEW t \in Nat
  PROVE  FromIso(Iso(t)) = t
<1> DEFINE s == t \div 2
<1>1. s \in Nat
  BY IsoShape
<1>2. CASE t % 2 = 0
  <2>1. Iso(t) = <<s, 43>> /\ t = 2 * s
    BY <1>2, IsoShape
  <2> HIDE DEF s
  <2> QED
    BY <1>1, <2>1 DEF FromIso
<1>3. CASE t % 2 = 1
  <2>1. Iso(t) = <<s, 46, 5, 43>> /\ t = 2 * s + 1
    BY <1>3, IsoShape
  <2> HIDE DEF s
  <2> QED
    BY <1>1, <2>1 DEF FromIso
<1> QED
  BY <1>2, <1>3, IsoShape

\* Strings order times as the times are ordered, although some have a fraction and
\* some do not: the characters after the seconds decide that case ('+' < '.').
LEMMA IsoOrder ==
  ASSUME NEW a \in Nat, NEW b \in Nat
  PROVE  StringLess(Iso(a), Iso(b)) <=> a < b
<1> DEFINE s == a \div 2  u == b \div 2
<1>1. s \in Nat /\ u \in Nat
  BY IsoShape
<1>2. CASE a % 2 = 0 /\ b % 2 = 0
  <2>1. Iso(a) = <<s, 43>> /\ a = 2 * s /\ Iso(b) = <<u, 43>> /\ b = 2 * u
    BY <1>2, IsoShape
  <2> HIDE DEF s, u
  <2> DEFINE x == <<s, 43>>  y == <<u, 43>>
  <2>2. /\ Len(x) = Len(y) /\ x[1] = s /\ y[1] = u
        /\ \A i \in 1 .. Len(x) : i # 1 => x[i] = y[i] /\ x[i] \in Nat
        /\ 1 \in 1 .. Len(x) /\ 1 <= Len(y) /\ \A j \in 1 .. 1 - 1 : x[j] = y[j]
    BY <1>1
  <2>3. Len(x) \in Nat
    OBVIOUS
  <2> HIDE DEF x, y
  <2>4. StringLess(x, y) <=> s < u
    <3>1. ASSUME s < u PROVE StringLess(x, y)
      BY <2>2, <3>1 DEF StringLess
    <3>2. ASSUME StringLess(x, y) PROVE s < u
      BY <1>1, <2>2, <2>3, <3>2 DEF StringLess
    <3> QED
      BY <3>1, <3>2
  <2> QED
    BY <1>1, <2>1, <2>4 DEF x, y
<1>3. CASE a % 2 = 0 /\ b % 2 = 1
  <2>1. Iso(a) = <<s, 43>> /\ a = 2 * s /\ Iso(b) = <<u, 46, 5, 43>> /\ b = 2 * u + 1
    BY <1>3, IsoShape
  <2> HIDE DEF s, u
  <2>2. StringLess(<<s, 43>>, <<u, 46, 5, 43>>) <=> s <= u
    BY <1>1 DEF StringLess
  <2> QED
    BY <1>1, <2>1, <2>2
<1>4. CASE a % 2 = 1 /\ b % 2 = 0
  <2>1. Iso(a) = <<s, 46, 5, 43>> /\ a = 2 * s + 1 /\ Iso(b) = <<u, 43>> /\ b = 2 * u
    BY <1>4, IsoShape
  <2> HIDE DEF s, u
  <2>2. StringLess(<<s, 46, 5, 43>>, <<u, 43>>) <=> s < u
    BY <1>1 DEF StringLess
  <2> QED
    BY <1>1, <2>1, <2>2
<1>5. CASE a % 2 = 1 /\ b % 2 = 1
  <2>1. Iso(a) = <<s, 46, 5, 43>> /\ a = 2 * s + 1 /\ Iso(b) = <<u, 46, 5, 43>> /\ b = 2 * u + 1
    BY <1>5, IsoShape
  <2> HIDE DEF s, u
  <2> DEFINE x == <<s, 46, 5, 43>>  y == <<u, 46, 5, 43>>
  <2>2. /\ Len(x) = Len(y) /\ x[1] = s /\ y[1] = u
        /\ \A i \in 1 .. Len(x) : i # 1 => x[i] = y[i] /\ x[i] \in Nat
        /\ 1 \in 1 .. Len(x) /\ 1 <= Len(y) /\ \A j \in 1 .. 1 - 1 : x[j] = y[j]
    BY <1>1
  <2>3. Len(x) \in Nat
    OBVIOUS
  <2> HIDE DEF x, y
  <2>4. StringLess(x, y) <=> s < u
    <3>1. ASSUME s < u PROVE StringLess(x, y)
      BY <2>2, <3>1 DEF StringLess
    <3>2. ASSUME StringLess(x, y) PROVE s < u
      BY <1>1, <2>2, <2>3, <3>2 DEF StringLess
    <3> QED
      BY <3>1, <3>2
  <2> QED
    BY <1>1, <2>1, <2>4 DEF x, y
<1> QED
  BY <1>2, <1>3, <1>4, <1>5, IsoShape

-----------------------------------------------------------------------------
(* The in-memory store and its index of open edges.                        *)

\* The types of nodes, and of none.
NodeKinds == NodeTypes \cup {"none"}

EdgeRecords == [key : Keys, from : Nat, to : Nat \cup {Open}]

\* In-memory stores.
Stores == [nodes : [Ids -> NodeKinds], edges : Seq(EdgeRecords), active : [Keys -> Nat]]

\* The active index names exactly the open edges, each under its own key.
Exact(g) ==
    /\ \A k \in Keys : g.active[k] # 0 =>
          /\ g.active[k] \in 1 .. Len(g.edges)
          /\ g.edges[g.active[k]].key = k
          /\ g.edges[g.active[k]].to = Open
    /\ \A i \in 1 .. Len(g.edges) : g.edges[i].to = Open => g.active[g.edges[i].key] = i

ExactStores == {g \in Stores : Exact(g)}

\* An edge as Neo4j keeps it.
Serialize(e) == [key |-> e.key, from |-> Iso(e.from), to |-> IsoEnd(e.to)]

NeoRecords == [key : Keys, from : Seq(Nat), to : Seq(Nat)]

\* Neo4j stores.
NeoStores == [nodes : [Ids -> NodeKinds], edges : Seq(NeoRecords)]

\* The Neo4j store holds the edges of the in-memory one, position by position.
Mirrors(h, g) ==
    /\ Len(h.edges) = Len(g.edges)
    /\ \A i \in 1 .. Len(g.edges) : h.edges[i] = Serialize(g.edges[i])

\* An edge as it is after a Retire of key k.
Retired(e, k, at) == IF e.key = k /\ e.to = Open THEN [e EXCEPT !.to = at] ELSE e

\* A key names a source and a target.
LEMMA KeyEnds ==
  ASSUME NEW k \in Keys
  PROVE  k[1] \in Ids /\ k[2] \in Ids
BY GraphAssumption

\* Ending the edge the index names ends every open edge of the key.
LEMMA RetireExact ==
  ASSUME NEW g \in ExactStores, NEW k \in Keys, NEW at \in Nat
  PROVE  LET r == Retire(g.edges, g.active[k], at)
         IN  /\ r \in Seq(EdgeRecords)
             /\ Len(r) = Len(g.edges)
             /\ \A i \in 1 .. Len(r) :
                   r[i] = Retired(g.edges[i], k, at)
<1> DEFINE es == g.edges  n == g.active[k]
<1>1. /\ es \in Seq(EdgeRecords) /\ n \in Nat
      /\ n # 0 => n \in 1 .. Len(es) /\ es[n].key = k /\ es[n].to = Open
      /\ \A i \in 1 .. Len(es) : es[i].to = Open => g.active[es[i].key] = i
  BY DEF ExactStores, Stores, Exact
<1>2. \A i \in 1 .. Len(es) : (es[i].key = k /\ es[i].to = Open) <=> i = n
  BY <1>1
<1> HIDE DEF es, n
<1>3. CASE n = 0
  <2>1. Retire(es, n, at) = es
    BY <1>3 DEF Retire
  <2> QED
    BY <1>1, <1>2, <1>3, <2>1 DEF es, n, Retired
<1>4. CASE n # 0
  <2> DEFINE e == [es[n] EXCEPT !.to = at]
  <2>1. n \in 1 .. Len(es) /\ es[n] \in EdgeRecords
    BY <1>1, <1>4, ElementOfSeq
  <2>2. e \in EdgeRecords
    BY <2>1 DEF EdgeRecords
  <2>3. Retire(es, n, at) = [es EXCEPT ![n] = e]
    BY <1>1, <1>4 DEF Retire
  <2> HIDE DEF e
  <2>4. /\ [es EXCEPT ![n] = e] \in Seq(EdgeRecords)
        /\ Len([es EXCEPT ![n] = e]) = Len(es)
        /\ \A j \in 1 .. Len(es) : [es EXCEPT ![n] = e][j] = IF j = n THEN e ELSE es[j]
    BY <1>1, <2>1, <2>2, ExceptSeq
  <2> DEFINE r == [es EXCEPT ![n] = e]
  <2>5. r \in Seq(EdgeRecords) /\ Len(r) = Len(es)
        /\ \A j \in 1 .. Len(es) : r[j] = IF j = n THEN e ELSE es[j]
    BY <2>4
  <2>6. Retire(es, n, at) = r
    BY <2>3
  <2> HIDE DEF r
  <2>7. \A i \in 1 .. Len(r) : r[i] = Retired(es[i], k, at)
    BY <1>2, <2>5 DEF e, Retired
  <2> QED
    BY <2>5, <2>6, <2>7 DEF es, n
<1> QED
  BY <1>3, <1>4

\* What Retire leaves open.
LEMMA RetiredOpen ==
  ASSUME NEW k \in Keys, NEW at \in Nat, NEW e \in EdgeRecords
  PROVE  /\ Retired(e, k, at).key = e.key /\ Retired(e, k, at).key \in Keys
         /\ Retired(e, k, at).to = Open <=> (e.to = Open /\ e.key # k)
<1>1. at # Open
  BY DEF Open
<1>2. e.key \in Keys
  BY DEF EdgeRecords
<1>3. CASE e.key = k /\ e.to = Open
  <2>1. Retired(e, k, at).key = e.key /\ Retired(e, k, at).to = at
    BY <1>3 DEF EdgeRecords, Retired
  <2> QED
    BY <1>1, <1>2, <1>3, <2>1
<1>4. CASE ~(e.key = k /\ e.to = Open)
  BY <1>2, <1>4 DEF Retired
<1> QED
  BY <1>3, <1>4

\* close_edge keeps the index exact.
LEMMA CloseExact ==
  ASSUME NEW g \in ExactStores, NEW k \in Keys, NEW at \in Nat
  PROVE  CloseEdge(g, k, at) \in ExactStores
<1> DEFINE r == Retire(g.edges, g.active[k], at)
           h == CloseEdge(g, k, at)
<1>1. /\ r \in Seq(EdgeRecords) /\ Len(r) = Len(g.edges)
      /\ \A i \in 1 .. Len(r) : r[i] = Retired(g.edges[i], k, at)
  BY RetireExact
<1>2. h = [g EXCEPT !.edges = r, !.active[k] = 0]
  BY DEF CloseEdge
<1> HIDE DEF r
<1> HIDE DEF h
<1>3. /\ h.edges = r /\ h.nodes = g.nodes /\ h.active = [g.active EXCEPT ![k] = 0]
      /\ h \in Stores
  <2>1. g \in Stores
    BY DEF ExactStores
  <2> QED
    BY <1>1, <1>2, <2>1 DEF Stores
<1>4. /\ g \in Stores /\ Exact(g)
      /\ \A i \in 1 .. Len(g.edges) : g.edges[i] \in EdgeRecords
  BY ElementOfSeq DEF ExactStores, Stores
<1>5. \A j \in Keys : h.active[j] = IF j = k THEN 0 ELSE g.active[j]
  BY <1>3, <1>4 DEF Stores
<1>6. \A i \in 1 .. Len(r) : /\ r[i].key = g.edges[i].key /\ r[i].key \in Keys
                             /\ r[i].to = Open <=> (g.edges[i].to = Open /\ g.edges[i].key # k)
  <2> TAKE i \in 1 .. Len(r)
  <2>1. g.edges[i] \in EdgeRecords /\ r[i] = Retired(g.edges[i], k, at)
    BY <1>1, <1>4
  <2>2. /\ Retired(g.edges[i], k, at).key = g.edges[i].key
        /\ Retired(g.edges[i], k, at).key \in Keys
        /\ Retired(g.edges[i], k, at).to = Open <=> (g.edges[i].to = Open /\ g.edges[i].key # k)
    BY <2>1, RetiredOpen
  <2> QED
    BY <2>1, <2>2
<1>7. Exact(h)
  <2>1. ASSUME NEW j \in Keys, h.active[j] # 0
        PROVE  /\ h.active[j] \in 1 .. Len(h.edges)
               /\ h.edges[h.active[j]].key = j
               /\ h.edges[h.active[j]].to = Open
    <3>1. j # k /\ h.active[j] = g.active[j]
      BY <1>5, <2>1
    <3>2. /\ g.active[j] \in 1 .. Len(g.edges)
          /\ g.edges[g.active[j]].key = j /\ g.edges[g.active[j]].to = Open
      BY <1>4, <2>1, <3>1 DEF Exact
    <3> QED
      BY <1>1, <1>3, <1>6, <3>1, <3>2
  <2>2. ASSUME NEW i \in 1 .. Len(h.edges), h.edges[i].to = Open
        PROVE  h.active[h.edges[i].key] = i
    <3>1. /\ i \in 1 .. Len(g.edges) /\ g.edges[i].to = Open
          /\ g.edges[i].key # k /\ r[i].key = g.edges[i].key /\ r[i].key \in Keys
      BY <1>1, <1>3, <1>6, <2>2
    <3> QED
      BY <1>3, <1>4, <1>5, <3>1 DEF Exact
  <2> QED
    BY <2>1, <2>2 DEF Exact
<1> QED
  BY <1>3, <1>7 DEF ExactStores, h

\* add_edge, which ends the open edge of the key first, keeps the index exact.
LEMMA AddExact ==
  ASSUME NEW g \in ExactStores, NEW k \in Keys, NEW from \in Nat, NEW at \in Nat
  PROVE  AddEdge(g, Edge(k, from), at) \in ExactStores
<1> DEFINE r == Retire(g.edges, g.active[k], at)
           e == Edge(k, from)
           h == AddEdge(g, e, at)
           a == Append(r, e)
           n == Len(g.edges) + 1
<1>1. /\ r \in Seq(EdgeRecords) /\ Len(r) = Len(g.edges)
      /\ \A i \in 1 .. Len(r) : r[i] = Retired(g.edges[i], k, at)
  BY RetireExact
<1>2. e \in EdgeRecords /\ e.key = k /\ e.to = Open
  BY DEF Edge, EdgeRecords
<1>3. h = [g EXCEPT !.edges = a, !.active[k] = n]
  BY <1>2 DEF AddEdge
<1>4. /\ g \in Stores /\ Exact(g) /\ Len(g.edges) \in Nat
      /\ \A i \in 1 .. Len(g.edges) : g.edges[i] \in EdgeRecords
  BY ElementOfSeq, LenProperties DEF ExactStores, Stores
<1> HIDE DEF r, e
<1>5. /\ a \in Seq(EdgeRecords) /\ Len(a) = n /\ n \in Nat \ {0}
      /\ \A i \in 1 .. Len(r) : a[i] = r[i]
      /\ a[n] = e
  BY <1>1, <1>2, <1>4, AppendProperties
<1> HIDE DEF a
<1>6. /\ h.edges = a /\ h.nodes = g.nodes /\ h.active = [g.active EXCEPT ![k] = n]
      /\ h \in Stores
  BY <1>3, <1>4, <1>5 DEF Stores
<1> HIDE DEF h
<1>7. \A j \in Keys : h.active[j] = IF j = k THEN n ELSE g.active[j]
  BY <1>4, <1>6 DEF Stores
<1>8. \A i \in 1 .. Len(g.edges) :
         /\ a[i].key = g.edges[i].key /\ a[i].key \in Keys
         /\ a[i].to = Open <=> (g.edges[i].to = Open /\ g.edges[i].key # k)
  <2> TAKE i \in 1 .. Len(g.edges)
  <2>1. g.edges[i] \in EdgeRecords /\ a[i] = Retired(g.edges[i], k, at)
    BY <1>1, <1>4, <1>5
  <2>2. /\ Retired(g.edges[i], k, at).key = g.edges[i].key
        /\ Retired(g.edges[i], k, at).key \in Keys
        /\ Retired(g.edges[i], k, at).to = Open <=> (g.edges[i].to = Open /\ g.edges[i].key # k)
    BY <2>1, RetiredOpen
  <2> QED
    BY <2>1, <2>2
<1>9. Exact(h)
  <2>1. ASSUME NEW j \in Keys, h.active[j] # 0
        PROVE  /\ h.active[j] \in 1 .. Len(h.edges)
               /\ h.edges[h.active[j]].key = j
               /\ h.edges[h.active[j]].to = Open
    <3>1. CASE j = k
      BY <1>2, <1>4, <1>5, <1>6, <1>7, <3>1
    <3>2. CASE j # k
      <4>1. /\ h.active[j] = g.active[j] /\ g.active[j] \in 1 .. Len(g.edges)
            /\ g.edges[g.active[j]].key = j /\ g.edges[g.active[j]].to = Open
        BY <1>4, <1>7, <2>1, <3>2 DEF Exact
      <4> QED
        BY <1>4, <1>5, <1>6, <1>8, <3>2, <4>1
    <3> QED
      BY <3>1, <3>2
  <2>2. ASSUME NEW i \in 1 .. Len(h.edges), h.edges[i].to = Open
        PROVE  h.active[h.edges[i].key] = i
    <3>1. CASE i = n
      BY <1>2, <1>5, <1>6, <1>7, <3>1
    <3>2. CASE i # n
      <4>1. i \in 1 .. Len(g.edges)
        BY <1>4, <1>5, <1>6, <3>2
      <4>2. /\ g.edges[i].to = Open /\ g.edges[i].key # k
            /\ a[i].key = g.edges[i].key /\ a[i].key \in Keys
        BY <1>6, <1>8, <2>2, <4>1
      <4> QED
        BY <1>4, <1>6, <1>7, <4>1, <4>2 DEF Exact
    <3> QED
      BY <3>1, <3>2
  <2> QED
    BY <2>1, <2>2 DEF Exact
<1> QED
  BY <1>6, <1>9 DEF ExactStores, h, e

\* upsert_node touches no edge.
LEMMA UpsertExact ==
  ASSUME NEW g \in ExactStores, NEW n, NEW type \in NodeKinds
  PROVE  /\ UpsertNode(g, n, type) \in ExactStores
         /\ UpsertNode(g, n, type).edges = g.edges
BY DEF UpsertNode, ExactStores, Stores, Exact

\* The empty store.
LEMMA EmptyExact == EmptyMem \in ExactStores
BY DEF EmptyMem, ExactStores, Stores, Exact, NodeKinds

-----------------------------------------------------------------------------
(* The Neo4j store mirrors it.                                             *)

\* Serialization loses nothing, and an open end is the only empty string.
LEMMA SerializeFacts ==
  ASSUME NEW e \in EdgeRecords
  PROVE  /\ Serialize(e) \in NeoRecords
         /\ Serialize(e).key = e.key
         /\ Serialize(e).to = <<>> <=> e.to = Open
         /\ Deserialize(Serialize(e)) = e
<1>1. e.key \in Keys /\ e.from \in Nat /\ e.to \in Nat \cup {Open}
  BY DEF EdgeRecords
<1>2. Iso(e.from) \in Seq(Nat) /\ FromIso(Iso(e.from)) = e.from
  BY <1>1, IsoSeq, IsoInverse
<1>3. IsoEnd(e.to) \in Seq(Nat) /\ (IsoEnd(e.to) = <<>> <=> e.to = Open) /\ FromIso(IsoEnd(e.to)) = e.to
  <2>1. CASE e.to = Open
    <3>1. IsoEnd(e.to) = <<>>
      BY <2>1 DEF IsoEnd
    <3> QED
      BY <2>1, <3>1, EmptySeq DEF FromIso
  <2>2. CASE e.to \in Nat
    <3>1. e.to # Open
      BY <2>2 DEF Open
    <3>2. IsoEnd(e.to) = Iso(e.to)
      BY <3>1 DEF IsoEnd
    <3> QED
      BY <2>2, <3>1, <3>2, IsoSeq, IsoInverse
  <2> QED
    BY <1>1, <2>1, <2>2
<1>4. Serialize(e).key = e.key /\ Serialize(e).from = Iso(e.from) /\ Serialize(e).to = IsoEnd(e.to)
  BY DEF Serialize
<1>5. Serialize(e) \in NeoRecords
  BY <1>1, <1>2, <1>3 DEF Serialize, NeoRecords
<1>6. Deserialize(Serialize(e)) = [key |-> e.key, from |-> e.from, to |-> e.to]
  BY <1>2, <1>3, <1>4 DEF Deserialize
<1>7. e = [key |-> e.key, from |-> e.from, to |-> e.to]
  BY DEF EdgeRecords
<1> QED
  BY <1>3, <1>4, <1>5, <1>6, <1>7

\* Ending an edge by query is ending the edge it was serialized from.
LEMMA SerializeRetired ==
  ASSUME NEW e \in EdgeRecords, NEW k \in Keys, NEW at \in Nat
  PROVE  (IF Serialize(e).key = k /\ Serialize(e).to = <<>>
          THEN [Serialize(e) EXCEPT !.to = Iso(at)] ELSE Serialize(e))
         = Serialize(Retired(e, k, at))
<1>1. CASE e.key = k /\ e.to = Open
  <2>1. Retired(e, k, at) = [key |-> e.key, from |-> e.from, to |-> at]
    BY <1>1 DEF Retired, EdgeRecords
  <2>2. at # Open
    BY DEF Open
  <2>3. Serialize(Retired(e, k, at)) = [key |-> e.key, from |-> Iso(e.from), to |-> Iso(at)]
    BY <2>1, <2>2 DEF Serialize, IsoEnd
  <2>4. [Serialize(e) EXCEPT !.to = Iso(at)] = [key |-> e.key, from |-> Iso(e.from), to |-> Iso(at)]
    BY DEF Serialize
  <2> QED
    BY <1>1, <2>3, <2>4, SerializeFacts
<1>2. CASE ~(e.key = k /\ e.to = Open)
  BY <1>2, SerializeFacts DEF Retired
<1> QED
  BY <1>1, <1>2

\* The query that ends all open edges of a key ends the one the index names.
LEMMA NeoRetireMirrors ==
  ASSUME NEW g \in ExactStores, NEW h \in NeoStores, Mirrors(h, g),
         NEW k \in Keys, NEW at \in Nat
  PROVE  LET r == Retire(g.edges, g.active[k], at)
             q == NeoRetire(h.edges, k, at)
         IN  /\ q \in Seq(NeoRecords) /\ Len(q) = Len(r)
             /\ \A i \in 1 .. Len(r) : q[i] = Serialize(r[i])
<1> DEFINE r == Retire(g.edges, g.active[k], at)
           q == NeoRetire(h.edges, k, at)
           n == Len(g.edges)
<1>1. /\ r \in Seq(EdgeRecords) /\ Len(r) = n
      /\ \A i \in 1 .. n : r[i] = Retired(g.edges[i], k, at)
  BY RetireExact
<1>2. /\ n \in Nat /\ \A i \in 1 .. n : g.edges[i] \in EdgeRecords
      /\ DOMAIN h.edges = 1 .. n
      /\ \A i \in 1 .. n : h.edges[i] = Serialize(g.edges[i])
  BY ElementOfSeq, LenProperties DEF ExactStores, Stores, NeoStores, Mirrors
<1>3. \A i \in 1 .. n : r[i] \in EdgeRecords
  BY <1>1, ElementOfSeq
<1> HIDE DEF r, n
<1>4. q = [i \in 1 .. n |-> Serialize(r[i])]
  <2>1. \A i \in 1 .. n :
           (IF h.edges[i].key = k /\ h.edges[i].to = <<>>
            THEN [h.edges[i] EXCEPT !.to = Iso(at)] ELSE h.edges[i]) = Serialize(r[i])
    BY <1>1, <1>2, SerializeRetired
  <2> QED
    BY <1>2, <2>1 DEF NeoRetire
<1> HIDE DEF q
<1>5. \A i \in 1 .. n : Serialize(r[i]) \in NeoRecords
  BY <1>3, SerializeFacts
<1>6. q \in Seq(NeoRecords) /\ Len(q) = n /\ \A i \in 1 .. n : q[i] = Serialize(r[i])
  BY <1>2, <1>4, <1>5
<1> QED
  BY <1>1, <1>6 DEF q, r

\* close_edge of both stores.
LEMMA NeoCloseMirrors ==
  ASSUME NEW g \in ExactStores, NEW h \in NeoStores, Mirrors(h, g),
         NEW k \in Keys, NEW at \in Nat
  PROVE  /\ NeoCloseEdge(h, k, at) \in NeoStores
         /\ Mirrors(NeoCloseEdge(h, k, at), CloseEdge(g, k, at))
<1> DEFINE r == Retire(g.edges, g.active[k], at)
           q == NeoRetire(h.edges, k, at)
<1>1. /\ q \in Seq(NeoRecords) /\ Len(q) = Len(r)
      /\ \A i \in 1 .. Len(r) : q[i] = Serialize(r[i])
  BY NeoRetireMirrors
<1>2. CloseEdge(g, k, at).edges = r
  BY DEF CloseEdge, ExactStores, Stores
<1>3. NeoCloseEdge(h, k, at) = [h EXCEPT !.edges = q]
  BY DEF NeoCloseEdge
<1> HIDE DEF q, r
<1>4. NeoCloseEdge(h, k, at) \in NeoStores /\ NeoCloseEdge(h, k, at).edges = q
  BY <1>1, <1>3 DEF NeoStores
<1> QED
  BY <1>1, <1>2, <1>4 DEF Mirrors

\* MERGE gives a missing node the inferred type.
LEMMA MergeType ==
  ASSUME NEW nodes \in [Ids -> NodeKinds], NEW n \in Ids
  PROVE  Merge(nodes, n) \in [Ids -> NodeKinds]
BY GraphAssumption DEF Merge, NodeKinds

\* add_edge of both stores.
LEMMA NeoAddMirrors ==
  ASSUME NEW g \in ExactStores, NEW h \in NeoStores, Mirrors(h, g),
         NEW k \in Keys, NEW from \in Nat, NEW at \in Nat
  PROVE  /\ NeoAddEdge(h, Edge(k, from), at) \in NeoStores
         /\ Mirrors(NeoAddEdge(h, Edge(k, from), at), AddEdge(g, Edge(k, from), at))
<1> DEFINE r == Retire(g.edges, g.active[k], at)
           q == NeoRetire(h.edges, k, at)
           e == Edge(k, from)
           m == NeoAddEdge(h, e, at)
<1>1. /\ q \in Seq(NeoRecords) /\ Len(q) = Len(r)
      /\ \A i \in 1 .. Len(r) : q[i] = Serialize(r[i])
  BY NeoRetireMirrors
<1>2. /\ r \in Seq(EdgeRecords) /\ Len(r) \in Nat
  BY RetireExact, LenProperties
<1>3. e \in EdgeRecords /\ e.key = k
  BY DEF Edge, EdgeRecords
<1>4. AddEdge(g, e, at).edges = Append(r, e)
  BY <1>3 DEF AddEdge, ExactStores, Stores
<1>5. Serialize(e) \in NeoRecords
  BY <1>3, SerializeFacts
<1>6. m = [nodes |-> Merge(Merge(h.nodes, k[1]), k[2]), edges |-> Append(q, Serialize(e))]
  BY <1>3 DEF NeoAddEdge, Serialize
<1>7. Merge(Merge(h.nodes, k[1]), k[2]) \in [Ids -> NodeKinds]
  BY KeyEnds, MergeType DEF NeoStores
<1> HIDE DEF q, r, e, m
<1>8. /\ Append(q, Serialize(e)) \in Seq(NeoRecords)
      /\ Len(Append(q, Serialize(e))) = Len(q) + 1
      /\ \A i \in 1 .. Len(q) : Append(q, Serialize(e))[i] = q[i]
      /\ Append(q, Serialize(e))[Len(q) + 1] = Serialize(e)
  BY <1>1, <1>5, AppendProperties
<1>9. /\ Len(Append(r, e)) = Len(r) + 1
      /\ \A i \in 1 .. Len(r) : Append(r, e)[i] = r[i]
      /\ Append(r, e)[Len(r) + 1] = e
  BY <1>2, <1>3, AppendProperties
<1>10. m \in NeoStores /\ m.edges = Append(q, Serialize(e))
  BY <1>6, <1>7, <1>8 DEF NeoStores
<1>11. Mirrors(m, AddEdge(g, e, at))
  <2>1. Len(m.edges) = Len(AddEdge(g, e, at).edges)
    BY <1>1, <1>4, <1>8, <1>9, <1>10
  <2>2. ASSUME NEW i \in 1 .. Len(AddEdge(g, e, at).edges)
        PROVE  m.edges[i] = Serialize(AddEdge(g, e, at).edges[i])
    <3>1. i \in 1 .. Len(r) + 1
      BY <1>4, <1>9
    <3>2. CASE i = Len(r) + 1
      BY <1>1, <1>4, <1>8, <1>9, <1>10, <3>2
    <3>3. CASE i \in 1 .. Len(r)
      BY <1>1, <1>4, <1>8, <1>9, <1>10, <3>3
    <3> QED
      BY <1>2, <3>1, <3>2, <3>3
  <2> QED
    BY <2>1, <2>2 DEF Mirrors
<1> QED
  BY <1>10, <1>11 DEF m, e

\* upsert_node of both stores.
LEMMA NeoUpsertMirrors ==
  ASSUME NEW g \in ExactStores, NEW h \in NeoStores, Mirrors(h, g),
         NEW n \in Ids, NEW type \in NodeKinds, NEW kind \in NodeKinds
  PROVE  /\ NeoUpsertNode(h, n, kind) \in NeoStores
         /\ Mirrors(NeoUpsertNode(h, n, kind), UpsertNode(g, n, type))
BY DEF NeoUpsertNode, UpsertNode, NeoStores, Mirrors, ExactStores, Stores

\* The empty stores.
LEMMA EmptyMirrors == EmptyNeo \in NeoStores /\ Mirrors(EmptyNeo, EmptyMem)
BY DEF EmptyNeo, EmptyMem, NeoStores, NodeKinds, Mirrors

-----------------------------------------------------------------------------
(* Chains, and what both stores answer.                                    *)

\* A nonempty set of naturals has a least element.  Induction over naturals is
\* done by the least counterexample.
LEMMA LeastNumber ==
  ASSUME NEW T \in SUBSET Nat, T # {}
  PROVE  \E x \in T : \A y \in T : x <= y
<1>1. PICK R : IsWellFoundedOn(R, Nat) /\ \A x, y \in Nat : <<y, x>> \in R <=> y < x
  <2>1. \A x, y \in Nat : <<y, x>> \in OpToRel(<, Nat) <=> y < x
    BY DEF OpToRel
  <2> QED
    BY <2>1, NatLessThanWellFounded
<1>2. PICK x \in T : \A y \in T : ~(<<y, x>> \in R)
  BY <1>1, WFMin
<1>3. \A y \in T : ~(y < x)
  BY <1>1, <1>2
<1>4. x \in Nat /\ \A y \in T : y \in Nat
  OBVIOUS
<1>5. \A y \in T : x <= y
  BY <1>3, <1>4
<1> QED
  BY <1>5

\* f[0], ..., f[N] is the chain that starts with base and follows step.
Chain(f, V, N, base, step) ==
    /\ f \in [0 .. N -> V]
    /\ f[0] = base
    /\ \A n \in 1 .. N : f[n] = step[n][f[n - 1]]

\* Such a chain exists: what a recursive function over 0 .. N computes.
LEMMA Iteration ==
  ASSUME NEW V, NEW N \in Nat, NEW base \in V, NEW step \in [1 .. N -> [V -> V]]
  PROVE  \E f : Chain(f, V, N, base, step)
<1> DEFINE Upto(m, f) == f[0] = base /\ \A n \in 1 .. m : f[n] = step[n][f[n - 1]]
           T == {m \in 0 .. N : \A f \in [0 .. m -> V] : ~Upto(m, f)}
<1>1. SUFFICES ASSUME T # {} PROVE FALSE
  <2>1. N \notin T
    BY <1>1
  <2> QED
    BY <2>1 DEF Chain
<1>2. PICK m \in T : \A y \in T : m <= y
  <2>1. T \in SUBSET Nat
    OBVIOUS
  <2> HIDE DEF T
  <2> QED
    BY <1>1, <2>1, LeastNumber
<1>3. m # 0
  <2>1. Upto(0, [i \in 0 .. 0 |-> base]) /\ [i \in 0 .. 0 |-> base] \in [0 .. 0 -> V]
    OBVIOUS
  <2> QED
    BY <1>2, <2>1, ZenonT(40)
<1>4. m - 1 \in 0 .. N /\ m - 1 \notin T
  <2>1. m \in 0 .. N /\ \A y \in T : m <= y
    BY <1>2
  <2> HIDE DEF T
  <2>2. m - 1 \in 0 .. N /\ ~(m <= m - 1)
    BY <1>3, <2>1
  <2> QED
    BY <2>1, <2>2
<1>5. PICK f \in [0 .. m - 1 -> V] : Upto(m - 1, f)
  BY <1>4
<1> DEFINE g == [i \in 0 .. m |-> IF i = m THEN step[m][f[m - 1]] ELSE f[i]]
<1>6. m \in 1 .. N /\ step[m] \in [V -> V] /\ f[m - 1] \in V
  BY <1>2, <1>3, <1>5
<1>7. g \in [0 .. m -> V]
  BY <1>5, <1>6
<1>8. g[0] = base
  BY <1>5, <1>6
<1>9. ASSUME NEW n \in 1 .. m PROVE g[n] = step[n][g[n - 1]]
  BY <1>5, <1>6
<1> QED
  BY <1>2, <1>7, <1>8, <1>9

\* What holds at the start of a chain, and after a step if before, holds at its end.
LEMMA ChainEnd ==
  ASSUME NEW N \in Nat, NEW P, 0 \in P, \A n \in 1 .. N : n - 1 \in P => n \in P
  PROVE  N \in P
<1> DEFINE T == {n \in 0 .. N : n \notin P}
<1>1. SUFFICES ASSUME N \notin P PROVE FALSE
  OBVIOUS
<1>2. PICK m \in T : \A y \in T : m <= y
  <2>1. T \in SUBSET Nat /\ T # {}
    BY <1>1
  <2> HIDE DEF T
  <2> QED
    BY <2>1, LeastNumber
<1>3. m \in 0 .. N /\ m \notin P /\ \A y \in T : m <= y
  BY <1>2
<1>4. m \in 1 .. N /\ m - 1 \in 0 .. N /\ ~(m <= m - 1)
  BY <1>3
<1>5. m - 1 \in P
  BY <1>3, <1>4
<1> QED
  BY <1>3, <1>4, <1>5

\* Comparing ISO strings decides validity as comparing times does.
LEMMA ValidAlike ==
  ASSUME NEW e \in EdgeRecords, NEW t \in Nat
  PROVE  NeoValidAt(Serialize(e), t) <=> ValidAt(e, t)
<1>1. e.from \in Nat /\ e.to \in Nat \cup {Open}
  BY DEF EdgeRecords
<1>2. Serialize(e).from = Iso(e.from) /\ Serialize(e).to = IsoEnd(e.to)
  BY DEF Serialize
<1>3. StringLess(Iso(t), Iso(e.from)) <=> t < e.from
  BY <1>1, IsoOrder
<1>4. CASE e.to = Open
  <2>1. Serialize(e).to = <<>>
    BY <1>4, SerializeFacts
  <2> QED
    BY <1>1, <1>2, <1>3, <1>4, <2>1 DEF NeoValidAt, ValidAt
<1>5. CASE e.to # Open
  <2>1. /\ e.to \in Nat /\ Serialize(e).to = Iso(e.to) /\ Serialize(e).to # <<>>
    BY <1>1, <1>2, <1>5, SerializeFacts DEF IsoEnd
  <2>2. StringLess(Iso(t), Iso(e.to)) <=> t < e.to
    BY <2>1, IsoOrder
  <2> QED
    BY <1>1, <1>2, <1>3, <1>5, <2>1, <2>2 DEF NeoValidAt, ValidAt
<1> QED
  BY <1>4, <1>5

\* The queries of both stores select the same edges.
LEMMA QueriesAlike ==
  ASSUME NEW g \in ExactStores, NEW h \in NeoStores, Mirrors(h, g), NEW n, NEW t \in Nat
  PROVE  EdgesFrom(g, n, t) = NeoEdgesFrom(h, n, t) /\ EdgesTo(g, n, t) = NeoEdgesTo(h, n, t)
<1>1. /\ DOMAIN g.edges = 1 .. Len(g.edges) /\ DOMAIN h.edges = 1 .. Len(g.edges)
      /\ \A i \in 1 .. Len(g.edges) : g.edges[i] \in EdgeRecords
      /\ \A i \in 1 .. Len(g.edges) : h.edges[i] = Serialize(g.edges[i])
  BY ElementOfSeq, LenProperties DEF ExactStores, Stores, NeoStores, Mirrors
<1>2. \A i \in 1 .. Len(g.edges) :
         h.edges[i].key = g.edges[i].key /\ (NeoValidAt(h.edges[i], t) <=> ValidAt(g.edges[i], t))
  BY <1>1, SerializeFacts, ValidAlike
<1> QED
  BY <1>1, <1>2 DEF EdgesFrom, EdgesTo, NeoEdgesFrom, NeoEdgesTo

\* get_stats: the entries of the index are as many as the edges with an open end,
\* for they correspond one to one.
LEMMA CountsAlike ==
  ASSUME NEW g \in ExactStores, NEW h \in NeoStores, Mirrors(h, g)
  PROVE  NeoStats(h).active = Stats(g).active
<1> DEFINE K == {k \in Keys : g.active[k] # 0}
           O == {i \in DOMAIN h.edges : h.edges[i].to = <<>>}
           b == [i \in O |-> g.edges[i].key]
<1>1. /\ DOMAIN h.edges = 1 .. Len(g.edges) /\ Len(g.edges) \in Nat
      /\ \A i \in 1 .. Len(g.edges) : g.edges[i] \in EdgeRecords
      /\ \A i \in 1 .. Len(g.edges) : h.edges[i].to = <<>> <=> g.edges[i].to = Open
  BY ElementOfSeq, LenProperties, SerializeFacts DEF ExactStores, Stores, NeoStores, Mirrors
<1>2. \A i \in 1 .. Len(g.edges) : g.edges[i].key \in Keys
  BY <1>1 DEF EdgeRecords
<1>3. IsFiniteSet(O)
  <2> DEFINE n == Len(g.edges)
  <2>1. IsFiniteSet(1 .. n)
    <3>1. n \in Int /\ 1 \in Int
      BY <1>1
    <3> HIDE DEF n
    <3> QED
      BY <3>1, FS_Interval
  <2>2. O \in SUBSET (1 .. Len(g.edges))
    BY <1>1
  <2> QED
    BY <2>1, <2>2, FS_Subset
<1>4. \A i \in O : g.edges[i].key \in K /\ g.active[g.edges[i].key] = i
  <2>1. \A i \in O : i \in 1 .. Len(g.edges) /\ g.edges[i].to = Open
    BY <1>1
  <2>2. \A i \in O : g.active[g.edges[i].key] = i
    BY <2>1 DEF ExactStores, Exact
  <2> QED
    BY <1>1, <1>2, <2>1, <2>2
<1>5. \A k \in K : g.active[k] \in O /\ g.edges[g.active[k]].key = k
  BY <1>1 DEF ExactStores, Exact
<1> HIDE DEF K, O
<1>6. b \in Bijection(O, K)
  <2>1. b \in [O -> K] /\ \A i, j \in O : b[i] = b[j] => i = j
    BY <1>4
  <2>2. \A k \in K : \E i \in O : b[i] = k
    BY <1>5
  <2> HIDE DEF b
  <2> QED
    BY <2>1, <2>2 DEF Bijection, Injection, Surjection, IsInjective
<1>7. Cardinality(K) = Cardinality(O)
  <2>1. ExistsBijection(O, K)
    BY <1>6 DEF ExistsBijection
  <2> QED
    BY <1>3, <2>1, FS_Bijection
<1> QED
  BY <1>7 DEF NeoStats, Stats, K, O

-----------------------------------------------------------------------------
(* The demo graph.                                                         *)

\* Adding a seed keeps the index exact and the stores alike.
LEMMA SeedSteps ==
  ASSUME NEW g \in ExactStores, NEW s \in Keys, now \in Nat
  PROVE  /\ Seed(g, s) \in ExactStores
         /\ \A h \in NeoStores : Mirrors(h, g) =>
               NeoSeed(h, s) \in NeoStores /\ Mirrors(NeoSeed(h, s), Seed(g, s))
<1>1. /\ s[1] \in Ids /\ InferredType[s[1]] \in NodeKinds
      /\ s[2] \in Ids /\ InferredType[s[2]] \in NodeKinds
  BY KeyEnds, GraphAssumption DEF NodeKinds
<1> DEFINE g1 == UpsertNode(g, s[1], InferredType[s[1]])
           g2 == UpsertNode(g1, s[2], InferredType[s[2]])
<1>2. g1 \in ExactStores
  BY <1>1, UpsertExact
<1>3. g2 \in ExactStores
  BY <1>1, <1>2, UpsertExact
<1>4. Seed(g, s) \in ExactStores
  BY <1>3, AddExact DEF Seed
<1>5. ASSUME NEW h \in NeoStores, Mirrors(h, g)
      PROVE  NeoSeed(h, s) \in NeoStores /\ Mirrors(NeoSeed(h, s), Seed(g, s))
  <2> DEFINE h1 == NeoUpsertNode(h, s[1], InferredType[s[1]])
             h2 == NeoUpsertNode(h1, s[2], InferredType[s[2]])
  <2>1. h1 \in NeoStores /\ Mirrors(h1, g1)
    BY <1>1, <1>5, NeoUpsertMirrors
  <2>2. h2 \in NeoStores /\ Mirrors(h2, g2)
    BY <1>1, <1>2, <2>1, NeoUpsertMirrors
  <2> QED
    BY <1>3, <2>2, NeoAddMirrors DEF NeoSeed, Seed
<1> QED
  BY <1>4, <1>5

\* _seed_graph is a chain of such steps, in the in-memory store
LEMMA SeedChain ==
  ASSUME NEW g \in ExactStores, now \in Nat
  PROVE  \E f : /\ f[0] = g /\ \A n \in 1 .. Len(Seeds) : f[n] = Seed(f[n - 1], Seeds[n])
                /\ SeedGraph(g) = f[Len(Seeds)]
<1> DEFINE N == Len(Seeds)
           F(f) == [n \in 0 .. N |-> IF n = 0 THEN g ELSE Seed(f[n - 1], Seeds[n])]
           step == [n \in 1 .. N |-> [x \in ExactStores |-> Seed(x, Seeds[n])]]
<1>1. N \in Nat /\ \A n \in 1 .. N : Seeds[n] \in Keys
  BY AttributionAssumption, LenProperties, ElementOfSeq
<1>2. step \in [1 .. N -> [ExactStores -> ExactStores]]
  BY <1>1, SeedSteps
<1>3. PICK f : Chain(f, ExactStores, N, g, step)
  <2>1. N \in Nat /\ g \in ExactStores
    BY <1>1
  <2> HIDE DEF step, N
  <2> QED
    BY <1>2, <2>1, Iteration
<1>4. f = F(f)
  <2>1. \A n \in 1 .. N : f[n] = Seed(f[n - 1], Seeds[n])
    <3>1. \A n \in 1 .. N : f[n - 1] \in ExactStores
      BY <1>1, <1>3 DEF Chain
    <3> QED
      BY <1>3, <3>1 DEF Chain
  <2>2. \A n \in 0 .. N : n # 0 => n \in 1 .. N
    BY <1>1
  <2> HIDE DEF N
  <2> QED
    BY <1>3, <2>1, <2>2 DEF Chain
<1> DEFINE c == CHOOSE x : x = F(x)
<1>5. c = F(c)
  BY <1>4
<1>6. SeedGraph(g) = c[N]
  BY DEF SeedGraph
<1> HIDE DEF c
<1>7. c[0] = g /\ \A n \in 1 .. N : c[n] = Seed(c[n - 1], Seeds[n])
  BY <1>1, <1>5
<1> QED
  BY <1>6, <1>7

\* A Neo4j store remains one, whether it mirrors another or not.
LEMMA NeoSeedType ==
  ASSUME NEW h \in NeoStores, NEW s \in Keys, now \in Nat
  PROVE  NeoSeed(h, s) \in NeoStores
<1> DEFINE h2 == NeoUpsertNode(NeoUpsertNode(h, s[1], InferredType[s[1]]), s[2], InferredType[s[2]])
           q == NeoRetire(h2.edges, s, now)
           e == [key |-> s, from |-> Iso(now), to |-> IsoEnd(Open)]
<1>1. /\ s[1] \in Ids /\ InferredType[s[1]] \in NodeKinds
      /\ s[2] \in Ids /\ InferredType[s[2]] \in NodeKinds
  BY KeyEnds, GraphAssumption DEF NodeKinds
<1>2. h2 \in NeoStores
  BY <1>1 DEF NeoUpsertNode, NeoStores
<1> HIDE DEF h2
<1>3. /\ h2.edges \in Seq(NeoRecords) /\ h2.nodes \in [Ids -> NodeKinds]
      /\ DOMAIN h2.edges = 1 .. Len(h2.edges) /\ Len(h2.edges) \in Nat
      /\ \A i \in 1 .. Len(h2.edges) : h2.edges[i] \in NeoRecords
  BY <1>2, LenProperties, ElementOfSeq DEF NeoStores
<1>4. q \in Seq(NeoRecords)
  <2>1. Iso(now) \in Seq(Nat)
    BY IsoSeq
  <2>2. \A i \in 1 .. Len(h2.edges) : [h2.edges[i] EXCEPT !.to = Iso(now)] \in NeoRecords
    BY <1>3, <2>1 DEF NeoRecords
  <2> QED
    BY <1>3, <2>2 DEF NeoRetire
<1>5. e \in NeoRecords
  BY IsoSeq, EmptySeq DEF NeoRecords, IsoEnd
<1> HIDE DEF q, e
<1>6. Append(q, e) \in Seq(NeoRecords)
  BY <1>4, <1>5, AppendProperties
<1>7. Merge(Merge(h2.nodes, s[1]), s[2]) \in [Ids -> NodeKinds]
  BY <1>1, <1>3, MergeType
<1>8. NeoSeed(h, s) = [nodes |-> Merge(Merge(h2.nodes, s[1]), s[2]), edges |-> Append(q, e)]
  BY DEF NeoSeed, NeoAddEdge, Edge, h2, q, e
<1> QED
  BY <1>6, <1>7, <1>8 DEF NeoStores

\* and in the Neo4j store,
LEMMA NeoSeedChain ==
  ASSUME NEW g \in NeoStores, now \in Nat
  PROVE  \E f : /\ f[0] = g /\ \A n \in 1 .. Len(Seeds) : f[n] = NeoSeed(f[n - 1], Seeds[n])
                /\ NeoSeedGraph(g) = f[Len(Seeds)]
<1> DEFINE N == Len(Seeds)
           F(f) == [n \in 0 .. N |-> IF n = 0 THEN g ELSE NeoSeed(f[n - 1], Seeds[n])]
           step == [n \in 1 .. N |-> [x \in NeoStores |-> NeoSeed(x, Seeds[n])]]
<1>1. N \in Nat /\ \A n \in 1 .. N : Seeds[n] \in Keys
  BY AttributionAssumption, LenProperties, ElementOfSeq
<1>2. step \in [1 .. N -> [NeoStores -> NeoStores]]
  BY <1>1, NeoSeedType
<1>3. PICK f : Chain(f, NeoStores, N, g, step)
  <2>1. N \in Nat /\ g \in NeoStores
    BY <1>1
  <2> HIDE DEF step, N
  <2> QED
    BY <1>2, <2>1, Iteration
<1>4. f = F(f)
  <2>1. \A n \in 1 .. N : f[n] = NeoSeed(f[n - 1], Seeds[n])
    <3>1. \A n \in 1 .. N : f[n - 1] \in NeoStores
      BY <1>1, <1>3 DEF Chain
    <3> QED
      BY <1>3, <3>1 DEF Chain
  <2>2. \A n \in 0 .. N : n # 0 => n \in 1 .. N
    BY <1>1
  <2> HIDE DEF N
  <2> QED
    BY <1>3, <2>1, <2>2 DEF Chain
<1> DEFINE c == CHOOSE x : x = F(x)
<1>5. c = F(c)
  BY <1>4
<1>6. NeoSeedGraph(g) = c[N]
  BY DEF NeoSeedGraph
<1> HIDE DEF c
<1>7. c[0] = g /\ \A n \in 1 .. N : c[n] = NeoSeed(c[n - 1], Seeds[n])
  BY <1>1, <1>5
<1> QED
  BY <1>6, <1>7

\* so the seeded stores are exact and alike, as after each of its steps.
LEMMA SeededStores ==
  ASSUME NEW g \in ExactStores, NEW h \in NeoStores, Mirrors(h, g), now \in Nat
  PROVE  /\ SeedGraph(g) \in ExactStores
         /\ NeoSeedGraph(h) \in NeoStores
         /\ Mirrors(NeoSeedGraph(h), SeedGraph(g))
<1> DEFINE N == Len(Seeds)
<1>1. N \in Nat /\ \A n \in 1 .. N : Seeds[n] \in Keys
  BY AttributionAssumption, LenProperties, ElementOfSeq
<1>2. PICK a : /\ a[0] = g /\ \A n \in 1 .. N : a[n] = Seed(a[n - 1], Seeds[n])
               /\ SeedGraph(g) = a[N]
  BY SeedChain
<1>3. PICK b : /\ b[0] = h /\ \A n \in 1 .. N : b[n] = NeoSeed(b[n - 1], Seeds[n])
               /\ NeoSeedGraph(h) = b[N]
  BY NeoSeedChain
<1> DEFINE P == {n \in 0 .. N : a[n] \in ExactStores /\ b[n] \in NeoStores /\ Mirrors(b[n], a[n])}
<1> HIDE DEF N
<1>4. 0 \in P
  BY <1>1, <1>2, <1>3
<1>5. ASSUME NEW n \in 1 .. N, n - 1 \in P PROVE n \in P
  <2>1. /\ a[n - 1] \in ExactStores /\ b[n - 1] \in NeoStores /\ Mirrors(b[n - 1], a[n - 1])
        /\ Seeds[n] \in Keys /\ n \in 0 .. N
    BY <1>1, <1>5
  <2>2. a[n] \in ExactStores /\ b[n] \in NeoStores /\ Mirrors(b[n], a[n])
    BY <1>2, <1>3, <2>1, SeedSteps
  <2> QED
    BY <2>1, <2>2
<1>6. N \in P
  <2> HIDE DEF P
  <2> QED
    BY <1>1, <1>4, <1>5, ChainEnd
<1> QED
  BY <1>2, <1>3, <1>6

-----------------------------------------------------------------------------
(* The stores of a running processor.                                      *)

MoveRecords == [time : Nat, from : Teams \cup {NoTeam}, to : Teams \cup {NoTeam}]

\* Both stores: exact, and one the mirror of the other.
GraphOK == mem \in ExactStores /\ neo \in NeoStores /\ Mirrors(neo, mem)

\* The types of the clock and of the recorded moves.
Clocked == now \in Nat /\ moves \in [People -> Seq(MoveRecords)]

GraphInv == GraphOK /\ Clocked

\* It holds initially,
LEMMA InitGraph == Init => GraphInv
BY EmptyExact, EmptyMirrors, EmptySeq DEF Init, GraphInv, GraphOK, Clocked

\* is kept by every step: the clock and the moves
LEMMA ClockedStep == Clocked /\ [Next]_vars => Clocked'
<1> SUFFICES ASSUME Clocked, [Next]_vars PROVE Clocked'
  OBVIOUS
<1>1. CASE Tick
  BY <1>1 DEF Tick, Clocked
<1>2. ASSUME NEW p \in People, NEW team \in Teams \cup {NoTeam}, Move(p, team)
      PROVE  Clocked'
  <2> DEFINE m == moves[p]
             current == IF m = <<>> THEN NoTeam ELSE m[Len(m)].to
             r == [time |-> now, from |-> current, to |-> team]
  <2>1. m \in Seq(MoveRecords) /\ now \in Nat
    BY DEF Clocked
  <2>2. current \in Teams \cup {NoTeam}
    <3>1. CASE m = <<>>
      BY <3>1
    <3>2. CASE m # <<>>
      <4>1. Len(m) \in 1 .. Len(m)
        BY <2>1, <3>2, EmptySeq, LenProperties
      <4>2. m[Len(m)] \in MoveRecords
        BY <2>1, <4>1, ElementOfSeq
      <4> QED
        BY <3>2, <4>2 DEF MoveRecords
    <3> QED
      BY <3>1, <3>2
  <2>3. moves' = [moves EXCEPT ![p] = Append(m, r)] /\ now' = now
    BY <1>2 DEF Move
  <2> HIDE DEF m, current
  <2>4. Append(m, r) \in Seq(MoveRecords)
    BY <2>1, <2>2, AppendProperties DEF MoveRecords
  <2> QED
    BY <2>3, <2>4 DEF Clocked
<1>3. CASE UNCHANGED <<now, moves>>
  BY <1>3, SMTT(30) DEF Clocked
<1>4. ASSUME Next, ~Tick, ~(\E p \in People, team \in Teams \cup {NoTeam} : Move(p, team))
      PROVE  UNCHANGED <<now, moves>>
  BY <1>4, ZenonT(40) DEF Next, StructureNext, ServingNext, SharedNext, InferenceCached, InferenceResolved,
     RegisterPolicy, RemovePolicy, Deployment, Billing, Correction, HandleOrgChange, OrgChangeCloses,
     OrgChangeAdds, OrgChangeFails, SetOwner, Bootstrap, BootstrapEntries, Handled, Counted, hrVars
<1> QED
  BY <1>1, <1>2, <1>3, <1>4 DEF vars

\* The two writes of an org change keep both stores,
LEMMA TransactionsKeep ==
  ASSUME NEW g \in ExactStores, NEW h \in NeoStores, Mirrors(h, g), now \in Nat,
         NEW p \in People, NEW m \in MoveRecords
  PROVE  /\ LeaveTeam(g, p, m) \in ExactStores
         /\ NeoLeaveTeam(h, p, m) \in NeoStores
         /\ Mirrors(NeoLeaveTeam(h, p, m), LeaveTeam(g, p, m))
         /\ JoinTeam(g, p, m) \in ExactStores
         /\ NeoJoinTeam(h, p, m) \in NeoStores
         /\ Mirrors(NeoJoinTeam(h, p, m), JoinTeam(g, p, m))
<1> DEFINE ok == <<p, m.from, "member_of">>
           nk == <<p, m.to, "member_of">>
<1>1. m.time \in Nat /\ m.from \in Teams \cup {NoTeam} /\ m.to \in Teams \cup {NoTeam}
  BY DEF MoveRecords
<1>2. (m.from # NoTeam => ok \in Keys) /\ (m.to # NoTeam => nk \in Keys)
  BY <1>1, AttributionAssumption
<1>3. /\ LeaveTeam(g, p, m) = IF m.from = NoTeam \/ m.from = m.to THEN g ELSE CloseEdge(g, ok, m.time)
      /\ NeoLeaveTeam(h, p, m) = IF m.from = NoTeam \/ m.from = m.to THEN h
                                 ELSE NeoCloseEdge(h, ok, m.time)
  BY DEF LeaveTeam, NeoLeaveTeam
<1>4. /\ JoinTeam(g, p, m) = IF m.to = NoTeam \/ m.from = m.to THEN g
                             ELSE AddEdge(g, Edge(nk, m.time), now)
      /\ NeoJoinTeam(h, p, m) = IF m.to = NoTeam \/ m.from = m.to THEN h
                                ELSE NeoAddEdge(h, Edge(nk, m.time), now)
  BY DEF JoinTeam, NeoJoinTeam
<1> HIDE DEF ok, nk
<1>5. /\ LeaveTeam(g, p, m) \in ExactStores /\ NeoLeaveTeam(h, p, m) \in NeoStores
      /\ Mirrors(NeoLeaveTeam(h, p, m), LeaveTeam(g, p, m))
  BY <1>1, <1>2, <1>3, CloseExact, NeoCloseMirrors
<1>6. /\ JoinTeam(g, p, m) \in ExactStores /\ NeoJoinTeam(h, p, m) \in NeoStores
      /\ Mirrors(NeoJoinTeam(h, p, m), JoinTeam(g, p, m))
  BY <1>1, <1>2, <1>4, AddExact, NeoAddMirrors
<1> QED
  BY <1>5, <1>6

\* and so does every handler that writes to the graph, for it changes both alike;
LEMMA GraphStep == GraphInv /\ [Next]_vars => GraphOK'
<1> SUFFICES ASSUME GraphOK, Clocked, [Next]_vars PROVE GraphOK'
  BY DEF GraphInv
<1>0. mem \in ExactStores /\ neo \in NeoStores /\ Mirrors(neo, mem) /\ now \in Nat
  BY DEF GraphOK, Clocked
<1>1. CASE UNCHANGED <<mem, neo>>
  BY <1>1 DEF GraphOK
<1>2. ASSUME NEW job \in Jobs, NEW t \in 0 .. now, Deployment(job, t)
      PROVE  GraphOK'
  <2> DEFINE d == job.id  r == job.target  p == job.deployer
             g1 == UpsertNode(mem, d, "deployment")
             h1 == NeoUpsertNode(neo, d, "deployment")
             gr == UpsertNode(g1, r, "resource")
             hr == NeoUpsertNode(h1, r, "resource")
             tk == <<d, r, "triggers">>
             pk == <<p, d, "deployed_by">>
             g2 == IF r = NoTeam THEN g1 ELSE AddEdge(gr, Edge(tk, t), now)
             h2 == IF r = NoTeam THEN h1 ELSE NeoAddEdge(hr, Edge(tk, t), now)
             g3 == IF p = NoTeam THEN g2 ELSE AddEdge(g2, Edge(pk, t), now)
             h3 == IF p = NoTeam THEN h2 ELSE NeoAddEdge(h2, Edge(pk, t), now)
  <2>0. /\ d \in Ids /\ r \in Ids \cup {NoTeam}
        /\ r # NoTeam => tk \in Keys
        /\ p # NoTeam => pk \in Keys
        /\ {"deployment", "resource"} \subseteq NodeKinds /\ t \in Nat
    BY <1>0, AttributionAssumption DEF NodeKinds, NodeTypes
  <2>1. mem' = g3 /\ neo' = h3
    BY <1>2 DEF Deployment
  <2> HIDE DEF d, r, p, tk, pk
  <2>2. g1 \in ExactStores /\ h1 \in NeoStores /\ Mirrors(h1, g1)
    BY <1>0, <2>0, UpsertExact, NeoUpsertMirrors
  <2> HIDE DEF g1, h1
  <2>3. g2 \in ExactStores /\ h2 \in NeoStores /\ Mirrors(h2, g2)
    <3>1. CASE r = NoTeam
      BY <2>2, <3>1
    <3>2. CASE r # NoTeam
      <4>1. gr \in ExactStores /\ hr \in NeoStores /\ Mirrors(hr, gr)
        BY <2>0, <2>2, <3>2, UpsertExact, NeoUpsertMirrors
      <4> HIDE DEF gr, hr
      <4> QED
        BY <1>0, <2>0, <3>2, <4>1, AddExact, NeoAddMirrors
    <3> QED
      BY <3>1, <3>2
  <2> HIDE DEF g2, h2
  <2>4. g3 \in ExactStores /\ h3 \in NeoStores /\ Mirrors(h3, g3)
    BY <1>0, <2>0, <2>3, AddExact, NeoAddMirrors
  <2> QED
    BY <2>1, <2>4 DEF GraphOK
<1>3. ASSUME NEW n \in Resources, Billing(n)
      PROVE  GraphOK'
  <2>1. n \in Ids
    BY AttributionAssumption, ElementOfSeq, LenProperties DEF Resources
  <2>2. mem.nodes[n] \in NodeKinds /\ neo.nodes[n] \in NodeKinds
    BY <1>0, <2>1 DEF ExactStores, Stores, NeoStores
  <2>3. mem' = UpsertNode(mem, n, mem.nodes[n]) /\ neo' = NeoUpsertNode(neo, n, neo.nodes[n])
    BY <1>3 DEF Billing
  <2> QED
    BY <1>0, <2>1, <2>2, <2>3, UpsertExact, NeoUpsertMirrors DEF GraphOK
<1>4. ASSUME NEW p \in People, NEW i \in DOMAIN moves[p],
             \/ HandleOrgChange(p, i) \/ OrgChangeCloses(p, i)
             \/ OrgChangeAdds(p, i) \/ OrgChangeFails(p, i)
      PROVE  GraphOK'
  <2> DEFINE m == moves[p][i]
             g1 == LeaveTeam(mem, p, m)
             h1 == NeoLeaveTeam(neo, p, m)
  <2>1. m \in MoveRecords
    BY ElementOfSeq, LenProperties DEF Clocked
  <2>2. \/ mem' = JoinTeam(g1, p, m) /\ neo' = NeoJoinTeam(h1, p, m)
        \/ mem' = g1 /\ neo' = h1
        \/ mem' = JoinTeam(mem, p, m) /\ neo' = NeoJoinTeam(neo, p, m)
        \/ mem' = mem /\ neo' = neo
    BY <1>4 DEF HandleOrgChange, OrgChangeCloses, OrgChangeAdds, OrgChangeFails, graphVars
  <2> HIDE DEF m
  <2>3. g1 \in ExactStores /\ h1 \in NeoStores /\ Mirrors(h1, g1)
    BY <1>0, <2>1, TransactionsKeep
  <2> HIDE DEF g1, h1
  <2>4. /\ JoinTeam(g1, p, m) \in ExactStores /\ NeoJoinTeam(h1, p, m) \in NeoStores
        /\ Mirrors(NeoJoinTeam(h1, p, m), JoinTeam(g1, p, m))
    BY <1>0, <2>1, <2>3, TransactionsKeep
  <2>5. /\ JoinTeam(mem, p, m) \in ExactStores /\ NeoJoinTeam(neo, p, m) \in NeoStores
        /\ Mirrors(NeoJoinTeam(neo, p, m), JoinTeam(mem, p, m))
    BY <1>0, <2>1, TransactionsKeep
  <2> QED
    BY <1>0, <2>2, <2>3, <2>4, <2>5 DEF GraphOK
<1>5. ASSUME NEW k \in Keys, NEW t \in 0 .. now, SetOwner(k, t)
      PROVE  GraphOK'
  <2> DEFINE g1 == UpsertNode(mem, k[2], "team")
             h1 == NeoUpsertNode(neo, k[2], "team")
  <2>1. k[2] \in Ids /\ "team" \in NodeKinds /\ t \in Nat
    BY <1>0, KeyEnds DEF NodeKinds, NodeTypes
  <2>2. g1 \in ExactStores /\ h1 \in NeoStores /\ Mirrors(h1, g1)
    BY <1>0, <2>1, UpsertExact, NeoUpsertMirrors
  <2>3. mem' = AddEdge(g1, Edge(k, t), now) /\ neo' = NeoAddEdge(h1, Edge(k, t), now)
    BY <1>5 DEF SetOwner
  <2> HIDE DEF g1, h1
  <2> QED
    BY <1>0, <2>1, <2>2, <2>3, AddExact, NeoAddMirrors DEF GraphOK
<1>6. ASSUME NEW reset \in BOOLEAN, Bootstrap(reset)
      PROVE  GraphOK'
  <2> DEFINE g == IF reset THEN EmptyMem ELSE mem
             h == IF reset THEN EmptyNeo ELSE neo
  <2>1. mem' = SeedGraph(g) /\ neo' = NeoSeedGraph(h)
    BY <1>6 DEF Bootstrap
  <2>2. g \in ExactStores /\ h \in NeoStores /\ Mirrors(h, g)
    BY <1>0, EmptyExact, EmptyMirrors
  <2> HIDE DEF g, h
  <2> QED
    BY <1>0, <2>1, <2>2, SeededStores DEF GraphOK
<1>7. ASSUME \/ Tick \/ BootstrapEntries
             \/ \E w \in Workloads : InferenceCached(w)
             \/ \E w \in Workloads, t \in 0 .. now : InferenceResolved(w, t)
             \/ \E m \in Methods : Correction(m)
             \/ \E p \in Policies : RegisterPolicy(p) \/ RemovePolicy(p.id)
             \/ \E p \in People, team \in Teams \cup {NoTeam} : Move(p, team)
      PROVE  UNCHANGED <<mem, neo>>
  BY <1>7 DEF Tick, BootstrapEntries, InferenceCached, InferenceResolved, Correction,
     RegisterPolicy, RemovePolicy, Move, graphVars
<1>8. CASE Next
  BY <1>1, <1>2, <1>3, <1>4, <1>5, <1>6, <1>7, <1>8
     DEF Next, StructureNext, ServingNext, SharedNext
<1> QED
  BY <1>1, <1>8 DEF vars

\* so it always holds.
LEMMA InvariantGraph == Spec => []GraphInv
<1>1. GraphInv /\ [Next]_vars => GraphInv'
  BY ClockedStep, GraphStep DEF GraphInv
<1> QED
  BY InitGraph, <1>1, PTL DEF Spec

\* ActiveIndexExact (graph/store.py, _active_edge_index): for any people, workloads,
\* keys and events, the in-memory index names exactly the open edges, one per key.
THEOREM IndexExact == Spec => []ActiveIndexExact
<1>1. GraphInv => ActiveIndexExact
  <2> SUFFICES ASSUME GraphInv, NEW i \in DOMAIN mem.edges
               PROVE  mem.edges[i].to = Open <=> mem.active[mem.edges[i].key] = i
    BY DEF ActiveIndexExact
  <2>1. mem \in ExactStores
    BY DEF GraphInv, GraphOK
  <2>2. i \in 1 .. Len(mem.edges) /\ mem.edges[i] \in EdgeRecords
    BY <2>1, LenProperties, ElementOfSeq DEF ExactStores, Stores
  <2>3. mem.edges[i].key \in Keys /\ i # 0
    BY <2>2 DEF EdgeRecords
  <2> QED
    BY <2>1, <2>2, <2>3 DEF ExactStores, Exact
<1> QED
  BY <1>1, InvariantGraph, PTL

\* BackendsAgree (InMemoryGraphStore, Neo4jGraphStore): both backends hold the same
\* edges, count as many active ones and answer every query of a node and a time
\* alike, however the handlers, the demo seeder and its resets interleave.
THEOREM BackendsEqual == Spec => []BackendsAgree
<1>1. GraphInv => BackendsAgree
  <2> SUFFICES ASSUME GraphInv PROVE BackendsAgree
    OBVIOUS
  <2>1. mem \in ExactStores /\ neo \in NeoStores /\ Mirrors(neo, mem)
    BY DEF GraphInv, GraphOK
  <2>2. [i \in DOMAIN neo.edges |-> Deserialize(neo.edges[i])] = mem.edges
    <3>1. /\ mem.edges \in [1 .. Len(mem.edges) -> EdgeRecords]
          /\ DOMAIN neo.edges = 1 .. Len(mem.edges)
          /\ \A i \in 1 .. Len(mem.edges) : neo.edges[i] = Serialize(mem.edges[i])
      BY <2>1, LenProperties DEF ExactStores, Stores, NeoStores, Mirrors
    <3>2. \A i \in 1 .. Len(mem.edges) : Deserialize(neo.edges[i]) = mem.edges[i]
      BY <3>1, SerializeFacts
    <3> QED
      BY <3>1, <3>2
  <2>3. NeoStats(neo).active = Stats(mem).active
    BY <2>1, CountsAlike
  <2>4. ASSUME NEW n \in Ids, NEW t \in 0 .. MaxTime + 1
        PROVE  /\ EdgesFrom(mem, n, t) = NeoEdgesFrom(neo, n, t)
               /\ EdgesTo(mem, n, t) = NeoEdgesTo(neo, n, t)
    <3>1. t \in Nat
      BY AttributionAssumption
    <3> QED
      BY <2>1, <3>1, QueriesAlike
  <2> QED
    BY <2>2, <2>3, <2>4 DEF BackendsAgree
<1> QED
  BY <1>1, InvariantGraph, PTL

-----------------------------------------------------------------------------
(* What is cached and served.                                              *)

Curves == {"warm", "bootstrap", "isotonic"}

EntryRecords ==
    [owner : Ids \cup {NoTeam}, method : Methods \cup {"seed", "none"}, curve : Curves,
     policy : Policies \cup {NoPolicy}, at : Nat]

CacheRecords ==
    [workload : Workloads, at : Nat, owner : Ids \cup {NoTeam}, method : Methods \cup {"none"}]

\* The types of what is served and of what it is computed from.
ServingTypes ==
    /\ index \in [Workloads -> EntryRecords]
    /\ curve \in [Methods -> Curves]
    /\ policies \in Seq(Policies)
    /\ answered \in [Workloads -> [Ids -> Int]]

\* A result of the engine, no older than the last time the graph gave its owner.
Backed ==
    {r \in CacheRecords :
        /\ r.at <= now
        /\ r.method # "none" => r.owner \in Ids /\ r.at <= answered[r.workload][r.owner]}

\* The cache of the engine holds only backed results.
ServingInv == GraphInv /\ ServingTypes /\ cache \in Seq(Backed)

\* Popping an entry of an ordered dict.
LEMMA PoppedType ==
  ASSUME NEW S, NEW s \in Seq(S), NEW I \in SUBSET (DOMAIN s)
  PROVE  Popped(s, I) \in Seq(S)
<1>1. CASE I = {}
  BY <1>1 DEF Popped
<1>2. CASE I # {}
  <2> DEFINE i == CHOOSE i \in I : TRUE
  <2>1. i \in 1 .. Len(s) /\ Len(s) \in Nat
    BY <1>2, LenProperties
  <2> HIDE DEF i
  <2>2. \A j \in 1 .. Len(s) : s[j] \in S
    BY ElementOfSeq
  <2>3. SubSeq(s, 1, i - 1) \in Seq(S)
    <3>1. i - 1 \in Int /\ \A j \in 1 .. i - 1 : s[j] \in S
      BY <2>1, <2>2
    <3> QED
      BY <3>1, SubSeqProperties
  <2>4. SubSeq(s, i + 1, Len(s)) \in Seq(S)
    <3>1. i + 1 \in Int /\ Len(s) \in Int /\ \A j \in i + 1 .. Len(s) : s[j] \in S
      BY <2>1, <2>2
    <3> QED
      BY <3>1, SubSeqProperties
  <2>5. Popped(s, I) = SubSeq(s, 1, i - 1) \o SubSeq(s, i + 1, Len(s))
    BY <1>2 DEF Popped, RemoveAt, i
  <2> QED
    BY <2>3, <2>4, <2>5, ConcatProperties
<1> QED
  BY <1>1, <1>2

\* Min and Max pick a member of a nonempty set of positions.
LEMMA Extremes ==
  ASSUME NEW N \in Nat, NEW T \in SUBSET (1 .. N), T # {}
  PROVE  Min(T) \in T /\ Max(T) \in T
<1>1. \E x \in T : \A y \in T : x <= y
  BY LeastNumber
<1>2. \E x \in T : \A y \in T : x >= y
  <2> DEFINE U == {n \in Nat : \A y \in T : y <= n}
  <2>1. U \in SUBSET Nat /\ N \in U
    OBVIOUS
  <2>2. PICK m \in U : \A u \in U : m <= u
    <3> HIDE DEF U
    <3> QED
      BY <2>1, LeastNumber
  <2>3. m \in T
    <3>1. ASSUME m \notin T PROVE FALSE
      <4>1. \A y \in T : y \in Nat /\ y >= 1 /\ y <= m /\ y # m
        BY <2>2, <3>1
      <4>2. m - 1 \in U
        <5>0. PICK z \in T : TRUE
          OBVIOUS
        <5>1. m \in Nat /\ m - 1 \in Nat
          BY <2>2, <4>1, <5>0
        <5>2. \A y \in T : y <= m - 1
          BY <4>1, <5>1
        <5> QED
          BY <5>1, <5>2
      <4> QED
        BY <2>2, <4>2
    <3> QED
      BY <3>1
  <2> QED
    BY <2>2, <2>3
<1> QED
  BY <1>1, <1>2 DEF Min, Max

\* What the policy getters return is a policy.
LEMMA PolicyForType ==
  ASSUME policies \in Seq(Policies), NEW team
  PROVE  PolicyFor(team) \in Policies \cup {NoPolicy}
<1> DEFINE live == {i \in DOMAIN policies : policies[i].enabled}
           own == {i \in live : Matches(policies[i], team)}
           global == {i \in live : policies[i].scope = "global"}
<1>1. /\ Len(policies) \in Nat /\ DOMAIN policies = 1 .. Len(policies)
      /\ \A i \in 1 .. Len(policies) : policies[i] \in Policies
  BY LenProperties, ElementOfSeq
<1>2. own \in SUBSET (1 .. Len(policies)) /\ global \in SUBSET (1 .. Len(policies))
  BY <1>1
<1>3. PolicyFor(team) = IF own # {} THEN policies[Min(own)]
                        ELSE IF global # {} THEN policies[Max(global)] ELSE NoPolicy
  BY DEF PolicyFor
<1> HIDE DEF own, global
<1>4. (own # {} => Min(own) \in own) /\ (global # {} => Max(global) \in global)
  BY <1>1, <1>2, Extremes
<1> QED
  BY <1>1, <1>2, <1>3, <1>4

\* What the engine resolves is an id of the graph, or nothing.
LEMMA ResolutionsType ==
  ASSUME GraphInv, NEW w \in Workloads, NEW t, NEW r \in Resolutions(w, t)
  PROVE  \/ r.method \in Methods /\ r.owner \in Ids
         \/ r.method = "none" /\ r.owner = NoTeam
<1>1. /\ DOMAIN mem.edges = 1 .. Len(mem.edges)
      /\ \A i \in DOMAIN mem.edges : mem.edges[i].key \in Keys /\ neo.edges[i].key \in Keys
  <2>1. /\ DOMAIN mem.edges = 1 .. Len(mem.edges)
        /\ \A i \in 1 .. Len(mem.edges) : mem.edges[i] \in EdgeRecords
        /\ \A i \in 1 .. Len(mem.edges) : neo.edges[i] = Serialize(mem.edges[i])
    BY LenProperties, ElementOfSeq DEF GraphInv, GraphOK, ExactStores, Stores, Mirrors
  <2> QED
    BY <2>1, SerializeFacts DEF EdgeRecords
<1>2. \A i \in DOMAIN mem.edges : KeyOf(i)[2] \in Ids
  BY <1>1, KeyEnds DEF KeyOf
<1>3. DirectOwners(w, t) \subseteq Ids
  BY <1>2 DEF DirectOwners
<1>4. NamedAlike(w) \subseteq Ids
  BY DEF NamedAlike, NodesByType
<1> QED
  BY <1>3, <1>4 DEF Resolutions, Methods

\* Materializing a result changes the entry of its workload only.
LEMMA MaterializedType ==
  ASSUME ServingTypes, now \in Nat, NEW w \in Workloads, NEW r,
         \/ r.method \in Methods /\ r.owner \in Ids
         \/ r.method = "none"
  PROVE  /\ Materialized(w, r) \in [Workloads -> EntryRecords]
         /\ \A v \in Workloads : Materialized(w, r)[v] # index[v] =>
               v = w /\ r.method # "none" /\ Materialized(w, r)[v].owner = r.owner
<1>1. CASE r.method = "none"
  BY <1>1 DEF Materialized, ServingTypes
<1>2. CASE r.method # "none"
  <2> DEFINE e == Entry(r.owner, r.method, curve[r.method], PolicyFor(r.owner))
  <2>1. e \in EntryRecords /\ e.owner = r.owner
    BY <1>2, PolicyForType DEF Entry, EntryRecords, ServingTypes
  <2>2. Materialized(w, r) = [index EXCEPT ![w] = e]
    BY <1>2 DEF Materialized
  <2> HIDE DEF e
  <2> QED
    BY <1>2, <2>1, <2>2 DEF ServingTypes
<1> QED
  BY <1>1, <1>2

\* cache after a hit, and after a new result.
LEMMA TouchType ==
  ASSUME NEW S, cache \in Seq(S), NEW r \in S
  PROVE  Touch(r) \in Seq(S)
<1>1. Without(cache, r.workload) \in Seq(S)
  BY PoppedType DEF Without
<1> QED
  BY <1>1, AppendProperties DEF Touch

LEMMA StoreType ==
  ASSUME NEW S, cache \in Seq(S), NEW w, NEW r,
         [workload |-> w, at |-> now, owner |-> r.owner, method |-> r.method] \in S
  PROVE  Store(w, r) \in Seq(S)
<1> DEFINE e == [workload |-> w, at |-> now, owner |-> r.owner, method |-> r.method]
           c == Without(cache, w)
           grown == Append(c, e)
           m == Max({1, Len(grown) - CacheMax + 1})
<1>1. c \in Seq(S)
  BY PoppedType DEF Without
<1>2. e \in S
  OBVIOUS
<1> HIDE DEF c, e
<1>3. grown \in Seq(S) /\ Len(grown) \in Nat /\ \A i \in 1 .. Len(grown) : grown[i] \in S
  BY <1>1, <1>2, AppendProperties, LenProperties, ElementOfSeq
<1> HIDE DEF grown
<1>4. CacheMax \in Nat
  BY AttributionAssumption
<1>5. m \in Int /\ m >= 1
  <2> DEFINE a == Len(grown) - CacheMax + 1
  <2>1. a \in Int
    BY <1>3, <1>4
  <2> HIDE DEF a
  <2>2. \E x \in {1, a} : \A y \in {1, a} : x >= y
    BY <2>1
  <2>3. Max({1, a}) \in {1, a} /\ \A y \in {1, a} : Max({1, a}) >= y
    BY <2>2 DEF Max
  <2> QED
    BY <2>1, <2>3 DEF a
<1>6. Store(w, r) = SubSeq(grown, m, Len(grown))
  BY DEF Store, grown, c, e
<1> HIDE DEF m
<1>7. \A i \in m .. Len(grown) : grown[i] \in S
  BY <1>3, <1>5
<1> QED
  BY <1>3, <1>5, <1>6, <1>7, SubSeqProperties

\* Sequences over a larger set.
LEMMA SeqMonotone ==
  ASSUME NEW S, NEW T, S \subseteq T, NEW s \in Seq(S)
  PROVE  s \in Seq(T)
OBVIOUS

\* The invariant holds initially
LEMMA InitServing == Init => ServingInv
<1> SUFFICES ASSUME Init PROVE ServingInv
  OBVIOUS
<1>1. GraphInv
  BY InitGraph
<1>2. ServingTypes
  <2>1. index \in [Workloads -> EntryRecords]
    BY DEF Init, Nobody, EntryRecords, Curves
  <2>2. policies \in Seq(Policies)
    BY EmptySeq DEF Init
  <2> QED
    BY <2>1, <2>2 DEF Init, ServingTypes, Curves
<1>3. cache \in Seq(Backed)
  BY EmptySeq DEF Init
<1> QED
  BY <1>1, <1>2, <1>3 DEF ServingInv

\* Time passes and answers are renewed: a result stays backed.
LEMMA BackedGrows ==
  ASSUME now \in Nat, now' \in Nat, now' >= now,
         \A w \in Workloads, o \in Ids : answered'[w][o] = answered[w][o] \/ answered'[w][o] = now
  PROVE  Backed \subseteq Backed'
<1> SUFFICES ASSUME NEW r \in Backed PROVE r \in Backed'
  OBVIOUS
<1>1. /\ r \in CacheRecords /\ r.at \in Nat /\ r.workload \in Workloads /\ r.at <= now
      /\ r.method # "none" => r.owner \in Ids /\ r.at <= answered[r.workload][r.owner]
  BY DEF Backed, CacheRecords
<1>2. r.at <= now'
  BY <1>1
<1>3. ASSUME r.method # "none" PROVE r.owner \in Ids /\ r.at <= answered'[r.workload][r.owner]
  BY <1>1, <1>3
<1> QED
  BY <1>1, <1>2, <1>3 DEF Backed, CacheRecords

\* and after every step: a hit keeps the time of its result, a new result is dated
\* when the graph gave it.
LEMMA ServingStep == ServingInv /\ [Next]_vars => ServingInv'
<1> SUFFICES ASSUME GraphInv, ServingTypes, cache \in Seq(Backed), [Next]_vars
             PROVE  ServingInv'
  BY DEF ServingInv
<1>1. GraphInv' /\ now \in Nat /\ now' \in Nat
  BY ClockedStep, GraphStep DEF GraphInv, Clocked
<1>2. now' >= now
  <2>1. CASE Tick
    BY <1>1, <2>1 DEF Tick
  <2>2. CASE now' = now
    BY <1>1, <2>2, SMTT(30)
  <2>3. ASSUME Next, ~Tick PROVE now' = now
    BY <2>3, ZenonT(40) DEF Next, StructureNext, ServingNext, SharedNext, InferenceCached, InferenceResolved,
       RegisterPolicy, RemovePolicy, Deployment, Billing, Correction, HandleOrgChange, OrgChangeCloses,
       OrgChangeAdds, OrgChangeFails, SetOwner, Move, Bootstrap, BootstrapEntries, Handled, Counted
  <2> QED
    BY <2>1, <2>2, <2>3 DEF vars
<1>3. ASSUME ServingTypes', UNCHANGED <<cache, answered>>
      PROVE  ServingInv'
  <2>1. Backed \subseteq Backed'
    BY <1>1, <1>2, <1>3, BackedGrows
  <2>2. cache \in Seq(Backed')
    BY <2>1, SeqMonotone
  <2> QED
    BY <1>1, <1>3, <2>2 DEF ServingInv
<1>4. ASSUME NEW w \in Workloads, InferenceCached(w)
      PROVE  ServingInv'
  <2>1. PICK r \in Hits(w) : cache' = Touch(r) /\ index' = Materialized(w, r)
    BY <1>4 DEF InferenceCached
  <2>2. r \in Backed
    <3>1. \E i \in DOMAIN cache : r = cache[i]
      BY <2>1 DEF Hits
    <3> QED
      BY <3>1, LenProperties, ElementOfSeq
  <2>3. /\ \/ r.method \in Methods /\ r.owner \in Ids
           \/ r.method = "none"
    BY <2>2 DEF Backed, CacheRecords
  <2>4. UNCHANGED <<curve, policies, answered>>
    BY <1>4 DEF InferenceCached, otherVars
  <2>5. ServingTypes'
    BY <1>1, <2>1, <2>3, <2>4, MaterializedType DEF ServingTypes
  <2>6. Backed \subseteq Backed'
    BY <1>1, <1>2, <2>4, BackedGrows
  <2>7. cache' \in Seq(Backed')
    BY <2>1, <2>2, <2>6, TouchType, SeqMonotone
  <2> QED
    BY <1>1, <2>5, <2>7 DEF ServingInv
<1>5. ASSUME NEW w \in Workloads, NEW t \in 0 .. now, InferenceResolved(w, t)
      PROVE  ServingInv'
  <2>1. PICK r \in Resolutions(w, t) :
           /\ cache' = Store(w, r) /\ index' = Materialized(w, r)
           /\ answered' = IF r.method = "none" THEN answered
                          ELSE [answered EXCEPT ![w][r.owner] = now]
    BY <1>5 DEF InferenceResolved
  <2>2. \/ r.method \in Methods /\ r.owner \in Ids
        \/ r.method = "none" /\ r.owner = NoTeam
    BY ResolutionsType
  <2>3. UNCHANGED <<curve, policies, now>>
    BY <1>5 DEF InferenceResolved, otherVars, Handled, Counted
  <2>4. /\ answered' \in [Workloads -> [Ids -> Int]]
        /\ r.method # "none" => answered'[w][r.owner] = now
        /\ \A v \in Workloads, o \in Ids : answered'[v][o] = answered[v][o] \/ answered'[v][o] = now
    BY <1>1, <2>1, <2>2 DEF ServingTypes, Methods
  <2>5. ServingTypes'
    BY <1>1, <2>1, <2>2, <2>3, <2>4, MaterializedType DEF ServingTypes
  <2>6. Backed \subseteq Backed'
    BY <1>1, <1>2, <2>4, BackedGrows
  <2> DEFINE e == [workload |-> w, at |-> now, owner |-> r.owner, method |-> r.method]
  <2>7. e \in Backed'
    <3>1. e \in CacheRecords /\ e.at = now /\ e.workload = w /\ e.owner = r.owner /\ e.method = r.method
      BY <1>1, <2>2 DEF CacheRecords, Methods
    <3> HIDE DEF e
    <3> QED
      BY <1>1, <2>2, <2>3, <2>4, <3>1 DEF Backed, CacheRecords, Methods
  <2>8. Store(w, r) \in Seq(Backed')
    <3>1. cache \in Seq(Backed')
      BY <2>6, SeqMonotone
    <3> QED
      BY <2>7, <3>1, StoreType
  <2> QED
    BY <1>1, <2>1, <2>5, <2>8 DEF ServingInv
<1>6. ASSUME NEW m \in Methods, Correction(m)
      PROVE  ServingInv'
  <2>1. curve' \in [Methods -> Curves] /\ UNCHANGED <<index, policies, cache, answered>>
    BY <1>6 DEF Correction, ServingTypes, servingVars, Curves
  <2> QED
    BY <1>3, <2>1 DEF ServingTypes
<1>7. ASSUME NEW p \in Policies, RegisterPolicy(p)
      PROVE  ServingInv'
  <2>1. /\ policies' = Register(policies, p) /\ policies \in Seq(Policies)
        /\ UNCHANGED <<index, curve, cache, answered>>
    BY <1>7 DEF RegisterPolicy, servingVars, ServingTypes
  <2>2. Append(policies, p) \in Seq(Policies)
    BY <2>1, AppendProperties
  <2>3. [i \in DOMAIN policies |-> IF policies[i].id = p.id THEN p ELSE policies[i]] \in Seq(Policies)
    <3>1. /\ DOMAIN policies = 1 .. Len(policies) /\ Len(policies) \in Nat
          /\ \A i \in 1 .. Len(policies) : policies[i] \in Policies
      BY <2>1, LenProperties, ElementOfSeq
    <3> QED
      BY <3>1
  <2> QED
    BY <1>3, <2>1, <2>2, <2>3 DEF Register, ServingTypes
<1>8. ASSUME NEW id, RemovePolicy(id)
      PROVE  ServingInv'
  <2>1. /\ policies' = Popped(policies, {i \in DOMAIN policies : policies[i].id = id})
        /\ UNCHANGED <<index, curve, cache, answered>>
    BY <1>8 DEF RemovePolicy, servingVars
  <2>2. policies' \in Seq(Policies)
    BY <2>1, PoppedType DEF ServingTypes
  <2> QED
    BY <1>3, <2>1, <2>2 DEF ServingTypes
<1>9. ASSUME NEW reset \in BOOLEAN, Bootstrap(reset)
      PROVE  ServingInv'
  <2>1. /\ index' \in {index, [w \in Workloads |-> Nobody]}
        /\ UNCHANGED <<curve, policies, cache, answered>>
    BY <1>9 DEF Bootstrap, otherVars
  <2>2. Nobody \in EntryRecords
    BY DEF Nobody, EntryRecords, Curves
  <2> QED
    BY <1>3, <2>1, <2>2 DEF ServingTypes
<1>10. CASE BootstrapEntries
  <2>1. /\ index' = [w \in Workloads |-> IF w \in DOMAIN SeedOwner
                                         THEN Entry(SeedOwner[w], "seed", "warm", NoPolicy) ELSE index[w]]
        /\ UNCHANGED <<curve, policies, cache, answered>>
    BY <1>10 DEF BootstrapEntries, otherVars
  <2>2. \A w \in DOMAIN SeedOwner : Entry(SeedOwner[w], "seed", "warm", NoPolicy) \in EntryRecords
    BY <1>1, AttributionAssumption DEF Entry, EntryRecords, Curves
  <2>3. index' \in [Workloads -> EntryRecords]
    BY <2>1, <2>2 DEF ServingTypes
  <2> QED
    BY <1>3, <2>1, <2>3 DEF ServingTypes
<1>11. ASSUME UNCHANGED <<servingVars, otherVars>>
       PROVE  ServingInv'
  BY <1>3, <1>11 DEF servingVars, otherVars, ServingTypes
<1>12. ASSUME \/ Tick \/ StructureNext \/ \E k \in Keys, t \in 0 .. now : SetOwner(k, t)
       PROVE  UNCHANGED <<servingVars, otherVars>>
  BY <1>12, ZenonT(40) DEF Tick, StructureNext, Deployment, Billing, HandleOrgChange, OrgChangeCloses,
     OrgChangeAdds, OrgChangeFails, Move, SetOwner,
     servingVars, otherVars
<1>13. CASE Next
  BY <1>4, <1>5, <1>6, <1>7, <1>8, <1>9, <1>10, <1>11, <1>12, <1>13 DEF Next, ServingNext, SharedNext
<1>14. CASE UNCHANGED vars
  BY <1>11, <1>14 DEF vars, servingVars, otherVars
<1> QED
  BY <1>13, <1>14

\* So it always holds.
LEMMA InvariantServing == Spec => []ServingInv
BY InitServing, ServingStep, PTL DEF Spec

-----------------------------------------------------------------------------
\* What a step may write to an entry of the index: nothing, the entry of the demo, or
\* a result the graph gave no longer than cache_ttl_seconds ago.
LEMMA ServedStep ==
  ServingInv /\ [Next]_vars =>
    \A w \in Workloads : index'[w] # index[w] =>
       \/ index'[w].method \notin Methods
       \/ /\ index'[w].owner \in Ids
          /\ \E at \in Nat : at <= answered'[w][index'[w].owner] /\ now - at <= CacheTTL
<1> SUFFICES ASSUME ServingInv, [Next]_vars, NEW v \in Workloads, index'[v] # index[v]
             PROVE  \/ index'[v].method \notin Methods
                    \/ /\ index'[v].owner \in Ids
                       /\ \E at \in Nat : at <= answered'[v][index'[v].owner] /\ now - at <= CacheTTL
  OBVIOUS
<1>0. /\ GraphInv /\ ServingTypes /\ cache \in Seq(Backed) /\ now \in Nat
      /\ CacheTTL \in Nat
  BY AttributionAssumption DEF ServingInv, GraphInv, Clocked
<1>1. ASSUME NEW w \in Workloads, InferenceCached(w)
      PROVE  /\ index'[v].owner \in Ids
             /\ \E at \in Nat : at <= answered'[v][index'[v].owner] /\ now - at <= CacheTTL
  <2>1. PICK r \in Hits(w) : cache' = Touch(r) /\ index' = Materialized(w, r)
    BY <1>1 DEF InferenceCached
  <2>2. r \in Backed /\ r.workload = w /\ now - r.at <= CacheTTL
    <3>1. /\ \E i \in DOMAIN cache : r = cache[i]
          /\ r.workload = w /\ now - r.at <= CacheTTL
      BY <2>1 DEF Hits
    <3> QED
      BY <1>0, <3>1, LenProperties, ElementOfSeq
  <2>3. /\ \/ r.method \in Methods /\ r.owner \in Ids
           \/ r.method = "none"
        /\ r.method # "none" => r.at <= answered[w][r.owner]
        /\ r.at \in Nat
    BY <2>2 DEF Backed, CacheRecords
  <2>4. answered' = answered
    BY <1>1 DEF InferenceCached
  <2>5. v = w /\ r.method # "none" /\ index'[v].owner = r.owner
    BY <1>0, <2>1, <2>3, MaterializedType
  <2> QED
    BY <2>2, <2>3, <2>4, <2>5
<1>2. ASSUME NEW w \in Workloads, NEW t \in 0 .. now, InferenceResolved(w, t)
      PROVE  /\ index'[v].owner \in Ids
             /\ \E at \in Nat : at <= answered'[v][index'[v].owner] /\ now - at <= CacheTTL
  <2>1. PICK r \in Resolutions(w, t) :
           /\ index' = Materialized(w, r)
           /\ answered' = IF r.method = "none" THEN answered
                          ELSE [answered EXCEPT ![w][r.owner] = now]
    BY <1>2 DEF InferenceResolved
  <2>2. \/ r.method \in Methods /\ r.owner \in Ids
        \/ r.method = "none" /\ r.owner = NoTeam
    BY <1>0, ResolutionsType
  <2>3. v = w /\ r.method # "none" /\ index'[v].owner = r.owner
    BY <1>0, <2>1, <2>2, MaterializedType
  <2>4. answered'[v][r.owner] = now /\ r.owner \in Ids
    BY <1>0, <2>1, <2>2, <2>3 DEF ServingTypes
  <2> QED
    BY <1>0, <2>3, <2>4
<1>3. ASSUME NEW reset \in BOOLEAN, Bootstrap(reset)
      PROVE  index'[v].method \notin Methods
  BY <1>3 DEF Bootstrap, Nobody, Methods
<1>4. ASSUME BootstrapEntries
      PROVE  index'[v].method \notin Methods
  <2>1. index'[v] = Entry(SeedOwner[v], "seed", "warm", NoPolicy)
    BY <1>4 DEF BootstrapEntries
  <2> QED
    BY <2>1 DEF Entry, Methods
<1>5. ASSUME \/ Tick \/ StructureNext
             \/ \E k \in Keys, t \in 0 .. now : SetOwner(k, t)
             \/ \E m \in Methods : Correction(m)
             \/ \E p \in Policies : RegisterPolicy(p) \/ RemovePolicy(p.id)
      PROVE  index' = index
  BY <1>5, ZenonT(40) DEF Tick, StructureNext, Deployment, Billing, HandleOrgChange, OrgChangeCloses,
     OrgChangeAdds, OrgChangeFails, Move, SetOwner,
     Correction, RegisterPolicy, RemovePolicy, servingVars
<1>6. CASE Next
  BY <1>1, <1>2, <1>3, <1>4, <1>5, <1>6 DEF Next, ServingNext, SharedNext
<1> QED
  BY <1>6 DEF vars

\* ServedOwnerRecent (hre/engine.py, resolve and its cache): whatever the sizes of the
\* cache and of its time to live, an owner an inference event writes to the index is
\* one the graph gave for the workload at most cache_ttl_seconds before.
THEOREM OwnerRecent == Spec => ServedOwnerRecent
<1>1. ServingInv /\ [Next]_vars =>
        \A w \in Workloads : index'[w] # index[w] /\ index'[w].method \in Methods =>
          /\ answered'[w][index'[w].owner] # -1
          /\ now - answered'[w][index'[w].owner] <= CacheTTL
  <2> SUFFICES ASSUME ServingInv, [Next]_vars, NEW w \in Workloads,
                      index'[w] # index[w], index'[w].method \in Methods
               PROVE  /\ answered'[w][index'[w].owner] # -1
                      /\ now - answered'[w][index'[w].owner] <= CacheTTL
    OBVIOUS
  <2>1. now \in Nat /\ CacheTTL \in Nat /\ ServingTypes'
    BY ServingStep, AttributionAssumption DEF ServingInv, GraphInv, Clocked
  <2>2. /\ index'[w].owner \in Ids
        /\ \E at \in Nat : at <= answered'[w][index'[w].owner] /\ now - at <= CacheTTL
    BY ServedStep
  <2>3. answered'[w][index'[w].owner] \in Int
    BY <2>1, <2>2 DEF ServingTypes
  <2> QED
    BY <2>1, <2>2, <2>3
<1> QED
  BY <1>1, InvariantServing, PTL DEF Spec, ServedOwnerRecent

-----------------------------------------------------------------------------
(* The policies of a team.                                                 *)

\* The policies of its own a team has in ps, and the one the getters return.
Owned(ps, team) == {i \in DOMAIN ps : ps[i].enabled /\ Matches(ps[i], team)}

Chosen(ps, team) ==
    LET global == {i \in DOMAIN ps : ps[i].enabled /\ ps[i].scope = "global"}
    IN  IF Owned(ps, team) # {} THEN ps[Min(Owned(ps, team))]
        ELSE IF global # {} THEN ps[Max(global)] ELSE NoPolicy

\* No two registered policies have the same id.
IdsDiffer(ps) == \A i, j \in DOMAIN ps : ps[i].id = ps[j].id => i = j

\* What displaces policy p of a team: its own removal or change, or an earlier one.
Displaced(p, q, ps, qs, team) ==
    \/ \A i \in DOMAIN qs : qs[i].id = p.id => ~(qs[i].enabled /\ Matches(qs[i], team))
    \/ \E i \in DOMAIN ps : ps[i].id = q.id /\ i < (CHOOSE j \in DOMAIN ps : ps[j].id = p.id)

\* A policy in force that matches is the first of the team's own.
LEMMA FirstOwned ==
  ASSUME NEW ps \in Seq(Policies), NEW team
  PROVE  /\ Owned(ps, team) # {} =>
               /\ Min(Owned(ps, team)) \in Owned(ps, team)
               /\ \A i \in Owned(ps, team) : Min(Owned(ps, team)) <= i
               /\ Chosen(ps, team) = ps[Min(Owned(ps, team))]
         /\ Matches(Chosen(ps, team), team) /\ Chosen(ps, team).enabled => Owned(ps, team) # {}
<1> DEFINE own == Owned(ps, team)
           global == {i \in DOMAIN ps : ps[i].enabled /\ ps[i].scope = "global"}
<1>1. Len(ps) \in Nat /\ DOMAIN ps = 1 .. Len(ps)
  BY LenProperties
<1>2. own \in SUBSET (1 .. Len(ps)) /\ global \in SUBSET (1 .. Len(ps))
  BY <1>1 DEF Owned
<1>3. Chosen(ps, team) = IF own # {} THEN ps[Min(own)]
                         ELSE IF global # {} THEN ps[Max(global)] ELSE NoPolicy
  BY DEF Chosen
<1>4. \A i \in global : ps[i].enabled /\ i \in DOMAIN ps
  OBVIOUS
<1> HIDE DEF global
<1>5. own # {} => Min(own) \in own /\ \A i \in own : Min(own) <= i
  <2>1. own # {} => \E x \in own : \A y \in own : x <= y
    <3> HIDE DEF own
    <3>1. own \in SUBSET Nat
      BY <1>1, <1>2
    <3> QED
      BY <3>1, LeastNumber
  <2> HIDE DEF own
  <2> QED
    BY <2>1 DEF Min
<1>6. global # {} => Max(global) \in global
  BY <1>1, <1>2, Extremes
<1>7. ASSUME Matches(Chosen(ps, team), team), Chosen(ps, team).enabled, own = {}
      PROVE  FALSE
  <2>1. CASE global = {}
    BY <1>3, <1>7, <2>1 DEF NoPolicy
  <2>2. CASE global # {}
    <3>1. Max(global) \in global /\ Chosen(ps, team) = ps[Max(global)]
      BY <1>3, <1>6, <1>7, <2>2
    <3>2. Max(global) \in own
      BY <1>4, <1>7, <3>1 DEF Owned
    <3> QED
      BY <1>7, <3>2
  <2> QED
    BY <2>1, <2>2
<1> QED
  BY <1>3, <1>5, <1>7

\* Whatever a step makes of ps: a policy of the team's own that is still there, with
\* none of the team's before it that was not there, stays in force.
LEMMA StaysFirst ==
  ASSUME NEW ps \in Seq(Policies), NEW qs \in Seq(Policies), NEW team, Owned(ps, team) # {},
         NEW f \in DOMAIN qs, f \in Owned(qs, team), qs[f].id = Chosen(ps, team).id,
         \A g \in Owned(qs, team) : f <= g
  PROVE  Chosen(qs, team).id = Chosen(ps, team).id
<1> DEFINE own == Owned(qs, team)
           g == Min(own)
<1>1. own # {}
  OBVIOUS
<1>2. g \in own /\ (\A i \in own : g <= i) /\ Chosen(qs, team) = qs[g]
  BY <1>1, FirstOwned
<1>3. own \in SUBSET Nat
  BY LenProperties DEF Owned
<1> HIDE DEF own, g
<1>4. g = f
  BY <1>2, <1>3 DEF own
<1> QED
  BY <1>2, <1>4

\* Registering and removing keep the ids different,
LEMMA RegisterFacts ==
  ASSUME NEW ps \in Seq(Policies), IdsDiffer(ps), NEW p \in Policies
  PROVE  /\ Register(ps, p) \in Seq(Policies) /\ IdsDiffer(Register(ps, p))
         /\ \/ /\ DOMAIN Register(ps, p) = DOMAIN ps
               /\ \A i \in DOMAIN ps : Register(ps, p)[i].id = ps[i].id
               /\ \A i \in DOMAIN ps : ps[i].id # p.id => Register(ps, p)[i] = ps[i]
            \/ /\ DOMAIN Register(ps, p) = 1 .. Len(ps) + 1
               /\ \A i \in 1 .. Len(ps) : Register(ps, p)[i] = ps[i]
<1> DEFINE qs == Register(ps, p)
<1>1. /\ Len(ps) \in Nat /\ DOMAIN ps = 1 .. Len(ps)
      /\ \A i \in 1 .. Len(ps) : ps[i] \in Policies
  BY LenProperties, ElementOfSeq
<1>2. CASE \E i \in DOMAIN ps : ps[i].id = p.id
  <2>1. qs = [i \in DOMAIN ps |-> IF ps[i].id = p.id THEN p ELSE ps[i]]
    BY <1>2 DEF Register
  <2>2. qs \in Seq(Policies)
    BY <1>1, <2>1
  <2>3. DOMAIN qs = DOMAIN ps /\ \A i \in DOMAIN ps : qs[i] = IF ps[i].id = p.id THEN p ELSE ps[i]
    BY <2>1
  <2> HIDE DEF qs
  <2>4. \A i \in DOMAIN ps : qs[i].id = ps[i].id
    BY <2>3
  <2>5. IdsDiffer(qs)
    BY <2>3, <2>4 DEF IdsDiffer
  <2> QED
    BY <2>2, <2>3, <2>4, <2>5 DEF qs
<1>3. CASE ~(\E i \in DOMAIN ps : ps[i].id = p.id)
  <2>1. qs = Append(ps, p)
    BY <1>3 DEF Register
  <2>2. /\ qs \in Seq(Policies) /\ Len(qs) = Len(ps) + 1 /\ qs[Len(ps) + 1] = p
        /\ \A i \in 1 .. Len(ps) : qs[i] = ps[i]
    BY <2>1, AppendProperties
  <2> HIDE DEF qs
  <2>3. DOMAIN qs = 1 .. Len(ps) + 1
    BY <2>2, LenProperties
  <2>4. ASSUME NEW i \in DOMAIN qs, NEW j \in DOMAIN qs, qs[i].id = qs[j].id PROVE i = j
    <3>1. /\ i \in 1 .. Len(ps) \/ i = Len(ps) + 1
          /\ j \in 1 .. Len(ps) \/ j = Len(ps) + 1
      BY <1>1, <2>3
    <3>2. \A k \in 1 .. Len(ps) : qs[k].id # p.id
      BY <1>1, <1>3, <2>2
    <3> QED
      BY <1>1, <2>2, <2>4, <3>1, <3>2 DEF IdsDiffer
  <2>5. IdsDiffer(qs)
    BY <2>4 DEF IdsDiffer
  <2> QED
    BY <2>2, <2>3, <2>5 DEF qs
<1> QED
  BY <1>2, <1>3

LEMMA PoppedFacts ==
  ASSUME NEW ps \in Seq(Policies), IdsDiffer(ps), NEW I \in SUBSET (DOMAIN ps), I # {}
  PROVE  /\ Popped(ps, I) \in Seq(Policies) /\ IdsDiffer(Popped(ps, I))
         /\ \E j \in DOMAIN ps : /\ DOMAIN Popped(ps, I) = 1 .. Len(ps) - 1
                                 /\ \A i \in 1 .. Len(ps) - 1 :
                                      Popped(ps, I)[i] = IF i < j THEN ps[i] ELSE ps[i + 1]
<1> DEFINE qs == Popped(ps, I)
           j == CHOOSE j \in I : TRUE
           l == SubSeq(ps, 1, j - 1)
           r == SubSeq(ps, j + 1, Len(ps))
<1>1. /\ Len(ps) \in Nat /\ DOMAIN ps = 1 .. Len(ps)
      /\ \A i \in 1 .. Len(ps) : ps[i] \in Policies
  BY LenProperties, ElementOfSeq
<1>2. j \in 1 .. Len(ps)
  BY <1>1
<1>3. qs = l \o r
  BY DEF Popped, RemoveAt
<1> HIDE DEF j, qs
<1>4. l \in Seq(Policies) /\ Len(l) = j - 1 /\ \A i \in 1 .. j - 1 : l[i] = ps[i]
  <2>1. j - 1 \in Int /\ 1 \in Int /\ \A i \in 1 .. j - 1 : ps[i] \in Policies
    BY <1>1, <1>2
  <2>2. l \in Seq(Policies) /\ Len(l) = (IF 1 <= j - 1 THEN j - 1 - 1 + 1 ELSE 0)
    BY <2>1, SubSeqProperties
  <2>3. \A i \in 1 .. j - 1 : l[i] = ps[1 + i - 1]
    <3>1. \A i \in 1 .. j - 1 - 1 + 1 : l[i] = ps[1 + i - 1]
      BY <2>1, SubSeqProperties
    <3>2. j - 1 - 1 + 1 = j - 1
      BY <1>2
    <3> QED
      BY <3>1, <3>2
  <2>4. \A i \in 1 .. j - 1 : 1 + i - 1 = i
    BY <1>2
  <2> QED
    BY <1>2, <2>2, <2>3, <2>4
<1>5. /\ r \in Seq(Policies) /\ Len(r) = Len(ps) - j
      /\ \A i \in 1 .. Len(ps) - j : r[i] = ps[j + i]
  <2>1. j + 1 \in Int /\ Len(ps) \in Int /\ \A i \in j + 1 .. Len(ps) : ps[i] \in Policies
    BY <1>1, <1>2
  <2>2. r \in Seq(Policies) /\ Len(r) = (IF j + 1 <= Len(ps) THEN Len(ps) - (j + 1) + 1 ELSE 0)
    BY <2>1, SubSeqProperties
  <2>3. \A i \in 1 .. Len(ps) - (j + 1) + 1 : r[i] = ps[j + 1 + i - 1]
    BY <2>1, SubSeqProperties
  <2>4. \A i \in 1 .. Len(ps) - j : j + 1 + i - 1 = j + i /\ i \in 1 .. Len(ps) - (j + 1) + 1
    BY <1>1, <1>2
  <2> DEFINE N == Len(ps)
  <2>5. N \in Nat /\ j \in 1 .. N /\ Len(r) = (IF j + 1 <= N THEN N - (j + 1) + 1 ELSE 0)
    BY <1>1, <1>2, <2>2
  <2> HIDE DEF r, N
  <2>6. (IF j + 1 <= N THEN N - (j + 1) + 1 ELSE 0) = N - j
    BY <2>5
  <2>7. Len(r) = Len(ps) - j
    BY <2>5, <2>6 DEF N
  <2> QED
    BY <2>2, <2>3, <2>4, <2>7
<1> HIDE DEF l, r
<1>6. /\ qs \in Seq(Policies) /\ Len(qs) = Len(ps) - 1
      /\ \A i \in 1 .. Len(ps) - 1 : qs[i] = IF i < j THEN ps[i] ELSE ps[i + 1]
  <2>1. /\ qs \in Seq(Policies) /\ Len(qs) = Len(l) + Len(r)
        /\ \A i \in 1 .. Len(l) + Len(r) : qs[i] = IF i <= Len(l) THEN l[i] ELSE r[i - Len(l)]
    BY <1>3, <1>4, <1>5, ConcatProperties
  <2>2. Len(l) + Len(r) = Len(ps) - 1
    BY <1>1, <1>2, <1>4, <1>5
  <2>3. ASSUME NEW i \in 1 .. Len(ps) - 1 PROVE qs[i] = IF i < j THEN ps[i] ELSE ps[i + 1]
    <3>1. CASE i < j
      <4>1. i \in 1 .. j - 1 /\ i <= Len(l)
        BY <1>1, <1>2, <1>4, <3>1
      <4> QED
        BY <1>4, <2>1, <2>2, <3>1, <4>1
    <3>2. CASE ~(i < j)
      <4>1. /\ i - (j - 1) \in 1 .. Len(ps) - j /\ ~(i <= j - 1) /\ j + (i - (j - 1)) = i + 1
        BY <1>1, <1>2, <3>2
      <4>2. qs[i] = r[i - (j - 1)]
        BY <1>4, <2>1, <2>2, <4>1
      <4> QED
        BY <1>5, <3>2, <4>1, <4>2
    <3> QED
      BY <3>1, <3>2
  <2> QED
    BY <2>1, <2>2, <2>3
<1>7. DOMAIN qs = 1 .. Len(ps) - 1
  BY <1>6, LenProperties
<1>8. ASSUME NEW a \in DOMAIN qs, NEW b \in DOMAIN qs, qs[a].id = qs[b].id PROVE a = b
  <2> DEFINE A == IF a < j THEN a ELSE a + 1
             B == IF b < j THEN b ELSE b + 1
  <2>1. A \in DOMAIN ps /\ B \in DOMAIN ps
    BY <1>1, <1>2, <1>7
  <2>2. qs[a] = ps[A] /\ qs[b] = ps[B]
    BY <1>6, <1>7
  <2>3. A = B => a = b
    BY <1>1, <1>2, <1>7
  <2> HIDE DEF A, B
  <2> QED
    BY <1>8, <2>1, <2>2, <2>3 DEF IdsDiffer
<1>9. IdsDiffer(qs)
  BY <1>8 DEF IdsDiffer
<1> QED
  BY <1>1, <1>2, <1>6, <1>7, <1>9 DEF qs

\* and displace no policy of a team that is not removed, changed or preceded.
LEMMA RegisterKeeps ==
  ASSUME NEW ps \in Seq(Policies), IdsDiffer(ps), NEW r \in Policies, NEW team, Owned(ps, team) # {},
         Chosen(Register(ps, r), team).id # Chosen(ps, team).id
  PROVE  Displaced(Chosen(ps, team), Chosen(Register(ps, r), team), ps, Register(ps, r), team)
<1> DEFINE qs == Register(ps, r)
           f == Min(Owned(ps, team))
           p == Chosen(ps, team)
<1>1. /\ f \in Owned(ps, team) /\ (\A i \in Owned(ps, team) : f <= i) /\ p = ps[f]
  BY FirstOwned
<1>2. qs \in Seq(Policies)
  BY RegisterFacts
<1>3. \/ /\ DOMAIN qs = DOMAIN ps
         /\ \A i \in DOMAIN ps : qs[i].id = ps[i].id
         /\ \A i \in DOMAIN ps : ps[i].id # r.id => qs[i] = ps[i]
      \/ /\ DOMAIN qs = 1 .. Len(ps) + 1
         /\ \A i \in 1 .. Len(ps) : qs[i] = ps[i]
  BY RegisterFacts
<1>4. Len(ps) \in Nat /\ DOMAIN ps = 1 .. Len(ps) /\ f \in DOMAIN ps
  BY <1>1, LenProperties DEF Owned
<1> HIDE DEF qs, f, p
<1>5. f = CHOOSE i \in DOMAIN ps : ps[i].id = p.id
  BY <1>1, <1>4 DEF IdsDiffer
<1>6. Owned(qs, team) # {} =>
        /\ Min(Owned(qs, team)) \in Owned(qs, team)
        /\ Chosen(qs, team) = qs[Min(Owned(qs, team))]
        /\ \A i \in Owned(qs, team) : Min(Owned(qs, team)) <= i
  BY <1>2, FirstOwned
<1>7. CASE /\ DOMAIN qs = DOMAIN ps
           /\ \A i \in DOMAIN ps : qs[i].id = ps[i].id
  <2>1. CASE f \in Owned(qs, team)
    <3> DEFINE g == Min(Owned(qs, team))
    <3>1. g \in Owned(qs, team) /\ Chosen(qs, team) = qs[g] /\ g <= f
      BY <1>6, <2>1
    <3>2. g \in DOMAIN ps
      BY <1>7, <3>1 DEF Owned
    <3> HIDE DEF g
    <3>3. ps[g].id = Chosen(qs, team).id /\ g # f
      BY <1>1, <1>7, <3>1, <3>2 DEF qs, p
    <3>4. g < f
      BY <1>4, <3>1, <3>2, <3>3
    <3> QED
      BY <1>5, <3>2, <3>3, <3>4 DEF Displaced, qs, p
  <2>2. CASE f \notin Owned(qs, team)
    <3>1. \A i \in DOMAIN qs : qs[i].id = p.id => i = f
      BY <1>1, <1>4, <1>7 DEF IdsDiffer
    <3>2. ~(qs[f].enabled /\ Matches(qs[f], team))
      BY <1>4, <1>7, <2>2 DEF Owned
    <3> QED
      BY <3>1, <3>2 DEF Displaced, qs, p
  <2> QED
    BY <2>1, <2>2
<1>8. CASE DOMAIN qs = 1 .. Len(ps) + 1 /\ \A i \in 1 .. Len(ps) : qs[i] = ps[i]
  <2>1. f \in DOMAIN qs /\ qs[f] = ps[f]
    BY <1>4, <1>8
  <2>2. f \in Owned(qs, team)
    BY <1>1, <2>1 DEF Owned
  <2>3. \A g \in Owned(qs, team) : f <= g
    <3> TAKE g \in Owned(qs, team)
    <3>1. g \in 1 .. Len(ps) + 1
      BY <1>8 DEF Owned
    <3>2. CASE g \in 1 .. Len(ps)
      <4>1. g \in Owned(ps, team)
        BY <1>4, <1>8, <3>2 DEF Owned
      <4> QED
        BY <1>1, <4>1
    <3>3. CASE g = Len(ps) + 1
      BY <1>4, <3>3
    <3> QED
      BY <1>4, <3>1, <3>2, <3>3
  <2>4. Chosen(qs, team).id = Chosen(ps, team).id
    BY <1>1, <1>2, <2>1, <2>2, <2>3, StaysFirst DEF p
  <2> QED
    BY <2>4 DEF qs
<1> QED
  BY <1>3, <1>7, <1>8

LEMMA PoppedKeeps ==
  ASSUME NEW ps \in Seq(Policies), IdsDiffer(ps), NEW I \in SUBSET (DOMAIN ps), I # {},
         NEW team, Owned(ps, team) # {},
         Chosen(Popped(ps, I), team).id # Chosen(ps, team).id
  PROVE  Displaced(Chosen(ps, team), Chosen(Popped(ps, I), team), ps, Popped(ps, I), team)
<1> DEFINE qs == Popped(ps, I)
           f == Min(Owned(ps, team))
           p == Chosen(ps, team)
<1>1. /\ f \in Owned(ps, team) /\ (\A i \in Owned(ps, team) : f <= i) /\ p = ps[f]
  BY FirstOwned
<1>2. qs \in Seq(Policies)
  BY PoppedFacts
<1>3. PICK j \in DOMAIN ps : /\ DOMAIN qs = 1 .. Len(ps) - 1
                              /\ \A i \in 1 .. Len(ps) - 1 :
                                    qs[i] = IF i < j THEN ps[i] ELSE ps[i + 1]
  BY PoppedFacts
<1>4. Len(ps) \in Nat /\ DOMAIN ps = 1 .. Len(ps) /\ f \in 1 .. Len(ps) /\ j \in 1 .. Len(ps)
  BY <1>1, <1>3, LenProperties DEF Owned
<1> HIDE DEF qs, f, p
<1>5. ASSUME NEW g \in Owned(qs, team)
      PROVE  /\ g \in 1 .. Len(ps) - 1
             /\ g < j => g \in Owned(ps, team)
             /\ ~(g < j) => g + 1 \in Owned(ps, team)
  <2>1. g \in 1 .. Len(ps) - 1 /\ qs[g].enabled /\ Matches(qs[g], team)
    BY <1>3, <1>5 DEF Owned
  <2>2. g \in 1 .. Len(ps) /\ g + 1 \in 1 .. Len(ps)
    BY <1>4, <2>1
  <2> QED
    BY <1>3, <1>4, <2>1, <2>2 DEF Owned
<1>6. CASE j = f
  <2>1. ASSUME NEW i \in DOMAIN qs PROVE qs[i].id # p.id
    <3> DEFINE k == IF i < j THEN i ELSE i + 1
    <3>1. k \in 1 .. Len(ps) /\ k # f
      BY <1>3, <1>4, <1>6, <2>1
    <3>2. qs[i] = ps[k]
      BY <1>3, <2>1
    <3> HIDE DEF k
    <3> QED
      BY <1>1, <1>4, <3>1, <3>2 DEF IdsDiffer
  <2> QED
    BY <2>1 DEF Displaced, qs, p
<1>7. CASE f < j
  <2>1. f \in DOMAIN qs /\ qs[f] = ps[f]
    BY <1>3, <1>4, <1>7
  <2>2. f \in Owned(qs, team)
    BY <1>1, <2>1 DEF Owned
  <2>3. \A g \in Owned(qs, team) : f <= g
    <3> TAKE g \in Owned(qs, team)
    <3>1. CASE g < j
      BY <1>1, <1>5, <3>1
    <3>2. CASE ~(g < j)
      BY <1>4, <1>5, <1>7, <3>2
    <3> QED
      BY <3>1, <3>2
  <2>4. Chosen(qs, team).id = Chosen(ps, team).id
    BY <1>1, <1>2, <2>1, <2>2, <2>3, StaysFirst DEF p
  <2> QED
    BY <2>4 DEF qs
<1>8. CASE j < f
  <2> DEFINE h == f - 1
  <2>1. h \in 1 .. Len(ps) - 1 /\ ~(h < j) /\ h + 1 = f
    BY <1>4, <1>8
  <2>2. h \in DOMAIN qs /\ qs[h] = ps[f]
    BY <1>3, <2>1
  <2> HIDE DEF h
  <2>3. h \in Owned(qs, team)
    BY <1>1, <2>2 DEF Owned
  <2>4. \A g \in Owned(qs, team) : h <= g
    <3> TAKE g \in Owned(qs, team)
    <3>1. g \in Nat /\ h \in Nat
      BY <1>4, <1>5, <2>1
    <3>2. CASE g < j
      <4>1. f <= g
        BY <1>1, <1>5, <3>2
      <4> QED
        BY <1>4, <2>1, <3>1, <4>1
    <3>3. CASE ~(g < j)
      <4>1. f <= g + 1
        BY <1>1, <1>5, <3>3
      <4> QED
        BY <1>4, <2>1, <3>1, <4>1
    <3> QED
      BY <3>2, <3>3
  <2>5. Chosen(qs, team).id = Chosen(ps, team).id
    BY <1>1, <1>2, <2>2, <2>3, <2>4, StaysFirst DEF p
  <2> QED
    BY <2>5 DEF qs
<1> QED
  BY <1>4, <1>6, <1>7, <1>8

\* Registered policies always have different ids.
PoliciesInv == policies \in Seq(Policies) /\ IdsDiffer(policies)

\* A step registers a policy, removes one, or leaves the policies alone.
LEMMA PoliciesStep ==
  [Next]_vars =>
     \/ \E p \in Policies : policies' = Register(policies, p)
     \/ \E id : policies' = Popped(policies, {i \in DOMAIN policies : policies[i].id = id})
     \/ policies' = policies
<1> SUFFICES ASSUME [Next]_vars
             PROVE  \/ \E p \in Policies : policies' = Register(policies, p)
                    \/ \E id : policies' = Popped(policies, {i \in DOMAIN policies : policies[i].id = id})
                    \/ policies' = policies
  OBVIOUS
<1>1. ASSUME NEW p \in Policies, RegisterPolicy(p) PROVE policies' = Register(policies, p)
  BY <1>1 DEF RegisterPolicy
<1>2. ASSUME NEW id, RemovePolicy(id)
      PROVE  policies' = Popped(policies, {i \in DOMAIN policies : policies[i].id = id})
  BY <1>2 DEF RemovePolicy
<1>3. ASSUME \/ SharedNext \/ StructureNext
             \/ \E k \in Keys, t \in 0 .. now : SetOwner(k, t)
             \/ \E w \in Workloads : InferenceCached(w)
             \/ \E w \in Workloads, t \in 0 .. now : InferenceResolved(w, t)
             \/ \E m \in Methods : Correction(m)
      PROVE  policies' = policies
  BY <1>3, ZenonT(40) DEF SharedNext, Tick, Bootstrap, BootstrapEntries, StructureNext, Deployment,
     Billing, HandleOrgChange, OrgChangeCloses, OrgChangeAdds, OrgChangeFails, Move, SetOwner,
     InferenceCached, InferenceResolved, Correction, otherVars
<1>4. CASE Next
  BY <1>1, <1>2, <1>3, <1>4 DEF Next, ServingNext
<1> QED
  BY <1>4 DEF vars

LEMMA InvariantPolicies == Spec => []PoliciesInv
<1>1. Init => PoliciesInv
  BY EmptySeq DEF Init, PoliciesInv, IdsDiffer
<1>2. PoliciesInv /\ [Next]_vars => PoliciesInv'
  <2> SUFFICES ASSUME PoliciesInv, [Next]_vars
               PROVE  policies' \in Seq(Policies) /\ IdsDiffer(policies')
    BY DEF PoliciesInv
  <2>1. ASSUME NEW id,
               policies' = Popped(policies, {i \in DOMAIN policies : policies[i].id = id})
        PROVE  policies' \in Seq(Policies) /\ IdsDiffer(policies')
    <3> DEFINE I == {i \in DOMAIN policies : policies[i].id = id}
    <3>1. I \in SUBSET (DOMAIN policies) /\ policies' = Popped(policies, I)
      BY <2>1
    <3> HIDE DEF I
    <3>2. I = {} => policies' = policies
      BY <3>1 DEF Popped
    <3> QED
      BY <3>1, <3>2, PoppedFacts DEF PoliciesInv
  <2> QED
    BY <2>1, PoliciesStep, RegisterFacts DEF PoliciesInv
<1> QED
  BY <1>1, <1>2, PTL DEF Spec

\* OwnPolicyStays (policy/engine.py, register_policy, remove_policy and the getters):
\* for any policies and teams, the policy of its own that is in force for a team is
\* displaced only by its own removal or change, or by one registered before it.
THEOREM OwnPolicyKept == Spec => OwnPolicyStays
<1>1. ASSUME PoliciesInv, [Next]_vars, NEW team \in Teams,
             Matches(PolicyFor(team), team), PolicyFor(team).enabled,
             PolicyFor(team)'.id # PolicyFor(team).id
      PROVE  \/ \A i \in DOMAIN policies' : policies'[i].id = PolicyFor(team).id =>
                    ~(policies'[i].enabled /\ Matches(policies'[i], team))
             \/ \E i \in DOMAIN policies : /\ policies[i].id = PolicyFor(team)'.id
                                           /\ i < Place(PolicyFor(team).id)
  <2>1. PolicyFor(team) = Chosen(policies, team)
    <3>1. /\ {i \in {i \in DOMAIN policies : policies[i].enabled} : Matches(policies[i], team)} =
               Owned(policies, team)
          /\ {i \in {i \in DOMAIN policies : policies[i].enabled} : policies[i].scope = "global"} =
               {i \in DOMAIN policies : policies[i].enabled /\ policies[i].scope = "global"}
      BY DEF Owned
    <3> QED
      BY <3>1 DEF PolicyFor, Chosen
  <2>2. PolicyFor(team)' = Chosen(policies', team)
    <3>1. /\ {i \in {i \in DOMAIN policies' : policies'[i].enabled} : Matches(policies'[i], team)} =
               Owned(policies', team)
          /\ {i \in {i \in DOMAIN policies' : policies'[i].enabled} : policies'[i].scope = "global"} =
               {i \in DOMAIN policies' : policies'[i].enabled /\ policies'[i].scope = "global"}
      BY DEF Owned
    <3> QED
      BY <3>1 DEF PolicyFor, Chosen
  <2>3. policies \in Seq(Policies) /\ IdsDiffer(policies)
    BY <1>1 DEF PoliciesInv
  <2>4. PICK qs : qs = policies'
    OBVIOUS
  <2>5. Owned(policies, team) # {} /\ Chosen(qs, team).id # Chosen(policies, team).id
    BY <1>1, <2>1, <2>2, <2>3, <2>4, FirstOwned
  <2>6. Displaced(Chosen(policies, team), Chosen(qs, team), policies, qs, team)
    <3>1. ASSUME NEW p \in Policies, qs = Register(policies, p)
          PROVE  Displaced(Chosen(policies, team), Chosen(qs, team), policies, qs, team)
      BY <2>3, <2>5, <3>1, RegisterKeeps
    <3>2. ASSUME NEW id, qs = Popped(policies, {i \in DOMAIN policies : policies[i].id = id})
          PROVE  Displaced(Chosen(policies, team), Chosen(qs, team), policies, qs, team)
      <4> DEFINE I == {i \in DOMAIN policies : policies[i].id = id}
      <4>1. I \in SUBSET (DOMAIN policies) /\ qs = Popped(policies, I)
        BY <3>2
      <4> HIDE DEF I
      <4>2. I # {}
        BY <2>5, <4>1 DEF Popped
      <4> QED
        BY <2>3, <2>5, <4>1, <4>2, PoppedKeeps
    <3>3. qs # policies
      BY <2>5
    <3> QED
      BY <1>1, <2>4, <3>1, <3>2, <3>3, PoliciesStep
  <2> QED
    BY <2>1, <2>2, <2>4, <2>6 DEF Displaced, Place
<1>2. PoliciesInv /\ [Next]_vars =>
        \A team \in Teams :
          LET p == PolicyFor(team)
              q == PolicyFor(team)'
          IN  Matches(p, team) /\ p.enabled /\ q.id # p.id =>
                 \/ \A i \in DOMAIN policies' : policies'[i].id = p.id =>
                        ~(policies'[i].enabled /\ Matches(policies'[i], team))
                 \/ \E i \in DOMAIN policies : policies[i].id = q.id /\ i < Place(p.id)
  BY <1>1
<1> QED
  BY <1>2, InvariantPolicies, PTL DEF Spec, OwnPolicyStays

-----------------------------------------------------------------------------
(* The memberships of a person.                                            *)

\* A membership: its team and the time it covers.
Span(e) == [team |-> e.key[2], from |-> e.from, to |-> e.to]

\* k is the key of a membership of p.
OfPerson(k, p) == k[1] = p /\ k[3] = "member_of"

\* The memberships of p in store g.
Spans(g, p) == {Span(g.edges[i]) : i \in {i \in 1 .. Len(g.edges) : OfPerson(g.edges[i].key, p)}}

\* A membership after every open one of the team has ended.
Cut(s, team, at) == IF s.team = team /\ s.to = Open THEN [s EXCEPT !.to = at] ELSE s

CutAll(S, team, at) == {Cut(s, team, at) : s \in S}

\* A membership that has not ended.
OpenSpan(team, from) == [team |-> team, from |-> from, to |-> Open]

\* Two keys of memberships of a person are the same if the teams are.
LEMMA SameKey ==
  ASSUME NEW k \in Keys, NEW l \in Keys, NEW p, OfPerson(k, p)
  PROVE  k = l <=> OfPerson(l, p) /\ l[2] = k[2]
<1>1. k = <<k[1], k[2], k[3]>> /\ l = <<l[1], l[2], l[3]>>
  BY GraphAssumption
<1> QED
  BY <1>1 DEF OfPerson

\* How the retirement of a key looks from one person's memberships.
LEMMA SpanRetired ==
  ASSUME NEW e \in EdgeRecords, NEW k \in Keys, NEW at \in Nat, NEW p, OfPerson(e.key, p)
  PROVE  /\ Retired(e, k, at).key = e.key
         /\ OfPerson(k, p) => Span(Retired(e, k, at)) = Cut(Span(e), k[2], at)
         /\ ~OfPerson(k, p) => Retired(e, k, at) = e
<1>1. e.key \in Keys
  BY DEF EdgeRecords
<1>2. e.key = k <=> OfPerson(k, p) /\ k[2] = e.key[2]
  BY <1>1, SameKey
<1>3. Retired(e, k, at).key = e.key
  BY RetiredOpen
<1>4. ASSUME OfPerson(k, p) PROVE Span(Retired(e, k, at)) = Cut(Span(e), k[2], at)
  <2>1. CASE e.key = k /\ e.to = Open
    <3>1. Retired(e, k, at) = [key |-> e.key, from |-> e.from, to |-> at]
      BY <2>1 DEF Retired, EdgeRecords
    <3>2. Span(e).team = k[2] /\ Span(e).to = Open
      BY <1>2, <2>1 DEF Span
    <3>3. Cut(Span(e), k[2], at) = [team |-> e.key[2], from |-> e.from, to |-> at]
      BY <3>2 DEF Cut, Span
    <3> QED
      BY <3>1, <3>3 DEF Span
  <2>2. CASE ~(e.key = k /\ e.to = Open)
    <3>1. Retired(e, k, at) = e
      BY <2>2 DEF Retired
    <3>2. ~(Span(e).team = k[2] /\ Span(e).to = Open)
      BY <1>2, <1>4, <2>2 DEF Span
    <3> QED
      BY <3>1, <3>2 DEF Cut
  <2> QED
    BY <2>1, <2>2
<1>5. ASSUME ~OfPerson(k, p) PROVE Retired(e, k, at) = e
  BY <1>2, <1>5 DEF Retired
<1> QED
  BY <1>3, <1>4, <1>5

\* close_edge ends the open membership in the team, and no other.
LEMMA CloseSpans ==
  ASSUME NEW g \in ExactStores, NEW k \in Keys, NEW at \in Nat, NEW p
  PROVE  /\ OfPerson(k, p) => Spans(CloseEdge(g, k, at), p) = CutAll(Spans(g, p), k[2], at)
         /\ ~OfPerson(k, p) => Spans(CloseEdge(g, k, at), p) = Spans(g, p)
<1> DEFINE r == Retire(g.edges, g.active[k], at)
           I == {i \in 1 .. Len(g.edges) : OfPerson(g.edges[i].key, p)}
           h == CloseEdge(g, k, at)
<1>1. /\ Len(r) = Len(g.edges)
      /\ \A i \in 1 .. Len(g.edges) : r[i] = Retired(g.edges[i], k, at)
  BY RetireExact
<1>2. h.edges = r
  BY DEF CloseEdge, ExactStores, Stores
<1>3. \A i \in 1 .. Len(g.edges) : g.edges[i] \in EdgeRecords
  BY ElementOfSeq DEF ExactStores, Stores
<1> HIDE DEF r, h
<1>4. \A i \in 1 .. Len(g.edges) : r[i].key = g.edges[i].key
  <2> TAKE i \in 1 .. Len(g.edges)
  <2>1. g.edges[i] \in EdgeRecords /\ r[i] = Retired(g.edges[i], k, at)
    BY <1>1, <1>3
  <2>2. Retired(g.edges[i], k, at).key = g.edges[i].key
    BY <2>1, RetiredOpen
  <2> QED
    BY <2>1, <2>2
<1>5. Spans(h, p) = {Span(r[i]) : i \in I}
  BY <1>1, <1>2, <1>4 DEF Spans
<1>6. Spans(g, p) = {Span(g.edges[i]) : i \in I}
  BY DEF Spans
<1>7. \A i \in I : g.edges[i] \in EdgeRecords /\ OfPerson(g.edges[i].key, p) /\ r[i] = Retired(g.edges[i], k, at)
  BY <1>1, <1>3
<1> HIDE DEF I
<1>8. ASSUME OfPerson(k, p) PROVE Spans(h, p) = CutAll(Spans(g, p), k[2], at)
  <2>1. \A i \in I : Span(r[i]) = Cut(Span(g.edges[i]), k[2], at)
    BY <1>7, <1>8, SpanRetired
  <2> QED
    BY <1>5, <1>6, <2>1 DEF CutAll
<1>9. ASSUME ~OfPerson(k, p) PROVE Spans(h, p) = Spans(g, p)
  <2>1. \A i \in I : r[i] = g.edges[i]
    BY <1>7, <1>9, SpanRetired
  <2> QED
    BY <1>5, <1>6, <2>1
<1> QED
  BY <1>8, <1>9 DEF h

\* add_edge ends the open membership in the team and starts a new one.
LEMMA AddSpans ==
  ASSUME NEW g \in ExactStores, NEW k \in Keys, NEW from \in Nat, NEW at \in Nat, NEW p
  PROVE  /\ OfPerson(k, p) => Spans(AddEdge(g, Edge(k, from), at), p) =
                                CutAll(Spans(g, p), k[2], at) \cup {OpenSpan(k[2], from)}
         /\ ~OfPerson(k, p) => Spans(AddEdge(g, Edge(k, from), at), p) = Spans(g, p)
<1> DEFINE r == Retire(g.edges, g.active[k], at)
           e == Edge(k, from)
           I == {i \in 1 .. Len(g.edges) : OfPerson(g.edges[i].key, p)}
           h == AddEdge(g, e, at)
           a == Append(r, e)
           n == Len(g.edges) + 1
<1>1. /\ r \in Seq(EdgeRecords) /\ Len(r) = Len(g.edges)
      /\ \A i \in 1 .. Len(g.edges) : r[i] = Retired(g.edges[i], k, at)
  BY RetireExact
<1>2. e \in EdgeRecords /\ e.key = k /\ Span(e) = OpenSpan(k[2], from)
  BY DEF Edge, EdgeRecords, Span, OpenSpan
<1>3. h.edges = a
  BY <1>2 DEF AddEdge, ExactStores, Stores
<1>4. Len(g.edges) \in Nat /\ \A i \in 1 .. Len(g.edges) : g.edges[i] \in EdgeRecords
  BY ElementOfSeq, LenProperties DEF ExactStores, Stores
<1> HIDE DEF r, h, e
<1>5. /\ Len(a) = n /\ a[n] = e
      /\ \A i \in 1 .. Len(g.edges) : a[i] = r[i]
  BY <1>1, <1>2, AppendProperties
<1> HIDE DEF a
<1>6. \A i \in 1 .. Len(g.edges) : a[i].key = g.edges[i].key
  <2> TAKE i \in 1 .. Len(g.edges)
  <2>1. g.edges[i] \in EdgeRecords /\ a[i] = Retired(g.edges[i], k, at)
    BY <1>1, <1>4, <1>5
  <2>2. Retired(g.edges[i], k, at).key = g.edges[i].key
    BY <2>1, RetiredOpen
  <2> QED
    BY <2>1, <2>2
<1>7. \A i \in I : /\ g.edges[i] \in EdgeRecords /\ OfPerson(g.edges[i].key, p)
                   /\ a[i] = Retired(g.edges[i], k, at)
  BY <1>1, <1>4, <1>5
<1>8. Spans(g, p) = {Span(g.edges[i]) : i \in I}
  BY DEF Spans
<1>9. 1 .. n = (1 .. Len(g.edges)) \cup {n}
  BY <1>4
<1>10. ASSUME OfPerson(k, p)
       PROVE  Spans(h, p) = CutAll(Spans(g, p), k[2], at) \cup {OpenSpan(k[2], from)}
  <2>1. {i \in 1 .. n : OfPerson(a[i].key, p)} = I \cup {n}
    BY <1>2, <1>5, <1>6, <1>9, <1>10
  <2>2. Spans(h, p) = {Span(a[i]) : i \in I \cup {n}}
    BY <1>3, <1>5, <2>1 DEF Spans
  <2> HIDE DEF I, n
  <2>3. \A i \in I : Span(a[i]) = Cut(Span(g.edges[i]), k[2], at)
    BY <1>7, <1>10, SpanRetired
  <2>4. Span(a[n]) = OpenSpan(k[2], from)
    BY <1>2, <1>5
  <2> QED
    BY <1>8, <2>2, <2>3, <2>4 DEF CutAll
<1>11. ASSUME ~OfPerson(k, p) PROVE Spans(h, p) = Spans(g, p)
  <2>1. {i \in 1 .. n : OfPerson(a[i].key, p)} = I
    BY <1>2, <1>4, <1>5, <1>6, <1>9, <1>11
  <2>2. Spans(h, p) = {Span(a[i]) : i \in I}
    BY <1>3, <1>5, <2>1 DEF Spans
  <2> HIDE DEF I
  <2>3. \A i \in I : a[i] = g.edges[i]
    BY <1>7, <1>11, SpanRetired
  <2> QED
    BY <1>8, <2>2, <2>3
<1> QED
  BY <1>10, <1>11 DEF h, e

SpanRecords == [team : Ids, from : Nat, to : Nat \cup {Open}]

\* The teams whose memberships cover time t.
Members(S, t) == {s.team : s \in {s \in S : s.from <= t /\ (s.to = Open \/ s.to > t)}}

\* The team the first a moves of m give for time t.
Past(m, a, t) ==
    LET known == {i \in 1 .. a : m[i].time <= t}
    IN  (IF known = {} THEN {} ELSE {m[Max(known)].to}) \ {NoTeam}

\* Moves are recorded in the order of their times, each from where the last led.
Chained(m) ==
    /\ \A i, j \in 1 .. Len(m) : i <= j => m[i].time <= m[j].time
    /\ \A i \in 1 .. Len(m) : m[i].from = IF i = 1 THEN NoTeam ELSE m[i - 1].to

\* The memberships S tell nothing that the first a moves of m, of which the last was
\* handled again no later than at time rep, do not say,
Told(S, m, a, rep) ==
    /\ \A s \in S : s.to = Open => a # 0 /\ s.team = m[a].to /\ s.team # NoTeam
    /\ \A s \in S : s.to # Open => s.to <= rep \/ (a # 0 /\ s.to <= m[a].time)
    /\ \A t \in Nat : t >= rep => Members(S, t) \subseteq Past(m, a, t)

\* and all that they say.
Whole(S, m, a) == \A t \in Nat : Past(m, a, t) \subseteq Members(S, t)

\* The memberships a query of the graph finds at time t.
LEMMA MemberOfSpans ==
  ASSUME mem \in ExactStores, NEW p, NEW t
  PROVE  MemberOf(p, t) = Members(Spans(mem, p), t)
<1>1. DOMAIN mem.edges = 1 .. Len(mem.edges)
  BY LenProperties DEF ExactStores, Stores
<1> DEFINE I == {i \in 1 .. Len(mem.edges) : OfPerson(mem.edges[i].key, p)}
<1>2. MemberOf(p, t) = {mem.edges[i].key[2] : i \in {i \in I : ValidAt(mem.edges[i], t)}}
  BY <1>1 DEF MemberOf, EdgesFrom, OfPerson
<1>3. Spans(mem, p) = {Span(mem.edges[i]) : i \in I}
  BY DEF Spans
<1> HIDE DEF I
<1>4. \A i \in I : /\ Span(mem.edges[i]).team = mem.edges[i].key[2]
                   /\ Span(mem.edges[i]).from = mem.edges[i].from
                   /\ Span(mem.edges[i]).to = mem.edges[i].to
  BY DEF Span
<1> QED
  BY <1>2, <1>3, <1>4 DEF Members, ValidAt

LEMMA MoveTypes ==
  ASSUME NEW m \in Seq(MoveRecords)
  PROVE  /\ Len(m) \in Nat
         /\ \A i \in 1 .. Len(m) : /\ m[i].time \in Nat
                                   /\ m[i].from \in Teams \cup {NoTeam}
                                   /\ m[i].to \in Teams \cup {NoTeam}
<1>1. Len(m) \in Nat
  BY LenProperties
<1>2. ASSUME NEW i \in 1 .. Len(m)
      PROVE  /\ m[i].time \in Nat
             /\ m[i].from \in Teams \cup {NoTeam}
             /\ m[i].to \in Teams \cup {NoTeam}
  <2>1. m[i] \in MoveRecords
    BY ElementOfSeq
  <2> QED
    BY <2>1 DEF MoveRecords
<1> QED
  BY <1>1, <1>2

\* From the last move on, its team
LEMMA PastLatest ==
  ASSUME NEW m \in Seq(MoveRecords), Chained(m), NEW a \in 1 .. Len(m), NEW t \in Nat, m[a].time <= t
  PROVE  Past(m, a, t) = {m[a].to} \ {NoTeam}
<1> DEFINE known == {i \in 1 .. a : m[i].time <= t}
<1>1. Len(m) \in Nat /\ \A i \in 1 .. Len(m) : m[i].time \in Nat
  BY MoveTypes
<1>2. known = 1 .. a
  <2>1. ASSUME NEW i \in 1 .. a PROVE m[i].time <= t
    <3>1. i \in 1 .. Len(m) /\ i <= a
      BY <1>1
    <3>2. m[i].time <= m[a].time
      BY <3>1 DEF Chained
    <3>3. m[i].time \in Nat /\ m[a].time \in Nat
      BY <1>1, <3>1
    <3> QED
      BY <3>2, <3>3
  <2> QED
    BY <2>1
<1>3. a \in known /\ known \in SUBSET Nat /\ \A x \in known : a >= x
  BY <1>1, <1>2
<1> HIDE DEF known
<1>4. Max(known) \in known /\ Max(known) >= a
  BY <1>3 DEF Max
<1> DEFINE x == Max(known)
<1>5. x \in Nat /\ a \in Nat /\ x >= a /\ a >= x
  BY <1>1, <1>3, <1>4
<1> HIDE DEF x
<1>6. x = a
  BY <1>5
<1> QED
  BY <1>3, <1>6 DEF Past, known, x

\* and before it, the team of the moves before.
LEMMA PastEarlier ==
  ASSUME NEW m \in Seq(MoveRecords), NEW a \in Nat, a + 1 \in 1 .. Len(m), NEW t \in Nat,
         t < m[a + 1].time
  PROVE  Past(m, a + 1, t) = Past(m, a, t)
<1>1. m[a + 1].time \in Nat
  BY MoveTypes
<1>2. {i \in 1 .. a + 1 : m[i].time <= t} = {i \in 1 .. a : m[i].time <= t}
  BY <1>1
<1> QED
  BY <1>2 DEF Past

\* Later moves do not change the past.
LEMMA PastAppend ==
  ASSUME NEW m \in Seq(MoveRecords), NEW r \in MoveRecords, NEW a \in 0 .. Len(m), NEW t \in Nat
  PROVE  Past(Append(m, r), a, t) = Past(m, a, t)
<1> DEFINE n == Append(m, r)
           known == {i \in 1 .. a : m[i].time <= t}
<1>1. Len(m) \in Nat /\ \A i \in 1 .. a : n[i] = m[i]
  BY LenProperties, AppendProperties
<1> HIDE DEF n
<1>2. {i \in 1 .. a : n[i].time <= t} = known
  BY <1>1
<1>3. known \in SUBSET (1 .. a)
  OBVIOUS
<1> HIDE DEF known
<1>4. known # {} => Max(known) \in 1 .. a
  <2>1. a \in Nat
    BY <1>1
  <2>2. known # {} => Max(known) \in known
    BY <1>3, <2>1, Extremes
  <2> QED
    BY <1>3, <2>2
<1>5. known # {} => n[Max(known)] = m[Max(known)]
  BY <1>1, <1>4
<1> QED
  BY <1>2, <1>5 DEF Past, known, n

-----------------------------------------------------------------------------
(* Memberships that tell a history of moves.                               *)

\* Memberships after the first write of move x, after its second write at time at,
Closed(S, x) == IF x.from = NoTeam \/ x.from = x.to THEN S ELSE CutAll(S, x.from, x.time)

Joined(S, x, at) ==
    IF x.to = NoTeam \/ x.from = x.to THEN S
    ELSE CutAll(S, x.to, at) \cup {OpenSpan(x.to, x.time)}

\* and after both.
AfterMove(S, x, at) == Joined(Closed(S, x), x, at)

LEMMA CutFacts ==
  ASSUME NEW s \in SpanRecords, NEW team, NEW at \in Nat
  PROVE  /\ Cut(s, team, at) \in SpanRecords
         /\ Cut(s, team, at).team = s.team /\ Cut(s, team, at).from = s.from
         /\ (s.team = team /\ s.to = Open) => Cut(s, team, at).to = at
         /\ ~(s.team = team /\ s.to = Open) => Cut(s, team, at) = s
BY DEF Cut, SpanRecords

LEMMA MembersIff ==
  ASSUME NEW S, NEW t, NEW o
  PROVE  o \in Members(S, t) <=>
            \E s \in S : s.team = o /\ s.from <= t /\ (s.to = Open \/ s.to > t)
BY DEF Members

\* What the writes of a move leave are memberships.
LEMMA AfterMoveType ==
  ASSUME NEW S \in SUBSET SpanRecords, NEW m \in Seq(MoveRecords), NEW i \in 1 .. Len(m), NEW at \in Nat
  PROVE  AfterMove(S, m[i], at) \in SUBSET SpanRecords
<1> DEFINE x == m[i]
<1>1. /\ x.time \in Nat /\ x.from \in Teams \cup {NoTeam} /\ x.to \in Teams \cup {NoTeam}
      /\ Teams \subseteq Ids
  BY MoveTypes, AttributionAssumption
<1> HIDE DEF x
<1>2. Closed(S, x) \in SUBSET SpanRecords
  BY <1>1, CutFacts DEF Closed, CutAll
<1>3. x.to # NoTeam => OpenSpan(x.to, x.time) \in SpanRecords
  BY <1>1 DEF OpenSpan, SpanRecords
<1> DEFINE T == Closed(S, x)
<1>4. AfterMove(S, x, at) = Joined(T, x, at)
  BY DEF AfterMove
<1> HIDE DEF T
<1>5. CutAll(T, x.to, at) \in SUBSET SpanRecords
  BY <1>2, CutFacts DEF CutAll, T
<1> QED
  BY <1>2, <1>3, <1>4, <1>5 DEF Joined, T, x

\* A move to the team a person is in, or from none to none, changes nothing.
LEMMA ToldNoMove ==
  ASSUME NEW S \in SUBSET SpanRecords, NEW m \in Seq(MoveRecords), Chained(m),
         NEW a \in Nat, a + 1 \in 1 .. Len(m), m[a + 1].from = m[a + 1].to,
         NEW rep \in Nat, Told(S, m, a, rep)
  PROVE  /\ Told(S, m, a + 1, rep)
         /\ Whole(S, m, a) => Whole(S, m, a + 1)
<1> DEFINE x == m[a + 1]
<1>0. /\ Len(m) \in Nat /\ x.time \in Nat
      /\ a # 0 => a \in 1 .. Len(m) /\ m[a].time \in Nat /\ m[a].time <= x.time /\ x.from = m[a].to
      /\ a = 0 => x.from = NoTeam
  <2>1. a # 0 => a \in 1 .. Len(m) /\ (a + 1) - 1 = a /\ a + 1 # 1 /\ a <= a + 1
    BY MoveTypes
  <2> QED
    BY <2>1, MoveTypes DEF Chained
<1>1. \A t \in Nat : Past(m, a + 1, t) = Past(m, a, t)
  <2> TAKE t \in Nat
  <2>1. CASE t < x.time
    BY <2>1, PastEarlier
  <2>2. CASE t >= x.time
    <3>1. Past(m, a + 1, t) = {x.to} \ {NoTeam}
      BY <1>0, <2>2, PastLatest
    <3>2. CASE a = 0
      <4>1. Past(m, a, t) = {}
        BY <3>2 DEF Past
      <4> QED
        BY <1>0, <3>1, <3>2, <4>1
    <3>3. CASE a # 0
      <4>1. m[a].time <= t
        BY <1>0, <2>2, <3>3
      <4>2. Past(m, a, t) = {m[a].to} \ {NoTeam}
        BY <1>0, <3>3, <4>1, PastLatest
      <4> QED
        BY <1>0, <3>1, <3>3, <4>2
    <3> QED
      BY <3>2, <3>3
  <2> QED
    BY <1>0, <2>1, <2>2
<1>2. \A s \in S : s.to = Open => a + 1 # 0 /\ s.team = x.to /\ s.team # NoTeam
  BY <1>0 DEF Told
<1>3. \A s \in S : s.to # Open => s.to <= rep \/ (a + 1 # 0 /\ s.to <= x.time)
  <2> SUFFICES ASSUME NEW s \in S, s.to # Open
               PROVE  s.to <= rep \/ s.to <= x.time
    OBVIOUS
  <2>1. s.to \in Nat
    BY DEF SpanRecords
  <2>2. s.to <= rep \/ (a # 0 /\ s.to <= m[a].time)
    BY DEF Told
  <2> QED
    BY <1>0, <2>1, <2>2
<1> HIDE DEF x
<1>4. \A s \in S : s.to = Open => a + 1 # 0 /\ s.team = m[a + 1].to /\ s.team # NoTeam
  BY <1>2 DEF x
<1>5. \A s \in S : s.to # Open => s.to <= rep \/ (a + 1 # 0 /\ s.to <= m[a + 1].time)
  BY <1>3 DEF x
<1>6. \A t \in Nat : t >= rep => Members(S, t) \subseteq Past(m, a + 1, t)
  BY <1>1 DEF Told
<1>7. Whole(S, m, a) => Whole(S, m, a + 1)
  BY <1>1 DEF Whole
<1> QED
  BY <1>4, <1>5, <1>6, <1>7 DEF Told

\* The next move, handled for the first time.
LEMMA ToldNext ==
  ASSUME NEW S \in SUBSET SpanRecords, NEW m \in Seq(MoveRecords), Chained(m),
         NEW a \in Nat, a + 1 \in 1 .. Len(m),
         NEW rep \in Nat, NEW at \in Nat, Told(S, m, a, rep)
  PROVE  /\ Told(AfterMove(S, m[a + 1], at), m, a + 1, rep)
         /\ Whole(S, m, a) => Whole(AfterMove(S, m[a + 1], at), m, a + 1)
         /\ Closed(S, m[a + 1]) \subseteq AfterMove(S, m[a + 1], at)
<1> DEFINE x == m[a + 1]
           S1 == Closed(S, x)
           S2 == AfterMove(S, x, at)
<1>0. /\ Len(m) \in Nat /\ x.time \in Nat
      /\ a # 0 => a \in 1 .. Len(m) /\ m[a].time \in Nat /\ m[a].time <= x.time /\ x.from = m[a].to
      /\ a = 0 => x.from = NoTeam
  <2>1. a # 0 => a \in 1 .. Len(m) /\ (a + 1) - 1 = a /\ a + 1 # 1 /\ a <= a + 1
    BY MoveTypes
  <2> QED
    BY <2>1, MoveTypes DEF Chained
<1>1. CASE x.from = x.to
  <2>1. S2 = S /\ S1 = S
    BY <1>1 DEF AfterMove, Joined, Closed
  <2> QED
    BY <1>1, <2>1, ToldNoMove
<1>2. CASE x.from # x.to
  <2>1. /\ x.to = NoTeam => S2 = S1
        /\ x.to # NoTeam => S2 = CutAll(S1, x.to, at) \cup {OpenSpan(x.to, x.time)}
    BY <1>2 DEF AfterMove, Joined
  <2>2. \A s \in S : s.to = Open => s.team = x.from /\ x.from # NoTeam
    BY <1>0 DEF Told
  <2>3. /\ x.from = NoTeam => S1 = S
        /\ x.from # NoTeam => S1 = CutAll(S, x.from, x.time)
    BY <1>2 DEF Closed
  <2>4. \A t \in Nat : t < x.time => Past(m, a + 1, t) = Past(m, a, t)
    BY PastEarlier
  <2>5. \A t \in Nat : t >= x.time => Past(m, a + 1, t) = {x.to} \ {NoTeam}
    BY <1>0, PastLatest
  <2> HIDE DEF S1, S2, x
  \* What became of the old memberships: all have ended.
  <2>6. \A s \in S : \E r \in S1 : /\ r.team = s.team /\ r.from = s.from
                                   /\ s.to = Open => r.to = x.time
                                   /\ s.to # Open => r.to = s.to
    <3> SUFFICES ASSUME NEW s \in S
                 PROVE  \E r \in S1 : /\ r.team = s.team /\ r.from = s.from
                                      /\ s.to = Open => r.to = x.time
                                      /\ s.to # Open => r.to = s.to
      OBVIOUS
    <3>1. CASE x.from = NoTeam
      BY <2>2, <2>3, <3>1
    <3>2. CASE x.from # NoTeam
      <4>1. Cut(s, x.from, x.time) \in S1
        BY <2>3, <3>2 DEF CutAll
      <4> QED
        BY <1>0, <2>2, <4>1, CutFacts
    <3> QED
      BY <3>1, <3>2
  <2>7. \A r \in S1 : /\ r \in SpanRecords /\ r.to \in Nat /\ (r.to <= rep \/ r.to <= x.time)
                      /\ \E s \in S : /\ r.team = s.team /\ r.from = s.from
                                      /\ s.to = Open => r.to = x.time
                                      /\ s.to # Open => r.to = s.to
    <3> SUFFICES ASSUME NEW r \in S1
                 PROVE  /\ r \in SpanRecords /\ r.to \in Nat /\ (r.to <= rep \/ r.to <= x.time)
                        /\ \E s \in S : /\ r.team = s.team /\ r.from = s.from
                                        /\ s.to = Open => r.to = x.time
                                        /\ s.to # Open => r.to = s.to
      OBVIOUS
    <3>1. PICK s \in S : r = IF x.from = NoTeam THEN s ELSE Cut(s, x.from, x.time)
      BY <2>3 DEF CutAll
    <3>2. /\ r \in SpanRecords /\ r.team = s.team /\ r.from = s.from
          /\ s.to = Open => r.to = x.time
          /\ s.to # Open => r.to = s.to
      BY <1>0, <2>2, <3>1, CutFacts
    <3>3. s.to # Open => s.to \in Nat /\ (s.to <= rep \/ s.to <= x.time)
      <4>1. s.to # Open => s.to \in Nat
        BY DEF SpanRecords
      <4>2. s.to # Open => s.to <= rep \/ (a # 0 /\ s.to <= m[a].time)
        BY DEF Told
      <4> QED
        BY <1>0, <4>1, <4>2
    <3> QED
      BY <1>0, <3>2, <3>3
  <2>8. \A r \in S1 : r.to # Open
    BY <2>7 DEF Open
  <2>9. S2 = IF x.to = NoTeam THEN S1 ELSE S1 \cup {OpenSpan(x.to, x.time)}
    <3>1. \A r \in S1 : Cut(r, x.to, at) = r
      BY <2>7, <2>8, CutFacts
    <3>2. CutAll(S1, x.to, at) = S1
      BY <3>1 DEF CutAll
    <3> QED
      BY <2>1, <3>2
  <2>10. /\ OpenSpan(x.to, x.time).team = x.to
         /\ OpenSpan(x.to, x.time).from = x.time
         /\ OpenSpan(x.to, x.time).to = Open
    BY DEF OpenSpan
  <2>11. \A s \in S2 : s.to = Open => a + 1 # 0 /\ s.team = x.to /\ s.team # NoTeam
    BY <2>8, <2>9, <2>10
  <2>12. \A s \in S2 : s.to # Open => s.to <= rep \/ (a + 1 # 0 /\ s.to <= x.time)
    BY <2>7, <2>9, <2>10
  \* Before the move, nobody's team changes.
  <2>13. ASSUME NEW t \in Nat, t < x.time PROVE Members(S2, t) = Members(S, t)
    <3>1. ASSUME NEW o \in Members(S, t) PROVE o \in Members(S2, t)
      <4>1. PICK s \in S : s.team = o /\ s.from <= t /\ (s.to = Open \/ s.to > t)
        BY <3>1, MembersIff
      <4>2. PICK r \in S1 : /\ r.team = s.team /\ r.from = s.from
                            /\ s.to = Open => r.to = x.time
                            /\ s.to # Open => r.to = s.to
        BY <2>6
      <4>3. r \in S2 /\ r.team = o /\ r.from <= t /\ r.to > t
        BY <1>0, <2>9, <2>13, <4>1, <4>2
      <4> QED
        BY <4>3, MembersIff
    <3>2. ASSUME NEW o \in Members(S2, t) PROVE o \in Members(S, t)
      <4>1. PICK r \in S2 : r.team = o /\ r.from <= t /\ (r.to = Open \/ r.to > t)
        BY <3>2, MembersIff
      <4>2. r \in S1
        BY <1>0, <2>9, <2>10, <2>13, <4>1
      <4>3. PICK s \in S : /\ r.team = s.team /\ r.from = s.from
                           /\ s.to = Open => r.to = x.time
                           /\ s.to # Open => r.to = s.to
        BY <2>7, <4>2
      <4>4. s.team = o /\ s.from <= t /\ (s.to = Open \/ s.to > t)
        BY <2>8, <4>1, <4>2, <4>3
      <4> QED
        BY <4>4, MembersIff
    <3> QED
      BY <3>1, <3>2
  <2>14. ASSUME Whole(S, m, a), NEW t \in Nat PROVE Past(m, a + 1, t) \subseteq Members(S2, t)
    <3>1. CASE t < x.time
      BY <2>4, <2>13, <2>14, <3>1 DEF Whole
    <3>2. CASE t >= x.time
      <4>1. x.to # NoTeam => x.to \in Members(S2, t)
        <5>1. x.to # NoTeam => OpenSpan(x.to, x.time) \in S2
          BY <2>9
        <5> QED
          BY <1>0, <2>10, <3>2, <5>1, MembersIff
      <4> QED
        BY <2>5, <3>2, <4>1
    <3> QED
      BY <1>0, <3>1, <3>2
  <2>15. ASSUME NEW t \in Nat, t >= rep PROVE Members(S2, t) \subseteq Past(m, a + 1, t)
    <3>1. CASE t < x.time
      BY <2>4, <2>13, <2>15, <3>1 DEF Told
    <3>2. CASE t >= x.time
      <4> SUFFICES ASSUME NEW o \in Members(S2, t) PROVE o \in {x.to} \ {NoTeam}
        BY <2>5, <3>2
      <4>1. PICK r \in S2 : r.team = o /\ r.from <= t /\ (r.to = Open \/ r.to > t)
        BY MembersIff
      <4>2. r \notin S1
        BY <1>0, <2>7, <2>8, <2>15, <3>2, <4>1
      <4> QED
        BY <2>9, <2>10, <4>1, <4>2
    <3> QED
      BY <1>0, <3>1, <3>2
  <2>16. Told(S2, m, a + 1, rep)
    BY <2>11, <2>12, <2>15 DEF Told, x
  <2>17. Whole(S, m, a) => Whole(S2, m, a + 1)
    BY <2>14 DEF Whole
  <2>18. S1 \subseteq S2
    BY <2>9
  <2> QED
    BY <2>16, <2>17, <2>18 DEF x, S1, S2
<1> QED
  BY <1>1, <1>2

\* The latest move, handled again at time at.
LEMMA ToldAgain ==
  ASSUME NEW S \in SUBSET SpanRecords, NEW m \in Seq(MoveRecords), Chained(m),
         NEW a \in 1 .. Len(m), NEW rep \in Nat, NEW at \in Nat, rep <= at, m[a].time <= at,
         Told(S, m, a, rep)
  PROVE  /\ Told(AfterMove(S, m[a], at), m, a, at)
         /\ Whole(S, m, a) => Whole(AfterMove(S, m[a], at), m, a)
         /\ Closed(S, m[a]) = S
<1> DEFINE x == m[a]
           S2 == AfterMove(S, x, at)
<1>0. /\ x.time \in Nat /\ a # 0
      /\ \A s \in S : s \in SpanRecords /\ (s.to # Open => s.to \in Nat)
  BY MoveTypes DEF SpanRecords
<1>1. \A s \in S : s.to = Open => s.team = x.to /\ s.team # NoTeam
  BY DEF Told
<1>2. \A s \in S : s.to # Open => s.to <= at \/ s.to <= x.time
  BY <1>0 DEF Told
<1>3. \A t \in Nat : t >= at => Members(S, t) \subseteq Past(m, a, t)
  BY DEF Told
<1>4. \A t \in Nat : t >= at => Past(m, a, t) = {x.to} \ {NoTeam}
  BY <1>0, PastLatest
\* The first write finds no open membership of the team left.
<1>c. Closed(S, x) = S
  <2>1. CASE x.from = x.to \/ x.from = NoTeam
    BY <2>1 DEF Closed
  <2>2. CASE x.from # x.to /\ x.from # NoTeam
    <3>1. Closed(S, x) = CutAll(S, x.from, x.time)
      BY <2>2 DEF Closed
    <3>2. \A s \in S : Cut(s, x.from, x.time) = s
      BY <1>0, <1>1, <2>2, CutFacts
    <3> QED
      BY <3>1, <3>2 DEF CutAll
  <2> QED
    BY <2>1, <2>2
<1>5. CASE x.from = x.to \/ x.to = NoTeam
  <2>1. S2 = S
    BY <1>c, <1>5 DEF AfterMove, Joined
  <2> HIDE DEF S2
  <2>2. Told(S, m, a, at)
    BY <1>0, <1>1, <1>2, <1>3 DEF Told
  <2> QED
    BY <1>c, <2>1, <2>2 DEF S2
<1>6. CASE x.from # x.to /\ x.to # NoTeam
  <2>1. S2 = CutAll(S, x.to, at) \cup {OpenSpan(x.to, x.time)}
    BY <1>c, <1>6 DEF AfterMove, Joined
  <2> HIDE DEF S2, x
  <2>2. /\ OpenSpan(x.to, x.time).team = x.to
        /\ OpenSpan(x.to, x.time).from = x.time
        /\ OpenSpan(x.to, x.time).to = Open
    BY DEF OpenSpan
  <2>3. \A s \in S : /\ Cut(s, x.to, at).team = s.team /\ Cut(s, x.to, at).from = s.from
                     /\ s.to = Open => Cut(s, x.to, at).to = at
                     /\ s.to # Open => Cut(s, x.to, at) = s
    BY <1>0, <1>1, CutFacts
  <2>4. at # Open
    BY DEF Open
  <2>5. \A r \in S2 : r = OpenSpan(x.to, x.time) \/ \E s \in S : r = Cut(s, x.to, at)
    BY <2>1 DEF CutAll
  <2>6. OpenSpan(x.to, x.time) \in S2 /\ \A s \in S : Cut(s, x.to, at) \in S2
    BY <2>1 DEF CutAll
  <2>7. \A r \in S2 : r.to = Open => r = OpenSpan(x.to, x.time)
    BY <2>3, <2>4, <2>5
  <2>8. \A r \in S2 : r.to # Open => r.to <= at \/ r.to <= x.time
    <3> SUFFICES ASSUME NEW r \in S2, r.to # Open PROVE r.to <= at \/ r.to <= x.time
      OBVIOUS
    <3>1. PICK s \in S : r = Cut(s, x.to, at)
      BY <2>2, <2>5
    <3>2. CASE s.to = Open
      BY <2>3, <3>1, <3>2
    <3>3. CASE s.to # Open
      BY <1>2, <2>3, <3>1, <3>3
    <3> QED
      BY <3>2, <3>3
  <2>9. ASSUME Whole(S, m, a), NEW t \in Nat PROVE Past(m, a, t) \subseteq Members(S2, t)
    <3>1. CASE t >= at
      <4>1. x.to \in Members(S2, t)
        BY <1>0, <2>2, <2>6, <3>1, MembersIff DEF x
      <4> QED
        BY <1>4, <3>1, <4>1
    <3>2. CASE t < at
      <4> SUFFICES ASSUME NEW o \in Members(S, t) PROVE o \in Members(S2, t)
        BY <2>9 DEF Whole
      <4>1. PICK s \in S : s.team = o /\ s.from <= t /\ (s.to = Open \/ s.to > t)
        BY MembersIff
      <4>2. /\ Cut(s, x.to, at) \in S2 /\ Cut(s, x.to, at).team = o /\ Cut(s, x.to, at).from <= t
            /\ Cut(s, x.to, at).to > t
        BY <2>3, <2>6, <3>2, <4>1
      <4> QED
        BY <4>2, MembersIff
    <3> QED
      BY <3>1, <3>2
  <2>10. ASSUME NEW t \in Nat, t >= at PROVE Members(S2, t) \subseteq Past(m, a, t)
    <3> SUFFICES ASSUME NEW o \in Members(S2, t) PROVE o \in Past(m, a, t)
      OBVIOUS
    <3>1. PICK r \in S2 : r.team = o /\ r.from <= t /\ (r.to = Open \/ r.to > t)
      BY MembersIff
    <3>2. CASE r = OpenSpan(x.to, x.time)
      BY <1>4, <1>6, <2>2, <2>10, <3>1, <3>2
    <3>3. CASE r # OpenSpan(x.to, x.time)
      <4>1. PICK s \in S : r = Cut(s, x.to, at)
        BY <2>5, <3>3
      <4>2. s.to # Open
        BY <2>3, <2>4, <2>10, <3>1, <4>1
      <4>3. r = s
        BY <2>3, <4>1, <4>2
      <4>4. o \in Members(S, t)
        BY <3>1, <4>3, MembersIff
      <4> QED
        BY <1>3, <2>10, <4>4
    <3> QED
      BY <3>2, <3>3
  <2>11. \A r \in S2 : r.to = Open => a # 0 /\ r.team = m[a].to /\ r.team # NoTeam
    BY <1>0, <1>6, <2>2, <2>7 DEF x
  <2>12. \A r \in S2 : r.to # Open => r.to <= at \/ (a # 0 /\ r.to <= m[a].time)
    BY <1>0, <2>8 DEF x
  <2>13. Told(S2, m, a, at)
    BY <2>10, <2>11, <2>12 DEF Told
  <2>14. Whole(S, m, a) => Whole(S2, m, a)
    BY <2>9 DEF Whole
  <2> QED
    BY <1>c, <2>13, <2>14 DEF S2, x
<1> QED
  BY <1>5, <1>6

\* With fewer memberships nothing more is told.
LEMMA ToldFewer ==
  ASSUME NEW S, NEW T \in SUBSET S, NEW m, NEW a, NEW rep, Told(S, m, a, rep)
  PROVE  Told(T, m, a, rep)
<1>1. \A t : Members(T, t) \subseteq Members(S, t)
  BY DEF Members
<1> QED
  BY <1>1 DEF Told

\* After the first write of a move no time has a team it did not have before.
LEMMA ClosedFewer ==
  ASSUME NEW S \in SUBSET SpanRecords, NEW x \in MoveRecords, NEW t \in Nat
  PROVE  Members(Closed(S, x), t) \subseteq Members(S, t)
<1>1. CASE x.from = NoTeam \/ x.from = x.to
  BY <1>1 DEF Closed
<1>2. CASE x.from # NoTeam /\ x.from # x.to
  <2> SUFFICES ASSUME NEW o \in Members(Closed(S, x), t) PROVE o \in Members(S, t)
    OBVIOUS
  <2>1. PICK r \in Closed(S, x) : r.team = o /\ r.from <= t /\ (r.to = Open \/ r.to > t)
    BY MembersIff
  <2>2. PICK s \in S : r = Cut(s, x.from, x.time)
    BY <1>2, <2>1 DEF Closed, CutAll
  <2>3. x.time \in Nat /\ s \in SpanRecords
    BY DEF MoveRecords
  <2>4. s.team = o /\ s.from <= t /\ (s.to = Open \/ s.to > t)
    BY <2>1, <2>2, <2>3, CutFacts
  <2> QED
    BY <2>4, MembersIff
<1> QED
  BY <1>1, <1>2

\* No move, no membership.
LEMMA ToldEmpty ==
  ASSUME NEW m
  PROVE  Told({}, m, 0, 0) /\ Whole({}, m, 0)
BY DEF Told, Whole, Past, Members

\* A move recorded and not handled yet changes nothing.
LEMMA ToldAppend ==
  ASSUME NEW S, NEW m \in Seq(MoveRecords), NEW r \in MoveRecords, NEW a \in 0 .. Len(m), NEW rep,
         Told(S, m, a, rep)
  PROVE  /\ Told(S, Append(m, r), a, rep)
         /\ Whole(S, m, a) => Whole(S, Append(m, r), a)
<1>1. \A t \in Nat : Past(Append(m, r), a, t) = Past(m, a, t)
  BY PastAppend
<1>2. Len(m) \in Nat /\ \A i \in 1 .. Len(m) : Append(m, r)[i] = m[i]
  BY LenProperties, AppendProperties
<1>3. a # 0 => Append(m, r)[a] = m[a]
  BY <1>2
<1> DEFINE n == Append(m, r)
<1> HIDE DEF n
<1>4. (\A t \in Nat : Past(n, a, t) = Past(m, a, t)) /\ (a # 0 => n[a] = m[a])
  BY <1>1, <1>3 DEF n
<1>5. Told(S, n, a, rep)
  BY <1>4 DEF Told
<1>6. Whole(S, m, a) => Whole(S, n, a)
  BY <1>4 DEF Whole
<1> QED
  BY <1>5, <1>6 DEF n

-----------------------------------------------------------------------------
(* A person's memberships, also in the middle of a move.                   *)

\* Memberships sp of person p tell the first a moves of m, except that the second
\* write of a move in mid is to come, and that those of people in C may lack a team.
Tells(p, C, sp, m, a, rep, mid) ==
    \E S \in SUBSET SpanRecords :
       /\ Told(S, m, a, rep)
       /\ p \notin C => Whole(S, m, a)
       /\ \/ mid = {} /\ sp = S
          \/ \E i \in 1 .. Len(m) : mid = {i} /\ i \in {a, a + 1} /\ sp = Closed(S, m[i])

\* The first write of a move,
LEMMA ClosesTells ==
  ASSUME NEW p, NEW C, NEW sp, NEW m, NEW a, NEW rep, Tells(p, C, sp, m, a, rep, {}),
         NEW i \in 1 .. Len(m), i \in {a, a + 1}
  PROVE  Tells(p, C, Closed(sp, m[i]), m, a, rep, {i})
<1>1. PICK S \in SUBSET SpanRecords :
         /\ Told(S, m, a, rep)
         /\ p \notin C => Whole(S, m, a)
         /\ sp = S
  BY DEF Tells
<1>2. {i} = {i} /\ i \in {a, a + 1} /\ Closed(sp, m[i]) = Closed(S, m[i])
  BY <1>1
<1> QED
  BY <1>1, <1>2 DEF Tells

\* the second one,
LEMMA AddsTells ==
  ASSUME NEW p, NEW C, NEW sp, NEW m \in Seq(MoveRecords), Chained(m), NEW a \in Nat, NEW rep \in Nat,
         NEW mid, NEW i \in mid, Tells(p, C, sp, m, a, rep, mid),
         NEW at \in Nat, rep <= at, m[i].time <= at
  PROVE  Tells(p, C, Joined(sp, m[i], at), m, IF i <= a THEN a ELSE i, IF i <= a THEN at ELSE rep,
               mid \ {i})
<1>1. PICK S \in SUBSET SpanRecords :
         /\ Told(S, m, a, rep)
         /\ p \notin C => Whole(S, m, a)
         /\ \E j \in 1 .. Len(m) : mid = {j} /\ j \in {a, a + 1} /\ sp = Closed(S, m[j])
  BY DEF Tells
<1>2. i \in 1 .. Len(m) /\ mid \ {i} = {} /\ i \in {a, a + 1} /\ sp = Closed(S, m[i])
  BY <1>1
<1>3. Joined(sp, m[i], at) = AfterMove(S, m[i], at)
  BY <1>2 DEF AfterMove
<1> DEFINE T == AfterMove(S, m[i], at)
<1>4. T \in SUBSET SpanRecords
  BY <1>2, AfterMoveType
<1>5. CASE i = a
  <2>1. Told(T, m, a, at) /\ (Whole(S, m, a) => Whole(T, m, a))
    BY <1>1, <1>2, <1>5, ToldAgain
  <2>2. i <= a
    BY <1>5
  <2> HIDE DEF T
  <2> QED
    BY <1>1, <1>2, <1>3, <1>4, <2>1, <2>2 DEF Tells, T
<1>6. CASE i = a + 1
  <2>1. Told(T, m, i, rep) /\ (Whole(S, m, a) => Whole(T, m, i))
    BY <1>1, <1>2, <1>6, ToldNext
  <2>2. ~(i <= a)
    BY <1>6
  <2> HIDE DEF T
  <2> QED
    BY <1>1, <1>2, <1>3, <1>4, <2>1, <2>2 DEF Tells, T
<1> QED
  BY <1>2, <1>5, <1>6

\* and its failure.
LEMMA FailsTells ==
  ASSUME NEW p, NEW C, p \in C, NEW D, NEW sp, NEW m \in Seq(MoveRecords), Chained(m), NEW a \in Nat,
         NEW rep \in Nat, NEW mid, NEW i \in mid, Tells(p, D, sp, m, a, rep, mid),
         NEW at \in Nat, rep <= at, m[i].time <= at
  PROVE  Tells(p, C, sp, m, IF i <= a THEN a ELSE i, IF i <= a THEN at ELSE rep, mid \ {i})
<1>1. PICK S \in SUBSET SpanRecords :
         /\ Told(S, m, a, rep)
         /\ \E j \in 1 .. Len(m) : mid = {j} /\ j \in {a, a + 1} /\ sp = Closed(S, m[j])
  BY DEF Tells
<1>2. i \in 1 .. Len(m) /\ mid \ {i} = {} /\ i \in {a, a + 1} /\ sp = Closed(S, m[i])
  BY <1>1
<1> DEFINE T == AfterMove(S, m[i], at)
<1>3. T \in SUBSET SpanRecords
  BY <1>2, AfterMoveType
<1>4. CASE i = a
  <2>1. sp = S
    BY <1>1, <1>2, <1>4, ToldAgain
  <2>2. \A s \in S : s.to # Open => s.to \in Nat
    BY DEF SpanRecords
  <2>3. Told(S, m, a, at)
    BY <1>1, <2>2 DEF Told
  <2>4. i <= a
    BY <1>4
  <2> QED
    BY <1>2, <2>1, <2>3, <2>4 DEF Tells
<1>5. CASE i = a + 1
  <2>1. Told(T, m, i, rep) /\ sp \subseteq T
    BY <1>1, <1>2, <1>5, ToldNext
  <2> HIDE DEF T
  <2>2. Told(sp, m, i, rep) /\ sp \in SUBSET SpanRecords
    BY <1>3, <2>1, ToldFewer
  <2>3. ~(i <= a)
    BY <1>5
  <2> QED
    BY <1>2, <2>2, <2>3 DEF Tells
<1> QED
  BY <1>2, <1>4, <1>5

\* Recording another move changes nothing.
LEMMA AppendTells ==
  ASSUME NEW p, NEW C, NEW sp, NEW m \in Seq(MoveRecords), NEW r \in MoveRecords,
         NEW a \in 0 .. Len(m), NEW rep, NEW mid, Tells(p, C, sp, m, a, rep, mid)
  PROVE  Tells(p, C, sp, Append(m, r), a, rep, mid)
<1> DEFINE n == Append(m, r)
<1>1. PICK S \in SUBSET SpanRecords :
         /\ Told(S, m, a, rep)
         /\ p \notin C => Whole(S, m, a)
         /\ \/ mid = {} /\ sp = S
            \/ \E i \in 1 .. Len(m) : mid = {i} /\ i \in {a, a + 1} /\ sp = Closed(S, m[i])
  BY DEF Tells
<1>2. Told(S, n, a, rep) /\ (Whole(S, m, a) => Whole(S, n, a))
  BY <1>1, ToldAppend
<1>3. Len(m) \in Nat /\ Len(n) = Len(m) + 1 /\ \A i \in 1 .. Len(m) : n[i] = m[i]
  BY LenProperties, AppendProperties
<1> HIDE DEF n
<1>4. \/ mid = {} /\ sp = S
      \/ \E i \in 1 .. Len(n) : mid = {i} /\ i \in {a, a + 1} /\ sp = Closed(S, n[i])
  <2>1. \A i \in 1 .. Len(m) : i \in 1 .. Len(n) /\ n[i] = m[i]
    BY <1>3
  <2> QED
    BY <1>1, <2>1
<1>5. Tells(p, C, sp, n, a, rep, mid)
  BY <1>1, <1>2, <1>4 DEF Tells
<1> QED
  BY <1>5 DEF n

-----------------------------------------------------------------------------

\* The types of the delivery bookkeeping.
PersonTypes ==
    /\ applied \in [People -> Nat]
    /\ inOrder \in [People -> BOOLEAN]
    /\ repeated \in [People -> Nat]
    /\ midway \in [People -> SUBSET Nat]

\* Moves lie in the past, and only recorded ones were handled.
MovesInv ==
    \A p \in People :
       /\ Chained(moves[p])
       /\ \A i \in 1 .. Len(moves[p]) : moves[p][i].time <= now
       /\ applied[p] \in 0 .. Len(moves[p])
       /\ repeated[p] <= now

\* The memberships of a person whose moves came in order tell them.
HistoryTold ==
    \A p \in People : inOrder[p] =>
       Tells(p, cut, Spans(mem, p), moves[p], applied[p], repeated[p], midway[p])

HistoryInv == GraphInv /\ PersonTypes /\ MovesInv /\ HistoryTold

\* It holds initially.
LEMMA InitHistory == Init => HistoryInv
<1> SUFFICES ASSUME Init PROVE HistoryInv
  OBVIOUS
<1>1. GraphInv
  BY InitGraph
<1>2. PersonTypes
  BY DEF Init, PersonTypes
<1>3. \A p \in People : moves[p] = <<>> /\ applied[p] = 0 /\ repeated[p] = 0
  BY DEF Init
<1>4. MovesInv
  <2>1. Len(<<>>) = 0
    BY EmptySeq
  <2> QED
    BY <1>1, <1>3, <2>1 DEF MovesInv, Chained, GraphInv, Clocked
<1>5. \A p \in People : Spans(mem, p) = {}
  BY EmptySeq DEF Init, EmptyMem, Spans
<1>6. HistoryTold
  <2>1. \A p \in People : midway[p] = {}
    BY DEF Init
  <2>2. \A p \in People : Tells(p, cut, {}, <<>>, 0, 0, {})
    BY ToldEmpty DEF Tells
  <2> QED
    BY <1>3, <1>5, <2>1, <2>2 DEF HistoryTold
<1> QED
  BY <1>1, <1>2, <1>4, <1>6 DEF HistoryInv

-----------------------------------------------------------------------------
(* Memberships of a running processor.                                     *)

\* The two writes of a move change the memberships of the person and of nobody else.
LEMMA LeaveSpans ==
  ASSUME NEW g \in ExactStores, NEW p \in People, NEW m \in MoveRecords, NEW q
  PROVE  /\ q = p => Spans(LeaveTeam(g, p, m), q) = Closed(Spans(g, q), m)
         /\ q # p => Spans(LeaveTeam(g, p, m), q) = Spans(g, q)
<1> DEFINE ok == <<p, m.from, "member_of">>
<1>1. m.time \in Nat /\ m.from \in Teams \cup {NoTeam}
  BY DEF MoveRecords
<1>2. m.from # NoTeam => ok \in Keys
  BY <1>1, AttributionAssumption
<1>3. (OfPerson(ok, q) <=> q = p) /\ ok[2] = m.from
  BY DEF OfPerson
<1>4. LeaveTeam(g, p, m) = IF m.from = NoTeam \/ m.from = m.to THEN g ELSE CloseEdge(g, ok, m.time)
  BY DEF LeaveTeam
<1> HIDE DEF ok
<1>5. CASE m.from = NoTeam \/ m.from = m.to
  BY <1>4, <1>5 DEF Closed
<1>6. CASE m.from # NoTeam /\ m.from # m.to
  <2>1. /\ OfPerson(ok, q) => Spans(CloseEdge(g, ok, m.time), q) = CutAll(Spans(g, q), ok[2], m.time)
        /\ ~OfPerson(ok, q) => Spans(CloseEdge(g, ok, m.time), q) = Spans(g, q)
    BY <1>1, <1>2, <1>6, CloseSpans
  <2> QED
    BY <1>3, <1>4, <1>6, <2>1 DEF Closed
<1> QED
  BY <1>5, <1>6

LEMMA JoinSpans ==
  ASSUME NEW g \in ExactStores, now \in Nat, NEW p \in People, NEW m \in MoveRecords, NEW q
  PROVE  /\ q = p => Spans(JoinTeam(g, p, m), q) = Joined(Spans(g, q), m, now)
         /\ q # p => Spans(JoinTeam(g, p, m), q) = Spans(g, q)
<1> DEFINE nk == <<p, m.to, "member_of">>
<1>1. m.time \in Nat /\ m.to \in Teams \cup {NoTeam}
  BY DEF MoveRecords
<1>2. m.to # NoTeam => nk \in Keys
  BY <1>1, AttributionAssumption
<1>3. (OfPerson(nk, q) <=> q = p) /\ nk[2] = m.to
  BY DEF OfPerson
<1>4. JoinTeam(g, p, m) = IF m.to = NoTeam \/ m.from = m.to THEN g
                          ELSE AddEdge(g, Edge(nk, m.time), now)
  BY DEF JoinTeam
<1> HIDE DEF nk
<1>5. CASE m.to = NoTeam \/ m.from = m.to
  BY <1>4, <1>5 DEF Joined
<1>6. CASE m.to # NoTeam /\ m.from # m.to
  <2>1. /\ OfPerson(nk, q) => Spans(AddEdge(g, Edge(nk, m.time), now), q) =
                                 CutAll(Spans(g, q), nk[2], now) \cup {OpenSpan(nk[2], m.time)}
        /\ ~OfPerson(nk, q) => Spans(AddEdge(g, Edge(nk, m.time), now), q) = Spans(g, q)
    BY <1>1, <1>2, <1>6, AddSpans
  <2> QED
    BY <1>3, <1>4, <1>6, <2>1 DEF Joined
<1> QED
  BY <1>5, <1>6

\* Nodes are no memberships.
LEMMA UpsertSpans ==
  ASSUME NEW g \in ExactStores, NEW n \in Ids, NEW kind \in NodeKinds, NEW q
  PROVE  Spans(UpsertNode(g, n, kind), q) = Spans(g, q)
<1>1. UpsertNode(g, n, kind).edges = g.edges
  BY DEF UpsertNode, ExactStores, Stores
<1> QED
  BY <1>1 DEF Spans

\* The other handlers that write to the graph record no membership.
LEMMA OtherSpans ==
  ASSUME GraphInv, NEW q,
         \/ \E job \in Jobs, t \in 0 .. now : Deployment(job, t)
         \/ \E n \in Resources : Billing(n)
         \/ \E k \in Keys, t \in 0 .. now : SetOwner(k, t)
  PROVE  Spans(mem', q) = Spans(mem, q)
<1>0. mem \in ExactStores /\ now \in Nat
  BY DEF GraphInv, GraphOK, Clocked
<1>1. ASSUME NEW job \in Jobs, NEW t \in 0 .. now, Deployment(job, t) PROVE Spans(mem', q) = Spans(mem, q)
  <2> DEFINE d == job.id  r == job.target  p == job.deployer
             g1 == UpsertNode(mem, d, "deployment")
             gr == UpsertNode(g1, r, "resource")
             tk == <<d, r, "triggers">>
             pk == <<p, d, "deployed_by">>
             g2 == IF r = NoTeam THEN g1 ELSE AddEdge(gr, Edge(tk, t), now)
             g3 == IF p = NoTeam THEN g2 ELSE AddEdge(g2, Edge(pk, t), now)
  <2>0. /\ d \in Ids /\ r \in Ids \cup {NoTeam}
        /\ r # NoTeam => tk \in Keys
        /\ p # NoTeam => pk \in Keys
        /\ {"deployment", "resource"} \subseteq NodeKinds /\ t \in Nat
    BY <1>0, AttributionAssumption DEF NodeKinds, NodeTypes
  <2>1. mem' = g3
    BY <1>1 DEF Deployment
  <2>2. ~OfPerson(tk, q) /\ ~OfPerson(pk, q)
    BY DEF OfPerson
  <2> HIDE DEF d, r, p, tk, pk
  <2>3. g1 \in ExactStores /\ Spans(g1, q) = Spans(mem, q)
    BY <1>0, <2>0, UpsertExact, UpsertSpans
  <2> HIDE DEF g1
  <2>4. g2 \in ExactStores /\ Spans(g2, q) = Spans(mem, q)
    <3>1. CASE r = NoTeam
      BY <2>3, <3>1
    <3>2. CASE r # NoTeam
      <4>1. gr \in ExactStores /\ Spans(gr, q) = Spans(mem, q)
        BY <2>0, <2>3, <3>2, UpsertExact, UpsertSpans
      <4> HIDE DEF gr
      <4>2. AddEdge(gr, Edge(tk, t), now) \in ExactStores
        BY <1>0, <2>0, <3>2, <4>1, AddExact
      <4>3. Spans(AddEdge(gr, Edge(tk, t), now), q) = Spans(gr, q)
        BY <1>0, <2>0, <2>2, <3>2, <4>1, AddSpans
      <4> QED
        BY <3>2, <4>1, <4>2, <4>3
    <3> QED
      BY <3>1, <3>2
  <2> HIDE DEF g2
  <2>5. Spans(g3, q) = Spans(mem, q)
    <3>1. CASE p = NoTeam
      BY <2>4, <3>1
    <3>2. CASE p # NoTeam
      <4>1. Spans(AddEdge(g2, Edge(pk, t), now), q) = Spans(g2, q)
        BY <1>0, <2>0, <2>2, <2>4, <3>2, AddSpans
      <4> QED
        BY <2>4, <3>2, <4>1
    <3> QED
      BY <3>1, <3>2
  <2> QED
    BY <2>1, <2>5
<1>2. ASSUME NEW n \in Resources, Billing(n) PROVE Spans(mem', q) = Spans(mem, q)
  <2>1. n \in Ids
    BY AttributionAssumption, ElementOfSeq, LenProperties DEF Resources
  <2>2. mem.nodes[n] \in NodeKinds
    BY <1>0, <2>1 DEF ExactStores, Stores
  <2>3. mem' = UpsertNode(mem, n, mem.nodes[n])
    BY <1>2 DEF Billing
  <2> QED
    BY <1>0, <2>1, <2>2, <2>3, UpsertSpans
<1>3. ASSUME NEW k \in Keys, NEW t \in 0 .. now, SetOwner(k, t) PROVE Spans(mem', q) = Spans(mem, q)
  <2> DEFINE g1 == UpsertNode(mem, k[2], "team")
  <2>1. k[2] \in Ids /\ "team" \in NodeKinds /\ t \in Nat
    BY <1>0, KeyEnds DEF NodeKinds, NodeTypes
  <2>2. g1 \in ExactStores /\ Spans(g1, q) = Spans(mem, q)
    BY <1>0, <2>1, UpsertExact, UpsertSpans
  <2>3. mem' = AddEdge(g1, Edge(k, t), now) /\ ~OfPerson(k, q)
    BY <1>3 DEF SetOwner, OfPerson
  <2> HIDE DEF g1
  <2> QED
    BY <1>0, <2>1, <2>2, <2>3, AddSpans
<1> QED
  BY <1>1, <1>2, <1>3

LEMMA MaxOfTwo ==
  ASSUME NEW i \in Nat, NEW j \in Nat
  PROVE  Max({i, j}) = IF i <= j THEN j ELSE i
<1> DEFINE S == {i, j}
<1>1. \E x \in S : \A y \in S : x >= y
  OBVIOUS
<1>2. Max(S) \in S /\ \A y \in S : Max(S) >= y
  BY <1>1 DEF Max
<1> DEFINE x == Max(S)
<1>3. x \in {i, j} /\ x >= i /\ x >= j
  BY <1>2
<1> HIDE DEF x
<1>4. x = IF i <= j THEN j ELSE i
  BY <1>3
<1> QED
  BY <1>4 DEF x

\* A move recorded now, from where the person is, continues the chain.
LEMMA ChainedAppend ==
  ASSUME NEW m \in Seq(MoveRecords), Chained(m), NEW r \in MoveRecords,
         \A i \in 1 .. Len(m) : m[i].time <= r.time,
         r.from = IF m = <<>> THEN NoTeam ELSE m[Len(m)].to
  PROVE  Chained(Append(m, r))
<1> DEFINE n == Append(m, r)
           l == Len(m)
<1>1. /\ l \in Nat /\ Len(n) = l + 1 /\ n[l + 1] = r
      /\ \A i \in 1 .. l : n[i] = m[i]
      /\ m = <<>> <=> l = 0
  BY LenProperties, AppendProperties, EmptySeq
<1>2. r.time \in Nat /\ \A i \in 1 .. l : m[i].time \in Nat
  BY MoveTypes DEF MoveRecords
<1> HIDE DEF n
<1>3. /\ \A i, j \in 1 .. l : i <= j => m[i].time <= m[j].time
      /\ \A i \in 1 .. l : m[i].from = IF i = 1 THEN NoTeam ELSE m[i - 1].to
      /\ \A i \in 1 .. l : m[i].time <= r.time
      /\ r.from = IF l = 0 THEN NoTeam ELSE m[l].to
  BY <1>1 DEF Chained
<1> HIDE DEF l
<1>4. ASSUME NEW i \in 1 .. l + 1, NEW j \in 1 .. l + 1, i <= j PROVE n[i].time <= n[j].time
  <2>1. CASE j \in 1 .. l
    <3>1. i \in 1 .. l
      BY <1>1, <1>4, <2>1
    <3> QED
      BY <1>1, <1>3, <1>4, <2>1, <3>1
  <2>2. CASE j = l + 1
    <3>1. n[j] = r
      BY <1>1, <2>2
    <3>2. CASE i \in 1 .. l
      BY <1>1, <1>3, <3>1, <3>2
    <3>3. CASE i = l + 1
      BY <1>1, <1>2, <3>1, <3>3
    <3> QED
      BY <1>1, <3>2, <3>3
  <2> QED
    BY <1>1, <2>1, <2>2
<1>5. ASSUME NEW i \in 1 .. l + 1 PROVE n[i].from = IF i = 1 THEN NoTeam ELSE n[i - 1].to
  <2>1. i # 1 => i - 1 \in 1 .. l /\ n[i - 1] = m[i - 1]
    BY <1>1
  <2>2. CASE i \in 1 .. l
    BY <1>1, <1>3, <2>1, <2>2
  <2>3. CASE i = l + 1
    <3>1. n[i].from = IF l = 0 THEN NoTeam ELSE m[l].to
      BY <1>1, <1>3, <2>3
    <3>2. i = 1 <=> l = 0
      BY <1>1, <2>3
    <3>3. i - 1 = l
      BY <1>1, <2>3
    <3> QED
      BY <2>1, <3>1, <3>2, <3>3
  <2> QED
    BY <1>1, <2>2, <2>3
<1>6. Chained(n)
  BY <1>1, <1>4, <1>5 DEF Chained
<1> QED
  BY <1>6 DEF n

\* The writes of the i-th move of p, as the memberships of p see them.
LEMMA TellsStep ==
  ASSUME HistoryInv, NEW p \in People, NEW i \in DOMAIN moves[p], inOrder'[p],
         \/ HandleOrgChange(p, i) \/ OrgChangeCloses(p, i)
         \/ OrgChangeAdds(p, i) \/ OrgChangeFails(p, i)
  PROVE  Tells(p, cut', Spans(mem', p), moves[p], applied'[p], repeated'[p], midway'[p])
<1> DEFINE m == moves[p]
           a == applied[p]
           rep == repeated[p]
           b == IF i <= a THEN a ELSE i
           since == IF i <= a THEN now ELSE rep
<1>1. /\ m \in Seq(MoveRecords) /\ now \in Nat /\ mem \in ExactStores
      /\ neo \in NeoStores /\ Mirrors(neo, mem)
      /\ a \in Nat /\ rep \in Nat /\ inOrder[p] \in BOOLEAN /\ midway[p] \in SUBSET Nat
  BY DEF HistoryInv, GraphInv, GraphOK, Clocked, PersonTypes
<1>2. i \in 1 .. Len(m) /\ Len(m) \in Nat /\ i \in Nat /\ m[i] \in MoveRecords
  BY <1>1, LenProperties, ElementOfSeq
<1>3. /\ Chained(m) /\ m[i].time <= now /\ rep <= now
  BY <1>2 DEF HistoryInv, MovesInv
<1>4. Max({i, a}) = b
  BY <1>1, <1>2, MaxOfTwo
<1>5. inOrder[p] => Tells(p, cut, Spans(mem, p), m, a, rep, midway[p])
  BY DEF HistoryInv, HistoryTold
<1>6. Over(p, i) => applied'[p] = b /\ repeated'[p] = since
  BY <1>4 DEF Over, HistoryInv, PersonTypes
<1>7. Begins(p, i) => inOrder[p] /\ i \in {a, a + 1} /\ midway[p] = {}
  BY DEF Begins, HistoryInv, PersonTypes
<1>8. i \in {a, a + 1} /\ inOrder[p] /\ midway[p] = {}
      => Tells(p, cut, Closed(Spans(mem, p), m[i]), m, a, rep, {i})
  BY <1>2, <1>5, ClosesTells
<1> HIDE DEF m, a, rep, b, since
<1>9. CASE HandleOrgChange(p, i)
  <2>1. /\ mem' = JoinTeam(LeaveTeam(mem, p, m[i]), p, m[i])
        /\ Begins(p, i) /\ Over(p, i) /\ UNCHANGED <<midway, cut>>
    BY <1>9 DEF HandleOrgChange, m
  <2> DEFINE g == LeaveTeam(mem, p, m[i])
  <2>2. g \in ExactStores /\ Spans(g, p) = Closed(Spans(mem, p), m[i])
    BY <1>1, <1>2, LeaveSpans, TransactionsKeep
  <2> HIDE DEF g
  <2>3. Spans(mem', p) = Joined(Spans(g, p), m[i], now)
    BY <1>1, <1>2, <2>1, <2>2, JoinSpans DEF g
  <2>4. Tells(p, cut, Spans(g, p), m, a, rep, {i})
    BY <1>7, <1>8, <2>1, <2>2
  <2>5. Tells(p, cut, Joined(Spans(g, p), m[i], now), m, b, since, {i} \ {i})
    BY <1>1, <1>2, <1>3, <2>4, AddsTells DEF b, since
  <2>6. {i} \ {i} = midway'[p]
    BY <1>7, <2>1
  <2> QED
    BY <1>6, <2>1, <2>3, <2>5, <2>6 DEF m
<1>10. CASE OrgChangeCloses(p, i)
  <2>1. /\ mem' = LeaveTeam(mem, p, m[i]) /\ Begins(p, i)
        /\ midway' = [midway EXCEPT ![p] = @ \cup {i}] /\ UNCHANGED <<applied, repeated, cut>>
    BY <1>10 DEF OrgChangeCloses, m
  <2>2. Spans(mem', p) = Closed(Spans(mem, p), m[i])
    BY <1>1, <1>2, <2>1, LeaveSpans
  <2>3. midway'[p] = {i}
    <3>1. midway'[p] = midway[p] \cup {i}
      BY <2>1 DEF HistoryInv, PersonTypes
    <3> QED
      BY <1>7, <2>1, <3>1
  <2> QED
    BY <1>7, <1>8, <2>1, <2>2, <2>3 DEF m, a, rep
<1>11. ASSUME OrgChangeAdds(p, i) \/ OrgChangeFails(p, i)
       PROVE  /\ i \in midway[p] /\ midway'[p] = midway[p] \ {i} /\ Over(p, i)
              /\ Tells(p, cut, Spans(mem, p), m, a, rep, midway[p])
  BY <1>5, <1>11 DEF OrgChangeAdds, OrgChangeFails, HistoryInv, PersonTypes
<1>12. CASE OrgChangeAdds(p, i)
  <2>1. mem' = JoinTeam(mem, p, m[i]) /\ cut' = cut
    BY <1>12 DEF OrgChangeAdds, m
  <2>2. Spans(mem', p) = Joined(Spans(mem, p), m[i], now)
    BY <1>1, <1>2, <2>1, JoinSpans
  <2>3. Tells(p, cut, Joined(Spans(mem, p), m[i], now), m, b, since, midway[p] \ {i})
    BY <1>1, <1>3, <1>11, <1>12, AddsTells DEF b, since
  <2> QED
    BY <1>6, <1>11, <1>12, <2>1, <2>2, <2>3 DEF m
<1>13. CASE OrgChangeFails(p, i)
  <2>1. mem' = mem /\ p \in cut'
    BY <1>13 DEF OrgChangeFails, graphVars
  <2>2. PICK C : C = cut'
    OBVIOUS
  <2>3. Tells(p, C, Spans(mem, p), m, b, since, midway[p] \ {i})
    BY <1>1, <1>3, <1>11, <1>13, <2>1, <2>2, FailsTells DEF b, since
  <2> QED
    BY <1>6, <1>11, <1>13, <2>1, <2>2, <2>3 DEF m
<1> QED
  BY <1>9, <1>10, <1>12, <1>13

\* Every step keeps the memberships true: a move handled in order is told, handled
\* again is told from now on, and other handlers record no membership.
LEMMA HistoryStep == HistoryInv /\ [Next]_vars => HistoryInv'
<1> SUFFICES ASSUME HistoryInv, [Next]_vars PROVE HistoryInv'
  OBVIOUS
<1>0. GraphInv /\ GraphInv'
  BY ClockedStep, GraphStep DEF GraphInv, HistoryInv
<1>1. /\ now \in Nat /\ moves \in [People -> Seq(MoveRecords)] /\ mem \in ExactStores
      /\ PersonTypes /\ MovesInv /\ HistoryTold
  BY <1>0 DEF GraphInv, GraphOK, Clocked, HistoryInv
<1> DEFINE Quiet == PersonTypes' /\ MovesInv' /\ HistoryTold'
<1>2. ASSUME UNCHANGED <<moves, applied, inOrder, repeated, midway, cut>>, now' \in Nat, now' >= now,
             \A q \in People : Spans(mem', q) = Spans(mem, q)
      PROVE  Quiet
  <2>1. PersonTypes'
    BY <1>1, <1>2 DEF PersonTypes
  <2>2. MovesInv'
    <3> SUFFICES ASSUME NEW p \in People
                 PROVE  /\ Chained(moves[p])
                        /\ \A i \in 1 .. Len(moves[p]) : moves[p][i].time <= now'
                        /\ applied[p] \in 0 .. Len(moves[p])
                        /\ repeated[p] <= now'
      BY <1>2 DEF MovesInv
    <3>1. moves[p] \in Seq(MoveRecords) /\ repeated[p] \in Nat
      BY <1>1 DEF PersonTypes
    <3>2. \A i \in 1 .. Len(moves[p]) : moves[p][i].time \in Nat
      BY <3>1, MoveTypes
    <3> QED
      BY <1>1, <1>2, <3>1, <3>2 DEF MovesInv
  <2>3. HistoryTold'
    BY <1>1, <1>2 DEF HistoryTold
  <2> QED
    BY <2>1, <2>2, <2>3
<1>3. ASSUME NEW p \in People, NEW i \in DOMAIN moves[p],
             \/ HandleOrgChange(p, i) \/ OrgChangeCloses(p, i)
             \/ OrgChangeAdds(p, i) \/ OrgChangeFails(p, i)
      PROVE  Quiet
  <2>1. /\ moves' = moves /\ now' = now
        /\ Over(p, i) \/ UNCHANGED <<applied, repeated>>
        /\ Begins(p, i) \/ inOrder' = inOrder
        /\ midway' \in {midway, [midway EXCEPT ![p] = @ \cup {i}], [midway EXCEPT ![p] = @ \ {i}]}
        /\ cut' \in {cut, cut \cup {p}}
    BY <1>3 DEF HandleOrgChange, OrgChangeCloses, OrgChangeAdds, OrgChangeFails, Handled, Counted
  <2>2. i \in 1 .. Len(moves[p]) /\ Len(moves[p]) \in Nat
    BY <1>1, LenProperties
  <2>3. Max({i, applied[p]}) = IF i <= applied[p] THEN applied[p] ELSE i
    <3>1. i \in Nat /\ applied[p] \in Nat
      BY <1>1, <2>2 DEF PersonTypes
    <3> QED
      BY <3>1, MaxOfTwo
  <2>4. PersonTypes'
    <3>1. applied' \in [People -> Nat] /\ repeated' \in [People -> Nat]
      <4>1. CASE UNCHANGED <<applied, repeated>>
        BY <1>1, <4>1 DEF PersonTypes
      <4>2. CASE Over(p, i)
        <5>1. Max({i, applied[p]}) \in Nat /\ (IF i <= applied[p] THEN now ELSE repeated[p]) \in Nat
          BY <1>1, <2>2, <2>3 DEF PersonTypes
        <5>2. /\ applied' = [applied EXCEPT ![p] = Max({i, applied[p]})]
              /\ repeated' = [repeated EXCEPT ![p] = IF i <= applied[p] THEN now ELSE repeated[p]]
          BY <4>2 DEF Over
        <5> QED
          BY <1>1, <5>1, <5>2 DEF PersonTypes
      <4> QED
        BY <2>1, <4>1, <4>2
    <3>2. inOrder' \in [People -> BOOLEAN]
      BY <1>1, <2>1 DEF PersonTypes, Begins
    <3>3. midway' \in [People -> SUBSET Nat]
      <4>1. i \in Nat /\ midway \in [People -> SUBSET Nat]
        BY <1>1, <2>2 DEF PersonTypes
      <4>2. midway[p] \cup {i} \in SUBSET Nat /\ midway[p] \ {i} \in SUBSET Nat
        BY <4>1
      <4>3. \E S \in SUBSET Nat : midway' = midway \/ midway' = [midway EXCEPT ![p] = S]
        BY <2>1, <4>2
      <4> QED
        BY <4>1, <4>3
    <3> QED
      BY <3>1, <3>2, <3>3 DEF PersonTypes
  <2>5. MovesInv'
    <3> SUFFICES ASSUME NEW q \in People
                 PROVE  applied'[q] \in 0 .. Len(moves[q]) /\ repeated'[q] <= now
      BY <1>1, <2>1 DEF MovesInv
    <3>1. CASE q = p /\ Over(p, i)
      BY <1>1, <2>2, <2>3, <3>1 DEF MovesInv, PersonTypes, Over
    <3>2. CASE q # p \/ UNCHANGED <<applied, repeated>>
      BY <1>1, <2>1, <3>2 DEF MovesInv, PersonTypes, Over
    <3> QED
      BY <2>1, <3>1, <3>2
  <2>6. HistoryTold'
    <3> SUFFICES ASSUME NEW q \in People, inOrder'[q]
                 PROVE  Tells(q, cut', Spans(mem', q), moves[q], applied'[q], repeated'[q], midway'[q])
      BY <2>1 DEF HistoryTold
    <3>1. CASE q = p
      BY <1>3, <3>1, TellsStep
    <3>2. CASE q # p
      <4>1. /\ inOrder[q] /\ applied'[q] = applied[q] /\ repeated'[q] = repeated[q]
            /\ midway'[q] = midway[q] /\ (q \in cut' <=> q \in cut)
        BY <1>1, <2>1, <3>2 DEF PersonTypes, Over, Begins
      <4>2. Spans(mem', q) = Spans(mem, q)
        <5> DEFINE g == LeaveTeam(mem, p, moves[p][i])
        <5>1. moves[p][i] \in MoveRecords /\ neo \in NeoStores /\ Mirrors(neo, mem)
          BY <1>0, <1>1, <2>2, ElementOfSeq DEF GraphInv, GraphOK
        <5>2. \/ mem' = JoinTeam(g, p, moves[p][i]) \/ mem' = g
              \/ mem' = JoinTeam(mem, p, moves[p][i]) \/ mem' = mem
          BY <1>3 DEF HandleOrgChange, OrgChangeCloses, OrgChangeAdds, OrgChangeFails, graphVars
        <5>3. g \in ExactStores /\ Spans(g, q) = Spans(mem, q)
          BY <1>1, <3>2, <5>1, TransactionsKeep, LeaveSpans
        <5> HIDE DEF g
        <5>4. Spans(JoinTeam(g, p, moves[p][i]), q) = Spans(g, q)
          BY <1>1, <3>2, <5>1, <5>3, JoinSpans
        <5>5. Spans(JoinTeam(mem, p, moves[p][i]), q) = Spans(mem, q)
          BY <1>1, <3>2, <5>1, JoinSpans
        <5> QED
          BY <5>2, <5>3, <5>4, <5>5
      <4>3. Tells(q, cut, Spans(mem, q), moves[q], applied[q], repeated[q], midway[q])
        BY <1>1, <4>1 DEF HistoryTold
      <4>4. Tells(q, cut', Spans(mem, q), moves[q], applied[q], repeated[q], midway[q])
        BY <4>1, <4>3 DEF Tells
      <4> QED
        BY <4>1, <4>2, <4>4
    <3> QED
      BY <3>1, <3>2
  <2> QED
    BY <2>4, <2>5, <2>6
<1>4. ASSUME NEW p \in People, NEW team \in Teams \cup {NoTeam}, Move(p, team)
      PROVE  Quiet
  <2> DEFINE m == moves[p]
             current == IF m = <<>> THEN NoTeam ELSE m[Len(m)].to
             r == [time |-> now, from |-> current, to |-> team]
             n == Append(m, r)
  <2>1. /\ moves' = [moves EXCEPT ![p] = n]
        /\ UNCHANGED <<mem, now, applied, inOrder, repeated, midway, cut>>
    BY <1>4 DEF Move
  <2>2. m \in Seq(MoveRecords) /\ Len(m) \in Nat
    BY <1>1, LenProperties
  <2>3. r \in MoveRecords
    <3>1. m # <<>> => Len(m) \in 1 .. Len(m)
      BY <2>2, EmptySeq, LenProperties
    <3>2. current \in Teams \cup {NoTeam}
      BY <2>2, <3>1, MoveTypes
    <3> QED
      BY <1>1, <3>2 DEF MoveRecords
  <2>4. r.time = now /\ r.from = IF m = <<>> THEN NoTeam ELSE m[Len(m)].to
    OBVIOUS
  <2>5. /\ Chained(m) /\ applied[p] \in 0 .. Len(m)
        /\ \A i \in 1 .. Len(m) : m[i].time <= now
    BY <1>1 DEF MovesInv
  <2>6. \A q \in People : moves'[q] = IF q = p THEN n ELSE moves[q]
    BY <1>1, <2>1
  <2> HIDE DEF m, r, current
  <2>7. Chained(n)
    BY <2>2, <2>3, <2>4, <2>5, ChainedAppend
  <2>8. /\ Len(n) = Len(m) + 1 /\ n[Len(m) + 1] = r
        /\ \A i \in 1 .. Len(m) : n[i] = m[i]
    BY <2>2, <2>3, AppendProperties
  <2> HIDE DEF n
  <2>9. PersonTypes'
    BY <1>1, <2>1 DEF PersonTypes
  <2>10. MovesInv'
    <3> SUFFICES ASSUME NEW q \in People
                 PROVE  /\ Chained(moves'[q])
                        /\ \A i \in 1 .. Len(moves'[q]) : moves'[q][i].time <= now
                        /\ applied[q] \in 0 .. Len(moves'[q])
                        /\ repeated[q] <= now
      BY <2>1 DEF MovesInv
    <3>1. CASE q # p
      BY <1>1, <2>6, <3>1 DEF MovesInv
    <3>2. CASE q = p
      <4>1. moves'[q] = n
        BY <2>6, <3>2
      <4>2. \A i \in 1 .. Len(n) : n[i].time <= now
        <5> TAKE i \in 1 .. Len(n)
        <5>1. i \in 1 .. Len(m) \/ i = Len(m) + 1
          BY <2>2, <2>8
        <5>2. now <= now
          BY <1>1
        <5> QED
          BY <2>4, <2>5, <2>8, <5>1, <5>2
      <4>3. applied[q] \in 0 .. Len(n)
        BY <2>2, <2>5, <2>8, <3>2
      <4>4. repeated[q] <= now
        BY <1>1 DEF MovesInv
      <4> QED
        BY <2>7, <4>1, <4>2, <4>3, <4>4
    <3> QED
      BY <3>1, <3>2
  <2>11. HistoryTold'
    <3> SUFFICES ASSUME NEW q \in People, inOrder[q]
                 PROVE  Tells(q, cut, Spans(mem, q), moves'[q], applied[q], repeated[q], midway[q])
      BY <2>1 DEF HistoryTold
    <3>0. Tells(q, cut, Spans(mem, q), moves[q], applied[q], repeated[q], midway[q])
      BY <1>1 DEF HistoryTold
    <3>1. CASE q # p
      BY <2>6, <3>0, <3>1
    <3>2. CASE q = p
      <4>1. Tells(p, cut, Spans(mem, p), m, applied[p], repeated[p], midway[p])
        BY <3>0, <3>2 DEF m
      <4>2. Tells(p, cut, Spans(mem, p), Append(m, r), applied[p], repeated[p], midway[p])
        BY <2>2, <2>3, <2>5, <4>1, AppendTells
      <4> QED
        BY <2>6, <3>2, <4>2 DEF n
    <3> QED
      BY <3>1, <3>2
  <2> QED
    BY <2>9, <2>10, <2>11
<1>5. ASSUME NEW reset \in BOOLEAN, Bootstrap(reset)
      PROVE  Quiet
  <2>1. /\ UNCHANGED <<moves, applied, repeated, midway, now>>
        /\ inOrder' = [p \in People |-> FALSE]
    BY <1>5 DEF Bootstrap, Counted
  <2> QED
    BY <1>1, <2>1 DEF PersonTypes, MovesInv, HistoryTold
<1>6. ASSUME \/ \E job \in Jobs, t \in 0 .. now : Deployment(job, t)
             \/ \E n \in Resources : Billing(n)
             \/ \E k \in Keys, t \in 0 .. now : SetOwner(k, t)
      PROVE  Quiet
  <2>1. UNCHANGED <<moves, applied, inOrder, repeated, midway, cut, now>>
    BY <1>6 DEF Deployment, Billing, SetOwner, Handled, Counted, hrVars
  <2>2. \A q \in People : Spans(mem', q) = Spans(mem, q)
    BY <1>0, <1>6, OtherSpans
  <2>3. now' \in Nat /\ now' >= now
    BY <1>1, <2>1
  <2> QED
    BY <1>2, <2>1, <2>2, <2>3
<1>7. ASSUME \/ Tick \/ BootstrapEntries \/ UNCHANGED vars
             \/ \E w \in Workloads : InferenceCached(w)
             \/ \E w \in Workloads, t \in 0 .. now : InferenceResolved(w, t)
             \/ \E m \in Methods : Correction(m)
             \/ \E p \in Policies : RegisterPolicy(p) \/ RemovePolicy(p.id)
      PROVE  Quiet
  <2>1. UNCHANGED <<mem, moves, applied, inOrder, repeated, midway, cut>> /\ now' \in {now, now + 1}
    BY <1>7 DEF Tick, BootstrapEntries, InferenceCached, InferenceResolved, Correction,
       RegisterPolicy, RemovePolicy, Handled, Counted, graphVars, hrVars, vars
  <2>2. now' \in Nat /\ now' >= now
    BY <1>1, <2>1
  <2>3. \A q \in People : Spans(mem', q) = Spans(mem, q)
    BY <2>1
  <2> QED
    BY <1>2, <2>1, <2>2, <2>3
<1> HIDE DEF Quiet
<1>8. Quiet
  BY <1>3, <1>4, <1>5, <1>6, <1>7 DEF Next, StructureNext, ServingNext, SharedNext
<1> QED
  BY <1>0, <1>8 DEF HistoryInv, Quiet

\* MembershipIsHistory (core/processor.py, _handle_org_change; graph/store.py): for
\* any people, teams and moves, delivered late and any number of times but in order,
\* the graph tells no team of a person that the moves do not give, not between the two
\* transactions of a move either nor after the second one failed, and without a failure
\* it tells the team they give; after repetitions, the former from the last one on.
THEOREM MembershipTold == Spec => []MembershipIsHistory
<1>1. HistoryInv => MembershipIsHistory
  <2> SUFFICES ASSUME HistoryInv, NEW p \in People, NEW t \in 0 .. MaxTime, inOrder[p]
               PROVE  /\ t >= repeated[p] => MemberOf(p, t) \subseteq HistoryTeam(p, t)
                      /\ midway[p] = {} /\ p \notin cut => HistoryTeam(p, t) \subseteq MemberOf(p, t)
    BY DEF MembershipIsHistory
  <2> DEFINE m == moves[p]
  <2>1. t \in Nat /\ mem \in ExactStores /\ m \in Seq(MoveRecords)
    BY AttributionAssumption DEF HistoryInv, GraphInv, GraphOK, Clocked
  <2>2. MemberOf(p, t) = Members(Spans(mem, p), t)
    BY <2>1, MemberOfSpans
  <2>3. HistoryTeam(p, t) = Past(m, applied[p], t)
    BY DEF HistoryTeam, Past
  <2>4. PICK S \in SUBSET SpanRecords :
           /\ Told(S, m, applied[p], repeated[p])
           /\ p \notin cut => Whole(S, m, applied[p])
           /\ \/ midway[p] = {} /\ Spans(mem, p) = S
              \/ \E i \in 1 .. Len(m) : midway[p] = {i} /\ Spans(mem, p) = Closed(S, m[i])
    BY DEF HistoryInv, HistoryTold, Tells
  <2>5. Members(Spans(mem, p), t) \subseteq Members(S, t)
    <3>1. \A i \in 1 .. Len(m) : m[i] \in MoveRecords
      BY <2>1, ElementOfSeq
    <3> QED
      BY <2>1, <2>4, <3>1, ClosedFewer
  <2>6. t >= repeated[p] => Members(S, t) \subseteq Past(m, applied[p], t)
    BY <2>1, <2>4 DEF Told
  <2>7. midway[p] = {} /\ p \notin cut => Past(m, applied[p], t) \subseteq Members(Spans(mem, p), t)
    BY <2>1, <2>4 DEF Whole
  <2> QED
    BY <2>2, <2>3, <2>5, <2>6, <2>7
<1> QED
  BY <1>1, InitHistory, HistoryStep, PTL DEF Spec

-----------------------------------------------------------------------------
(* Reconciliation: numbers.                                                *)

\* A set of positions with bounded integer values has a first of the largest.
LEMMA FirstOfLargest ==
  ASSUME NEW S \in SUBSET Nat, S # {}, NEW f \in [S -> Int], NEW b \in Int,
         \A i \in S : f[i] <= b
  PROVE  \E i \in S : \A j \in S : f[i] > f[j] \/ (f[i] = f[j] /\ i <= j)
<1> DEFINE T == {b - f[i] : i \in S}
<1>1. T \in SUBSET Nat /\ T # {}
  <2>1. \A i \in S : b - f[i] \in Nat
    OBVIOUS
  <2> QED
    BY <2>1
<1>2. PICK x \in T : \A y \in T : x <= y
  <2> HIDE DEF T
  <2> QED
    BY <1>1, LeastNumber
<1> DEFINE U == {i \in S : f[i] = b - x}
<1>3. x \in Int /\ \A i \in S : f[i] \in Int /\ f[i] <= b - x
  <2>1. x \in Int
    BY <1>1, <1>2
  <2>2. \A i \in S : f[i] \in Int /\ x <= b - f[i]
    BY <1>2
  <2> QED
    BY <2>1, <2>2
<1>4. U \in SUBSET Nat /\ U # {}
  <2>1. PICK i \in S : x = b - f[i]
    BY <1>2
  <2>2. f[i] = b - x
    BY <1>3, <2>1
  <2> QED
    BY <2>2
<1>5. PICK i \in U : \A j \in U : i <= j
  <2> HIDE DEF U
  <2> QED
    BY <1>4, LeastNumber
<1>6. i \in S /\ f[i] = b - x
  BY <1>5
<1>7. ASSUME NEW j \in S PROVE f[i] > f[j] \/ (f[i] = f[j] /\ i <= j)
  BY <1>3, <1>5, <1>6
<1> QED
  BY <1>6, <1>7

LEMMA MinPair ==
  ASSUME NEW a \in Int, NEW b \in Int
  PROVE  Min({a, b}) = IF a <= b THEN a ELSE b
  BY DEF Min

LEMMA MaxPair ==
  ASSUME NEW a \in Int, NEW b \in Int
  PROVE  Max({a, b}) = IF a >= b THEN a ELSE b
  BY DEF Max

LEMMA MinCap ==
  ASSUME NEW k \in Nat, NEW a \in Nat
  PROVE  Min({k, a}) \in Nat /\ Min({k, a}) <= k
<1>1. Min({k, a}) = IF k <= a THEN k ELSE a
  BY MinPair
<1> QED
  BY <1>1

LEMMA MinOfNat ==
  ASSUME NEW S \in SUBSET Nat, S # {}
  PROVE  Min(S) \in S /\ \A y \in S : Min(S) <= y
  BY LeastNumber DEF Min

LEMMA MaxOfBounded ==
  ASSUME NEW S \in SUBSET Int, S # {}, NEW b \in Int, \A x \in S : x <= b
  PROVE  Max(S) \in S /\ \A y \in S : Max(S) >= y
<1> DEFINE T == {b - x : x \in S}
<1>1. T \in SUBSET Nat /\ T # {}
  <2>1. \A x \in S : b - x \in Nat
    OBVIOUS
  <2> QED
    BY <2>1
<1>2. PICK t \in T : \A y \in T : t <= y
  <2> HIDE DEF T
  <2> QED
    BY <1>1, LeastNumber
<1>3. PICK x \in S : t = b - x
  BY <1>2
<1>4. \A y \in S : x >= y
  <2>1. \A y \in S : b - x <= b - y
    BY <1>2, <1>3
  <2> QED
    BY <2>1
<1> QED
  BY <1>4 DEF Max

LEMMA RoundedNat ==
  ASSUME NEW n \in Nat, NEW d \in Nat, d > 0
  PROVE  Rounded(n, d) \in Nat
  BY DEF Rounded

\* max, over positions with bounded values.
LEMMA FirstMaxFacts ==
  ASSUME NEW S \in SUBSET Nat, S # {}, NEW f \in [S -> Int], NEW b \in Int,
         \A i \in S : f[i] <= b
  PROVE  FirstMax(f) \in S /\ \A j \in S : f[j] <= f[FirstMax(f)]
<1>1. DOMAIN f = S
  OBVIOUS
<1>2. \E i \in S : \A j \in S : f[j] < f[i] \/ (f[j] = f[i] /\ i <= j)
  <2>1. PICK i \in S : \A j \in S : f[i] > f[j] \/ (f[i] = f[j] /\ i <= j)
    BY FirstOfLargest
  <2> QED
    BY <2>1
<1> DEFINE m == CHOOSE i \in S : \A j \in S : f[j] < f[i] \/ (f[j] = f[i] /\ i <= j)
<1>3. m \in S /\ \A j \in S : f[j] < f[m] \/ (f[j] = f[m] /\ m <= j)
  BY <1>2
<1>4. FirstMax(f) = m
  BY <1>1 DEF FirstMax
<1> HIDE DEF m
<1>5. \A j \in S : f[j] \in Int /\ f[m] \in Int
  BY <1>3
<1> QED
  BY <1>3, <1>4, <1>5

-----------------------------------------------------------------------------
(* Reconciliation: sums.                                                   *)

\* The function that MapThenSumSet takes its value from.
SumsUp(f, S, sum) ==
    sum = [T \in SUBSET S |-> IF T = {} THEN 0
                              ELSE f[CHOOSE x \in T : TRUE] + sum[T \ {CHOOSE x \in T : TRUE}]]

LEMMA TotalIs ==
  ASSUME NEW f, NEW S
  PROVE  Total(f, S) = (CHOOSE sum : SumsUp(f, S, sum))[S]
  BY DEF Total, MapThenSumSet, MapThenFoldSet, SumsUp

\* Taking the chosen element out of a finite set.
LEMMA Smaller ==
  ASSUME NEW S, IsFiniteSet(S), NEW T \in SUBSET S, T # {}
  PROVE  /\ (CHOOSE x \in T : TRUE) \in T
         /\ T \ {CHOOSE x \in T : TRUE} \in SUBSET S
         /\ Cardinality(T) \in Nat
         /\ Cardinality(T \ {CHOOSE x \in T : TRUE}) = Cardinality(T) - 1
<1>1. (CHOOSE x \in T : TRUE) \in T
  OBVIOUS
<1>2. IsFiniteSet(T)
  BY FS_Subset
<1>3. Cardinality(T \ {CHOOSE x \in T : TRUE}) = Cardinality(T) - 1
  BY <1>1, <1>2, FS_RemoveElement
<1> QED
  BY <1>1, <1>2, <1>3, FS_CardinalityType

\* Applying the defining equation often enough to any function reaches a fixed
\* point: after n applications the sums of fewer than n elements are settled.
LEMMA SumExists ==
  ASSUME NEW S, IsFiniteSet(S), NEW f, \A x \in S : f[x] \in Nat
  PROVE  \E sum : SumsUp(f, S, sum)
<1> DEFINE ch(T) == CHOOSE x \in T : TRUE
           V == [SUBSET S -> Nat]
           st == [g \in V |-> [T \in SUBSET S |-> IF T = {} THEN 0 ELSE f[ch(T)] + g[T \ {ch(T)}]]]
           N == Cardinality(S) + 1
           base == [T \in SUBSET S |-> 0]
<1>1. N \in Nat /\ Cardinality(S) \in Nat
  BY FS_CardinalityType
<1>2. ASSUME NEW T \in SUBSET S, T # {}
      PROVE  /\ ch(T) \in S /\ T \ {ch(T)} \in SUBSET S /\ Cardinality(T) \in Nat
             /\ Cardinality(T \ {ch(T)}) = Cardinality(T) - 1 /\ f[ch(T)] \in Nat
  <2>1. /\ ch(T) \in T /\ T \ {ch(T)} \in SUBSET S /\ Cardinality(T) \in Nat
        /\ Cardinality(T \ {ch(T)}) = Cardinality(T) - 1
    BY <1>2, Smaller
  <2> HIDE DEF ch
  <2> QED
    BY <2>1
<1> HIDE DEF ch
<1>3. ASSUME NEW g \in V
      PROVE  /\ st[g] \in V /\ st[g][{}] = 0
             /\ \A T \in SUBSET S : T # {} => st[g][T] = f[ch(T)] + g[T \ {ch(T)}]
  <2>1. ASSUME NEW T \in SUBSET S
        PROVE  (IF T = {} THEN 0 ELSE f[ch(T)] + g[T \ {ch(T)}]) \in Nat
    <3>1. CASE T = {}
      BY <3>1
    <3>2. CASE T # {}
      <4>1. f[ch(T)] \in Nat /\ T \ {ch(T)} \in SUBSET S
        BY <1>2, <3>2
      <4>2. g[T \ {ch(T)}] \in Nat
        BY <4>1
      <4> QED
        BY <3>2, <4>1, <4>2
    <3> QED
      BY <3>1, <3>2
  <2> QED
    BY <2>1
<1>4. st \in [V -> V] /\ base \in V
  <2>1. st = [g \in V |-> st[g]]
    OBVIOUS
  <2>2. \A g \in V : st[g] \in V
    BY <1>3
  <2> HIDE DEF V, st
  <2>3. st \in [V -> V]
    BY <2>1, <2>2
  <2> QED
    BY <2>3 DEF V
<1> HIDE DEF st, V, base, N
<1> DEFINE step == [n \in 1 .. N |-> st]
<1>5. PICK c : Chain(c, V, N, base, step)
  <2>1. step \in [1 .. N -> [V -> V]]
    BY <1>4
  <2> HIDE DEF step
  <2> QED
    BY <1>1, <1>4, <2>1, Iteration
<1>6. /\ \A n \in 0 .. N : c[n] \in V
      /\ \A n \in 1 .. N : c[n] = st[c[n - 1]]
  BY <1>5 DEF Chain
<1> DEFINE P == {n \in 0 .. N : \A T \in SUBSET S : Cardinality(T) < n => st[c[n]][T] = c[n][T]}
<1>7. 0 \in P
  <2>1. \A T \in SUBSET S : ~(Cardinality(T) < 0)
    <3> TAKE T \in SUBSET S
    <3>1. Cardinality(T) \in Nat
      BY FS_Subset, FS_CardinalityType
    <3> QED
      BY <3>1
  <2> QED
    BY <1>1, <2>1
<1>8. ASSUME NEW n \in 1 .. N, n - 1 \in P PROVE n \in P
  <2>1. n \in 0 .. N /\ n - 1 \in 0 .. N /\ n \in Nat
    BY <1>1
  <2>2. c[n] \in V /\ c[n - 1] \in V /\ c[n] = st[c[n - 1]]
    BY <1>6, <2>1
  <2>3. ASSUME NEW T \in SUBSET S, Cardinality(T) < n PROVE st[c[n]][T] = c[n][T]
    <3>1. CASE T = {}
      BY <1>3, <2>2, <3>1
    <3>2. CASE T # {}
      <4> DEFINE R == T \ {ch(T)}
      <4>1. /\ R \in SUBSET S /\ Cardinality(R) = Cardinality(T) - 1 /\ Cardinality(T) \in Nat
        BY <1>2, <3>2
      <4>2. st[c[n]][T] = f[ch(T)] + c[n][R] /\ st[c[n - 1]][T] = f[ch(T)] + c[n - 1][R]
        BY <1>3, <2>2, <3>2
      <4> HIDE DEF R
      <4>3. Cardinality(R) < n - 1
        BY <2>1, <2>3, <4>1
      <4>4. st[c[n - 1]][R] = c[n - 1][R]
        BY <1>8, <4>1, <4>3
      <4> QED
        BY <2>2, <4>2, <4>4
    <3> QED
      BY <3>1, <3>2
  <2> QED
    BY <2>1, <2>3
<1>9. N \in P
  <2> HIDE DEF P
  <2> QED
    BY <1>1, <1>7, <1>8, ChainEnd
<1>10. ASSUME NEW T \in SUBSET S PROVE st[c[N]][T] = c[N][T]
  <2>1. Cardinality(T) \in Nat /\ Cardinality(T) <= Cardinality(S)
    BY FS_Subset, FS_CardinalityType
  <2>2. Cardinality(T) < N
    BY <1>1, <2>1 DEF N
  <2> QED
    BY <1>9, <2>2
<1>11. c[N] \in V /\ st[c[N]] \in V
  BY <1>1, <1>4, <1>6
<1>12. c[N] = [T \in SUBSET S |-> IF T = {} THEN 0 ELSE f[ch(T)] + c[N][T \ {ch(T)}]]
  <2>1. ASSUME NEW T \in SUBSET S
        PROVE  c[N][T] = IF T = {} THEN 0 ELSE f[ch(T)] + c[N][T \ {ch(T)}]
    BY <1>3, <1>10, <1>11
  <2>2. c[N] = [T \in SUBSET S |-> c[N][T]]
    BY <1>11 DEF V
  <2> QED
    BY <2>1, <2>2
<1> QED
  BY <1>12 DEF SumsUp, ch

\* A sum of naturals is a natural, and positive if they are and there is one.
LEMMA TotalFacts ==
  ASSUME NEW S, IsFiniteSet(S), NEW f, \A x \in S : f[x] \in Nat
  PROVE  /\ Total(f, S) \in Nat
         /\ S # {} /\ (\A x \in S : f[x] > 0) => Total(f, S) > 0
<1> DEFINE sum == CHOOSE sum : SumsUp(f, S, sum)
           ch(T) == CHOOSE x \in T : TRUE
           N == Cardinality(S)
           Good(T) == sum[T] \in Nat /\ (T # {} /\ (\A x \in S : f[x] > 0) => sum[T] > 0)
           P == {n \in 0 .. N : \A T \in SUBSET S : Cardinality(T) <= n => Good(T)}
<1>1. SumsUp(f, S, sum)
  BY SumExists
<1>2. Total(f, S) = sum[S]
  BY TotalIs
<1> HIDE DEF sum
<1>3. ASSUME NEW T \in SUBSET S
      PROVE  sum[T] = IF T = {} THEN 0 ELSE f[ch(T)] + sum[T \ {ch(T)}]
  BY <1>1 DEF SumsUp
<1>4. ASSUME NEW T \in SUBSET S, T # {}
      PROVE  /\ ch(T) \in S /\ T \ {ch(T)} \in SUBSET S /\ Cardinality(T) \in Nat
             /\ Cardinality(T \ {ch(T)}) = Cardinality(T) - 1 /\ f[ch(T)] \in Nat
  <2>1. /\ ch(T) \in T /\ T \ {ch(T)} \in SUBSET S /\ Cardinality(T) \in Nat
        /\ Cardinality(T \ {ch(T)}) = Cardinality(T) - 1
    BY <1>4, Smaller
  <2> HIDE DEF ch
  <2> QED
    BY <2>1
<1> HIDE DEF ch
<1>5. N \in Nat
  BY FS_CardinalityType
<1>6. Good({})
  <2>1. {} \in SUBSET S
    OBVIOUS
  <2>2. sum[{}] = 0
    BY <1>3, <2>1
  <2> QED
    BY <2>2
<1>7. 0 \in P
  <2>1. ASSUME NEW T \in SUBSET S, Cardinality(T) <= 0 PROVE T = {}
    BY <1>4, <2>1, FS_Subset, FS_EmptySet, FS_CardinalityType
  <2> HIDE DEF Good
  <2>2. \A T \in SUBSET S : Cardinality(T) <= 0 => Good(T)
    BY <1>6, <2>1
  <2> QED
    BY <1>5, <2>2
<1>8. ASSUME NEW n \in 1 .. N, n - 1 \in P PROVE n \in P
  <2>1. ASSUME NEW T \in SUBSET S, Cardinality(T) <= n PROVE Good(T)
    <3>1. CASE T = {}
      BY <1>6, <3>1
    <3>2. CASE T # {}
      <4> DEFINE R == T \ {ch(T)}
      <4>1. /\ ch(T) \in S /\ R \in SUBSET S /\ Cardinality(R) = Cardinality(T) - 1
            /\ Cardinality(T) \in Nat /\ f[ch(T)] \in Nat /\ sum[T] = f[ch(T)] + sum[R]
        BY <1>3, <1>4, <3>2
      <4> HIDE DEF R
      <4>2. Cardinality(R) <= n - 1
        BY <2>1, <4>1
      <4>3. sum[R] \in Nat
        BY <1>8, <4>1, <4>2
      <4> QED
        BY <4>1, <4>3
    <3> QED
      BY <3>1, <3>2
  <2> HIDE DEF Good
  <2> QED
    BY <1>5, <2>1
<1>9. N \in P
  <2> HIDE DEF P
  <2> QED
    BY <1>5, <1>7, <1>8, ChainEnd
<1>10. Good(S)
  <2> HIDE DEF Good
  <2> QED
    BY <1>5, <1>9
<1> QED
  BY <1>2, <1>10

-----------------------------------------------------------------------------
(* Reconciliation: calibration.                                            *)

\* What _interpolate does in the segment it finds, the first that reaches the value.
SegmentValue(c, i, v) ==
    10 * c[i][2] + ((v - 10 * c[i][1]) * (c[i + 1][2] - c[i][2])) \div (c[i + 1][1] - c[i][1])

\* A value below the n-th point of a curve is interpolated in the first segment
\* that reaches it.
LEMMA Segment ==
  ASSUME NEW c, Len(c) = 6, NEW v \in Int, NEW n \in 2 .. 6, v <= 10 * c[n][1]
  PROVE  \E i \in 1 .. n - 1 : /\ v <= 10 * c[i + 1][1]
                               /\ Interpolate(c, v) = SegmentValue(c, i, v)
                               /\ \A j \in 1 .. i - 1 : ~(v <= 10 * c[j + 1][1])
<1> DEFINE S == {i \in 1 .. Len(c) - 1 : v <= 10 * c[i + 1][1]}
           m == Min(S)
<1>1. S \in SUBSET Nat /\ n - 1 \in S /\ \A i \in S : i \in 1 .. 5 /\ v <= 10 * c[i + 1][1]
  OBVIOUS
<1>2. \A i \in 1 .. 5 : v <= 10 * c[i + 1][1] => i \in S
  OBVIOUS
<1>3. Interpolate(c, v) = SegmentValue(c, m, v)
  BY DEF Interpolate, SegmentValue
<1> HIDE DEF S
<1>4. m \in S /\ \A y \in S : m <= y
  BY <1>1, MinOfNat
<1> HIDE DEF m
<1>5. m \in 1 .. n - 1 /\ v <= 10 * c[m + 1][1]
  BY <1>1, <1>4
<1>6. ASSUME NEW j \in 1 .. m - 1 PROVE ~(v <= 10 * c[j + 1][1])
  BY <1>1, <1>2, <1>4, <1>5
<1> QED
  BY <1>3, <1>5, <1>6

\* A proportional share, at most 0.65 raw, is calibrated below the provisional tier.
LEMMA ShareIsEstimate ==
  ASSUME NEW v \in Nat, v <= 6500, NEW fits, "R6" \notin DOMAIN fits
  PROVE  Tier(Calibrate(fits, "R6", v)) = "estimated"
<1> DEFINE c == <<<<0, 0>>, <<300, 120>>, <<500, 250>>, <<700, 400>>, <<900, 580>>, <<1000, 650>>>>
<1>1. Calibrate(fits, "R6", v) = Interpolate(c, v)
  BY DEF Calibrate, WarmStart
<1>2. /\ Len(c) = 6
      /\ c[1] = <<0, 0>> /\ c[2] = <<300, 120>> /\ c[3] = <<500, 250>> /\ c[4] = <<700, 400>>
  OBVIOUS
<1> HIDE DEF c
<1>3. 4 \in 2 .. 6 /\ v <= 10 * c[4][1]
  <2>1. c[4][1] = 700
    BY <1>2
  <2> QED
    BY <2>1
<1>4. PICK i \in 1 .. 4 - 1 : /\ v <= 10 * c[i + 1][1]
                          /\ Interpolate(c, v) = SegmentValue(c, i, v)
                          /\ \A j \in 1 .. i - 1 : ~(v <= 10 * c[j + 1][1])
  BY <1>2, <1>3, Segment
<1>5. SegmentValue(c, i, v) \in Int /\ SegmentValue(c, i, v) < 5000
  <2>1. CASE i = 1
    <3>1. SegmentValue(c, 1, v) = 0 + (v * 120) \div 300 /\ v <= 3000
      BY <1>2, <1>4, <2>1 DEF SegmentValue
    <3> QED
      BY <2>1, <3>1
  <2>2. CASE i = 2
    <3>1. SegmentValue(c, 2, v) = 1200 + ((v - 3000) * 130) \div 200 /\ v <= 5000
      BY <1>2, <1>4, <2>2 DEF SegmentValue
    <3> QED
      BY <2>2, <3>1
  <2>3. CASE i = 3
    <3>1. SegmentValue(c, 3, v) = 2500 + ((v - 5000) * 150) \div 200
      BY <1>2, <1>4, <2>3 DEF SegmentValue
    <3>2. (v - 5000) * 150 \in Int /\ (v - 5000) * 150 <= 225000
      OBVIOUS
    <3>3. \A x \in Int : x <= 225000 => x \div 200 \in Int /\ x \div 200 <= 1125
      OBVIOUS
    <3> QED
      BY <2>3, <3>1, <3>2, <3>3
  <2> QED
    BY <2>1, <2>2, <2>3
<1> QED
  BY <1>1, <1>4, <1>5 DEF Tier, Chargeback, Provisional

\* An owner found by R5 alone, at most 0.75 raw, is calibrated below chargeback.
LEMMA OwnerNotChargeback ==
  ASSUME NEW v \in Nat, v <= 7500, NEW fits, "R5" \notin DOMAIN fits
  PROVE  Tier(Calibrate(fits, "R5", v)) # "chargeback_ready"
<1> DEFINE c == <<<<0, 0>>, <<300, 150>>, <<500, 300>>, <<700, 480>>, <<900, 680>>, <<1000, 750>>>>
<1>1. Calibrate(fits, "R5", v) = Interpolate(c, v)
  BY DEF Calibrate, WarmStart
<1>2. /\ Len(c) = 6 /\ c[1] = <<0, 0>> /\ c[2] = <<300, 150>> /\ c[3] = <<500, 300>>
      /\ c[4] = <<700, 480>> /\ c[5] = <<900, 680>>
  OBVIOUS
<1> HIDE DEF c
<1>3. 5 \in 2 .. 6 /\ v <= 10 * c[5][1]
  BY <1>2
<1>4. PICK i \in 1 .. 5 - 1 : /\ v <= 10 * c[i + 1][1]
                          /\ Interpolate(c, v) = SegmentValue(c, i, v)
                          /\ \A j \in 1 .. i - 1 : ~(v <= 10 * c[j + 1][1])
  BY <1>2, <1>3, Segment
<1>5. SegmentValue(c, i, v) \in Int /\ SegmentValue(c, i, v) < 8000
  <2>1. CASE i = 1
    <3>1. SegmentValue(c, 1, v) = 0 + (v * 150) \div 300 /\ v <= 3000
      BY <1>2, <1>4, <2>1 DEF SegmentValue
    <3> QED
      BY <2>1, <3>1
  <2>2. CASE i = 2
    <3>1. SegmentValue(c, 2, v) = 1500 + ((v - 3000) * 150) \div 200 /\ v <= 5000
      BY <1>2, <1>4, <2>2 DEF SegmentValue
    <3> QED
      BY <2>2, <3>1
  <2>3. CASE i = 3
    <3>1. SegmentValue(c, 3, v) = 3000 + ((v - 5000) * 180) \div 200 /\ v <= 7000
      BY <1>2, <1>4, <2>3 DEF SegmentValue
    <3> QED
      BY <2>3, <3>1
  <2>4. CASE i = 4
    <3>1. SegmentValue(c, 4, v) = 4800 + ((v - 7000) * 200) \div 200
      BY <1>2, <1>4, <2>4 DEF SegmentValue
    <3>2. (v - 7000) * 200 \in Int /\ (v - 7000) * 200 <= 100000
      OBVIOUS
    <3>3. \A x \in Int : x <= 100000 => x \div 200 \in Int /\ x \div 200 <= 500
      OBVIOUS
    <3> QED
      BY <2>4, <3>1, <3>2, <3>3
  <2> QED
    BY <2>1, <2>2, <2>3, <2>4
<1> QED
  BY <1>1, <1>4, <1>5 DEF Tier, Chargeback, Provisional

-----------------------------------------------------------------------------
(* Reconciliation: what the methods return.                                *)

LEMMA ImageFinite ==
  ASSUME NEW S, IsFiniteSet(S), NEW f
  PROVE  IsFiniteSet({f[x] : x \in S})
<1> DEFINE T == {f[x] : x \in S}
           g == [x \in S |-> f[x]]
<1>1. g \in Surjection(S, T)
  BY DEF Surjection
<1> HIDE DEF g
<1> QED
  BY <1>1, FS_Surjection

\* The parts of a context, with their types.
EventRec == [delta : Nat, target : STRING]

NameRec == [target : STRING, ratio : 0 .. 1000, contained : BOOLEAN, overlap : 0 .. 1000]

PastRec == [target : STRING, conf : Nat]

UserRec == [target : STRING, age : Int]

\* The parts of a context, by the names of their records.
LEMMA ContextParts ==
  ASSUME NEW c \in Contexts
  PROVE  /\ c.events \in Seq(EventRec) /\ c.names \in Seq(NameRec)
         /\ c.history \in Seq(PastRec) /\ c.users \in Seq(UserRec) /\ c.code \in Seq(STRING)
         /\ IsFiniteSet(DOMAIN c.shares) /\ c.shares \in [DOMAIN c.shares -> Nat]
  BY ReconciliationAssumption DEF EventRec, NameRec, PastRec, UserRec

\* The positions of a sequence, and how many of them are picked.
LEMMA Positions ==
  ASSUME NEW V, NEW s \in Seq(V), NEW I \in SUBSET DOMAIN s
  PROVE  /\ IsFiniteSet(I) /\ I \in SUBSET Nat /\ Cardinality(I) \in Nat
         /\ I # {} => Cardinality(I) >= 1
<1>1. DOMAIN s = 1 .. Len(s) /\ Len(s) \in Nat
  OBVIOUS
<1>2. IsFiniteSet(I)
  <2>1. IsFiniteSet(1 .. Len(s))
    BY <1>1, FS_Interval
  <2> QED
    BY <1>1, <2>1, FS_Subset
<1>3. Cardinality(I) \in Nat /\ (Cardinality(I) = 0 <=> I = {})
  BY <1>2, FS_CardinalityType, FS_EmptySet
<1> QED
  BY <1>1, <1>2, <1>3

\* The events R2 considers, its base confidence, and what it returns.
Near(c) == {i \in DOMAIN c.events : c.events[i].delta <= MaxWindow}

Nearest(c) == FirstMax([i \in Near(c) |-> -c.events[i].delta])

BaseConf(d) == Max({400 * MaxWindow, 1000 * (MaxWindow - d)})

NearConf(d, K) ==
    IF K = 1 THEN BaseConf(d) ELSE Max({300 * MaxWindow, BaseConf(d) - 150 * MaxWindow * (K - 1)})

\* The confidence R2 gives to K events of which the nearest is d seconds away.
LEMMA NearConfBound ==
  ASSUME NEW d \in Nat, d <= 300, NEW K \in Nat, K >= 1
  PROVE  Rounded(NearConf(d, K), MaxWindow) \in Nat /\ Rounded(NearConf(d, K), MaxWindow) <= 1000
<1> DEFINE base == BaseConf(d)
           conf == NearConf(d, K)
<1>1. base \in Nat /\ base <= 300000
  <2>1. base = Max({400 * 300, 1000 * (300 - d)})
    BY SMT DEF BaseConf, MaxWindow
  <2>2. 400 * 300 \in Int /\ 1000 * (300 - d) \in Int
    BY SMT
  <2>3. base = IF 400 * 300 >= 1000 * (300 - d) THEN 400 * 300 ELSE 1000 * (300 - d)
    BY <2>1, <2>2, MaxPair, SMT
  <2> HIDE DEF base
  <2> QED
    BY <2>3, SMT
<1>2. conf = IF K = 1 THEN base ELSE Max({300 * 300, base - 150 * 300 * (K - 1)})
  BY SMT DEF NearConf, MaxWindow
<1> HIDE DEF base, conf
<1>3. /\ 300 * 300 \in Int /\ base - 150 * 300 * (K - 1) \in Int
      /\ base - 150 * 300 * (K - 1) <= 300000
  BY <1>1, SMT
<1>4. conf \in Nat /\ conf <= 300000
  <2>1. Max({300 * 300, base - 150 * 300 * (K - 1)})
          = IF 300 * 300 >= base - 150 * 300 * (K - 1) THEN 300 * 300 ELSE base - 150 * 300 * (K - 1)
    BY <1>3, MaxPair, SMT
  <2> QED
    BY <1>1, <1>2, <1>3, <2>1, SMT
<1>5. Rounded(conf, MaxWindow) \in Nat /\ Rounded(conf, MaxWindow) <= 1000
  <2>1. Rounded(conf, MaxWindow) = (2 * conf + 300) \div (2 * 300)
    BY SMT DEF Rounded, MaxWindow
  <2> QED
    BY <1>4, <2>1, SMT
<1> QED
  BY <1>5 DEF conf

LEMMA R2Is ==
  ASSUME NEW c, NEW x \in R2(c)
  PROVE  /\ Near(c) # {}
         /\ x = Signal("R2", c.events[Nearest(c)].target,
                       Rounded(NearConf(c.events[Nearest(c)].delta, Cardinality(Near(c))), MaxWindow))
  BY DEF R2, Near, Nearest, NearConf, BaseConf

\* R2 to R4 return confidences of at most 1, R5 of at most 0.75.
LEMMA R2Facts ==
  ASSUME NEW c \in Contexts, NEW x \in R2(c)
  PROVE  x.method = "R2" /\ x.conf \in Nat /\ x.conf <= 1000
<1> DEFINE f == [i \in Near(c) |-> -c.events[i].delta]
<1>1. Near(c) # {}
  BY R2Is
<1>2. c.events \in Seq(EventRec)
  BY ContextParts
<1>3. /\ Near(c) \in SUBSET DOMAIN c.events
      /\ \A i \in Near(c) : c.events[i].delta \in Nat /\ c.events[i].delta <= 300
  <2>1. Near(c) \in SUBSET DOMAIN c.events
    BY DEF Near
  <2>2. ASSUME NEW i \in Near(c) PROVE c.events[i].delta \in Nat /\ c.events[i].delta <= 300
    <3>1. i \in DOMAIN c.events /\ c.events[i].delta <= 300
      BY DEF Near, MaxWindow
    <3>2. c.events[i] \in EventRec
      BY <1>2, <3>1
    <3> QED
      BY <3>1, <3>2 DEF EventRec
  <2> QED
    BY <2>1, <2>2
<1>4. Near(c) \in SUBSET Nat /\ Cardinality(Near(c)) \in Nat /\ Cardinality(Near(c)) >= 1
  BY <1>1, <1>2, <1>3, Positions
<1>5. f \in [Near(c) -> Int] /\ \A i \in Near(c) : f[i] <= 0
  <2>1. ASSUME NEW i \in Near(c) PROVE -c.events[i].delta \in Int /\ -c.events[i].delta <= 0
    <3>1. c.events[i].delta \in Nat /\ c.events[i].delta <= 300
      BY <1>3
    <3>2. \A d \in Nat : d <= 300 => -d \in Int /\ -d <= 0
      OBVIOUS
    <3> QED
      BY <3>1, <3>2
  <2> QED
    BY <2>1
<1>6. Nearest(c) = FirstMax(f)
  BY DEF Nearest
<1> HIDE DEF f
<1>7. Nearest(c) \in Near(c)
  BY <1>1, <1>4, <1>5, <1>6, FirstMaxFacts
<1>8. c.events[Nearest(c)].delta \in Nat /\ c.events[Nearest(c)].delta <= 300
  BY <1>3, <1>7
<1> DEFINE r == Rounded(NearConf(c.events[Nearest(c)].delta, Cardinality(Near(c))), MaxWindow)
<1>9. r \in Nat /\ r <= 1000
  BY <1>4, <1>8, NearConfBound
<1>10. x = Signal("R2", c.events[Nearest(c)].target, r)
  BY R2Is
<1> HIDE DEF r
<1> QED
  BY <1>9, <1>10 DEF Signal

LEMMA SimilarityBound ==
  ASSUME NEW n \in NameRec
  PROVE  Similarity(n) \in Nat /\ Similarity(n) <= 1000
<1> DEFINE with == IF n.contained THEN Min({1000, n.ratio + 150}) ELSE n.ratio
           extra == Rounded(n.overlap, 10)
<1>1. n.ratio \in Nat /\ n.overlap \in Nat
  <2> DEFINE one == 1000
  <2>1. n.ratio \in 0 .. one /\ n.overlap \in 0 .. one
    BY DEF NameRec
  <2> HIDE DEF one
  <2> QED
    BY <2>1
<1>2. Similarity(n) = Min({1000, with + extra})
  BY DEF Similarity
<1>3. with \in Nat
  <2> DEFINE a == 1000
             r == n.ratio
             b == r + 150
  <2>1. a \in Nat /\ b \in Nat /\ r \in Nat
    <3>1. r \in Nat
      BY <1>1
    <3> HIDE DEF r
    <3> QED
      BY <3>1, SMT
  <2>2. with = IF n.contained THEN Min({a, b}) ELSE r
    OBVIOUS
  <2> HIDE DEF with, a, b, r
  <2>3. Min({a, b}) \in Nat
    BY <2>1, MinCap, Zenon
  <2> QED
    BY <2>1, <2>2, <2>3
<1>4. extra \in Nat
  <2> DEFINE o == n.overlap
  <2>1. o \in Nat /\ extra = Rounded(o, 10)
    BY <1>1
  <2> HIDE DEF o, extra
  <2>2. \A d \in Nat : d > 0 => Rounded(o, d) \in Nat
    BY <2>1, RoundedNat
  <2>3. 10 \in Nat /\ 10 > 0
    BY SMT
  <2> QED
    BY <2>1, <2>2, <2>3
<1> HIDE DEF with, extra
<1> DEFINE k == 1000
           z == with + extra
<1>5. k \in Nat /\ z \in Nat /\ Min({1000, with + extra}) = Min({k, z})
  BY <1>3, <1>4
<1>6. Min({1000, with + extra}) \in Nat /\ Min({1000, with + extra}) <= 1000
  <2> HIDE DEF k, z
  <2>1. Min({k, z}) \in Nat /\ Min({k, z}) <= k
    BY <1>5, MinCap
  <2> QED
    BY <1>5, <2>1 DEF k
<1> QED
  BY <1>2, <1>6

\* R3 gives a confidence.
LEMMA R3Facts ==
  ASSUME NEW c \in Contexts, NEW x \in R3(c)
  PROVE  x.method = "R3" /\ x.conf \in Nat /\ x.conf <= 1000
<1> DEFINE score == [i \in DOMAIN c.names |-> Similarity(c.names[i])]
           i == FirstMax(score)
           y == Rounded(9 * score[i], 10)
<1>1. c.names # <<>> /\ x = Signal("R3", c.names[i].target, Min({900, y}))
  BY DEF R3
<1>2. c.names \in Seq(NameRec)
  BY ContextParts
<1>3. ASSUME NEW k \in DOMAIN c.names PROVE Similarity(c.names[k]) \in Nat /\ Similarity(c.names[k]) <= 1000
  <2>1. c.names[k] \in NameRec
    BY <1>2
  <2> QED
    BY <2>1, SimilarityBound
<1>4. DOMAIN c.names \in SUBSET Nat /\ DOMAIN c.names # {}
  BY <1>1, <1>2
<1>5. score \in [DOMAIN c.names -> Int] /\ \A k \in DOMAIN c.names : score[k] \in Nat /\ score[k] <= 1000
  BY <1>3
<1>6. score[i] \in Nat /\ score[i] <= 1000
  <2>1. 1000 \in Int /\ \A k \in DOMAIN c.names : score[k] <= 1000
    BY <1>5
  <2> HIDE DEF score
  <2>2. i \in DOMAIN c.names
    BY <1>4, <1>5, <2>1, FirstMaxFacts
  <2> QED
    BY <1>5, <2>2
<1> HIDE DEF score, i
<1>7. y \in Nat
  <2>1. 9 * score[i] \in Nat /\ 10 \in Nat /\ 10 > 0
    BY <1>6
  <2> QED
    BY <2>1, RoundedNat
<1> HIDE DEF y
<1>8. Min({900, y}) \in Nat /\ Min({900, y}) <= 1000
  <2> DEFINE k == 900
  <2>1. k \in Nat
    OBVIOUS
  <2> HIDE DEF k
  <2>2. Min({k, y}) \in Nat /\ Min({k, y}) <= k
    BY <1>7, <2>1, MinCap
  <2> QED
    BY <2>2 DEF k
<1> DEFINE r == Min({900, y})
<1>9. x = Signal("R3", c.names[i].target, r)
  BY <1>1
<1> HIDE DEF r
<1> QED
  BY <1>8, <1>9 DEF Signal, r

\* The history R4 weighs, and what it returns for the team at position i.
Recalled(c) == SubSeq(c.history, Max({1, Len(c.history) - MaxHistory + 1}), Len(c.history))

HistoryConf(c) == [j \in DOMAIN Recalled(c) |-> Recalled(c)[j].conf]

SameTeam(c, i) == {j \in DOMAIN Recalled(c) : Recalled(c)[j].target = Recalled(c)[i].target}

TopTeam(c) == FirstMax([k \in DOMAIN Recalled(c) |-> Total(HistoryConf(c), SameTeam(c, k))])

Dominance(c, i) ==
    IF Total(HistoryConf(c), DOMAIN Recalled(c)) = 0 THEN 0
    ELSE Rounded(700 * Total(HistoryConf(c), SameTeam(c, i)), Total(HistoryConf(c), DOMAIN Recalled(c)))

TeamConf(c, i) == Min({850, Dominance(c, i) + 20 * Min({10, Cardinality(SameTeam(c, i))})})

LEMMA R4Is ==
  ASSUME NEW c, NEW x \in R4(c)
  PROVE  x = Signal("R4", Recalled(c)[TopTeam(c)].target, TeamConf(c, TopTeam(c)))
  BY ZenonT(40) DEF R4, Recalled, HistoryConf, SameTeam, TopTeam, Dominance, TeamConf

\* The confidence R4 gives to a team: a part of a sum over the sum, and a bonus.
LEMMA TeamConfBound ==
  ASSUME NEW c \in Contexts, NEW i
  PROVE  TeamConf(c, i) \in Nat /\ TeamConf(c, i) <= 1000
<1> DEFINE m == Max({1, Len(c.history) - MaxHistory + 1})
           k == 10
           n == Cardinality(SameTeam(c, i))
           total == Total(HistoryConf(c), DOMAIN Recalled(c))
           own == Total(HistoryConf(c), SameTeam(c, i))
<1>1. c.history \in Seq(PastRec) /\ MaxHistory \in Nat
  BY ContextParts, ReconciliationAssumption
<1>2. m \in Int /\ m >= 1
  BY <1>1, MaxPair
<1>3. Recalled(c) \in Seq(PastRec)
  <2> HIDE DEF m
  <2>1. \A j \in m .. Len(c.history) : c.history[j] \in PastRec
    BY <1>1, <1>2
  <2>2. Len(c.history) \in Int
    BY <1>1
  <2>3. SubSeq(c.history, m, Len(c.history)) \in Seq(PastRec)
    BY <1>2, <2>1, <2>2, SubSeqProperties
  <2> QED
    BY <2>3 DEF Recalled, m
<1>4. DOMAIN Recalled(c) \in SUBSET DOMAIN Recalled(c) /\ SameTeam(c, i) \in SUBSET DOMAIN Recalled(c)
  BY DEF SameTeam
<1>5. IsFiniteSet(DOMAIN Recalled(c)) /\ IsFiniteSet(SameTeam(c, i)) /\ n \in Nat
  BY <1>3, <1>4, Positions
<1>6. \A j \in DOMAIN Recalled(c) : HistoryConf(c)[j] \in Nat
  <2> TAKE j \in DOMAIN Recalled(c)
  <2>1. Recalled(c)[j] \in PastRec
    BY <1>3
  <2> QED
    BY <2>1 DEF HistoryConf, PastRec
<1>7. total \in Nat /\ own \in Nat
  <2>1. total \in Nat
    BY <1>5, <1>6, TotalFacts
  <2>2. \A j \in SameTeam(c, i) : HistoryConf(c)[j] \in Nat
    BY <1>4, <1>6
  <2>3. own \in Nat
    BY <1>5, <2>2, TotalFacts
  <2> QED
    BY <2>1, <2>3
<1>8. Dominance(c, i) \in Nat
  <2>1. Dominance(c, i) = IF total = 0 THEN 0 ELSE Rounded(700 * own, total)
    BY DEF Dominance
  <2> HIDE DEF total, own
  <2>2. CASE total = 0
    BY <2>1, <2>2
  <2>3. CASE total # 0
    <3>1. 700 * own \in Nat /\ total \in Nat /\ total > 0
      BY <1>7, <2>3
    <3>2. Rounded(700 * own, total) \in Nat
      BY <3>1, RoundedNat
    <3> QED
      BY <2>1, <2>3, <3>2
  <2> QED
    BY <2>2, <2>3
<1> HIDE DEF n
<1>9. Min({k, n}) \in Nat
  <2>1. k \in Nat
    OBVIOUS
  <2> HIDE DEF k
  <2>2. Min({k, n}) \in Nat /\ Min({k, n}) <= k
    BY <1>5, <2>1, MinCap
  <2> QED
    BY <2>1, <2>2
<1> DEFINE z == Dominance(c, i) + 20 * Min({k, n})
           q == 850
<1>10. z \in Nat /\ q \in Nat /\ TeamConf(c, i) = Min({q, z})
  BY <1>8, <1>9 DEF TeamConf, n
<1> HIDE DEF z, q
<1>11. TeamConf(c, i) \in Nat /\ TeamConf(c, i) <= q
  BY <1>10, MinCap
<1> QED
  BY <1>11 DEF q

\* R4 gives a confidence.
LEMMA R4Facts ==
  ASSUME NEW c \in Contexts, NEW x \in R4(c)
  PROVE  x.method = "R4" /\ x.conf \in Nat /\ x.conf <= 1000
<1>1. x = Signal("R4", Recalled(c)[TopTeam(c)].target, TeamConf(c, TopTeam(c)))
  BY R4Is
<1>2. TeamConf(c, TopTeam(c)) \in Nat /\ TeamConf(c, TopTeam(c)) <= 1000
  BY TeamConfBound
<1> QED
  BY <1>1, <1>2 DEF Signal

\* The recent users of R5, by whose number the scores are scaled.
Recent(c) == {u.target : u \in {u \in ToSet(c.users) : u.age <= Lookback}}

LEMMA RecentFinite ==
  ASSUME NEW c \in Contexts
  PROVE  IsFiniteSet(Recent(c))
<1> DEFINE I == {i \in DOMAIN c.users : c.users[i].age <= Lookback}
           f == [i \in I |-> c.users[i].target]
<1>1. c.users \in Seq(UserRec)
  BY ContextParts
<1>2. IsFiniteSet(I)
  BY <1>1, Positions
<1>3. Recent(c) = {f[i] : i \in I}
  BY Zenon DEF Recent, ToSet
<1> HIDE DEF I, f
<1> QED
  BY <1>2, <1>3, ImageFinite

Deployer(c) ==
    IF c.deploys = <<>> THEN <<>>
    ELSE LET d == c.deploys[FirstMax([i \in DOMAIN c.deploys |-> -c.deploys[i].age])]
         IN  IF d.age <= Lookback THEN <<d.target>> ELSE <<>>

OwnerScore(c, o) ==
    LET n == Max({1, Cardinality(Recent(c))})
    IN  (IF o \in ToSet(Deployer(c)) THEN 350 * n ELSE 0)
        + 250 * n * Cardinality({i \in DOMAIN c.code : c.code[i] = o})
        + (IF o \in Recent(c) THEN 150 ELSE 0)

OwnerConf(c, o) == Min({750, Rounded(OwnerScore(c, o), Max({1, Cardinality(Recent(c))}))})

LEMMA R5Is ==
  ASSUME NEW c, NEW x \in R5(c)
  PROVE  \E o : x = Signal("R5", o, OwnerConf(c, o))
<1> DEFINE entered == Deployer(c) \o c.code
           owners == ToSet(entered) \cup Recent(c)
           top == {o \in owners : \A p \in owners : OwnerScore(c, p) <= OwnerScore(c, o)}
           First(o) == o \notin ToSet(entered) \/
                       \E i \in DOMAIN entered : entered[i] = o /\ \A j \in 1 .. i - 1 : entered[j] \notin top
           winners == IF top \cap ToSet(entered) = {} THEN top
                      ELSE {o \in top \cap ToSet(entered) : First(o)}
<1>1. R5(c) = {Signal("R5", o, OwnerConf(c, o)) : o \in winners}
  BY Zenon DEF R5, Recent, OwnerScore, Deployer, OwnerConf
<1> HIDE DEF winners
<1> QED
  BY <1>1

\* R5 gives no confidence above its own cap.
LEMMA R5Facts ==
  ASSUME NEW c \in Contexts, NEW x \in R5(c)
  PROVE  x.method = "R5" /\ x.conf \in Nat /\ x.conf <= 750
<1> DEFINE n == Max({1, Cardinality(Recent(c))})
           K(o) == Cardinality({i \in DOMAIN c.code : c.code[i] = o})
<1>0. PICK o : x = Signal("R5", o, OwnerConf(c, o))
  BY R5Is
<1> DEFINE a == IF o \in ToSet(Deployer(c)) THEN 350 * n ELSE 0
           b == IF o \in Recent(c) THEN 150 ELSE 0
<1>1. /\ a \in {350 * n, 0} /\ b \in {150, 0}
      /\ x = Signal("R5", o, Min({750, Rounded(a + 250 * n * K(o) + b, n)}))
  BY <1>0 DEF OwnerConf, OwnerScore
<1>2. n \in Nat /\ n > 0
  <2>1. Cardinality(Recent(c)) \in Nat /\ 1 \in Int
    BY RecentFinite, FS_CardinalityType
  <2> QED
    BY <2>1, MaxPair
<1>3. K(o) \in Nat
  <2>1. c.code \in Seq(STRING)
    BY ContextParts
  <2> QED
    BY <2>1, Positions
<1> HIDE DEF n, K, a, b
<1> DEFINE z == a + 250 * n * K(o) + b
<1>4. z \in Nat
  <2>1. n * K(o) \in Nat
    BY <1>2, <1>3
  <2>2. a \in Nat /\ b \in Nat /\ 250 * n * K(o) \in Nat
    BY <1>1, <1>2, <1>3
  <2> QED
    BY <2>2
<1> DEFINE y == Rounded(z, n)
           q == 750
<1>5. x = Signal("R5", o, Min({q, y})) /\ q \in Nat
  BY <1>1
<1> HIDE DEF z
<1>6. y \in Nat
  BY <1>2, <1>4, RoundedNat
<1> HIDE DEF y, q
<1>7. Min({q, y}) \in Nat /\ Min({q, y}) <= q
  BY <1>5, <1>6, MinCap
<1> QED
  BY <1>5, <1>7 DEF Signal, q

\* A proportional share is a signal of R6 of at most 0.65.
LEMMA R6Facts ==
  ASSUME NEW c \in Contexts, NEW x \in R6(c)
  PROVE  x.method = "R6" /\ x.conf \in Nat /\ x.conf <= 650
<1> DEFINE teams == {t \in DOMAIN c.shares : c.shares[t] > 0}
           total == Total(c.shares, teams)
<1>1. PICK t \in teams : x = Signal("R6", t, Min({650, Rounded(300 * total + 400 * c.shares[t], total)}))
  BY DEF R6
<1>2. IsFiniteSet(DOMAIN c.shares) /\ c.shares \in [DOMAIN c.shares -> Nat]
  BY ContextParts
<1>3. IsFiniteSet(teams) /\ teams # {} /\ \A u \in teams : c.shares[u] \in Nat /\ c.shares[u] > 0
  BY <1>1, <1>2, FS_Subset
<1> HIDE DEF teams
<1>4. total \in Nat /\ total > 0
  BY <1>3, TotalFacts
<1> HIDE DEF total
<1> DEFINE z == 300 * total + 400 * c.shares[t]
           y == Rounded(z, total)
           q == 650
<1>5. x = Signal("R6", t, Min({q, y})) /\ q \in Nat
  BY <1>1
<1>6. z \in Nat
  BY <1>1, <1>3, <1>4
<1> HIDE DEF z
<1>7. y \in Nat
  BY <1>4, <1>6, RoundedNat
<1> HIDE DEF y, q
<1>8. Min({q, y}) \in Nat /\ Min({q, y}) <= q
  BY <1>5, <1>7, MinCap
<1> QED
  BY <1>5, <1>8 DEF Signal, q

-----------------------------------------------------------------------------
(* Reconciliation: the combination of evidence.                            *)

\* Signals with confidences in thousandths.
Confs(s) ==
    /\ Len(s) \in Nat /\ DOMAIN s = 1 .. Len(s)
    /\ \A i \in DOMAIN s : s[i].conf \in Nat /\ s[i].conf <= 1000

LEMMA DiscountFacts ==
  ASSUME NEW a, NEW b
  PROVE  Discount(a, b) \in {3, 4, 5, 10}
  BY DEF Discount

\* A discount is one of the table or none.
LEMMA WeightFacts ==
  ASSUME NEW s, NEW I, NEW i
  PROVE  Weight(s, I, i) \in {3, 4, 5, 10}
<1> DEFINE J == {j \in I : s[i].conf < s[j].conf \/ (s[i].conf = s[j].conf /\ i < j)}
           D == {Discount(s[i].method, s[j].method) : j \in J}
           S == {10} \cup D
<1>1. Weight(s, I, i) = Min(S)
  BY DEF Weight
<1>2. \A x \in D : x \in {3, 4, 5, 10}
  BY DiscountFacts
<1> HIDE DEF D
<1>3. S \in SUBSET Nat /\ S # {} /\ S \in SUBSET {3, 4, 5, 10}
  BY <1>2
<1> HIDE DEF S
<1>4. Min(S) \in S
  BY <1>3, MinOfNat
<1> QED
  BY <1>1, <1>3, <1>4

\* The factor of a signal in the noisy-OR, in parts of 40000.
FactorOf(s, I, i) == 40000 - s[i].conf * Weight(s, I, i) * Diminished(Rank(s, I, i))

\* What a signal leaves of the doubt is between nothing and all of it.
LEMMA FactorBound ==
  ASSUME NEW s, Confs(s), NEW I, NEW i \in DOMAIN s
  PROVE  FactorOf(s, I, i) \in Nat /\ FactorOf(s, I, i) <= 40000
<1> DEFINE c == s[i].conf
           w == Weight(s, I, i)
           d == Diminished(Rank(s, I, i))
<1>1. c \in Nat /\ c <= 1000
  BY DEF Confs
<1>2. w \in {3, 4, 5, 10}
  BY WeightFacts
<1>3. d \in {1, 2, 4}
  BY DEF Diminished
<1>4. FactorOf(s, I, i) = 40000 - c * w * d
  BY DEF FactorOf
<1> HIDE DEF c, w, d
<1>5. c * w \in Nat /\ c * w <= 10000
  BY <1>1, <1>2, SMT
<1> DEFINE p == c * w
<1> HIDE DEF p
<1>6. p * d \in Nat /\ p * d <= 40000
  BY <1>3, <1>5, SMT DEF p
<1> QED
  BY <1>4, <1>6, SMT DEF p

\* The doubt that a factor leaves of a.
Doubt(a, f) == Rounded(a * f, 40000)

LeftIs(s, I, left) ==
    left = [n \in 0 .. Len(s) |->
              IF n = 0 THEN 10000
              ELSE IF n \in I THEN Doubt(left[n - 1], FactorOf(s, I, n)) ELSE left[n - 1]]

Left(s, I) == CHOOSE left : LeftIs(s, I, left)

LEMMA CombineIs ==
  ASSUME NEW s, NEW I
  PROVE  Combine(s, I) = Min({Cap, IF Cardinality(I) = 1 THEN 10 * Strongest(s, I)
                                   ELSE 10000 - Left(s, I)[Len(s)]})
  BY DEF Combine, Left, LeftIs, FactorOf, Doubt

LEMMA CombineOne ==
  ASSUME NEW s, NEW I, Cardinality(I) = 1
  PROVE  Combine(s, I) = Min({Cap, 10 * Strongest(s, I)})
  BY DEF Combine

\* A factor never makes the doubt larger.
LEMMA Shrinks ==
  ASSUME NEW a \in Nat, a <= 10000, NEW f \in Nat, f <= 40000
  PROVE  Doubt(a, f) \in Nat /\ Doubt(a, f) <= a
<1> DEFINE p == a * f
<1>1. p \in Nat /\ p <= a * 40000
  BY SMT
<1>2. Rounded(p, 40000) \in Nat /\ Rounded(p, 40000) <= a
  <2> HIDE DEF p
  <2> QED
    BY <1>1, SMT DEF Rounded
<1> QED
  BY <1>2 DEF Doubt

\* What is left of doubt is a number from 0 to 1, and each signal of the cluster
\* takes its part of it.
LEMMA LeftFacts ==
  ASSUME NEW s, Confs(s), NEW I
  PROVE  /\ Left(s, I)[0] = 10000
         /\ \A n \in 0 .. Len(s) : Left(s, I)[n] \in Nat /\ Left(s, I)[n] <= 10000
         /\ \A n \in 1 .. Len(s) :
               Left(s, I)[n] = IF n \in I THEN Doubt(Left(s, I)[n - 1], FactorOf(s, I, n))
                               ELSE Left(s, I)[n - 1]
<1> DEFINE V == {a \in Nat : a <= 10000}
           N == Len(s)
           F(n, a) == IF n \in I THEN Doubt(a, FactorOf(s, I, n)) ELSE a
           step == [n \in 1 .. N |-> [a \in V |-> F(n, a)]]
           base == 10000
           left == Left(s, I)
<1>1. N \in Nat /\ DOMAIN s = 1 .. N
  BY DEF Confs
<1>2. ASSUME NEW n \in 1 .. N, NEW a \in V PROVE F(n, a) \in V
  <2>1. a \in Nat /\ a <= 10000
    OBVIOUS
  <2>2. FactorOf(s, I, n) \in Nat /\ FactorOf(s, I, n) <= 40000
    BY <1>1, FactorBound
  <2>3. Doubt(a, FactorOf(s, I, n)) \in Nat /\ Doubt(a, FactorOf(s, I, n)) <= a
    <3> DEFINE g == FactorOf(s, I, n)
    <3>1. g \in Nat /\ g <= 40000
      BY <2>2
    <3> HIDE DEF g
    <3>2. Doubt(a, g) \in Nat /\ Doubt(a, g) <= a
      BY <2>1, <3>1, Shrinks
    <3> QED
      BY <3>2 DEF g
  <2> QED
    BY <2>1, <2>3, SMT
<1>3. base \in V
  BY SMT
<1> HIDE DEF V, F, base
<1>4. step \in [1 .. N -> [V -> V]]
  BY <1>2, SMT
<1>5. PICK f : Chain(f, V, N, base, step)
  <2> HIDE DEF step, N
  <2> QED
    BY <1>1, <1>3, <1>4, Iteration
<1>6. /\ f \in [0 .. N -> V] /\ f[0] = base
      /\ \A n \in 1 .. N : f[n] = step[n][f[n - 1]]
  BY <1>5 DEF Chain
<1>7. ASSUME NEW n \in 1 .. N PROVE f[n] = F(n, f[n - 1])
  <2>1. n - 1 \in 0 .. N
    BY <1>1
  <2>2. f[n - 1] \in V
    BY <1>6, <2>1
  <2> QED
    BY <1>6, <2>2
<1> HIDE DEF step, N
<1>8. f = [n \in 0 .. N |-> IF n = 0 THEN base ELSE F(n, f[n - 1])]
  <2>1. ASSUME NEW n \in 0 .. N PROVE f[n] = IF n = 0 THEN base ELSE F(n, f[n - 1])
    <3>1. CASE n = 0
      BY <1>6, <3>1
    <3>2. CASE n # 0
      <4>1. n \in 1 .. N
        BY <1>1, <3>2
      <4> QED
        BY <1>7, <3>2, <4>1
    <3> QED
      BY <3>1, <3>2
  <2>2. f = [n \in 0 .. N |-> f[n]]
    BY <1>6
  <2> QED
    BY <2>1, <2>2
<1>9. LeftIs(s, I, f)
  BY <1>8 DEF LeftIs, F, base, N
<1>10. LeftIs(s, I, left)
  BY <1>9 DEF Left
<1> HIDE DEF left
<1>11. left = [n \in 0 .. N |-> IF n = 0 THEN base ELSE F(n, left[n - 1])]
  BY <1>10 DEF LeftIs, F, base, N
<1>12. left[0] = base
  <2>1. 0 \in 0 .. N
    BY <1>1
  <2> QED
    BY <1>11, <2>1
<1>13. ASSUME NEW n \in 1 .. N PROVE left[n] = F(n, left[n - 1])
  <2>1. n \in 0 .. N /\ n # 0
    BY <1>1
  <2> QED
    BY <1>11, <2>1
<1> DEFINE P == {n \in 0 .. N : left[n] \in V}
<1>14. 0 \in P
  BY <1>1, <1>3, <1>12
<1>15. ASSUME NEW n \in 1 .. N, n - 1 \in P PROVE n \in P
  <2>1. n \in 0 .. N
    BY <1>1
  <2>2. F(n, left[n - 1]) \in V
    BY <1>2, <1>15
  <2> QED
    BY <1>13, <2>1, <2>2
<1>16. ASSUME NEW m \in 0 .. N PROVE left[m] \in V
  <2>1. \A n \in 1 .. m : n - 1 \in P => n \in P
    BY <1>1, <1>15
  <2>2. m \in Nat
    BY <1>1
  <2> HIDE DEF P
  <2>3. m \in P
    BY <1>14, <2>1, <2>2, ChainEnd
  <2> QED
    BY <2>3 DEF P
<1> QED
  BY <1>12, <1>13, <1>16 DEF left, V, F, base, N

\* The strongest signal of a cluster is one of its signals.
LEMMA StrongestFacts ==
  ASSUME NEW s, Confs(s), NEW I \in SUBSET DOMAIN s, I # {}
  PROVE  /\ Strongest(s, I) \in Nat /\ Strongest(s, I) <= 1000
         /\ \E m \in I : Strongest(s, I) = s[m].conf
         /\ \A j \in I : s[j].conf <= Strongest(s, I)
<1> DEFINE S == {s[i].conf : i \in I}
           b == 1000
<1>1. \A i \in I : s[i].conf \in Nat /\ s[i].conf <= 1000
  BY DEF Confs
<1>2. S \in SUBSET Int /\ S # {} /\ b \in Int /\ \A x \in S : x <= b
  <2>0. \A a \in Nat : a <= 1000 => a \in Int /\ a <= b
    OBVIOUS
  <2>1. \A i \in I : s[i].conf \in Int /\ s[i].conf <= b
    BY <1>1, <2>0
  <2> HIDE DEF b
  <2>2. S \in SUBSET Int /\ S # {} /\ \A x \in S : x <= b
    BY <2>1
  <2> QED
    BY <2>2 DEF b
<1>3. Strongest(s, I) = Max(S)
  BY DEF Strongest
<1>4. Max(S) \in S /\ \A y \in S : Max(S) >= y
  <2> HIDE DEF S, b
  <2> QED
    BY <1>2, MaxOfBounded
<1>5. PICK m \in I : Max(S) = s[m].conf
  BY <1>4
<1>6. ASSUME NEW j \in I PROVE s[j].conf <= Max(S)
  <2>1. s[j].conf \in S
    OBVIOUS
  <2> HIDE DEF S
  <2>2. Max(S) >= s[j].conf
    BY <1>4, <2>1
  <2> QED
    BY <1>1, <1>5, <2>2
<1> HIDE DEF S
<1> QED
  BY <1>1, <1>3, <1>5, <1>6

\* The combination is a number from 0 to the cap.
LEMMA CombineType ==
  ASSUME NEW s, Confs(s), NEW I \in SUBSET DOMAIN s, I # {}
  PROVE  Combine(s, I) \in Nat /\ Combine(s, I) <= 9500
<1> DEFINE z == IF Cardinality(I) = 1 THEN 10 * Strongest(s, I) ELSE 10000 - Left(s, I)[Len(s)]
           q == Cap
<1>1. Strongest(s, I) \in Nat /\ Strongest(s, I) <= 1000
  BY StrongestFacts
<1>2. Left(s, I)[Len(s)] \in Nat /\ Left(s, I)[Len(s)] <= 10000
  <2>1. Len(s) \in 0 .. Len(s)
    BY DEF Confs
  <2> QED
    BY <2>1, LeftFacts
<1>3. z \in Nat
  <2>1. 10 * Strongest(s, I) \in Nat
    BY <1>1
  <2>2. 10000 - Left(s, I)[Len(s)] \in Nat
    BY <1>2, SMT
  <2> QED
    BY <2>1, <2>2
<1>4. Combine(s, I) = Min({q, z}) /\ q \in Nat /\ q = 9500
  BY CombineIs DEF Cap
<1> HIDE DEF z, q
<1>5. Min({q, z}) \in Nat /\ Min({q, z}) <= q
  <2>1. q \in Nat
    BY <1>4
  <2> QED
    BY <1>3, <2>1, MinCap
<1> DEFINE r == Min({q, z})
<1> HIDE DEF r
<1>6. Combine(s, I) \in Nat /\ Combine(s, I) <= q
  <2>1. Combine(s, I) = r /\ r \in Nat /\ r <= q
    BY <1>4, <1>5 DEF r
  <2> QED
    BY <1>4, <2>1
<1> QED
  BY <1>4, <1>6

\* The strongest of distinct confidences is not discounted, and it comes first.
LEMMA TopFactor ==
  ASSUME NEW s, Confs(s), NEW I \in SUBSET DOMAIN s, Distinct(s, I),
         NEW m \in I, \A j \in I : s[j].conf <= s[m].conf
  PROVE  FactorOf(s, I, m) = 40000 - 40 * s[m].conf
<1> DEFINE J == {j \in I : s[m].conf < s[j].conf \/ (s[m].conf = s[j].conf /\ m < j)}
           D == {Discount(s[m].method, s[j].method) : j \in J}
           R == {j \in I : s[j].conf > s[m].conf \/ (s[j].conf = s[m].conf /\ j <= m)}
<1>1. \A i \in I : s[i].conf \in Nat /\ s[i].conf <= 1000 /\ i \in Nat
  BY DEF Confs
<1>2. J = {} /\ R = {m}
  <2>1. ASSUME NEW j \in I PROVE ~(s[m].conf < s[j].conf) /\ (s[m].conf = s[j].conf => j = m)
    <3>1. s[j].conf <= s[m].conf /\ s[j].conf \in Nat /\ s[m].conf \in Nat
      BY <1>1
    <3>2. s[m].conf = s[j].conf => j = m
      BY DEF Distinct
    <3>3. \A a, b \in Nat : b <= a => ~(a < b)
      OBVIOUS
    <3>4. ~(s[m].conf < s[j].conf)
      BY <3>1, <3>3
    <3> QED
      BY <3>2, <3>4
  <2>2. J = {}
    BY <1>1, <2>1
  <2>3. m \in R
    BY <1>1
  <2>4. \A j \in R : j = m
    BY <1>1, <2>1
  <2> QED
    BY <2>2, <2>3, <2>4
<1>3. Weight(s, I, m) = 10
  <2> DEFINE S == {10} \cup D
  <2>1. Weight(s, I, m) = Min(S)
    BY DEF Weight
  <2>2. S = {10}
    BY <1>2
  <2> HIDE DEF S
  <2>3. Min(S) \in S
    BY <2>2, MinOfNat
  <2> QED
    BY <2>1, <2>2, <2>3
<1>4. Rank(s, I, m) = 1
  <2>1. Rank(s, I, m) = Cardinality(R)
    BY DEF Rank
  <2> QED
    BY <1>2, <2>1, FS_Singleton
<1>5. Diminished(Rank(s, I, m)) = 4
  BY <1>4 DEF Diminished
<1> DEFINE c == s[m].conf
<1>6. FactorOf(s, I, m) = 40000 - c * 10 * 4 /\ c \in Nat /\ c <= 1000
  BY <1>1, <1>3, <1>5, SMT DEF FactorOf
<1> HIDE DEF c
<1>7. c * 10 * 4 = 40 * c
  BY <1>6
<1> QED
  BY <1>6, <1>7 DEF c

\* What one signal of a cluster leaves at most bounds what the cluster leaves.
LEMMA LeftAfter ==
  ASSUME NEW s, Confs(s), NEW I \in SUBSET DOMAIN s, NEW m \in I, NEW b \in Nat,
         \A a \in Nat : a <= 10000 => Doubt(a, FactorOf(s, I, m)) <= b
  PROVE  Left(s, I)[Len(s)] \in Nat /\ Left(s, I)[Len(s)] <= b
<1> DEFINE N == Len(s)
           left == Left(s, I)
<1>1. N \in Nat /\ m \in 1 .. N /\ DOMAIN s = 1 .. N
  BY DEF Confs
<1>2. /\ \A n \in 0 .. N : left[n] \in Nat /\ left[n] <= 10000
      /\ \A n \in 1 .. N : left[n] = IF n \in I THEN Doubt(left[n - 1], FactorOf(s, I, n))
                                     ELSE left[n - 1]
  BY LeftFacts
<1> HIDE DEF N, left
<1> DEFINE P == {n \in 0 .. N : n >= m => left[n] <= b}
<1>3. 0 \in P
  BY <1>1
<1>4. ASSUME NEW n \in 1 .. N, n - 1 \in P PROVE n \in P
  <2>1. /\ n \in 0 .. N /\ n - 1 \in 0 .. N
        /\ left[n - 1] \in Nat /\ left[n - 1] <= 10000
    BY <1>1, <1>2
  <2>2. CASE n < m
    BY <1>1, <2>1, <2>2
  <2>3. CASE n = m
    <3>1. left[n] = Doubt(left[n - 1], FactorOf(s, I, m))
      BY <1>2, <2>3
    <3>2. left[n] <= b
      BY <2>1, <3>1
    <3> QED
      BY <2>1, <3>2
  <2>4. CASE n > m
    <3>1. left[n - 1] <= b
      BY <1>1, <1>4, <2>4
    <3>2. left[n] <= left[n - 1] /\ left[n] \in Nat
      <4>1. CASE n \in I
        <5>1. FactorOf(s, I, n) \in Nat /\ FactorOf(s, I, n) <= 40000
          BY <1>1, FactorBound
        <5>2. Doubt(left[n - 1], FactorOf(s, I, n)) <= left[n - 1]
          BY <2>1, <5>1, Shrinks
        <5> QED
          BY <1>2, <2>1, <4>1, <5>2
      <4>2. CASE n \notin I
        BY <1>2, <2>1, <4>2
      <4> QED
        BY <4>1, <4>2
    <3>3. left[n] <= b
      BY <2>1, <3>1, <3>2
    <3> QED
      BY <2>1, <3>3
  <2> QED
    BY <1>1, <2>2, <2>3, <2>4
<1>5. N \in P
  <2> HIDE DEF P
  <2> QED
    BY <1>1, <1>3, <1>4, ChainEnd
<1>6. left[N] <= b /\ left[N] \in Nat
  BY <1>1, <1>2, <1>5
<1> QED
  BY <1>6 DEF N, left

\* A signal that counts in full leaves at most the doubt it has itself.
LEMMA TopStep ==
  ASSUME NEW a \in Nat, a <= 10000, NEW c \in Nat, c <= 1000
  PROVE  Doubt(a, 40000 - 40 * c) <= 10000 - 10 * c
<1> DEFINE p == a * (40000 - 40 * c)
           t == 10000 - 10 * c
<1>1. p \in Nat /\ t \in Nat /\ p <= 40000 * t
  BY SMT
<1>2. Rounded(p, 40000) <= t
  <2> HIDE DEF p, t
  <2> QED
    BY <1>1, SMT DEF Rounded
<1> QED
  BY <1>2 DEF Doubt

\* Evidence takes nothing away from the strongest of distinct signals.
LEMMA CombineLower ==
  ASSUME NEW s, Confs(s), NEW I \in SUBSET DOMAIN s, I # {}, Distinct(s, I)
  PROVE  Combine(s, I) >= Min({Cap, 10 * Strongest(s, I)})
<1> DEFINE rest == Left(s, I)[Len(s)]
           c == Strongest(s, I)
           b == 10000 - 10 * c
<1>1. PICK m \in I : c = s[m].conf /\ c \in Nat /\ c <= 1000 /\ \A j \in I : s[j].conf <= c
  BY StrongestFacts
<1>2. FactorOf(s, I, m) = 40000 - 40 * c
  BY <1>1, TopFactor
<1> HIDE DEF c
<1>3. b \in Nat
  BY <1>1, SMT
<1>4. \A a \in Nat : a <= 10000 => Doubt(a, FactorOf(s, I, m)) <= b
  <2> SUFFICES ASSUME NEW a \in Nat, a <= 10000 PROVE Doubt(a, 40000 - 40 * c) <= b
    BY <1>2
  <2> QED
    BY <1>1, TopStep
<1>5. rest \in Nat /\ rest <= b
  <2> HIDE DEF b
  <2> QED
    BY <1>3, <1>4, LeftAfter
<1> DEFINE z == IF Cardinality(I) = 1 THEN 10 * c ELSE 10000 - rest
           q == Cap
           y == 10 * c
<1>6. Combine(s, I) = Min({q, z}) /\ Min({Cap, 10 * Strongest(s, I)}) = Min({q, y})
  BY CombineIs DEF c
<1> HIDE DEF rest
<1>7. z \in Int /\ y \in Int /\ z >= y /\ q \in Int
  BY <1>1, <1>5, SMT DEF Cap
<1> HIDE DEF z, y, q
<1>8. Min({q, z}) = (IF q <= z THEN q ELSE z) /\ Min({q, y}) = (IF q <= y THEN q ELSE y)
  BY <1>7, MinPair
<1> QED
  BY <1>6, <1>7, <1>8, SMT

\* The first of the strongest signals comes first in the sort, so that it keeps
\* three tenths of its confidence at least.
LEMMA FirstFactor ==
  ASSUME NEW s, Confs(s), NEW I \in SUBSET DOMAIN s, NEW m \in I,
         \A j \in I : s[m].conf > s[j].conf \/ (s[m].conf = s[j].conf /\ m <= j)
  PROVE  FactorOf(s, I, m) \in Nat /\ FactorOf(s, I, m) <= 40000 - 12 * s[m].conf
<1> DEFINE R == {j \in I : s[j].conf > s[m].conf \/ (s[j].conf = s[m].conf /\ j <= m)}
           c == s[m].conf
           w == Weight(s, I, m)
<1>1. \A i \in I : s[i].conf \in Nat /\ s[i].conf <= 1000 /\ i \in Nat
  BY DEF Confs
<1>2. R = {m}
  <2>1. ASSUME NEW j \in I, s[j].conf > s[m].conf \/ (s[j].conf = s[m].conf /\ j <= m) PROVE j = m
    <3>1. s[m].conf > s[j].conf \/ (s[m].conf = s[j].conf /\ m <= j)
      OBVIOUS
    <3>2. \A a, b, i, k \in Nat :
             (b > a \/ (b = a /\ k <= i)) /\ (a > b \/ (a = b /\ i <= k)) => k = i
      OBVIOUS
    <3>3. s[j].conf \in Nat /\ s[m].conf \in Nat /\ j \in Nat /\ m \in Nat
      BY <1>1
    <3> QED
      BY <2>1, <3>1, <3>2, <3>3
  <2>2. m \in R
    BY <1>1
  <2> QED
    BY <2>1, <2>2
<1>3. Rank(s, I, m) = 1
  BY <1>2, FS_Singleton DEF Rank
<1>4. Diminished(Rank(s, I, m)) = 4
  BY <1>3 DEF Diminished
<1>5. w \in {3, 4, 5, 10} /\ c \in Nat /\ c <= 1000
  BY <1>1, WeightFacts
<1>6. FactorOf(s, I, m) = 40000 - c * w * 4
  BY <1>4 DEF FactorOf
<1>7. FactorOf(s, I, m) \in Nat
  BY FactorBound
<1> HIDE DEF c, w
<1>8. 40000 - c * w * 4 <= 40000 - 12 * c
  BY <1>5, SMT
<1> QED
  BY <1>6, <1>7, <1>8 DEF c

\* Some doubt goes if a signal with some confidence is heard.
LEMMA FirstStep ==
  ASSUME NEW a \in Nat, a <= 10000, NEW f \in Nat, f <= 39988
  PROVE  Doubt(a, f) <= 9999
<1> DEFINE p == a * f
<1>1. p \in Nat /\ p <= 10000 * 39988
  BY SMT
<1>2. Rounded(p, 40000) <= 9999
  <2> HIDE DEF p
  <2> QED
    BY <1>1, SMT DEF Rounded
<1> QED
  BY <1>2 DEF Doubt

\* A cluster with any confidence is combined to some.
LEMMA CombinePositive ==
  ASSUME NEW s, Confs(s), NEW I \in SUBSET DOMAIN s, NEW k \in I, s[k].conf > 0
  PROVE  Combine(s, I) > 0
<1> DEFINE rest == Left(s, I)[Len(s)]
           f == [i \in I |-> s[i].conf]
           h == 1000
           b == 9999
           e == Strongest(s, I)
<1>1. \A i \in I : s[i].conf \in Nat /\ s[i].conf <= h /\ i \in Nat
  BY DEF Confs
<1>2. PICK m \in I : \A j \in I : s[m].conf > s[j].conf \/ (s[m].conf = s[j].conf /\ m <= j)
  <2>0. h \in Int
    OBVIOUS
  <2> HIDE DEF h
  <2>1. I \in SUBSET Nat /\ I # {} /\ f \in [I -> Int] /\ \A i \in I : f[i] <= h
    BY <1>1
  <2>2. PICK m \in I : \A j \in I : f[m] > f[j] \/ (f[m] = f[j] /\ m <= j)
    <3> HIDE DEF f
    <3> QED
      BY <2>0, <2>1, FirstOfLargest
  <2> QED
    BY <2>2
<1>3. FactorOf(s, I, m) \in Nat /\ FactorOf(s, I, m) <= 39988
  <2> DEFINE c == s[m].conf
             d == s[k].conf
             g == FactorOf(s, I, m)
  <2>1. c \in Nat /\ c <= 1000 /\ d \in Nat /\ d > 0 /\ (c > d \/ c = d)
    BY <1>1, <1>2
  <2>2. g \in Nat /\ g <= 40000 - 12 * c
    BY <1>2, FirstFactor
  <2> HIDE DEF c, d, g
  <2>3. g \in Nat /\ g <= 39988
    BY <2>1, <2>2, SMT
  <2> QED
    BY <2>3 DEF g
<1>4. \A a \in Nat : a <= 10000 => Doubt(a, FactorOf(s, I, m)) <= b
  <2> DEFINE g == FactorOf(s, I, m)
  <2>1. g \in Nat /\ g <= 39988
    BY <1>3
  <2> HIDE DEF g
  <2>2. \A a \in Nat : a <= 10000 => Doubt(a, g) <= b
    BY <2>1, FirstStep
  <2> QED
    BY <2>2 DEF g
<1>5. rest \in Nat /\ rest <= b
  <2>1. b \in Nat
    BY SMT
  <2> HIDE DEF b
  <2> QED
    BY <1>4, <2>1, LeftAfter
<1>6. e \in Nat /\ e > 0
  <2>1. e \in Nat /\ s[k].conf <= e
    BY StrongestFacts
  <2> HIDE DEF e
  <2> QED
    BY <1>1, <2>1
<1> DEFINE z == IF Cardinality(I) = 1 THEN 10 * e ELSE 10000 - rest
           q == Cap
<1>7. Combine(s, I) = Min({q, z})
  BY CombineIs
<1> HIDE DEF rest, e
<1>8. z \in Int /\ z > 0 /\ q \in Int /\ q > 0
  BY <1>5, <1>6, SMT DEF Cap
<1> HIDE DEF z, q
<1>9. Min({q, z}) = (IF q <= z THEN q ELSE z)
  BY <1>8, MinPair
<1> QED
  BY <1>7, <1>8, <1>9, SMT

-----------------------------------------------------------------------------
(* Reconciliation: the signals that are collected.                         *)

Found(c) == R2(c) \cup R3(c) \cup R4(c) \cup R5(c)

\* Signals of V, of different methods among M.
Varied(s, V, M) ==
    /\ s \in Seq(V)
    /\ \A i \in DOMAIN s : s[i].method \in M
    /\ \A i, j \in DOMAIN s : s[i].method = s[j].method => i = j

\* What the call of one method adds.
OneOrNone(t, V, m) == t = <<>> \/ \E x \in V : x.method = m /\ t = <<x>>

\* Appending what one more method returned keeps one signal per method.
LEMMA GatherOne ==
  ASSUME NEW V, NEW M, NEW m, m \notin M, NEW s, Varied(s, V, M), NEW t, OneOrNone(t, V, m)
  PROVE  Varied(s \o t, V, M \cup {m})
<1>1. /\ s \in Seq(V) /\ Len(s) \in Nat /\ DOMAIN s = 1 .. Len(s)
      /\ \A i \in DOMAIN s : s[i].method \in M
      /\ \A i, j \in DOMAIN s : s[i].method = s[j].method => i = j
  BY DEF Varied
<1>2. CASE t = <<>>
  <2>1. s \o t = s
    BY <1>1, <1>2
  <2>2. \A i \in DOMAIN s : s[i].method \in M \cup {m}
    BY <1>1
  <2> QED
    BY <1>1, <2>1, <2>2 DEF Varied
<1>3. CASE \E x \in V : x.method = m /\ t = <<x>>
  <2>1. PICK x \in V : x.method = m /\ t = <<x>>
    BY <1>3
  <2> DEFINE u == Append(s, x)
             n == Len(s) + 1
  <2>2. s \o t = u
    BY <1>1, <2>1
  <2>3. /\ u \in Seq(V) /\ DOMAIN u = 1 .. n /\ u[n] = x
        /\ \A i \in 1 .. Len(s) : u[i] = s[i]
    BY <1>1, AppendProperties
  <2> HIDE DEF u
  <2>4. ASSUME NEW i \in 1 .. n, i # n PROVE i \in DOMAIN s /\ u[i] = s[i] /\ u[i].method \in M
    <3>1. i \in 1 .. Len(s)
      BY <1>1, <2>4
    <3> QED
      BY <1>1, <2>3, <3>1
  <2>5. u[n].method = m
    BY <2>1, <2>3
  <2>6. \A i \in DOMAIN u : u[i].method \in M \cup {m}
    BY <2>3, <2>4, <2>5
  <2>7. ASSUME NEW i \in DOMAIN u, NEW j \in DOMAIN u, u[i].method = u[j].method PROVE i = j
    <3>1. i \in 1 .. n /\ j \in 1 .. n
      BY <2>3
    <3>2. CASE i # n /\ j # n
      BY <1>1, <2>4, <2>7, <3>1, <3>2
    <3>3. CASE i = n \/ j = n
      BY <2>4, <2>5, <2>7, <3>1, <3>3
    <3> QED
      BY <3>2, <3>3
  <2> QED
    BY <2>2, <2>3, <2>6, <2>7 DEF Varied
<1> QED
  BY <1>2, <1>3 DEF OneOrNone

\* The signals collected for a context.
Gathered(s, c) == Varied(s, Found(c), {"R2", "R3", "R4", "R5"})

MaybeOne(S) == IF S = {} THEN <<>> ELSE <<CHOOSE x \in S : TRUE>>

LEMMA MaybeOneFacts ==
  ASSUME NEW V, NEW S \in SUBSET V, NEW m, \A x \in S : x.method = m
  PROVE  OneOrNone(MaybeOne(S), V, m)
<1>1. CASE S = {}
  BY <1>1 DEF MaybeOne, OneOrNone
<1>2. CASE S # {}
  <2> DEFINE x == CHOOSE x \in S : TRUE
  <2>1. x \in S
    BY <1>2
  <2>2. MaybeOne(S) = <<x>>
    BY <1>2 DEF MaybeOne
  <2> HIDE DEF x
  <2>3. x \in V /\ x.method = m
    BY <2>1
  <2> QED
    BY <2>2, <2>3 DEF OneOrNone
<1> QED
  BY <1>1, <1>2

\* What Collect puts together is at most one signal of each of R2 to R5.
LEMMA CollectGathers ==
  ASSUME NEW c \in Contexts,
         NEW r5 \in IF R5(c) = {} THEN {<<>>} ELSE {<<s>> : s \in R5(c)}
  PROVE  Gathered(MaybeOne(R2(c)) \o MaybeOne(R3(c)) \o MaybeOne(R4(c)) \o r5, c)
<1> DEFINE V == Found(c)
           a == MaybeOne(R2(c))
           b == MaybeOne(R3(c))
           d == MaybeOne(R4(c))
<1>1. /\ R2(c) \in SUBSET V /\ R3(c) \in SUBSET V /\ R4(c) \in SUBSET V /\ R5(c) \in SUBSET V
  BY DEF Found
<1> HIDE DEF V
<1>2. \A x \in R2(c) : x.method = "R2"
  BY R2Facts
<1>3. \A x \in R3(c) : x.method = "R3"
  BY R3Facts
<1>4. \A x \in R4(c) : x.method = "R4"
  BY R4Facts
<1>5. \A x \in R5(c) : x.method = "R5"
  BY R5Facts
<1>6. OneOrNone(a, V, "R2") /\ OneOrNone(b, V, "R3") /\ OneOrNone(d, V, "R4")
  BY <1>1, <1>2, <1>3, <1>4, MaybeOneFacts
<1>7. OneOrNone(r5, V, "R5")
  <2>1. CASE R5(c) = {}
    BY <2>1 DEF OneOrNone
  <2>2. CASE R5(c) # {}
    <3>1. PICK s \in R5(c) : r5 = <<s>>
      BY <2>2
    <3>2. s \in V /\ s.method = "R5"
      BY <1>1, <1>5
    <3> QED
      BY <3>1, <3>2 DEF OneOrNone
  <2> QED
    BY <2>1, <2>2
<1> HIDE DEF a, b, d
<1>8. Varied(<<>>, V, {})
  BY DEF Varied
<1>9. Varied(<<>> \o a, V, {} \cup {"R2"})
  BY <1>6, <1>8, GatherOne
<1>10. <<>> \o a = a
  BY <1>6 DEF OneOrNone
<1>11. Varied(a, V, {"R2"})
  <2>1. {} \cup {"R2"} = {"R2"}
    OBVIOUS
  <2> QED
    BY <1>9, <1>10, <2>1
<1>12. Varied(a \o b, V, {"R2", "R3"})
  <2>1. "R3" \notin {"R2"} /\ {"R2"} \cup {"R3"} = {"R2", "R3"}
    OBVIOUS
  <2>2. Varied(a \o b, V, {"R2"} \cup {"R3"})
    BY <1>6, <1>11, <2>1, GatherOne
  <2> QED
    BY <2>1, <2>2
<1>13. Varied(a \o b \o d, V, {"R2", "R3", "R4"})
  <2>1. "R4" \notin {"R2", "R3"} /\ {"R2", "R3"} \cup {"R4"} = {"R2", "R3", "R4"}
    OBVIOUS
  <2>2. Varied(a \o b \o d, V, {"R2", "R3"} \cup {"R4"})
    BY <1>6, <1>12, <2>1, GatherOne
  <2> QED
    BY <2>1, <2>2
<1>14. Varied(a \o b \o d \o r5, V, {"R2", "R3", "R4", "R5"})
  <2>1. /\ "R5" \notin {"R2", "R3", "R4"}
        /\ {"R2", "R3", "R4"} \cup {"R5"} = {"R2", "R3", "R4", "R5"}
    OBVIOUS
  <2>2. Varied(a \o b \o d \o r5, V, {"R2", "R3", "R4"} \cup {"R5"})
    BY <1>7, <1>13, <2>1, GatherOne
  <2> QED
    BY <2>1, <2>2
<1> QED
  BY <1>14 DEF Gathered, V, a, b, d

\* The signals collected have confidences, R5 keeps its cap, and a method gave
\* no two of them.
LEMMA GatheredFacts ==
  ASSUME NEW c \in Contexts, NEW s, Gathered(s, c)
  PROVE  /\ Confs(s)
         /\ \A i \in DOMAIN s : s[i].method = "R5" => s[i].conf <= 750
         /\ \A i, j \in DOMAIN s : s[i].method = s[j].method => i = j
<1>1. /\ s \in Seq(Found(c))
      /\ \A i, j \in DOMAIN s : s[i].method = s[j].method => i = j
  BY DEF Gathered, Varied
<1>2. ASSUME NEW x \in Found(c)
      PROVE  x.conf \in Nat /\ x.conf <= 1000 /\ (x.method = "R5" => x.conf <= 750)
  <2>1. CASE x \in R2(c)
    BY <2>1, R2Facts
  <2>2. CASE x \in R3(c)
    BY <2>2, R3Facts
  <2>3. CASE x \in R4(c)
    BY <2>3, R4Facts
  <2>4. CASE x \in R5(c)
    <3>1. x.conf \in Nat /\ x.conf <= 750
      BY <2>4, R5Facts
    <3> QED
      BY <3>1
  <2> QED
    BY <2>1, <2>2, <2>3, <2>4 DEF Found
<1>3. ASSUME NEW i \in DOMAIN s PROVE s[i] \in Found(c)
  BY <1>1
<1>4. \A i \in DOMAIN s : s[i].conf \in Nat /\ s[i].conf <= 1000 /\ (s[i].method = "R5" => s[i].conf <= 750)
  BY <1>2, <1>3
<1>5. Len(s) \in Nat /\ DOMAIN s = 1 .. Len(s)
  BY <1>1
<1> QED
  BY <1>1, <1>4, <1>5 DEF Confs

-----------------------------------------------------------------------------
(* Reconciliation: the clusters.                                           *)

LEMMA ClusterFacts ==
  ASSUME NEW s, Confs(s), NEW i \in Ranked(s)
  PROVE  /\ i \in DOMAIN s /\ i \in Nat
         /\ ClusterOf(s, i) \in SUBSET DOMAIN s /\ i \in ClusterOf(s, i)
  BY DEF Ranked, Clusters, ClusterOf, Confs

\* Combined, for any sequence of signals.
CombinedOf(s, i) == Combine(s, ClusterOf(s, i))

LEMMA CombinedType ==
  ASSUME NEW s, Confs(s), NEW i \in Ranked(s)
  PROVE  CombinedOf(s, i) \in Nat /\ CombinedOf(s, i) <= 9500
<1>1. ClusterOf(s, i) \in SUBSET DOMAIN s /\ ClusterOf(s, i) # {}
  BY ClusterFacts
<1> QED
  BY <1>1, CombineType DEF CombinedOf

\* CombineLower for a cluster that is kept.
LEMMA CombinedLower ==
  ASSUME NEW s, Confs(s), NEW i \in Ranked(s), Distinct(s, ClusterOf(s, i))
  PROVE  CombinedOf(s, i) >= Min({Cap, 10 * Strongest(s, ClusterOf(s, i))})
<1>1. ClusterOf(s, i) \in SUBSET DOMAIN s /\ ClusterOf(s, i) # {}
  BY ClusterFacts
<1> QED
  BY <1>1, CombineLower DEF CombinedOf

\* Every signal is in a cluster.
LEMMA InCluster ==
  ASSUME NEW s, Confs(s), NEW m \in DOMAIN s
  PROVE  \E i \in Clusters(s) : m \in ClusterOf(s, i)
<1> DEFINE T == {j \in DOMAIN s : s[j].target = s[m].target}
<1>1. DOMAIN s = 1 .. Len(s) /\ Len(s) \in Nat
  BY DEF Confs
<1>2. T \in SUBSET Nat /\ m \in T /\ T \in SUBSET DOMAIN s
  BY <1>1
<1>3. PICK i \in T : \A j \in T : i <= j
  <2> HIDE DEF T
  <2> QED
    BY <1>2, LeastNumber
<1>4. i \in DOMAIN s /\ i \in Nat /\ s[i].target = s[m].target
  BY <1>2, <1>3
<1>5. i \in Clusters(s)
  <2>1. ASSUME NEW j \in 1 .. i - 1 PROVE s[j].target # s[i].target
    <3>1. j \in DOMAIN s /\ ~(i <= j)
      BY <1>1, <1>4
    <3> QED
      BY <1>3, <1>4, <3>1
  <2> QED
    BY <1>4, <2>1 DEF Clusters
<1> QED
  BY <1>4, <1>5 DEF ClusterOf

\* Whatever max_cluster_targets is, a cluster with evidence is kept if any is.
LEMMA EvidenceRanked ==
  ASSUME NEW s, Confs(s), NEW m \in DOMAIN s, s[m].conf > 0
  PROVE  \E i \in Ranked(s) : CombinedOf(s, i) > 0
<1> DEFINE S == Clusters(s)
           f == [i \in S |-> Strongest(s, ClusterOf(s, i))]
           b == 1000
<1>1. PICK n \in S : m \in ClusterOf(s, n)
  BY InCluster
<1>2. ASSUME NEW i \in S
      PROVE  i \in Nat /\ i \in DOMAIN s /\ ClusterOf(s, i) \in SUBSET DOMAIN s /\ i \in ClusterOf(s, i)
  BY DEF Clusters, ClusterOf, Confs
<1>3. ASSUME NEW i \in S
      PROVE  /\ f[i] \in Nat /\ f[i] <= b /\ f[i] = Strongest(s, ClusterOf(s, i))
             /\ \E k \in ClusterOf(s, i) : f[i] = s[k].conf
             /\ \A k \in ClusterOf(s, i) : s[k].conf <= f[i]
  <2>1. f[i] = Strongest(s, ClusterOf(s, i))
    OBVIOUS
  <2>2. ClusterOf(s, i) \in SUBSET DOMAIN s /\ ClusterOf(s, i) # {}
    BY <1>2
  <2> HIDE DEF f
  <2> QED
    BY <2>1, <2>2, StrongestFacts
<1>4. b \in Int /\ S \in SUBSET Nat /\ S # {} /\ f \in [S -> Int] /\ \A i \in S : f[i] <= b
  <2>1. b \in Int
    OBVIOUS
  <2> HIDE DEF b, S
  <2>2. f \in [S -> Int]
    BY <1>3
  <2> QED
    BY <1>1, <1>2, <1>3, <2>1, <2>2
<1>5. PICK i \in S : \A j \in S : f[i] > f[j] \/ (f[i] = f[j] /\ i <= j)
  <2> HIDE DEF b, S, f
  <2> QED
    BY <1>4, FirstOfLargest
<1>6. ASSUME NEW j \in S, Above(s, j, i) PROVE j = i
  <2>1. f[j] > f[i] \/ (f[j] = f[i] /\ j <= i)
    BY <1>6 DEF Above
  <2>2. f[i] > f[j] \/ (f[i] = f[j] /\ i <= j)
    BY <1>5
  <2>3. f[i] \in Nat /\ f[j] \in Nat /\ i \in Nat /\ j \in Nat
    BY <1>2, <1>3
  <2> HIDE DEF f
  <2> QED
    BY <2>1, <2>2, <2>3
<1> DEFINE A == {j \in Clusters(s) : Above(s, j, i)}
<1>7. A \in SUBSET {i}
  BY <1>6
<1>8. Cardinality(A) \in Nat /\ Cardinality(A) <= 1
  <2> HIDE DEF A
  <2>1. IsFiniteSet({i}) /\ Cardinality({i}) = 1
    BY FS_Singleton
  <2>2. IsFiniteSet(A) /\ Cardinality(A) <= Cardinality({i})
    BY <1>7, <2>1, FS_Subset
  <2> QED
    BY <2>1, <2>2, FS_CardinalityType
<1>9. i \in Ranked(s)
  <2>1. MaxClusters \in Nat /\ MaxClusters >= 1
    BY ReconciliationAssumption
  <2>2. Cardinality(A) <= MaxClusters
    <3> HIDE DEF A
    <3> QED
      BY <1>8, <2>1
  <2> QED
    BY <2>2 DEF Ranked
<1>10. PICK k \in ClusterOf(s, i) : f[i] = s[k].conf
  BY <1>3
<1>11. s[k].conf > 0
  <2>1. f[i] > f[n] \/ f[i] = f[n]
    BY <1>1, <1>5
  <2>2. s[m].conf <= f[n] /\ f[n] \in Nat /\ f[i] \in Nat
    BY <1>1, <1>3
  <2>3. s[m].conf \in Nat
    BY DEF Confs
  <2> HIDE DEF f
  <2>4. f[i] > 0
    BY <2>1, <2>2, <2>3
  <2> QED
    BY <1>10, <2>4
<1>12. Combine(s, ClusterOf(s, i)) > 0
  BY <1>2, <1>10, <1>11, CombinePositive
<1> QED
  BY <1>9, <1>12 DEF CombinedOf

\* A cluster of R5 alone is combined to what R5 said.
LEMMA OwnerAlone ==
  ASSUME NEW c \in Contexts, NEW s, Gathered(s, c), NEW i \in Ranked(s),
         {s[j].method : j \in ClusterOf(s, i)} = {"R5"}
  PROVE  s[i].method = "R5" /\ CombinedOf(s, i) \in Nat /\ CombinedOf(s, i) <= 7500
<1>1. /\ Confs(s)
      /\ \A j \in DOMAIN s : s[j].method = "R5" => s[j].conf <= 750
      /\ \A j, k \in DOMAIN s : s[j].method = s[k].method => j = k
  BY GatheredFacts
<1>2. i \in DOMAIN s /\ ClusterOf(s, i) \in SUBSET DOMAIN s /\ i \in ClusterOf(s, i)
  BY <1>1, ClusterFacts
<1>3. \A j \in ClusterOf(s, i) : s[j].method = "R5"
  OBVIOUS
<1>4. s[i].method = "R5"
  BY <1>2, <1>3
<1>5. ClusterOf(s, i) = {i}
  <2>1. ASSUME NEW j \in ClusterOf(s, i) PROVE j = i
    <3>1. s[j].method = s[i].method /\ j \in DOMAIN s
      BY <1>2, <1>3, <1>4
    <3> QED
      BY <1>1, <1>2, <3>1
  <2> QED
    BY <1>2, <2>1
<1> DEFINE z == 10 * s[i].conf
           q == Cap
<1>6. s[i].conf \in Nat /\ s[i].conf <= 750
  <2>1. s[i].conf \in Nat /\ s[i].conf <= 1000 /\ s[i].conf <= 750
    BY <1>1, <1>2, <1>4 DEF Confs
  <2> QED
    BY <2>1
<1>7. Strongest(s, {i}) = s[i].conf
  BY <1>1, <1>2, <1>5, StrongestFacts
<1>8. CombinedOf(s, i) = Min({q, z})
  <2>1. Cardinality({i}) = 1
    BY FS_Singleton
  <2>2. CombinedOf(s, i) = Min({Cap, 10 * Strongest(s, {i})})
    BY <1>5, <2>1, CombineOne DEF CombinedOf
  <2> QED
    BY <1>7, <2>1, <2>2
<1>9. q \in Int /\ z \in Int /\ z <= q /\ z >= 0 /\ z <= 7500
  <2> DEFINE a == s[i].conf
  <2>1. a \in Nat /\ a <= 750
    BY <1>6
  <2> HIDE DEF a
  <2>2. 9500 \in Int /\ 10 * a \in Int /\ 10 * a <= 9500 /\ 10 * a >= 0 /\ 10 * a <= 7500
    BY <2>1, SMT
  <2> QED
    BY <2>2 DEF Cap, a
<1> HIDE DEF q, z
<1>10. Min({q, z}) = z
  <2>1. Min({q, z}) = IF q <= z THEN q ELSE z
    BY <1>9, MinPair
  <2> QED
    BY <1>9, <2>1
<1>11. z \in Nat /\ z <= 7500
  BY <1>9
<1> QED
  BY <1>4, <1>8, <1>10, <1>11

-----------------------------------------------------------------------------
(* Reconciliation: the invariant of resolve.                               *)

\* What has been collected, and what is left to combine.
InputInv ==
    /\ ctx \in Contexts /\ late \in BOOLEAN
    /\ Gathered(signals, ctx)
    /\ phase = "collected" => signals # <<>>
    /\ phase = "start" => signals = <<>>
    /\ phase \in {"start", "collected"} => todo = {} /\ best = NoBest /\ late = FALSE
    /\ todo \in SUBSET Ranked(signals)

\* The best cluster is one that was combined, and the best of those that were.
BestInv ==
    /\ best = NoBest \/ (best.first \in Ranked(signals) /\ best.conf = CombinedOf(signals, best.first))
    /\ phase # "collected" /\ result.how # "timeboxed" /\ late = FALSE =>
          \A i \in Ranked(signals) \ todo : CombinedOf(signals, i) <= best.conf

\* Where the result comes from.
ResultInv ==
    /\ phase # "done" => result = NoResult
    /\ phase \in {"fallback", "done"} => todo = {}
    /\ result.how = "combined" => best.conf > 0 /\ result.conf = best.conf
    /\ phase = "fallback" => best.conf = 0
    /\ phase = "done" /\ result.how # "timeboxed" /\ result.how # "combined" => best.conf = 0

ResolveInv == InputInv /\ BestInv /\ ResultInv /\ GuessesStayEstimates

LEMMA NoResultFacts ==
    /\ NoResult.how = "none" /\ NoResult.methods = {} /\ NoResult.tier = "estimated"
    /\ NoBest.conf = 0 /\ NoBest.first = 0
  BY DEF NoResult, NoBest

LEMMA EmptyGathered ==
  ASSUME NEW c
  PROVE  Gathered(<<>>, c)
  BY DEF Gathered, Varied

LEMMA NoneRanked ==
  Ranked(<<>>) = {}
  BY DEF Ranked, Clusters

\* A call of resolve begins with nothing collected and no result.
LEMMA ResolveInitInv ==
  ResolveInit => ResolveInv
<1> SUFFICES ASSUME ResolveInit PROVE ResolveInv
  OBVIOUS
<1> USE NoResultFacts DEF ResolveInit
<1>1. InputInv
  BY EmptyGathered DEF InputInv
<1>2. BestInv
  BY NoneRanked DEF BestInv
<1>3. ResultInv
  BY DEF ResultInv
<1>4. GuessesStayEstimates
  BY DEF GuessesStayEstimates
<1> QED
  BY <1>1, <1>2, <1>3, <1>4 DEF ResolveInv

LEMMA ResultFacts ==
  ASSUME NEW primary, NEW methods, NEW conf, NEW how
  PROVE  /\ Result(primary, methods, conf, how).how = how
         /\ Result(primary, methods, conf, how).methods = methods
         /\ Result(primary, methods, conf, how).conf = conf
         /\ Result(primary, methods, conf, how).tier = Tier(Calibrate(ctx.fits, primary.method, conf))
  BY DEF Result

\* A step that ends resolve keeps the input and what is known of the best cluster.
LEMMA DoneKeeps ==
  ASSUME ResolveInv, NEW r, Done(r), phase # "done", todo = {},
         r.how # "timeboxed" => phase # "collected",
         r.how = "combined" => best.conf > 0 /\ r.conf = best.conf,
         r.how # "timeboxed" /\ r.how # "combined" => best.conf = 0,
         r.how = "proportional" /\ "R6" \notin DOMAIN ctx.fits => r.tier = "estimated",
         r.methods = {"R5"} /\ "R5" \notin DOMAIN ctx.fits => r.tier # "chargeback_ready"
  PROVE  ResolveInv'
<1> USE DEF Done
<1>1. InputInv'
  BY DEF ResolveInv, InputInv
<1>0. result.how # "timeboxed"
  BY NoResultFacts DEF ResolveInv, ResultInv
<1>2. BestInv'
  BY <1>0 DEF ResolveInv, BestInv
<1>3. ResultInv'
  BY DEF ResultInv
<1>4. GuessesStayEstimates'
  BY DEF GuessesStayEstimates
<1> QED
  BY <1>1, <1>2, <1>3, <1>4 DEF ResolveInv

\* One lemma per action of resolve.
LEMMA DirectMatchKeeps ==
  ResolveInv /\ DirectMatch => ResolveInv'
<1> SUFFICES ASSUME ResolveInv, DirectMatch PROVE ResolveInv'
  OBVIOUS
<1>1. PICK s \in R1(ctx) : Done(Result(s, {"R1"}, 10 * s.conf, "direct"))
  BY DEF DirectMatch
<1> DEFINE r == Result(s, {"R1"}, 10 * s.conf, "direct")
<1>2. r.how = "direct" /\ r.methods = {"R1"}
  BY ResultFacts
<1>3. r.methods # {"R5"}
  BY <1>2
<1>4. phase = "start" /\ Done(r)
  BY <1>1 DEF DirectMatch
<1>5. todo = {} /\ best.conf = 0
  BY <1>4, NoResultFacts DEF ResolveInv, InputInv
<1> HIDE DEF r
<1> QED
  BY <1>2, <1>3, <1>4, <1>5, DoneKeeps

LEMMA CollectKeeps ==
  ResolveInv /\ Collect => ResolveInv'
<1> SUFFICES ASSUME ResolveInv, Collect PROVE ResolveInv'
  OBVIOUS
<1>1. PICK r5 \in IF R5(ctx) = {} THEN {<<>>} ELSE {<<s>> : s \in R5(ctx)} :
         signals' = MaybeOne(R2(ctx)) \o MaybeOne(R3(ctx)) \o MaybeOne(R4(ctx)) \o r5
  BY DEF Collect, MaybeOne
<1>2. /\ phase = "start" /\ phase' = IF signals' = <<>> THEN "fallback" ELSE "collected"
      /\ UNCHANGED <<ctx, todo, best, result, late>>
  BY DEF Collect
<1>3. ctx \in Contexts /\ late \in BOOLEAN /\ todo = {} /\ best = NoBest /\ late = FALSE
  BY <1>2 DEF ResolveInv, InputInv
<1>4. Gathered(signals', ctx)
  BY <1>1, <1>3, CollectGathers
<1>5. InputInv'
  BY <1>2, <1>3, <1>4 DEF InputInv
<1>6. result = NoResult
  BY <1>2 DEF ResolveInv, ResultInv
<1>7. BestInv'
  BY <1>2, <1>3, <1>6, NoResultFacts, NoneRanked DEF BestInv
<1>8. ResultInv'
  BY <1>2, <1>3, <1>6, NoResultFacts DEF ResultInv
<1>9. GuessesStayEstimates'
  BY <1>2, <1>6, NoResultFacts DEF GuessesStayEstimates
<1> QED
  BY <1>5, <1>7, <1>8, <1>9 DEF ResolveInv

LEMMA TimeboxKeeps ==
  ResolveInv /\ Timebox => ResolveInv'
<1> SUFFICES ASSUME ResolveInv, Timebox PROVE ResolveInv'
  OBVIOUS
<1> DEFINE f == [i \in DOMAIN signals |-> signals[i].conf]
           m == FirstMax(f)
           s == signals[m]
           r == Result(s, {s.method}, 9 * s.conf, "timeboxed")
<1>1. phase = "collected" /\ Done(r) /\ todo = {}
  BY DEF Timebox, ResolveInv, InputInv
<1>2. ctx \in Contexts /\ Gathered(signals, ctx) /\ signals # <<>>
  BY DEF ResolveInv, InputInv, Timebox
<1>3. /\ Confs(signals)
      /\ \A i \in DOMAIN signals : signals[i].method = "R5" => signals[i].conf <= 750
  BY <1>2, GatheredFacts
<1>4. /\ DOMAIN signals \in SUBSET Nat
      /\ \A i \in DOMAIN signals : signals[i].conf \in Nat /\ signals[i].conf <= 1000
  BY <1>3 DEF Confs
<1>5. DOMAIN signals # {}
  BY <1>2 DEF Gathered, Varied
<1>6. m \in DOMAIN signals
  <2> DEFINE b == 1000
  <2>1. f \in [DOMAIN signals -> Int] /\ b \in Int /\ \A i \in DOMAIN signals : f[i] <= b
    <3>0. \A a \in Nat : a <= 1000 => a \in Int /\ a <= b
      OBVIOUS
    <3>1. \A i \in DOMAIN signals : signals[i].conf \in Int /\ signals[i].conf <= b
      BY <1>4, <3>0
    <3> HIDE DEF b
    <3>2. f \in [DOMAIN signals -> Int] /\ \A i \in DOMAIN signals : f[i] <= b
      BY <3>1
    <3> QED
      BY <3>2 DEF b
  <2> HIDE DEF b, f
  <2> QED
    BY <1>4, <1>5, <2>1, FirstMaxFacts
<1> HIDE DEF m
<1>7. /\ r.how = "timeboxed" /\ r.methods = {s.method}
      /\ r.tier = Tier(Calibrate(ctx.fits, s.method, 9 * s.conf))
  BY ResultFacts
<1>8. ASSUME r.methods = {"R5"}, "R5" \notin DOMAIN ctx.fits PROVE r.tier # "chargeback_ready"
  <2>1. s.method = "R5"
    BY <1>7, <1>8
  <2>2. s.conf \in Nat /\ s.conf <= 1000 /\ s.conf <= 750
    BY <1>3, <1>4, <1>6, <2>1
  <2> DEFINE a == s.conf
             v == 9 * a
  <2>3. v \in Nat /\ v <= 7500
    <3>1. a \in Nat /\ a <= 1000 /\ a <= 750
      BY <2>2
    <3> HIDE DEF a
    <3> QED
      BY <3>1, SMT
  <2>4. r.tier = Tier(Calibrate(ctx.fits, "R5", v))
    BY <1>7, <2>1
  <2> HIDE DEF v
  <2> QED
    BY <1>8, <2>3, <2>4, OwnerNotChargeback
<1> HIDE DEF r
<1>9. r.how # "combined" /\ r.how # "proportional" /\ phase # "done"
  BY <1>1, <1>7
<1> QED
  BY <1>1, <1>7, <1>8, <1>9, DoneKeeps

LEMMA ClusterKeeps ==
  ResolveInv /\ Cluster => ResolveInv'
<1> SUFFICES ASSUME ResolveInv, Cluster PROVE ResolveInv'
  OBVIOUS
<1> USE DEF Cluster
<1>1. InputInv'
  BY DEF ResolveInv, InputInv
<1>2. best = NoBest /\ result = NoResult
  BY DEF ResolveInv, InputInv, ResultInv
<1>3. BestInv'
  BY <1>2 DEF BestInv
<1>4. ResultInv'
  BY <1>2, NoResultFacts DEF ResultInv
<1>5. GuessesStayEstimates'
  BY <1>2, NoResultFacts DEF GuessesStayEstimates
<1> QED
  BY <1>1, <1>3, <1>4, <1>5 DEF ResolveInv

LEMMA BestType ==
  ASSUME ResolveInv
  PROVE  best.conf \in Nat
<1>1. ctx \in Contexts /\ Gathered(signals, ctx)
  BY DEF ResolveInv, InputInv
<1>2. Confs(signals)
  BY <1>1, GatheredFacts
<1>3. CASE best = NoBest
  BY <1>3, NoResultFacts
<1>4. CASE best.first \in Ranked(signals) /\ best.conf = CombinedOf(signals, best.first)
  BY <1>2, <1>4, CombinedType
<1> QED
  BY <1>3, <1>4 DEF ResolveInv, BestInv

LEMMA ConsiderKeeps ==
  ResolveInv /\ Consider => ResolveInv'
<1> SUFFICES ASSUME ResolveInv, Consider PROVE ResolveInv'
  OBVIOUS
<1>1. PICK i \in todo :
         /\ best' = IF CombinedOf(signals, i) > best.conf
                    THEN [first |-> i, conf |-> CombinedOf(signals, i)] ELSE best
         /\ todo' = todo \ {i}
  BY DEF Consider, Better, Combined, CombinedOf
<1>2. phase = "loop" /\ UNCHANGED <<ctx, phase, signals, result, late>>
  BY DEF Consider
<1>3. ctx \in Contexts /\ Gathered(signals, ctx) /\ todo \in SUBSET Ranked(signals)
  BY DEF ResolveInv, InputInv
<1>4. Confs(signals)
  BY <1>3, GatheredFacts
<1>5. \A j \in Ranked(signals) : CombinedOf(signals, j) \in Nat
  BY <1>4, CombinedType
<1>6. best.conf \in Nat
  BY BestType
<1>7. InputInv'
  BY <1>1, <1>2, <1>3 DEF ResolveInv, InputInv
<1>8. result = NoResult
  BY <1>2 DEF ResolveInv, ResultInv
<1>9. BestInv'
  <2>1. (best = NoBest \/ (best.first \in Ranked(signals) /\ best.conf = CombinedOf(signals, best.first)))'
    <3>1. CASE CombinedOf(signals, i) > best.conf
      BY <1>1, <1>2, <1>3, <3>1
    <3>2. CASE ~(CombinedOf(signals, i) > best.conf)
      BY <1>1, <1>2, <3>2 DEF ResolveInv, BestInv
    <3> QED
      BY <3>1, <3>2
  <2>2. ASSUME late = FALSE, NEW j \in Ranked(signals) \ todo' PROVE CombinedOf(signals, j) <= best'.conf
    <3>1. CombinedOf(signals, i) \in Nat /\ CombinedOf(signals, j) \in Nat
      BY <1>3, <1>5
    <3>2. best'.conf \in Nat /\ CombinedOf(signals, i) <= best'.conf /\ best.conf <= best'.conf
      BY <1>1, <1>6, <3>1
    <3>3. CASE j = i
      BY <3>2, <3>3
    <3>4. CASE j # i
      <4>1. CombinedOf(signals, j) <= best.conf
        BY <1>1, <1>2, <1>8, <2>2, <3>4, NoResultFacts DEF ResolveInv, BestInv
      <4> QED
        BY <1>6, <3>1, <3>2, <4>1
    <3> QED
      BY <3>3, <3>4
  <2> QED
    BY <1>2, <2>1, <2>2 DEF BestInv
<1>10. ResultInv'
  BY <1>2, <1>8, NoResultFacts DEF ResultInv
<1>11. GuessesStayEstimates'
  BY <1>2, <1>8, NoResultFacts DEF GuessesStayEstimates
<1> QED
  BY <1>7, <1>9, <1>10, <1>11 DEF ResolveInv

LEMMA OutOfTimeKeeps ==
  ResolveInv /\ OutOfTime => ResolveInv'
<1> SUFFICES ASSUME ResolveInv, OutOfTime PROVE ResolveInv'
  OBVIOUS
<1> USE DEF OutOfTime
<1>1. InputInv'
  BY DEF ResolveInv, InputInv
<1>2. result = NoResult
  BY DEF ResolveInv, ResultInv
<1>3. BestInv'
  BY DEF ResolveInv, BestInv
<1>4. ResultInv'
  BY <1>2, NoResultFacts DEF ResultInv
<1>5. GuessesStayEstimates'
  BY <1>2, NoResultFacts DEF GuessesStayEstimates
<1> QED
  BY <1>1, <1>3, <1>4, <1>5 DEF ResolveInv

LEMMA ChooseKeeps ==
  ResolveInv /\ Choose => ResolveInv'
<1> SUFFICES ASSUME ResolveInv, Choose PROVE ResolveInv'
  OBVIOUS
<1>1. phase = "loop" /\ todo = {}
  BY DEF Choose
<1>2. CASE best.conf > 0
  <2> DEFINE b == best.first
             M == {signals[j].method : j \in ClusterOf(signals, b)}
             r == Result(signals[b], M, best.conf, "combined")
  <2>1. Done(r)
    BY <1>2 DEF Choose
  <2>2. b \in Ranked(signals) /\ best.conf = CombinedOf(signals, b)
    BY <1>2, NoResultFacts DEF ResolveInv, BestInv
  <2>3. /\ r.how = "combined" /\ r.methods = M /\ r.conf = best.conf
        /\ r.tier = Tier(Calibrate(ctx.fits, signals[b].method, best.conf))
    BY ResultFacts
  <2>4. ctx \in Contexts /\ Gathered(signals, ctx)
    BY DEF ResolveInv, InputInv
  <2>5. ASSUME M = {"R5"}, "R5" \notin DOMAIN ctx.fits PROVE r.tier # "chargeback_ready"
    <3>1. signals[b].method = "R5" /\ CombinedOf(signals, b) \in Nat /\ CombinedOf(signals, b) <= 7500
      BY <2>2, <2>4, <2>5, OwnerAlone
    <3>2. r.tier = Tier(Calibrate(ctx.fits, "R5", best.conf)) /\ best.conf \in Nat /\ best.conf <= 7500
      BY <2>2, <2>3, <3>1
    <3> QED
      BY <2>5, <3>2, OwnerNotChargeback
  <2> HIDE DEF r, M
  <2>6. /\ r.how # "timeboxed" /\ r.how # "proportional" /\ phase # "done" /\ phase # "collected"
        /\ r.how = "combined" /\ r.conf = best.conf
    BY <1>1, <2>3
  <2>7. r.methods = {"R5"} /\ "R5" \notin DOMAIN ctx.fits => r.tier # "chargeback_ready"
    BY <2>3, <2>5
  <2> QED
    BY <1>1, <1>2, <2>1, <2>6, <2>7, DoneKeeps
<1>3. CASE ~(best.conf > 0)
  <2>1. phase' = "fallback" /\ UNCHANGED <<ctx, signals, todo, best, result, late>>
    BY <1>3 DEF Choose
  <2>2. result = NoResult
    BY <1>1 DEF ResolveInv, ResultInv
  <2>3. InputInv'
    BY <2>1 DEF ResolveInv, InputInv
  <2>4. BestInv'
    BY <1>1, <2>1, <2>2, NoResultFacts DEF ResolveInv, BestInv
  <2>5. ResultInv'
    <3>1. best.conf = 0
      BY <1>3, BestType
    <3> QED
      BY <1>1, <2>1, <2>2, <3>1, NoResultFacts DEF ResultInv
  <2>6. GuessesStayEstimates'
    BY <2>1, <2>2, NoResultFacts DEF GuessesStayEstimates
  <2> QED
    BY <2>3, <2>4, <2>5, <2>6 DEF ResolveInv
<1> QED
  BY <1>2, <1>3

LEMMA FallbackKeeps ==
  ResolveInv /\ Fallback => ResolveInv'
<1> SUFFICES ASSUME ResolveInv, Fallback PROVE ResolveInv'
  OBVIOUS
<1>1. phase = "fallback" /\ ctx \in Contexts /\ todo = {} /\ best.conf = 0
  BY DEF Fallback, ResolveInv, InputInv, ResultInv
<1>2. CASE R6(ctx) = {}
  <2>1. Done(NoResult)
    BY <1>2 DEF Fallback
  <2>2. /\ NoResult.how # "timeboxed" /\ NoResult.how # "combined"
        /\ NoResult.how # "proportional" /\ NoResult.methods # {"R5"}
    BY NoResultFacts
  <2> QED
    BY <1>1, <2>1, <2>2, DoneKeeps
<1>3. CASE R6(ctx) # {}
  <2> DEFINE s == CHOOSE s \in R6(ctx) : \A x \in R6(ctx) : x.conf <= s.conf
             r == Result(s, {"R6"}, 10 * s.conf, "proportional")
  <2>1. Done(r)
    BY <1>3 DEF Fallback
  <2>2. s \in R6(ctx)
    <3>1. \A x \in R6(ctx) : x.conf \in Nat /\ x.conf <= 650
      BY <1>1, R6Facts
    <3> DEFINE b == 650
               T == {b - x.conf : x \in R6(ctx)}
    <3>2. \A x \in R6(ctx) : b - x.conf \in Nat /\ x.conf \in Int
      BY <3>1
    <3>3. T \in SUBSET Nat /\ T # {}
      BY <1>3, <3>2
    <3>4. PICK t \in T : \A y \in T : t <= y
      <4> HIDE DEF T
      <4> QED
        BY <3>3, LeastNumber
    <3>5. PICK x \in R6(ctx) : t = b - x.conf
      BY <3>4
    <3>6. ASSUME NEW y \in R6(ctx) PROVE y.conf <= x.conf
      <4>1. b - x.conf <= b - y.conf
        BY <3>4, <3>5
      <4>2. x.conf \in Int /\ y.conf \in Int /\ b \in Int
        BY <3>2
      <4> HIDE DEF b
      <4> QED
        BY <4>1, <4>2
    <3> QED
      BY <3>6
  <2> HIDE DEF s
  <2>3. s.method = "R6" /\ s.conf \in Nat /\ s.conf <= 650
    BY <1>1, <2>2, R6Facts
  <2>4. /\ r.how = "proportional" /\ r.methods = {"R6"}
        /\ r.tier = Tier(Calibrate(ctx.fits, s.method, 10 * s.conf))
    BY ResultFacts
  <2>5. ASSUME "R6" \notin DOMAIN ctx.fits PROVE r.tier = "estimated"
    <3> DEFINE a == s.conf
               v == 10 * a
    <3>1. v \in Nat /\ v <= 6500
      <4>1. a \in Nat /\ a <= 650
        BY <2>3
      <4> HIDE DEF a
      <4> QED
        BY <4>1, SMT
    <3>2. r.tier = Tier(Calibrate(ctx.fits, "R6", v))
      BY <2>3, <2>4
    <3> HIDE DEF v
    <3> QED
      BY <2>5, <3>1, <3>2, ShareIsEstimate
  <2> HIDE DEF r
  <2>6. r.how # "timeboxed" /\ r.how # "combined" /\ r.methods # {"R5"}
    BY <2>4
  <2> QED
    BY <1>1, <2>1, <2>5, <2>6, DoneKeeps
<1> QED
  BY <1>2, <1>3

\* Every step of resolve keeps its invariant.
LEMMA ResolveStepInv ==
  ResolveInv /\ [ResolveNext]_resolveVars => ResolveInv'
<1>1. ASSUME ResolveInv, UNCHANGED resolveVars PROVE ResolveInv'
  BY <1>1 DEF resolveVars, ResolveInv, InputInv, BestInv, ResultInv, GuessesStayEstimates
<1> QED
  BY <1>1, DirectMatchKeeps, CollectKeeps, TimeboxKeeps, ClusterKeeps, ConsiderKeeps,
     OutOfTimeKeeps, ChooseKeeps, FallbackKeeps DEF ResolveNext

LEMMA ResolveInvariant ==
  ResolveSpec => []ResolveInv
  BY ResolveInitInv, ResolveStepInv, PTL DEF ResolveSpec

\* GuessesStayEstimates of every call of resolve, for every context: while its
\* method has the curve of the warm start, an allocation by proportion is an
\* estimate, and an owner that only R5 found is not ready for chargeback.
THEOREM GuessesStay ==
  ResolveSpec => []GuessesStayEstimates
<1>1. ResolveInv => GuessesStayEstimates
  BY DEF ResolveInv
<1> QED
  BY <1>1, ResolveInvariant, PTL

\* StrongestSurvives of every call of resolve: combine_evidence never takes from
\* a cluster of distinct confidences more than the cap takes.
THEOREM StrongestKept ==
  ResolveSpec => []StrongestSurvives
<1>1. ResolveInv => StrongestSurvives
  <2> SUFFICES ASSUME ResolveInv, best.conf > 0, Distinct(signals, ClusterOf(signals, best.first))
               PROVE  best.conf >= Min({Cap, 10 * Strongest(signals, ClusterOf(signals, best.first))})
    BY DEF StrongestSurvives
  <2>1. best.first \in Ranked(signals) /\ best.conf = CombinedOf(signals, best.first)
    BY NoResultFacts DEF ResolveInv, BestInv
  <2>2. ctx \in Contexts /\ Gathered(signals, ctx)
    BY DEF ResolveInv, InputInv
  <2>3. Confs(signals)
    BY <2>2, GatheredFacts
  <2> DEFINE i == best.first
  <2>4. i \in Ranked(signals) /\ Distinct(signals, ClusterOf(signals, i))
    BY <2>1
  <2> HIDE DEF i
  <2>5. CombinedOf(signals, i) >= Min({Cap, 10 * Strongest(signals, ClusterOf(signals, i))})
    BY <2>3, <2>4, CombinedLower
  <2> QED
    BY <2>1, <2>5 DEF i
<1> QED
  BY <1>1, ResolveInvariant, PTL

\* EvidenceDecides of every call of resolve, for every context and every limit
\* on the clusters and on the history: within the budget the best of the clusters
\* that are kept wins, and evidence never gives way to R6 or to "unresolved".
THEOREM EvidenceWins ==
  ResolveSpec => []EvidenceDecides
<1>1. ResolveInv => EvidenceDecides
  <2> SUFFICES ASSUME ResolveInv, phase = "done", ~late, result.how # "timeboxed", Evidence
               PROVE  /\ result.how = "combined"
                      /\ result.conf = Max({Combined(i) : i \in Ranked(signals)})
    BY DEF EvidenceDecides
  <2>1. ctx \in Contexts /\ Gathered(signals, ctx) /\ late = FALSE
    BY DEF ResolveInv, InputInv
  <2>2. Confs(signals)
    BY <2>1, GatheredFacts
  <2>3. PICK m \in DOMAIN signals : signals[m].conf > 0
    BY DEF Evidence
  <2>4. PICK i \in Ranked(signals) : CombinedOf(signals, i) > 0
    BY <2>2, <2>3, EvidenceRanked
  <2>5. todo = {}
    BY DEF ResolveInv, ResultInv
  <2>6. \A j \in Ranked(signals) : CombinedOf(signals, j) \in Nat /\ CombinedOf(signals, j) <= best.conf
    <3>1. \A j \in Ranked(signals) : CombinedOf(signals, j) <= best.conf
      BY <2>1, <2>5 DEF ResolveInv, BestInv
    <3> QED
      BY <2>2, <3>1, CombinedType
  <2>7. best.conf \in Nat /\ best.conf > 0
    <3>1. best.conf \in Nat
      BY BestType
    <3> QED
      BY <2>4, <2>6, <3>1
  <2>8. result.how = "combined" /\ result.conf = best.conf
    <3>1. result.how = "combined"
      BY <2>7 DEF ResolveInv, ResultInv
    <3> QED
      BY <3>1 DEF ResolveInv, ResultInv
  <2>9. best.first \in Ranked(signals) /\ best.conf = CombinedOf(signals, best.first)
    BY <2>7, NoResultFacts DEF ResolveInv, BestInv
  <2> DEFINE S == {CombinedOf(signals, j) : j \in Ranked(signals)}
             b == best.conf
  <2>10. {Combined(j) : j \in Ranked(signals)} = S
    BY DEF Combined, CombinedOf
  <2>11. S \in SUBSET Int /\ b \in S /\ b \in Int /\ \A x \in S : x <= b
    BY <2>6, <2>7, <2>9
  <2> HIDE DEF S, b
  <2>12. Max(S) \in S /\ \A y \in S : Max(S) >= y
    BY <2>11, MaxOfBounded
  <2>13. Max(S) = b
    <3>1. Max(S) \in Int /\ Max(S) <= b /\ Max(S) >= b
      BY <2>11, <2>12
    <3> QED
      BY <2>11, <3>1
  <2> QED
    BY <2>8, <2>10, <2>13 DEF b
<1> QED
  BY <1>1, ResolveInvariant, PTL
=============================================================================
