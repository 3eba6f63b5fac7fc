----------------------------- MODULE GraphStore -----------------------------
(***************************************************************************)
(* The attribution graph (graph/store.py): typed nodes and time-versioned  *)
(* edges, kept by one of two backends.  A store is a value and every       *)
(* method an operator from stores to stores, so that a handler that makes  *)
(* several calls is their composition.                                     *)
(*                                                                         *)
(* InMemoryGraphStore is [nodes, edges, active]: `edges' is the append-    *)
(* only list and active[k] the position of the entry of                    *)
(* _active_edge_index, 0 if the key is absent.  _nodes_by_type,            *)
(* _from_index and _to_index are appended to with the lists they index and *)
(* are read here as selections from them.  Neo4jGraphStore is              *)
(* [nodes, edges]; its times are the ISO strings the queries compare.      *)
(*                                                                         *)
(* A time is a number of half seconds: an even one has no fraction and     *)
(* isoformat() prints none.                                                *)
(***************************************************************************)
EXTENDS Integers, Sequences, FiniteSets

CONSTANTS
    Ids,            \* node ids
    Keys,           \* the edges that may exist: from_id, to_id and type
    InferredType    \* InferredType[n]: _infer_node_type of the id's prefix

NodeTypes == {"team", "person", "resource", "deployment", "repository", "budget"}

EdgeTypes == {"member_of", "attributed_to", "owns_code", "triggers", "deployed_by"}

ASSUME GraphAssumption ==
    /\ InferredType \in [Ids -> NodeTypes]
    /\ Keys \subseteq Ids \X Ids \X EdgeTypes

\* A GraphEdge without a valid_to; every caller adds edges that are open.
Open == -1

Edge(key, from) == [key |-> key, from |-> from, to |-> Open]

-----------------------------------------------------------------------------

EmptyMem ==
    [nodes |-> [n \in Ids |-> "none"], edges |-> <<>>, active |-> [k \in Keys |-> 0]]

UpsertNode(g, n, type) == [g EXCEPT !.nodes[n] = type]

\* Close the edge the index names, if it is still open.
Retire(edges, i, at) ==
    IF i # 0 /\ edges[i].to = Open THEN [edges EXCEPT ![i].to = at] ELSE edges

\* add_edge: an open edge with the same ends and type ends now, by the wall
\* clock, whatever the valid_from of its successor.
AddEdge(g, e, now) ==
    [g EXCEPT !.edges = Append(Retire(g.edges, g.active[e.key], now), e),
              !.active[e.key] = Len(g.edges) + 1]

\* Mutant: the entry stays in the index of active edges.
CloseEdgeKeepsEntry(g, key, at) == [g EXCEPT !.edges = Retire(g.edges, g.active[key], at)]

\* close_edge: the entry leaves the index whether or not its edge was open.
CloseEdge(g, key, at) ==
    [g EXCEPT !.edges = Retire(g.edges, g.active[key], at), !.active[key] = 0]

ValidAt(e, t) == e.from <= t /\ (e.to = Open \/ e.to > t)

\* get_edges_from and get_edges_to: positions in the list, which is the order
\* in which the edges are returned.
EdgesFrom(g, n, t) == {i \in DOMAIN g.edges : g.edges[i].key[1] = n /\ ValidAt(g.edges[i], t)}
EdgesTo(g, n, t) == {i \in DOMAIN g.edges : g.edges[i].key[2] = n /\ ValidAt(g.edges[i], t)}

NodesByType(nodes, type) == {n \in Ids : nodes[n] = type}

\* get_stats counts the entries of the index, not the open edges.
Stats(g) ==
    LET active == Cardinality({k \in Keys : g.active[k] # 0})
    IN  [nodes |-> Cardinality({n \in Ids : g.nodes[n] # "none"}),
         active |-> active, historical |-> Len(g.edges) - active]

-----------------------------------------------------------------------------

\* Mutant: UTC is written as Z, which sorts after the dot of a fraction.
IsoZulu(t) == <<t \div 2>> \o (IF t % 2 = 0 THEN <<90>> ELSE <<46, 5, 43>>)

\* _to_iso: the seconds, a fraction after a dot (character 46) if there is
\* one, and the offset, which starts with a plus (character 43).
Iso(t) == <<t \div 2>> \o (IF t % 2 = 0 THEN <<43>> ELSE <<46, 5, 43>>)

\* An open edge has the empty string for valid_to_iso.
IsoEnd(t) == IF t = Open THEN <<>> ELSE Iso(t)

\* The order in which Cypher compares strings.
StringLess(a, b) ==
    \/ \E i \in 1 .. Len(a) :
          /\ i <= Len(b) /\ a[i] < b[i]
          /\ \A j \in 1 .. i - 1 : a[j] = b[j]
    \/ /\ Len(a) < Len(b)
       /\ \A j \in 1 .. Len(a) : a[j] = b[j]

EmptyNeo == [nodes |-> [n \in Ids |-> "none"], edges |-> <<>>]

\* SET valid_to_iso of every edge that matches the key and is open.
NeoRetire(edges, key, at) ==
    [i \in DOMAIN edges |->
        IF edges[i].key = key /\ edges[i].to = <<>>
        THEN [edges[i] EXCEPT !.to = Iso(at)] ELSE edges[i]]

\* MERGE creates an end that does not exist, with the type its id suggests.
Merge(nodes, n) == IF nodes[n] = "none" THEN [nodes EXCEPT ![n] = InferredType[n]] ELSE nodes

NeoUpsertNode(g, n, type) == [g EXCEPT !.nodes[n] = type]

NeoAddEdge(g, e, now) ==
    [nodes |-> Merge(Merge(g.nodes, e.key[1]), e.key[2]),
     edges |-> Append(NeoRetire(g.edges, e.key, now),
                      [key |-> e.key, from |-> Iso(e.from), to |-> IsoEnd(e.to)])]

NeoCloseEdge(g, key, at) == [g EXCEPT !.edges = NeoRetire(g.edges, key, at)]

NeoValidAt(e, t) ==
    /\ ~StringLess(Iso(t), e.from)
    /\ e.to = <<>> \/ StringLess(Iso(t), e.to)

\* ORDER BY valid_from_iso leaves the order of equal times to the database:
\* only the set of matching edges is determined, and which starts last.
NeoEdgesFrom(g, n, t) ==
    {i \in DOMAIN g.edges : g.edges[i].key[1] = n /\ NeoValidAt(g.edges[i], t)}
NeoEdgesTo(g, n, t) ==
    {i \in DOMAIN g.edges : g.edges[i].key[2] = n /\ NeoValidAt(g.edges[i], t)}

NeoStats(g) ==
    LET active == Cardinality({i \in DOMAIN g.edges : g.edges[i].to = <<>>})
    IN  [nodes |-> Cardinality({n \in Ids : g.nodes[n] # "none"}),
         active |-> active, historical |-> Len(g.edges) - active]

-----------------------------------------------------------------------------

\* _from_iso and _deserialize_edge.
FromIso(s) == IF s = <<>> THEN Open
              ELSE 2 * s[1] + (IF s[2] = 46 THEN 1 ELSE 0)

Deserialize(r) == [key |-> r.key, from |-> FromIso(r.from), to |-> FromIso(r.to)]
=============================================================================
