---------------------------- MODULE Attribution ----------------------------
(***************************************************************************)
(* The attribution pipeline of a processor: AttributionProcessor           *)
(* (core/processor.py) turns the events of the bus into graph updates,     *)
(* calibration labels and entries of the serving index.  An inference      *)
(* event reads the graph at its event time, goes through the               *)
(* reconciliation engine and its cache of results (hre/engine.py), and is  *)
(* materialized with the policies of the owner (policy/engine.py,          *)
(* index/materializer.py).  Handlers do not await: each is one step, except *)
(* that the two writes of an org change are two transactions in Neo4j,     *)
(* between which other replicas write and the second of which may fail.    *)
(*                                                                         *)
(* Both graph backends receive every call, so that what they store can be  *)
(* compared; `backend' is the one graph_backend selects and reads go to.   *)
(* Org changes are taken from a history of moves per person and may be     *)
(* delivered late, again, or out of order.  The serving index is           *)
(* abstracted to the newest entry of each workload.                        *)
(***************************************************************************)
EXTENDS GraphStore, FiniteSetsExt, SequencesExt

CONSTANTS
    Workloads, Teams, People,
    Candidates,   \* Candidates[w]: the ids _candidate_graph_node_ids tries, in order
    Similar,      \* pairs <<w, repo>> the naming convention R3 accepts
    Seeds,        \* edges of the demo graph, in the order of _seed_graph
    SeedOwner,    \* SeedOwner[w]: the team of the demo entry of w
    Jobs,         \* deployments: records of a job, its target and its deployer
    Policies,     \* policies: records of an id, scope, team and enabled
    CacheTTL, CacheMax,            \* cache_ttl_seconds, cache_max_entries
    MinBootstrap, MinFull,         \* min_samples_bootstrap, min_samples_full_calibration
    MaxTime, MaxMoves,             \* bounds on time and on the moves of a person
    MaxEvents                      \* bound on events handled and changes made

NoTeam == "no team"

Methods == {"R1", "R3"}

ASSUME AttributionAssumption ==
    /\ Teams \cup People \subseteq Ids
    /\ \A w \in Workloads : Candidates[w] \in Seq(Ids)
    /\ Seeds \in Seq(Keys) /\ \A w \in DOMAIN SeedOwner : SeedOwner[w] \in Ids
    /\ \A p \in People, team \in Teams : <<p, team, "member_of">> \in Keys
    /\ \A job \in Jobs :
          /\ job.id \in Ids /\ job.target \in Ids \cup {NoTeam}
          /\ job.target # NoTeam => <<job.id, job.target, "triggers">> \in Keys
          /\ job.deployer # NoTeam => <<job.deployer, job.id, "deployed_by">> \in Keys
    /\ CacheTTL \in Nat /\ CacheMax \in Nat \ {0}
    /\ MinBootstrap \in Nat /\ MinFull \in Nat
    /\ {MaxTime, MaxMoves, MaxEvents} \subseteq Nat

VARIABLES
    mem, neo, backend,
    cache,      \* _cache of the engine: [workload, at, owner, method], LRU first
    index,      \* index[w]: what is served for w, owner NoTeam if there is no entry
    labels,     \* labels[m]: number of ground truth labels of method m
    curve,      \* curve[m]: which curve calibrate uses for m
    policies,   \* policies of the engine in registration order
    now,
    moves,      \* moves[p]: the moves of p, [time, from, to], oldest first
    applied,    \* applied[p]: the latest move of p delivered
    inOrder,    \* inOrder[p]: the moves of p were handled one after the other, none
                \* skipped, or repeated after a later one
    repeated,   \* repeated[p]: when a move of p was last delivered again
    midway,     \* midway[p]: the moves of p handled as far as their first transaction
    cut,        \* people for whom the second transaction of a move failed
    booting,    \* a bootstrap waits for the bus
    answered,   \* answered[w][o]: when the graph last gave o as the owner of w, or -1
    events

vars == <<mem, neo, backend, cache, index, labels, curve, policies, now, moves,
          applied, inOrder, repeated, midway, cut, booting, answered, events>>

graphVars == <<mem, neo>>
servingVars == <<cache, index, answered>>
hrVars == <<moves, applied, inOrder, repeated, midway, cut>>
otherVars == <<labels, curve, policies>>

NoPolicy == [id |-> "none", scope |-> "none", team |-> NoTeam, enabled |-> FALSE]

\* An entry of the index: its owner, the method that found it, the curve its
\* confidence was calibrated with, the policy embedded and materialized_at.
Entry(owner, method, c, policy) ==
    [owner |-> owner, method |-> method, curve |-> c, policy |-> policy, at |-> now]

Nobody == [owner |-> NoTeam, method |-> "none", curve |-> "warm", policy |-> NoPolicy, at |-> 0]

Init ==
    /\ mem = EmptyMem /\ neo = EmptyNeo
    /\ backend \in {"memory", "neo4j"}
    /\ cache = <<>>
    /\ index = [w \in Workloads |-> Nobody]
    /\ labels = [m \in Methods |-> 0]
    /\ curve = [m \in Methods |-> "warm"]
    /\ policies = <<>>
    /\ now = 0
    /\ moves = [p \in People |-> <<>>]
    /\ applied = [p \in People |-> 0]
    /\ inOrder = [p \in People |-> TRUE]
    /\ repeated = [p \in People |-> 0]
    /\ midway = [p \in People |-> {}]
    /\ cut = {}
    /\ booting = FALSE
    /\ answered = [w \in Workloads |-> [o \in Ids |-> -1]]
    /\ events = 0

Tick ==
    /\ now < MaxTime
    /\ now' = now + 1
    /\ UNCHANGED <<mem, neo, backend, cache, index, labels, curve, policies, moves,
                   applied, inOrder, repeated, midway, cut, booting, answered, events>>

\* MaxEvents bounds the events handled and the changes made by others.
Counted == events < MaxEvents /\ events' = events + 1 /\ UNCHANGED <<backend, now>>

Handled == Counted /\ UNCHANGED booting

-----------------------------------------------------------------------------
(* The reconciliation engine, as the processor uses it.                    *)

Nodes == IF backend = "memory" THEN mem.nodes ELSE neo.nodes

KeyOf(i) == IF backend = "memory" THEN mem.edges[i].key ELSE neo.edges[i].key

From(n, t) == IF backend = "memory" THEN EdgesFrom(mem, n, t) ELSE NeoEdgesFrom(neo, n, t)

\* Neo4j returns edges by their start, the list in insertion order.
Before(i, j) ==
    IF backend = "memory" THEN i < j ELSE StringLess(neo.edges[i].from, neo.edges[j].from)

\* identity_mappings of _build_context: the last target of the candidates'
\* edges that is a team or a person.
DirectOwners(w, t) ==
    LET hits == {h \in (DOMAIN Candidates[w]) \X (DOMAIN mem.edges) :
                    /\ h[2] \in From(Candidates[w][h[1]], t)
                    /\ Nodes[KeyOf(h[2])[2]] \in {"team", "person"}}
        Overwrites(g, h) == g[1] > h[1] \/ (g[1] = h[1] /\ Before(h[2], g[2]))
    IN  {KeyOf(h[2])[2] : h \in {h \in hits : \A g \in hits : ~Overwrites(g, h)}}

\* naming_patterns: the teams that own, now, a repository whose name is similar
\* to the workload's.  The teams come from a Python set, in no given order.
NamedAlike(w) ==
    {t \in NodesByType(Nodes, "team") : \E i \in From(t, now) :
        Nodes[KeyOf(i)[2]] = "repository" /\ <<w, KeyOf(i)[2]>> \in Similar}

\* What resolve may compute.  R1 returns at once; a slow resolution leaves its
\* loop over the clusters and finds nothing; R2, R4, R5 and R6 have no context.
Resolutions(w, t) ==
    LET direct == DirectOwners(w, t)
    IN  IF direct # {} THEN {[owner |-> o, method |-> "R1"] : o \in direct}
        ELSE {[owner |-> o, method |-> "R3"] : o \in NamedAlike(w)}
             \cup {[owner |-> NoTeam, method |-> "none"]}

\* An ordered dict without the entry of a key, at whose position it is, if any.
Popped(s, positions) ==
    IF positions = {} THEN s ELSE RemoveAt(s, CHOOSE i \in positions : TRUE)

Without(c, w) == Popped(c, {i \in DOMAIN c : c[i].workload = w})

\* Mutant: a hit renews the entry.
TouchRenews(r) == Append(Without(cache, r.workload), [r EXCEPT !.at = now])

\* A hit moves the entry to the end and leaves its time.
Touch(r) == Append(Without(cache, r.workload), r)

\* _cache_result, with the oldest entries dropped.
Store(w, r) ==
    LET grown == Append(Without(cache, w),
                        [workload |-> w, at |-> now, owner |-> r.owner, method |-> r.method])
    IN  SubSeq(grown, Max({1, Len(grown) - CacheMax + 1}), Len(grown))

Hits(w) == {r \in {cache[i] : i \in DOMAIN cache} : r.workload = w /\ now - r.at <= CacheTTL}

-----------------------------------------------------------------------------
(* The policy engine.                                                      *)

\* A policy: the getters differ only in the type they look for, so one type
\* stands for each; `scope' is "global" or a team, `team' the team_id of the
\* parameters.  A cost ceiling without a value counts as disabled.
Matches(p, team) == p.scope = team \/ p.team = team

\* Mutant: an updated policy goes to the end.
RegisterMoves(ps, p) == Append(SelectSeq(ps, LAMBDA q : q.id # p.id), p)

\* register_policy: a known id keeps its place in the dict.
Register(ps, p) ==
    IF \E i \in DOMAIN ps : ps[i].id = p.id
    THEN [i \in DOMAIN ps |-> IF ps[i].id = p.id THEN p ELSE ps[i]]
    ELSE Append(ps, p)

\* get_model_allowlist, get_budget_context, get_token_budgets and
\* get_cost_ceiling: the first policy of the team, else the last global one.
PolicyFor(team) ==
    LET live == {i \in DOMAIN policies : policies[i].enabled}
        own == {i \in live : Matches(policies[i], team)}
        global == {i \in live : policies[i].scope = "global"}
    IN  IF own # {} THEN policies[Min(own)]
        ELSE IF global # {} THEN policies[Max(global)] ELSE NoPolicy

RegisterPolicy(p) ==
    /\ Handled
    /\ policies' = Register(policies, p)
    /\ UNCHANGED <<graphVars, servingVars, labels, curve, hrVars>>

RemovePolicy(id) ==
    /\ Handled
    /\ policies' = Popped(policies, {i \in DOMAIN policies : policies[i].id = id})
    /\ UNCHANGED <<graphVars, servingVars, labels, curve, hrVars>>

-----------------------------------------------------------------------------
(* Event handlers.                                                         *)

\* materialize_attribution, for a result with a positive confidence; an
\* unresolved workload keeps the entry it has.
Materialized(w, r) ==
    IF r.method = "none" THEN index
    ELSE [index EXCEPT ![w] = Entry(r.owner, r.method, curve[r.method], PolicyFor(r.owner))]

\* _handle_inference with a result in the cache.
InferenceCached(w) ==
    /\ Handled
    /\ \E r \in Hits(w) : cache' = Touch(r) /\ index' = Materialized(w, r)
    /\ UNCHANGED <<graphVars, otherVars, hrVars, answered>>

\* _handle_inference otherwise, for an event of time t: every result is cached,
\* an unresolved one too.
InferenceResolved(w, t) ==
    /\ Handled
    /\ Hits(w) = {}
    /\ \E r \in Resolutions(w, t) :
          /\ cache' = Store(w, r)
          /\ index' = Materialized(w, r)
          /\ answered' = IF r.method = "none" THEN answered
                         ELSE [answered EXCEPT ![w][r.owner] = now]
    /\ UNCHANGED <<graphVars, otherVars, hrVars>>

\* _handle_deployment of job d: target and deployer may be missing, and the
\* person node of the deployer is not created.
Deployment(job, t) ==
    LET d == job.id
        r == job.target
        p == job.deployer
        Linked(g, Upsert(_, _, _), Add(_, _, _)) ==
            LET g1 == Upsert(g, d, "deployment")
                g2 == IF r = NoTeam THEN g1
                      ELSE Add(Upsert(g1, r, "resource"), Edge(<<d, r, "triggers">>, t), now)
            IN  IF p = NoTeam THEN g2 ELSE Add(g2, Edge(<<p, d, "deployed_by">>, t), now)
    IN  /\ Handled
        /\ mem' = Linked(mem, UpsertNode, AddEdge)
        /\ neo' = Linked(neo, NeoUpsertNode, NeoAddEdge)
        /\ UNCHANGED <<servingVars, otherVars, hrVars>>

\* _handle_billing: a known resource is upserted with the type it has.
Billing(n) ==
    /\ Handled
    /\ mem' = UpsertNode(mem, n, mem.nodes[n])
    /\ neo' = NeoUpsertNode(neo, n, neo.nodes[n])
    /\ UNCHANGED <<servingVars, otherVars, hrVars>>

\* _handle_correction: a label, and a new curve once there are enough; neither
\* the cache nor the index is touched.
Correction(m) ==
    /\ Handled
    /\ labels' = [labels EXCEPT ![m] = @ + 1]
    /\ curve' = [curve EXCEPT ![m] = IF labels'[m] >= MinFull THEN "isotonic"
                                     ELSE IF labels'[m] >= MinBootstrap THEN "bootstrap" ELSE @]
    /\ UNCHANGED <<graphVars, servingVars, hrVars, policies>>

\* The two writes of _handle_org_change for move m of p, to either store: both
\* memberships change at the time of the event, and nothing changes if the team
\* does not.
LeaveTeam(g, p, m) ==
    IF m.from = NoTeam \/ m.from = m.to THEN g
    ELSE CloseEdge(g, <<p, m.from, "member_of">>, m.time)

NeoLeaveTeam(g, p, m) ==
    IF m.from = NoTeam \/ m.from = m.to THEN g
    ELSE NeoCloseEdge(g, <<p, m.from, "member_of">>, m.time)

JoinTeam(g, p, m) ==
    IF m.to = NoTeam \/ m.from = m.to THEN g
    ELSE AddEdge(g, Edge(<<p, m.to, "member_of">>, m.time), now)

NeoJoinTeam(g, p, m) ==
    IF m.to = NoTeam \/ m.from = m.to THEN g
    ELSE NeoAddEdge(g, Edge(<<p, m.to, "member_of">>, m.time), now)

\* Bookkeeping: the handling of the i-th move of p begins, and it is over.
Begins(p, i) ==
    inOrder' = [inOrder EXCEPT ![p] = @ /\ i \in {applied[p], applied[p] + 1} /\ midway[p] = {}]

Over(p, i) ==
    /\ applied' = [applied EXCEPT ![p] = Max({i, @})]
    /\ repeated' = [repeated EXCEPT ![p] = IF i <= applied[p] THEN now ELSE @]

\* _handle_org_change of the i-th move of p, with nothing in between.
HandleOrgChange(p, i) ==
    LET m == moves[p][i]
    IN  /\ Handled
        /\ mem' = JoinTeam(LeaveTeam(mem, p, m), p, m)
        /\ neo' = NeoJoinTeam(NeoLeaveTeam(neo, p, m), p, m)
        /\ Begins(p, i) /\ Over(p, i)
        /\ UNCHANGED <<servingVars, otherVars, moves, midway, cut>>

\* The first transaction of it in Neo4j,
OrgChangeCloses(p, i) ==
    /\ backend = "neo4j"
    /\ Handled
    /\ i \notin midway[p]
    /\ mem' = LeaveTeam(mem, p, moves[p][i])
    /\ neo' = NeoLeaveTeam(neo, p, moves[p][i])
    /\ midway' = [midway EXCEPT ![p] = @ \cup {i}]
    /\ Begins(p, i)
    /\ UNCHANGED <<servingVars, otherVars, moves, applied, repeated, cut>>

\* Mutant: the new membership starts when it is written.
OrgChangeAddsNow(p, i) ==
    LET m == [moves[p][i] EXCEPT !.time = now]
    IN  /\ i \in midway[p]
        /\ mem' = JoinTeam(mem, p, m)
        /\ neo' = NeoJoinTeam(neo, p, m)
        /\ midway' = [midway EXCEPT ![p] = @ \ {i}]
        /\ Over(p, i)
        /\ UNCHANGED <<servingVars, otherVars, moves, inOrder, cut, backend, now, booting, events>>

\* the second one,
OrgChangeAdds(p, i) ==
    /\ i \in midway[p]
    /\ mem' = JoinTeam(mem, p, moves[p][i])
    /\ neo' = NeoJoinTeam(neo, p, moves[p][i])
    /\ midway' = [midway EXCEPT ![p] = @ \ {i}]
    /\ Over(p, i)
    /\ UNCHANGED <<servingVars, otherVars, moves, inOrder, cut, backend, now, booting, events>>

\* or its failure: the bus dead-letters the event and goes on.
OrgChangeFails(p, i) ==
    /\ i \in midway[p]
    /\ midway' = [midway EXCEPT ![p] = @ \ {i}]
    /\ cut' = cut \cup {p}
    /\ Over(p, i)
    /\ UNCHANGED <<graphVars, servingVars, otherVars, moves, inOrder, backend, now, booting, events>>

\* HR moves a person: the event exists from now on.
Move(p, team) ==
    LET m == moves[p]
        current == IF m = <<>> THEN NoTeam ELSE m[Len(m)].to
    IN  /\ Len(m) < MaxMoves
        /\ moves' = [moves EXCEPT ![p] = Append(m, [time |-> now, from |-> current, to |-> team])]
        /\ UNCHANGED <<mem, neo, backend, servingVars, otherVars, now, applied, inOrder,
                       repeated, midway, cut, booting, events>>

\* Ownership of a workload is recorded by other writers of the graph.
SetOwner(k, t) ==
    /\ Handled
    /\ k[3] = "attributed_to"
    /\ mem' = AddEdge(UpsertNode(mem, k[2], "team"), Edge(k, t), now)
    /\ neo' = NeoAddEdge(NeoUpsertNode(neo, k[2], "team"), Edge(k, t), now)
    /\ UNCHANGED <<servingVars, otherVars, hrVars>>

\* _seed_graph of either backend: the two ends of every edge, and the edge, which
\* starts now.  All nodes come first in the code; an edge changes none that exists.
Seed(g, s) ==
    AddEdge(UpsertNode(UpsertNode(g, s[1], InferredType[s[1]]), s[2], InferredType[s[2]]),
            Edge(s, now), now)

NeoSeed(g, s) ==
    NeoAddEdge(NeoUpsertNode(NeoUpsertNode(g, s[1], InferredType[s[1]]), s[2], InferredType[s[2]]),
               Edge(s, now), now)

SeedGraph(g) ==
    LET seeded[n \in 0 .. Len(Seeds)] == IF n = 0 THEN g ELSE Seed(seeded[n - 1], Seeds[n])
    IN  seeded[Len(Seeds)]

NeoSeedGraph(g) ==
    LET seeded[n \in 0 .. Len(Seeds)] == IF n = 0 THEN g ELSE NeoSeed(seeded[n - 1], Seeds[n])
    IN  seeded[Len(Seeds)]

\* bootstrap_demo_state up to its await: skipped without a reset if the index
\* has entries; a reset clears the index and the graph and leaves the engine's
\* cache.
Bootstrap(reset) ==
    LET empty == [w \in Workloads |-> Nobody]
    IN  /\ Counted
        /\ ~booting /\ booting' = TRUE
        /\ reset \/ index = empty
        /\ mem' = SeedGraph(IF reset THEN EmptyMem ELSE mem)
        /\ neo' = NeoSeedGraph(IF reset THEN EmptyNeo ELSE neo)
        /\ index' = IF reset THEN empty ELSE index
        /\ inOrder' = [p \in People |-> FALSE]
        /\ UNCHANGED <<cache, answered, otherVars, moves, applied, repeated, midway, cut>>

\* Its end: while publish_batch was awaited, the demo events and any others may
\* have been handled; then the seed entries replace what is served.
BootstrapEntries ==
    /\ booting /\ booting' = FALSE
    /\ index' = [w \in Workloads |-> IF w \in DOMAIN SeedOwner
                                    THEN Entry(SeedOwner[w], "seed", "warm", NoPolicy) ELSE index[w]]
    /\ UNCHANGED <<graphVars, backend, cache, answered, otherVars, now, hrVars, events>>

Resources == UNION {{Candidates[w][i] : i \in DOMAIN Candidates[w]} : w \in Workloads}

\* Who belongs where and what runs where.
StructureNext ==
    \/ \E job \in Jobs, t \in 0 .. now : Deployment(job, t)
    \/ \E n \in Resources : Billing(n)
    \/ \E p \in People : \E i \in DOMAIN moves[p] :
          HandleOrgChange(p, i) \/ OrgChangeCloses(p, i) \/ OrgChangeAdds(p, i) \/ OrgChangeFails(p, i)
    \/ \E p \in People, team \in Teams \cup {NoTeam} : Move(p, team)

\* Who owns what, what is resolved and served.
ServingNext ==
    \/ \E w \in Workloads : InferenceCached(w)
    \/ \E w \in Workloads, t \in 0 .. now : InferenceResolved(w, t)
    \/ \E k \in Keys, t \in 0 .. now : SetOwner(k, t)
    \/ \E m \in Methods : Correction(m)
    \/ \E p \in Policies : RegisterPolicy(p)
    \/ \E p \in Policies : RemovePolicy(p.id)

SharedNext ==
    \/ Tick
    \/ \E reset \in BOOLEAN : Bootstrap(reset)
    \/ BootstrapEntries

Next == StructureNext \/ ServingNext \/ SharedNext

Spec == Init /\ [][Next]_vars

-----------------------------------------------------------------------------

\* Both stores: a key has at most one open edge, and it is the one the active
\* index of the in-memory store names; so get_stats, which counts entries,
\* counts open edges.  close_edge and add_edge rely on it to find the edge.
ActiveIndexExact ==
    \A i \in DOMAIN mem.edges : mem.edges[i].to = Open <=> mem.active[mem.edges[i].key] = i

\* Given the same calls, the backends hold the same edges and answer every
\* query about a node and a time alike, though one compares datetimes and
\* closes one edge by its index and the other compares ISO strings and closes
\* all that match.
BackendsAgree ==
    /\ [i \in DOMAIN neo.edges |-> Deserialize(neo.edges[i])] = mem.edges
    /\ NeoStats(neo).active = Stats(mem).active
    /\ \A n \in Ids, t \in 0 .. MaxTime + 1 :
          /\ EdgesFrom(mem, n, t) = NeoEdgesFrom(neo, n, t)
          /\ EdgesTo(mem, n, t) = NeoEdgesTo(neo, n, t)

\* The teams of p at time t, by the graph and by the moves delivered.
MemberOf(p, t) == {mem.edges[i].key[2] : i \in {i \in EdgesFrom(mem, p, t) :
                                                  mem.edges[i].key[3] = "member_of"}}
HistoryTeam(p, t) ==
    LET known == {i \in 1 .. applied[p] : moves[p][i].time <= t}
    IN  (IF known = {} THEN {} ELSE {moves[p][Max(known)].to}) \ {NoTeam}

\* People change teams, and the graph must tell where they were at any time
\* (the docstring of GraphEdge).  If the moves of a person were handled one after
\* the other and in order, the graph names no team that is not in the history, also
\* between the two transactions of a move and after the second one failed, and if
\* none is open or failed it names the team of the history.  If the latest move was
\* handled more than once, the first holds from the last repetition on.
MembershipIsHistory ==
    \A p \in People, t \in 0 .. MaxTime : inOrder[p] =>
        /\ t >= repeated[p] => MemberOf(p, t) \subseteq HistoryTeam(p, t)
        /\ midway[p] = {} /\ p \notin cut => HistoryTeam(p, t) \subseteq MemberOf(p, t)

\* docs/architecture.md: the graph "supports point-in-time traversal for historical
\* attribution reconstruction" and "can be rebuilt deterministically from the event
\* log".  A person leaves one team for the next, so there is at most one team of a
\* person now, in whatever order the bus, which spreads the moves of a person over
\* its partitions, hands them to _handle_org_change.
OneTeamAtATime == \A p \in People : Cardinality(MemberOf(p, now)) <= 1

\* Whenever an inference event writes an entry to the serving index, its owner is
\* one the graph gave for that workload at most cache_ttl_seconds earlier: however
\* often a cached result is used, it is used for no longer than that.
ServedOwnerRecent ==
    [][\A w \in Workloads : index'[w] # index[w] /\ index'[w].method \in Methods =>
          /\ answered'[w][index'[w].owner] # -1
          /\ now - answered'[w][index'[w].owner] <= CacheTTL]_vars

\* The docstring of _handle_correction: corrections "feed back as ground truth labels
\* for calibration and trigger re-materialization".  So what is served for a workload
\* was calibrated with the curve that is used now.
ServedCurveCurrent ==
    \A w \in Workloads : index[w].method \in Methods => index[w].curve = curve[index[w].method]

\* The place of a policy in the order of registration.
Place(id) == CHOOSE i \in DOMAIN policies : policies[i].id = id

\* The policy of its own that is in force for a team is displaced only if it is
\* removed, disabled or given to others, or by one registered before it: neither a
\* new policy, of whatever scope, nor an update of the policy itself takes it out of
\* force, although both the first match and the last global policy win.
OwnPolicyStays ==
    [][\A team \in Teams :
          LET p == PolicyFor(team)
              q == PolicyFor(team)'
          IN  Matches(p, team) /\ p.enabled /\ q.id # p.id =>
                 \/ \A i \in DOMAIN policies' : policies'[i].id = p.id =>
                        ~(policies'[i].enabled /\ Matches(policies'[i], team))
                 \/ \E i \in DOMAIN policies : policies[i].id = q.id /\ i < Place(p.id)]_vars
=============================================================================
