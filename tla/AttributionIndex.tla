-------------------------- MODULE AttributionIndex --------------------------
(***************************************************************************)
(* AttributionIndexStore (index/materializer.py): the serving index.       *)
(* Every process keeps a bounded LRU cache and the version it last gave to *)
(* each cached workload; processors write entries through to a Redis hash  *)
(* that accepts a write only if its version is not below the stored one,   *)
(* and gateways fall back to Redis on a local miss.  The store's methods   *)
(* do not await, so inside a process only the Redis call separates the     *)
(* local part of materialize from the durable one.                         *)
(*                                                                         *)
(* What an entry says is abstracted to `fresh', the number of its          *)
(* materialization in real time: a larger one is the newer attribution.    *)
(***************************************************************************)
EXTENDS Integers, Sequences, FiniteSets, SequencesExt

CONSTANTS
    Processors,   \* processes that materialize
    Gateways,     \* processes that only look up
    Workloads,
    MaxEntries,   \* max_entries of every local cache
    MaxWrites,    \* bound on materializations
    MaxDeletes,   \* bound on evict and clear calls
    MaxExpiries,  \* bound on Redis keys that outlive index_redis_ttl_s
    MaxFaults,    \* bound on Redis calls that fail
    MaxRestarts   \* bound on process restarts

ASSUME IndexAssumption ==
    /\ MaxEntries \in Nat \ {0}
    /\ {MaxWrites, MaxDeletes, MaxExpiries, MaxFaults, MaxRestarts} \subseteq Nat

VARIABLES
    index,      \* index[p]: _index, least recently used first
    versions,   \* versions[p]: _versions, 0 where the dict has no key
    pending,    \* pending[p]: entries put in the cache and not yet sent to Redis
    redis,      \* redis[w]: the durable entry, version 0 if there is none
    writes, deletes, expiries, faults, restarts,
    stored      \* history: stored[w]: newest entry whose durable write succeeded

vars == <<index, versions, pending, redis, writes, deletes, expiries, faults,
          restarts, stored>>

Processes == Processors \cup Gateways

Entries == [workload : Workloads, version : Nat, fresh : Nat]

TypeOK ==
    /\ index \in [Processes -> Seq(Entries)]
    /\ versions \in [Processes -> [Workloads -> Nat]]
    /\ pending \in [Processors -> SUBSET Entries]
    /\ redis \in [Workloads -> Entries]
    /\ writes \in 0 .. MaxWrites
    /\ deletes \in 0 .. MaxDeletes
    /\ expiries \in 0 .. MaxExpiries
    /\ faults \in 0 .. MaxFaults
    /\ restarts \in 0 .. MaxRestarts
    /\ stored \in [Workloads -> Nat]

Nothing(w) == [workload |-> w, version |-> 0, fresh |-> 0]

Init ==
    /\ index = [p \in Processes |-> <<>>]
    /\ versions = [p \in Processes |-> [w \in Workloads |-> 0]]
    /\ pending = [p \in Processors |-> {}]
    /\ redis = [w \in Workloads |-> Nothing(w)]
    /\ writes = 0 /\ deletes = 0 /\ expiries = 0 /\ faults = 0 /\ restarts = 0
    /\ stored = [w \in Workloads |-> 0]

Fault == faults < MaxFaults /\ faults' = faults + 1

\* The entries a process has cached.
Cached(p) == {index[p][i] : i \in 1 .. Len(index[p])}

Has(p, w) == \E e \in Cached(p) : e.workload = w

\* Where an ordered dict has its entry of w, and the dict without it.
Position(cache, w) == CHOOSE i \in 1 .. Len(cache) : cache[i].workload = w

Without(cache, w) ==
    IF \E i \in 1 .. Len(cache) : cache[i].workload = w
    THEN RemoveAt(cache, Position(cache, w))
    ELSE cache

-----------------------------------------------------------------------------

\* Mutant: the evicted workload keeps its version.
InsertKeepsVersion(p, e) ==
    LET moved == Append(Without(index[p], e.workload), e)
        full  == Len(moved) > MaxEntries
    IN  /\ index' = [index EXCEPT ![p] = IF full THEN Tail(moved) ELSE moved]
        /\ versions' = [versions EXCEPT ![p][e.workload] = e.version]

\* _insert_local_locked: the entry becomes the most recently used one, and the
\* least recently used one goes when there are too many.
Insert(p, e) ==
    LET moved == Append(Without(index[p], e.workload), e)
        full  == Len(moved) > MaxEntries
        known == [versions[p] EXCEPT ![e.workload] = e.version]
    IN  /\ index' = [index EXCEPT ![p] = IF full THEN Tail(moved) ELSE moved]
        /\ versions' = [versions EXCEPT ![p] =
                           IF full THEN [known EXCEPT ![Head(moved).workload] = 0] ELSE known]

\* The local half of materialize.
Materialize(p, w) ==
    LET e == [workload |-> w, version |-> versions[p][w] + 1, fresh |-> writes + 1]
    IN  /\ pending[p] = {}
        /\ writes < MaxWrites
        /\ writes' = writes + 1
        /\ Insert(p, e)
        /\ pending' = [pending EXCEPT ![p] = {e}]
        /\ UNCHANGED <<redis, deletes, expiries, faults, restarts, stored>>

\* The upsert script: an entry with a lower version is refused.
Script(old, new) == IF new.version < old.version THEN old ELSE new

\* The durable half: EVAL answers, which counts as a durable write.
WriteDurable(p) ==
    \E e \in pending[p] :
        /\ redis' = [redis EXCEPT ![e.workload] = Script(@, e)]
        /\ stored' = [stored EXCEPT ![e.workload] = IF e.fresh > @ THEN e.fresh ELSE @]
        /\ pending' = [pending EXCEPT ![p] = {}]
        /\ UNCHANGED <<index, versions, writes, deletes, expiries, faults, restarts>>

\* EVAL fails and the plain HSET after it succeeds.
WriteFallback(p) ==
    \E e \in pending[p] :
        /\ Fault
        /\ redis' = [redis EXCEPT ![e.workload] = e]
        /\ stored' = [stored EXCEPT ![e.workload] = IF e.fresh > @ THEN e.fresh ELSE @]
        /\ pending' = [pending EXCEPT ![p] = {}]
        /\ UNCHANGED <<index, versions, writes, deletes, expiries, restarts>>

\* Both fail, which counts as an error.  The EVAL may have taken effect before
\* its reply was lost, and so may the HSET, whose EXPIRE comes after it.
WriteFails(p) ==
    \E e \in pending[p] :
        /\ Fault
        /\ redis' \in {redis,
                       [redis EXCEPT ![e.workload] = Script(@, e)],
                       [redis EXCEPT ![e.workload] = e]}
        /\ pending' = [pending EXCEPT ![p] = {}]
        /\ UNCHANGED <<index, versions, writes, deletes, expiries, restarts, stored>>

\* A local hit only moves the entry to the recent end.
Hit(p, w) ==
    /\ Has(p, w)
    /\ index' = [index EXCEPT ![p] = Append(Without(@, w), @[Position(@, w)])]
    /\ UNCHANGED <<versions, pending, redis, writes, deletes, expiries, faults, restarts, stored>>

\* A local miss loads the durable entry, version included.
Load(p, w) ==
    /\ ~Has(p, w)
    /\ redis[w].version > 0
    /\ Insert(p, redis[w])
    /\ UNCHANGED <<pending, redis, writes, deletes, expiries, faults, restarts, stored>>

\* These workloads leave the cache, which keeps the rest, and the version map;
\* the durable entries are deleted too unless Redis fails.
Forget(p, gone, rest, fails) ==
    /\ pending[p] = {}
    /\ deletes < MaxDeletes
    /\ deletes' = deletes + 1
    /\ index' = [index EXCEPT ![p] = rest]
    /\ versions' = [versions EXCEPT ![p] = [w \in Workloads |-> IF w \in gone THEN 0 ELSE @[w]]]
    /\ \/ fails /\ Fault /\ UNCHANGED <<redis, stored>>
       \/ /\ ~fails
          /\ redis' = [w \in Workloads |-> IF w \in gone THEN Nothing(w) ELSE redis[w]]
          /\ stored' = [w \in Workloads |-> IF w \in gone THEN 0 ELSE stored[w]]
          /\ UNCHANGED faults
    /\ UNCHANGED <<pending, writes, expiries, restarts>>

Evict(p, w, fails) == Forget(p, {w}, Without(index[p], w), fails)

Clear(p, fails) == Forget(p, Workloads, <<>>, fails)

\* The TTL of a durable entry runs out.
Expire(w) ==
    /\ redis[w].version > 0
    /\ expiries < MaxExpiries
    /\ expiries' = expiries + 1
    /\ redis' = [redis EXCEPT ![w] = Nothing(w)]
    /\ stored' = [stored EXCEPT ![w] = 0]
    /\ UNCHANGED <<index, versions, pending, writes, deletes, faults, restarts>>

\* A process is replaced: cache and versions start empty.
Restart(p) ==
    /\ restarts < MaxRestarts
    /\ restarts' = restarts + 1
    /\ index' = [index EXCEPT ![p] = <<>>]
    /\ versions' = [versions EXCEPT ![p] = [w \in Workloads |-> 0]]
    /\ pending' = [q \in Processors |-> IF q = p THEN {} ELSE pending[q]]
    /\ UNCHANGED <<redis, writes, deletes, expiries, faults, stored>>

Lookup(p, w) == Hit(p, w) \/ Load(p, w)

Write(p) == WriteDurable(p) \/ WriteFallback(p) \/ WriteFails(p)

Next ==
    \/ \E p \in Processors :
          \/ \E w \in Workloads : Materialize(p, w)
          \/ Write(p)
          \/ \E fails \in BOOLEAN : Clear(p, fails) \/ \E w \in Workloads : Evict(p, w, fails)
    \/ \E p \in Processes : Restart(p) \/ \E w \in Workloads : Lookup(p, w)
    \/ \E w \in Workloads : Expire(w)

Spec == Init /\ [][Next]_vars

-----------------------------------------------------------------------------

\* The cache and the version map of a process describe the same workloads with
\* the same versions, and the cache is within its bound: LRU eviction, durable
\* loads, evict and clear never leave one of them behind.
VersionsMatchCache ==
    \A p \in Processes :
        /\ Len(index[p]) <= MaxEntries
        /\ \A i, j \in 1 .. Len(index[p]) :
              index[p][i].workload = index[p][j].workload => i = j
        /\ \A e \in Cached(p) : versions[p][e.workload] = e.version
        /\ \A w \in Workloads : versions[p][w] # 0 => Has(p, w)

\* "Redis durable fallback on index misses to avoid value-loss during LRU
\* eviction" (wiki-src/Technical-Architecture.md): what Redis serves is at least
\* as new as every entry whose durable write was reported successful.
SuccessfulWriteIsServed ==
    \A w \in Workloads : redis[w].version > 0 => redis[w].fresh >= stored[w]
=============================================================================
