# A TLA+ model of ACI

This directory holds a TLA+ verification project for the ACI repository (Python,
`src/src/aci/`). ACI attributes AI requests to teams and cost centres. Slow work
happens off the request path: events arrive on an event bus, a processor updates an
organisation graph and reconciles attributions, and a materializer stores the result
in an index. The gateway's *interceptor* only reads that index, within a time budget,
and must never hold up or break a customer's request ("fail open"); a circuit breaker
that all gateway replicas share through Redis takes enrichment out of the path when it
keeps failing.

The modules cover what is concurrent, distributed or stateful: on the request path the
breaker with its Redis store and the interceptor; between the parts, both event buses and
the index store; behind them the attribution pipeline (processor, graph, reconciliation,
policies), ingestion over HTTP, and the services around the core that keep state.

| file | what it is |
|---|---|
| `CircuitState` | the breaker record and its mutators, as operators |
| `CircuitBreaker` | abstract specification: one atomic record |
| `CircuitStore` | the Redis WATCH/GET/EXEC protocol on that record |
| `GatewayBreaker` | replicas' requests and what they report to the breaker |
| `Interceptor` | the pipeline of `FailOpenInterceptor` |
| `InMemoryEventBus` | the in-process bus: log, idempotency window, dispatch |
| `KafkaEventBus` | the Kafka bus with its Redis idempotency store |
| `AttributionIndex` | `AttributionIndexStore`: LRU cache over Redis |
| `GraphStore` | nodes and time-versioned edges, in memory and in Neo4j, as operators |
| `Attribution` | the processor's handlers over graph, result cache, policies and index |
| `Reconciliation` | one resolution of the reconciliation engine, with its time budget |
| `Ingestion` | configuration, middlewares, rate limiters and ingest endpoints of the pods |
| `ShadowWarmer` | concurrent refreshes after index misses |
| `FederatedBenchmark` | publications that spend the privacy budgets of shared members |
| `CostLedger` | cost records, bills and the price catalog |
| `*Proofs` | theorems and their TLAPS proofs |
| `MC*` and `*.cfg` | model values, symmetry sets and instances for TLC |
| `PROJECT.json` | components, runs, mutants, line map, hazards, findings, theorems |

`tlc -config X.cfg MCModule` runs one instance; `tlapm ModuleProofs.tla` checks a proof
module.

## 1. Inventory

Paths are relative to `src/src/aci/`.

**Circuit breaker state machine** (`interceptor/circuit_breaker.py`). State: the record
`CircuitBreakerState` (state, failure count, time of last failure, half-open success and
probe counts, totals). Operations: `is_open`, `record_success`, `record_failure`,
`force_open`, `force_close`, `state`, each a mutator handed to a state store. Hard:
boundaries of three counters and a timeout, outcomes that arrive late. Correct when it
opens by the threshold-th consecutive failure, lets through at most
`half_open_max_probes` probes, and closes again once the cause is gone.

**Circuit breaker stores** (same file). `RedisCircuitBreakerStateStore` runs the mutator
in an optimistic WATCH/GET/MULTI/EXEC loop; when Redis raises, `_mutate` of the breaker
runs it on a private copy of the process, the fallback. Hard: races of replicas, a lost
reply to an EXEC that took effect, restarts, an unbounded retry loop, pods with clocks of
their own. Correct when no update is lost and the store looks like one atomic record.

**Fail-open interceptor** (`interceptor/gateway.py`). State: mode, five counters, the
background tasks, and the shared breaker. Operations: `intercept` (breaker check, workload id,
index lookup, time budget, policy evaluation, one of three modes, header budget, audit
events), the mode switch of the API, metrics. Hard: a dozen return paths that each count,
report and emit separately; other replicas between a request's admission and its outcome;
retried request ids. Correct when counters partition the requests and each admitted request
reports as the breaker expects.

**In-memory event bus** (`core/event_bus.py`). State: a bounded log, a set and a queue of
idempotency keys, subscriptions, a semaphore. Operations: `publish`, `subscribe`, dispatch.
Hard: two bounded windows sliding at different speeds; handlers that raise or are cancelled
while they hold a permit. Correct when the log never holds one key twice and each publish
returns.

**Kafka event bus and idempotency stores** (same file). State: the Redis key with its
expiry, the topic, the dead-letter topic, offsets, the consumer task. Operations:
`publish`, `_consume_loop`, `_handle_message`, `_commit_offset`, `_publish_dlq`, start and
stop. Hard: every step can fail on its own, processes die, the group rebalances. Correct
when nothing is committed that was neither handled nor dead-lettered, and everything
published is handled in the end.

**Attribution index** (`index/materializer.py`). `AttributionIndexStore` keeps an LRU
cache and a version per workload in each process; a Lua script writes to Redis unless
the stored version is newer. `IndexMaterializer` builds entries, tiers them and rebuilds
the index. Hard: several writers numbering versions independently, eviction, TTLs, the
script failing. Correct when a write that succeeded is what readers get.

**Shadow warming** (`interceptor/shadow_warming.py`). In-progress set and last-refresh
times, with a bound; refreshes started by concurrent misses. Correct when one workload is
refreshed by one task at a time, a miss is told to refresh again only after the interval,
and the bounded map forgets the workload refreshed longest ago.

**Graph store** (`graph/store.py`, `models/graph.py`). Nodes and edges with a validity
interval, in memory (a list, an index of open edges) or in Neo4j (ISO strings in
properties). Operations: `upsert_node`, `add_edge`, `close_edge`, queries by node and time,
statistics, `clear`. Hard: two implementations of one protocol, string comparison of
times, an index that must follow the list. Correct when both answer alike.

**Attribution processor** (`core/processor.py`), **index materializer**, **policy engine**
(`policy/engine.py`), **calibration labels** (`confidence/`). Handlers for inference,
deployment, billing, correction and org-change events update graph, labels and index; an
inference result is materialized with the policies of its owner. Hard: events late,
repeated and out of order; results cached across graph changes. Correct when the
memberships valid at a time are the ones the moves say, and nothing stale is served for
longer than the cache allows.

**Heuristic reconciliation engine** (`hre/`). Six methods give signals, which are clustered
by target, combined with discounts for correlated methods, capped, and graded into tiers;
a time budget cuts the work short anywhere. Correct when evidence decides over guesses, and
adding weak evidence never sinks the strongest signal.

**HTTP ingestion** (`api/app.py`, `api/auth.py`, `api/runtime.py`, `config.py`). Middlewares
for role, authentication and body size, a sliding-window or a Redis token-bucket rate
limiter, validation, publication of single events and batches; a validator of the settings.
Hard: pods whose clocks differ share one bucket, over calls that are late or lose their
reply; cleanup of a map while it is in use;
half-published batches; settings that only together are unsafe.

**Federated benchmark** (`benchmark/federated.py`). Cohorts, metrics, consumed privacy
budgets, a lock around check and spending but not around the member lists. **FinOps ledger
and price catalog** (`finops/reconciliation.py`, `pricing/catalog.py`). Estimates and bills
per request, rules in force from a date; any of them may arrive late or again.

**Equivalence verifier, interventions, notifications, connectors, forecast, TRAC, carbon.**
Not called, without a life cycle, translation, or formulas; section 5 says why they are not
modelled.

How they interact. The interceptor calls the breaker and the index store, and publishes
audit, shadow and intervention events on the bus from background tasks. The bus
dispatches to the processor, which updates graph and engine and calls the materializer,
which writes the index. Gateways and processors share state only through Redis (breaker
record, index entries, idempotency keys) and Kafka. Inside a process everything runs on
one asyncio loop; `_intercept_inner` and the index store never await, so they are atomic
inside a process and interleave only between processes. The processor's handlers do not
await either; the ingest handlers await the limiter and the bus; shadow warming and the
benchmark use thread locks and are modelled with threads.

Every hazard found, with its line and the properties that would notice it, is in
`PROJECT.json`.

## 2. Modules and code

### CircuitState, CircuitBreaker, CircuitStore

`CircuitState` has one operator per mutator: `AfterReset`
(`_transition_if_reset_timeout_elapsed`), `IsOpen`, `RecordSuccess`, `RecordFailure`,
`ForceOpen`, `ForceClose`. `Mutator(o, s, now)` is the closure the method `o` passes to
the store. Times are integers; the dataclass default `0.0` for the last failure is the
constant `Epoch`.

`CircuitBreaker` is the promise: one record on which a method is one atomic step, at a reading
the caller's clock gave since the record was last written. It is also exactly what
`LocalCircuitBreakerStateStore` does under its lock.

`CircuitStore` splits a method into `Call`, `Watch`, `Get` (GET and the mutator in the
process), `Exec` or `Retry`. `dirty[r]` is Redis' watch flag. `RedisError` is a command
that raises, after which the method is answered from `fallback[r]`; `ReplyLost` is an
EXEC that takes effect while the caller sees the timeout, so the mutator also runs on
the fallback; `Restart` drops a process with its fallback. A mutator takes the time from its
pod's own clock at the GET: any of `Readings`, which is up to `MaxSkew` off the true time
`now`, so that a reading may also be behind an earlier one of another pod. `admits`,
`counted` and `written` are history: half-open admissions of the present episode,
fail-opens committed, and the time of the last commit.

### GatewayBreaker

The breaker together with its users. A request is `Reject`ed, or `Admit`ted and then
ends: `Succeed`, `Fail`, or `Leave` when it reports nothing. Operators force the circuit;
`Observe` is the metrics code reading `state`. The clock is relative (`time.time()` is
0), which keeps the state space finite without a time bound: the code cannot tell
readings beyond the reset timeout apart.

### Interceptor

`pc[r]` is split where the pipeline touches what other replicas share: `Arrive`
(`is_open`), `Unidentified`, `Miss`, `BudgetSpent`, `Hit` (lookup), `PolicyTimeout`,
`Observed` (passive and advisory), `Downgraded` and `Routed` (active), `Record`
(`record_success`), `Raise` (the handler in `intercept`) and `Observe`. Confidence is
abstracted to the three bands the two thresholds make; policies to the two violations
that change the route; an event to its idempotency key. What a lookup returns is a free
choice, as the index is another component.

### InMemoryEventBus

`Accept` is a publish up to its first await (check, remember, append), followed by one
`Start` per matching subscription, which takes a permit of the semaphore, and the ways to
give it back: `Finish`, `Raise` (logged and swallowed) and `Cancel` of the publisher with all
its handlers. `Slide` is the append
and drop that both bounded queues share. `publish_batch` is a sequence of publishes.
`replay` only reads, and the counters behind
the statistics are left out.

### KafkaEventBus

One partition. `SeenOrAdd`, `Send` and their failures are publish; the failure actions
take a Boolean for whether the remote side took effect before the error. `Start`,
`Assign`, `Poll`, `PollFails`, `Dispatch`, `DispatchFails`, `PublishDlq`, `DlqFails`, `Commit`,
`CommitFails` and `Crash` are the consumer; the broker and the group coordinator are
modelled from how the code uses them (automatic commit off, `earliest` offset reset, one
group). A task in state `dead` is one whose exception left `_consume_loop`.
`under[c]` is history: the assignment under which `c` fetched its batch.

### AttributionIndex

`index[p]` is the LRU cache as a sequence, oldest first; `versions[p]` the versions;
`redis[w]` the stored hash. `Materialize` is the local part of `materialize`; the Redis
part, `WriteDurable`, `WriteFallback` or `WriteFails` (before, between or after the HSET and
the EXPIRE), is a step of its own because other
processes act between them. `Lookup` is `Hit` or `Load`. `Evict` and `Clear` share `Forget`.
`fresh` is history: the order in which entries were computed, so that a property can
tell the newest entry from the one with the highest version.

### GraphStore and Attribution

`GraphStore` gives both backends as operators on a record (`mem`, `neo`): `AddEdge`,
`CloseEdge` and `EdgesFrom` are the list and its `active` index, `NeoAddEdge`,
`NeoCloseEdge` and `NeoEdgesFrom` the Cypher statements with times as the strings `Iso`
writes and `StringLess` compares. An edge is its key, start and end.

`Attribution` calls both backends with the same arguments, so that they can be compared,
and reads from the one `backend` selects. One action per handler: `InferenceCached` and
`InferenceResolved` (`_handle_inference` with and without a cached result), `Deployment`,
`Billing`, `Correction`, `HandleOrgChange`, and `RegisterPolicy`, `RemovePolicy`,
`Bootstrap`, `BootstrapEntries` (before and after the await of `bootstrap_demo_state`).
`SetOwner` stands for the writers of ownership edges. `Move` is the HR system; a move may
be handled late, twice or out of order. In Neo4j each of its two writes is a transaction of
its own, so a move is also handled in two steps, `OrgChangeCloses` and `OrgChangeAdds`, with
anything in between, or ends in `OrgChangeFails`, after which the bus dead-letters it. `cache`
is the engine's ordered dict with its TTL. `answered`, `inOrder`, `repeated` and `cut` are
history for the properties. The demo's own entries (`BootstrapEntries`) have the method `seed`
and are no answers of the graph.

### Reconciliation

One call of `resolve`, from the evidence `ctx` on: `DirectMatch`, `Collect` (R2 to R5),
`Timebox` or `Cluster`, `Consider` per cluster, `OutOfTime` between any two, `Choose`,
`Fallback` (R6 or nobody). Confidences are integers in thousandths, and combined ones in
ten-thousandths; string similarity is an input. `Combine` has the discounts for correlated
methods, the diminishing weights and the cap; `Calibrate` interpolates in the curve of the
method: the one in `ctx.fits`, if corrections have fitted one, which may be any curve with
`IsFitted` (monotone, from 0 to 1, at most .95), else the one of the warm start. A cluster of
signals for one target is the set of their positions (`ClusterOf`), and its first position
names it, as the first signal creates the dict's entry; `Ranked` are the clusters that are
kept, `todo` those the loop has not seen, `Sooner` its order. Rounding is that of exact
arithmetic, where the code rounds binary floats; the product of `Combine` is rounded after
every factor, since TLC's integers are too short for all the factors, and may differ from the
code's by two in its last digit.

### Ingestion

`cfg` is any of the given settings the validator (`ValidConfig`) accepts. A request is
refused (`Refuse`), or asks the limiter of the configuration: `AskWindow`; `AskBucket`;
`AskNothing` when Redis raises and the request is let in; `LoseReply` when it raises after the
script ran. A call of the script carries a time its pod read up to `delay` before (`SentAt`),
so that calls reach Redis in another order than they were sent. The handler then checks the
whole request (`Validate`) and awaits the bus event by event (`Publish`, or `PublishFails`
when Kafka raises). `skew` is how far a pod's clock is ahead. Tokens are counted in parts of a
token, so that refilling is exact. `log` is history: what the script or the deque said, and
whether the caller's time was behind.

### ShadowWarmer, FederatedBenchmark, CostLedger

`ShadowWarmer`, called by the gateway on a miss: a task asks (`ShouldTrigger`), starts or
gives up (`Trigger`), records the time (`Refreshed`) and removes its mark (`Discard`); each is
one hold of the lock. The dict of last refreshes is a sequence in insertion order; `Places` is
where it has a key.

`FederatedBenchmark`: `lists` are the Python lists by identity, because
`publish_benchmark` keeps a reference while `create_cohort` replaces the list and
`join_cohort` appends to it. A publication is `Gather`, `CheckBudgets` or `Exhausted`, one
`Charge` per member, `Release`: `stage[p]` says how far it is, `pub[p]` what it works on,
`position[p]` where its loop is. `paid` and `raced` are history: whom it charged, and who
joined during a release or twice at once.

`CostLedger`: `RegisterRule` (the stable sort of a list that was sorted before the append
inserts the rule before the first later one of its model), `Synthetic` (the estimate or a given
cost, then `upsert_synthetic`), `Reconcile`. `billed` is history.

## 3. Runs

Passing runs:

| run | what it checks |
|---|---|
| `circuit_store` | two replicas, races, one Redis fault, restarts: records stay well formed; half-open admissions are bounded; committed fail-opens are counted exactly; the time of the last failure moves back by no more than two clocks may differ; the store implements `CircuitBreaker`; while calls are in the retry loop, one of them returns |
| `gateway_breaker` | three replicas: closed means fewer than the threshold failures in a row; a half-open circuit never waits for a success nobody owes it; an open circuit does not stay open; once requests succeed the circuit closes for good, unless a request left without reporting |
| `interceptor` | two replicas, all modes, mode changes and crashes: counters partition the requests; the pipeline implements `GatewayBreaker` |
| `bus_index` | two components that share nothing, one per behaviour. In-memory bus, five keys through a log of two and a window of four: no duplicate enters the log; set and queue of the window agree; no permit is lost or released twice, however handlers end; every publish returns. Index store, two processors, evictions, removals, expiry, faults, restarts: cache and versions agree |
| `kafka_bus` | races, failures, deaths and retries of two publishers: a second copy of an event needs an expired key. Crashes, rebalances, failing polls, handlers, dead letters and commits of two consumers: everything below the committed offset was handled, dead-lettered or dropped with a log line; what is about to be handed out was not handed out before under the assignment it was fetched in; while one consumer task is left, every logged event is settled |
| `attribution` | one workload, two teams, one person, moves delivered in any order: the active index names exactly the open edges; both backends hold the same edges and answer alike; if moves were handled in order, memberships tell nothing that is not in the history, also in the middle of a move and after half of it failed, and all of it if none failed (after a repetition, from that on); what is written to the index was answered by the graph at most a TTL before; registering or updating a policy never takes a team's own policy out of force |
| `services` | five components that share nothing, one per behaviour. Reconciliation: the strongest signal survives combination; within the budget the best evidence decides; until their curves are refitted, guesses stay estimates. ShadowWarmer: one refresh of a workload at a time; asked again within the interval only if the map had to forget. FederatedBenchmark: budgets are overrun only by joins that race; everyone in a published figure has paid. CostLedger: a bill stays; past prices stay. Ingestion, two pods and two callers: the sliding window never lets in more than the limit, whatever its cleanup does; the token bucket lets in no more than its capacity, the refill, and the drift of clocks and calls once and once more per call whose time was behind; the answer to a request tells what reached the bus, and nothing of a batch with a bad event does; in production what reaches the bus carries a valid token and was counted by the shared limiter |

Runs that find a disagreement between the code and what the repository says of it:

| run | what TLC shows |
|---|---|
| `gateway_stuck_half_open` | a probe that ends without reporting (no workload id, a miss, a timeout, an active request handled as advisory) keeps its slot: with the other slots used by successes, the circuit blocks with no probe on the way, until an operator forces it |
| `kafka_dedup_loss` | the key is stored before the event is sent and never taken back: the SET takes effect, its reply is lost, and the retry is answered "duplicate" although nothing was sent (a failed send or a crash after the SET ends the same) |
| `index_eviction` | after an LRU eviction versions restart at 1 and Redis refuses the newer entry, counted as a success |
| `membership_order` | two moves of a person handled in the wrong order leave two memberships open for good |
| `correction_stale` | a correction replaces a curve; the entry calibrated with the old one is neither dropped nor materialized again |

The lines and the quoted texts are under `findings` in `PROJECT.json`.

Other behaviours met while modelling, which no run is about:

- *Breaker and gateway.* A success of a request admitted before the circuit opened closes
  it at once (`RecordSuccess` outside half-open). In active mode a downgraded request does
  not reset the failure count. The audit event's key contains the client's request id, so
  the bus drops the event of a retried request although its policies were evaluated again
  (`gateway.py:766`). A gateway never compares a local index hit with Redis, so an entry
  stays as first loaded until it is evicted (`materializer.py:120`).
- *Index.* When the upsert script fails, an unconditional HSET follows, so that a processor
  at version 1 can put its entry over version 2 of another (`materializer.py:310`). Processors
  count versions on their own, and the script refuses only lower ones: of two that both reach
  version 1, the one that writes last wins, also when its entry is the older one.
- *Kafka.* An event that was handled is dead-lettered when only its commit fails; a second
  failing commit ends the consumer task while the process reports ready
  (`event_bus.py:428`). When a send fails inside a batch, the events before it are
  published and the client sees an error.
- *Graph and processor.* An org change delivered again closes the open membership at the
  wall clock and opens another at the event time, so that two memberships overlap before
  that. With several owners in
  the graph, the backends return edges in different orders and R1 takes the last.
  Deployments without a job id share the node `deploy:`. A cached result is keyed by the
  workload and not by the event time, an unresolved one is cached too, and a reset of the
  demo leaves the cache.
- *Reconciliation.* When the budget is first found spent inside the loop over the clusters,
  before one is combined, the evidence gives way to R6's share or to "unresolved", and that is
  cached (`hre/engine.py:211`); a few lines earlier the same is answered by
  `_timeboxed_fallback` from the evidence. Signals of equal confidence whose methods are
  correlated in a chain can combine to less than the strongest of them. The primary method of
  a result chooses the curve, so that an answer cut short by the clock (R2 alone) can be
  graded higher than the full one (a cluster that R3 leads), although its raw confidence is
  lower. A fitted curve may lift R5 and R6 to any tier.
- *Breaker loop.* Under a stream of calls of the other replicas one replica may lose every
  EXEC (`circuit_breaker.py:107`); nothing limits its retries.
- *Ingestion.* The bucket's `updated_at` follows the caller's clock backwards. An
  environment that is neither production-like nor a development one may disable
  authentication. A value the schema accepts but `DomainEvent` refuses is answered with 500.
- *Warming, benchmark, ledger.* A refresh that was approved before another one finished may
  follow it at once. Suppression of small cohorts counts members, not contributors, and a
  join during a release is charged without a check. The intervention registry speaks of
  "explicit transition semantics" and accepts every transition.

### Bounds

- *Breaker*: in `circuit_store` a threshold, timeout and probe limit of 1 make every boundary
  one call away, and three calls let two replicas fail, open and probe while racing, with
  clocks one unit off in either direction; `gateway_breaker` uses 2 for each, so that "one
  before the last" differs from the first and partial success is possible. Calls, faults and
  time are bounded in the guards of `Call`, `RedisError`, `ReplyLost` and `Tick`; the theorems
  hold for all values of the bounds.
- *GatewayBreaker*: no bound on time or requests; only interventions (`MaxForces`) and silent
  departures (`MaxLeaks`) are bounded. Three replicas exceed the two probe slots by one, so
  that a slot can be refused while both probes are on the way.
- *Interceptor*: three requests, mode changes or crashes on two replicas at threshold 1 reach
  open, half-open and closed again.
- *InMemoryEventBus*: with `MaxEvents` 2 the window holds four keys, so five keys make both
  queues slide and the sixth publish brings a forgotten key back. Two publishers with two
  subscriptions compete for one permit.
- *KafkaEventBus*: two publishes of one key with one expiry put two copies in the log, enough
  for order and offset mistakes; one fault of a publisher or the dead-letter topic before or
  after each remote effect; two faults of consumers (`MaxConsumerFaults`), so that a first and
  a second commit fail or both tasks end; two consumers and two restarts for every rebalance
  pattern with a stale member.
- *AttributionIndex*: three workloads through two cache entries make eviction choose; three
  writes evict one, which a lookup brings back from Redis with its version; one fault, expiry,
  removal and restart each can fall anywhere. `index_eviction` has four writes, one cache
  entry and no faults.
- *Attribution*: two moves of one person, delivered in any order and again, need three events;
  a cache that expires after one unit and time up to two let a result be used, renewed and
  expire; four events reach a policy registered, replaced and used. A behaviour is about
  structure or about serving, which share the graph, because the handlers of one do not read
  what the other changes.
- *Reconciliation*: no bound on steps; the contexts combine, for each method, no evidence, one
  owner, competing and equal owners, and values at the ends of windows, with fitted curves for
  R2 or for R5 and R6 and those of the warm start for the other methods.
- *Ingestion*: a limit of two in a window of two with three ticks and five requests fills,
  drains and refills either limiter; the cleanup runs every third request; a skew and a delay
  of one are enough for a time to be behind by a whole window (clocks agree and calls are
  prompt, or neither). Requests about handlers are two, so that one can be between its steps
  while another arrives.
- *ShadowWarmer*: three workloads through a map of two, two tasks, four refreshes.
  *FederatedBenchmark*: two publishers, cohorts and organizations, a budget of one release,
  and lists that may be replaced; the three sets are symmetric, as the code never orders or
  chooses among them. *CostLedger*: three rules of which two are in force from the same date,
  two requests.

Deadlock checking is off in every configuration because the bounds stop each
model once its calls, requests or events are used up.

### Fairness

- `CircuitStore`: a replica inside the retry loop goes on; no command of the loop waits
  for another replica. A replica is only sent back to `Watch` by a commit of another, so some
  call returns; that each does is not claimed, as it fails under unbounded traffic and would
  hold here only because calls are bounded.
- `GatewayBreaker`: requests keep arriving, an admitted request ends (no step of the
  pipeline waits), time passes. `Leave`, operators and `Recover` have no fairness.
- `InMemoryEventBus`: handlers end, and strong fairness for getting a permit, because
  `asyncio.Semaphore` wakes its waiters in order. Publishing has none.
- `KafkaEventBus`: processes run or are restarted, and the group gives an ownerless
  partition to a live member. A poll may fail instead of returning. A task that ended by
  exception is not restarted, because nothing in the code does so.
- The other modules state no liveness; their specifications have no fairness.

## 4. Proofs

Assumptions are the named `ASSUME`s of the modules: `CircuitAssumption` (threshold,
timeout and probe limit are positive; deployed values 5, 30 and 3), `StoreAssumption`,
`GatewayAssumption` and `InterceptorAssumption` (finitely many replicas, some request id),
`BusAssumption` (at least one dispatch permit), `KafkaAssumption` (finitely many keys,
publishers and consumers),
`IndexAssumption` (a cache of at least one entry), `GraphAssumption` and
`AttributionAssumption` (the edges that handlers and the demo write have keys, and their ends
ids; the result cache holds at least one entry), `BenchmarkAssumption` (positive budget and
cost of a release), `IngestionAssumption` (positive limit, window and cleanup interval),
`WarmerAssumption` (positive interval and size of the map), `LedgerAssumption` (rules and
usages are of known models and at natural times) and `ReconciliationAssumption` (the evidence
in a context has its types, among finitely many teams; similarities are between 0 and 1; at
least one cluster and one past signal are kept), plus bounds that are natural numbers.
One theorem, `TokensHold`, has a hypothesis of its own, explained below.

**`CircuitStateProofs`** states once what the mutators do: they keep the record's type
and well-formedness, move the time of the last failure only to the reading they were given,
count a fail-open for exactly the rejected calls, and take a probe slot for exactly the
admitted ones. `MutatorSuccesses`, `MutatorClosed` and `FailureNeverHalfOpen` say what an
outcome does to a half-open and to a closed circuit.

**`CircuitStoreProofs`**, for any replicas, methods and bounds: `TypeCorrect`,
`WellFormed`, `AdmitsBounded`, `FailOpensExact`, `FailureTimeBounded`, and
`StoreImplementsBreaker` (the refinement), whatever `MaxSkew` is. The inductive invariant

    IInv == TypeOK /\ RecordsWellFormed /\ PendingWriteIsCurrent
            /\ FailureTimeIsPast /\ FailOpensCounted /\ ProbesAreAdmits

rests on `PendingWriteIsCurrent`: in state `exec`, a replica that is not dirty holds the
result of its mutator on the *present* shared record, at a reading taken since that record was
written. That is what WATCH is for; it turns an EXEC into an atomic step of the abstract
breaker, from which every other conjunct follows by the mutator lemmas. `FailureTimeIsPast`
says that the stored time was read before the last commit; together they bound by twice
`MaxSkew` how far a commit can move it back, however long the call took. `ProbesAreAdmits`
ties the history variable to the probe counter.

**`GatewayBreakerProofs`**: `ClosedStreak` and `OwedSuccesses`. Their invariant adds
`StreakIsCounted` (while the circuit is closed the streak of failures equals the failure
count, which is below the threshold) to the types and to `SuccessesAreOwed`,
which is inductive by counting: each admission in half-open takes a slot and adds an
admitted replica, each end removes one and adds a success or a leak, and `AdmittedCount`
gives the cardinalities.

**`BusIndexProofs`** holds the two bounded stores inside a process, which share no state: the
in-memory bus and the serving index.

*In-memory bus*: `BusTypeCorrect`, `NoDuplicateInLog`, `WindowConsistent`,
for every `MaxEvents`. That the log holds no key twice is not inductive, as it says nothing
of keys the window forgot. The invariant adds `Bounded` (the lengths) and `Aligned`: the log's
keys are the last ones of the key queue, in the same order. As the queue is twice as
long, what is still logged is still remembered.

`PermitsKept` counts the permits of all publishers together; publishers and subscriptions
may be infinitely many, so that what runs is finite is part of its invariant `PermitInv`, with
`TurnOnce`: a handler does not run while it waits.

*Serving index*, for any processes, workloads and cache sizes:
`CacheMatchesVersions`. `CacheOK` is the
property of one process with the order made explicit; the lemmas say what removing an
element, moving it to the end and dropping the head do to a cache without repetitions.

**`KafkaEventBusProofs`**, for any keys, publishers, consumers and bounds.

- `CommitsAreSettled`. What is committed says nothing of what is about to be. `BatchInv`:
  a batch is a run of consecutive offsets, and what a task is about to commit was
  dispatched, dead-lettered or dropped. `SettledInv` adds `EarlierSettled` (everything
  before the event in hand is settled, also for a member that lost the partition with its
  batch) and `FetchedCovered` (what the owner fetched is settled or in its batch).
- `DispatchedOncePerFetch`. A member without the partition still works off its batch, and may
  own the partition again meanwhile. `DeliveryInv`: what was handed out under the present
  assignment was fetched by its owner (`HandedOutFetched`, `FetchedByOwner`), batches fetched
  under one assignment are apart (`SeparateFetches`), and what a member has still to hand out
  was not handed out under the assignment it was fetched in (`StillToHandOut`).
- `LoggedOncePerExpiry`. `CopiesPaid` counts a key that is not in Redis as a copy that may
  still be made: it is stored before the send, nobody sends without having stored it, and
  only an expiry gives the right to another copy.

**`InterceptorProofs`**, for any replicas, request ids and bounds.

- `CountersPartition`. The property is about idle replicas; `CountsOf` extends it to a
  request on its way, for which counters are already ahead of the results, and `Recordable`
  says what a request about to call `record_success` can be.
- `PipelineImplementsGateway`, the refinement of `GatewayBreaker`. `Arrive` is `Reject` or
  `Admit`; `Unidentified`, `Miss`, `BudgetSpent`, `PolicyTimeout` and `Downgraded` are
  `Leave`; `Record` is `Succeed`; `Raise` is `Fail`; `Observe` is itself; `Crash` is `Leave`
  if the replica had admitted a request; the rest stutter. `LeaksPaid` (silent departures
  and admitted requests are no more than requests) makes the bound of `Leave` no restriction.
  The fairness of `GatewayBreaker` is not part of the refinement, so its liveness does not
  carry over.

**`AttributionProofs`**, for any ids, keys, people, teams, workloads, policies, demo graph,
cache size and time to live, and for reconciliation any contexts. Three invariants, each on
top of the one before, and one of `resolve` on its own.

- `GraphInv` gives `IndexExact` and `BackendsEqual`. `Exact`: the active index names exactly
  the open edges. It is needed for the other half, `Mirrors`: Neo4j holds the serialization
  of every edge, position by position. `close_edge` ends one edge by its index and the query
  ends all that match; that these are the same edges is exactness (`NeoRetireMirrors`). That
  the answers agree rests on `IsoOrder`: ISO strings order times as the times are ordered,
  with and without a fraction. The counts of `get_stats` agree by a bijection between keys
  and open edges (`CountsAlike`).
- `ServingInv` gives the action property `OwnerRecent`. Every result in
  the engine's cache is `Backed`: dated no later than the last time the graph gave its owner
  for that workload. A hit keeps the date, so the time to live counts from the answer of
  the graph, not from the last use. `OwnPolicyKept` needs only that policies have different
  ids (`PoliciesInv`): registering keeps places and removing keeps the order, so that who was
  the first match stays it.
- `HistoryInv` gives `MembershipTold`. What the graph says at the times of the instance is not
  inductive; `Told` is: an open membership is in the team of the last move handled, a closed
  one ended by that move or by the last repetition, and from the last repetition on nothing is
  told that the moves do not give. `Whole` is the other half, that all they give is told; it
  is lost for good when the second transaction of a move fails. In the middle of a move the
  invariant holds of the moves before it, with the old membership closed already. Handling the
  next move, and the last one again, keeps both. The second is where repetition hurts:
  `add_edge` ends the open membership at the time of handling and starts another at the time
  of the event, so the two overlap in between.
- `ResolveInv` gives `GuessesStay`, `StrongestKept` and `EvidenceWins`, for every context of
  evidence. It says what was collected (`Gathered`: at most one signal per method of R2 to R5,
  each one that the method can return), that the best cluster is the best of those
  combined so far (`BestInv`), and where the confidence of the result comes from
  (`ResultInv`). The rest is about the operators:
  - `R2Facts` to `R6Facts` bound the confidence each method gives, through its rounding. R4 and
    R6 divide by sums, for which `TotalFacts` says that a part is at most the whole.
  - `CombineLower` is the heart: the remainder of the noisy-OR only shrinks (`LeftFacts`), and
    the strongest signal of distinct confidences has weight 10 and rank 1, so its factor is in
    the product undiminished (`TopFactor`).
  - `EvidenceWins`: a cluster with evidence combines to more than nothing, some such cluster is
    among those kept, and when the loop has seen them all the best is their maximum.
  - `ShareIsEstimate` and `OwnerNotChargeback` follow the curves of R6 and R5 segment by
    segment: a share of 650 is below the provisional threshold after calibration, and 750 of
    R5 alone (`OwnerAlone`) below that of chargeback. Both are about the warm start.

The demo graph is a recursive function over the sequence of seeds. That a property holds of
all of it needs induction, which is done by hand: a nonempty set of naturals has a least
element (`LeastNumber`, from the library's `WFMin`), so there is no least step that breaks
it (`Iteration`, `ChainEnd`). The same way gives what the sum over a set is (`SumExists`) and
what the product over the signals of a cluster leaves (`LeftFacts`).

**`ServicesProofs`** holds the services, which share no state.

*Federated benchmark*: `BudgetsHold` and `ContributorsPay`, for any organizations,
cohorts, publishers and budgets. That no budget is overrun is not inductive: it says nothing
of a publication in the middle of its loop. `BudgetInv` adds `LockHeld` (who charges holds
the lock, so there is one), `RestCanPay` (the members the loop has still to charge can pay,
unless their join raced) and `DuplicatesRaced` (an organization is twice in a list only if
two of its joins raced, so one `Charge` leaves the rest able to pay). A reset without the
lock keeps it, because who could pay before can pay from zero. `ContributorsPay` rests on
`UsedAreMembers` (lists only grow) and `PassedHavePaid`.

*Shadow warming*: `OneRefresh`, for any tasks and workloads. `Marks` says that
`in_progress` is exactly what the active tasks refresh, one task each. `IntervalKept` needs the
order of the bounded map. `MapInv`: its entries are in the order of the last refresh of their
workloads (`InOrder`), and each refresh is remembered unless as many other workloads as the
map holds were refreshed since (`NotForgotten`). When the head is dropped, `InOrder` says that
the workloads of all the other entries, as many as the map holds, were refreshed after it.

*Cost ledger*: `BillStays`. The invariant says that every record's `reconciled` is
the last bill, also while there is none; only the presence of the three fields is needed
besides, not what rules and estimates amount to. `PricesStable` has the invariant `Catalog`:
the rules of a model are in the order of their dates. Inserting one keeps that
(`EnteredSorted`), and then the rule in force at a time is the last that started by it, which
the insertion changes only to the new rule, and only if that started later.

*Ingestion*, for any settings, requests, pods and bounds.

- `AnswersTell` and `GuardedInProduction`: `Told` says what the handler of a request has
  published at each of its steps, nothing before all its events are checked and then one after
  the other, however requests interleave; a request between the limiter and its answer passed
  the middlewares (`Guarded`), and in production the pods' own deques stay empty because a pod
  that ingests uses Redis (`ProductionPass`, from the rules of the validator and the order of
  the middlewares).
- `WindowHolds`: that few requests were let in is not inductive, since deques lose entries
  all the time. `Remembered` is: for every moment from now on, a deque has at least as many
  entries that still count then as the pod let in. The popleft loop drops a prefix that no
  later moment counts (`BeyondKept`), and the cleanup drops a deque whose last entry, the
  newest since deques are sorted, is old (`StaleForgotten`).
- `TokensHold`: `Solvent` is the potential argument. What was let in since an answer plus what
  is left in the bucket is at most a full bucket and the tokens for the way the stored
  `updated_at` went since, where each call with a time behind is granted `Drift` more. A call
  moves both sides alike, whether or not its reply arrives; a key that expired is full again
  after two windows, which covers a full bucket only if the times of calls that reach Redis
  together differ by no more than a window. Hence the hypothesis `MaxSkew + MaxDelay <=
  Window` (one minute in the code). Without it the bound is false: with three clocks two
  windows apart each, every expiry gives three full buckets in two windows.

### Only model-checked

- *Temporal properties under fairness* (`SomeCallReturns`, `OpenEnds`,
  `RecoversOnceHealthy`, `EveryHandlerRuns`, `SettledUnlessAllTasksEnd`): the prover does not
  handle fairness.
- *The runs that expect a violation*: TLC gives the counterexample, and there is nothing
  to prove.

All invariants and all other action properties of the passing runs are stated by a theorem.

## 5. Not modelled, and the plan

- *Formulas*: forecasts, TRAC, carbon, the benchmark's noise and percentiles, the isotonic
  and bootstrap fits of calibration: stateless or statistical floating-point arithmetic.
- *Declarative or translating code*: pydantic field rules, connectors, response models,
  read-only endpoints.
- *Code nobody calls*: the equivalence verifier (only constructed), `full_rebuild`,
  `traverse_attribution` (called by tests), the circuit store's `load` and `save`.
- *State without a rule*: the intervention registry accepts every transition; the
  notification hub keeps the last 1000 deliveries for display.
- *Inside modelled components*: logging, texts, header sizes and advisory wording, metrics
  and lag, legacy value formats, the background task set of the gateway, route labels and
  the start and stop order of the runtime, the drift reports of the ledger.

What could come next: the liveness properties, with a prover that handles fairness; in the
model, the hazards of `PROJECT.json` that no property covers yet, each of which has a note there
saying what is missing.
