----------------------------- MODULE Ingestion -----------------------------
(***************************************************************************)
(* HTTP ingestion (api/app.py, api/auth.py, api/runtime.py, config.py):    *)
(* pods with one validated configuration serve requests that pass the      *)
(* middlewares, outermost first the runtime surface, then authentication,  *)
(* then the body limit, and the ingest handlers, which ask a rate limiter, *)
(* check every event and publish.  The limiter is a sliding window in each *)
(* pod or a token bucket in Redis that all pods share, each with its own   *)
(* idea of the time, read before a call that may take a while.  A handler  *)
(* awaits the limiter and then the bus for every event, and requests       *)
(* interleave in between.                                                  *)
(*                                                                         *)
(* Tokens are counted in parts of 1 / Window, so that Limit parts come     *)
(* back in one unit of time and a request costs Window of them.            *)
(***************************************************************************)
EXTENDS Integers, Sequences, FiniteSetsExt

CONSTANTS
    Pods,
    Configs,        \* settings to start from; the invalid ones refuse to start
    Requests,       \* requests, and who sends them
    MaxSkew,        \* how far the clock of a pod may be ahead of real time
    MaxDelay,       \* how long a call may take to reach Redis
    Limit, Window,  \* api_ingest_rate_limit_per_minute and the minute
    CleanupOps,     \* _cleanup_interval_ops
    MaxBatch, MaxBytes,
    MaxTime, MaxRequests, MaxFaults

ASSUME IngestionAssumption ==
    /\ {Limit, Window, CleanupOps, MaxBatch, MaxBytes} \subseteq Nat \ {0}
    /\ {MaxSkew, MaxDelay, MaxTime, MaxRequests, MaxFaults} \subseteq Nat
    /\ \A r \in Requests : r.events \in Seq({"good", "schema", "construct"})

VARIABLES
    cfg, skew, now,
    delay,      \* how long a call takes to reach Redis at most
    windows,    \* windows[p][k]: the deque of a pod's limiter, <<>> if absent
    ops,        \* ops[p]: _ops_since_cleanup
    buckets,    \* buckets[k]: tokens, updated_at and expiry of the Redis key
    asked,      \* asked[i]: request number i, its status (0 for none yet), whether
                \* its events are checked and how many are published
    log,        \* history: log[k]: what the limiter said, when, at which time of
                \* the pod, and whether that was behind the one before
    faults

vars == <<cfg, skew, delay, now, windows, ops, buckets, asked, log, faults>>

-----------------------------------------------------------------------------
(* Configuration.                                                          *)

ProductionLike(c) == c.environment \in {"production", "staging"}
NonProduction(c) == c.environment \in {"development", "demo"}

\* The backend _build_ingest_rate_limiter and the validator resolve.
Limiter(c) ==
    IF c.limiter # "auto" THEN c.limiter ELSE IF ProductionLike(c) THEN "redis" ELSE "memory"

\* Mutant: a production environment may disable authentication.
AuthSettingsLax(c) == c.bypass => NonProduction(c)

\* The rules of _validate_runtime_settings on authentication, with an HS
\* algorithm (an RS algorithm asks for the public key in place of the secret).
AuthSettings(c) ==
    /\ ProductionLike(c) => c.auth /\ c.secret \notin {"none", "weak"}
    /\ c.bypass => NonProduction(c)
    /\ c.auth /\ ~(NonProduction(c) /\ c.bypass) => c.secret # "none"

\* The other rules of _validate_runtime_settings that relate settings to each
\* other; allowed values of single settings, and the addresses and passwords of
\* services, are left out.
ValidConfig(c) ==
    /\ AuthSettings(c)
    /\ ProductionLike(c) /\ c.role \in {"all", "gateway"} /\ c.shadow => c.bus = "kafka"
    /\ c.index = "redis" \/ c.circuit = "redis" \/ c.bus = "kafka" =>
          /\ c.redis # "none"
          /\ ProductionLike(c) => c.redis = "tls"
    /\ ProductionLike(c) /\ c.role \in {"all", "processor"} =>
          Limiter(c) = "redis" /\ c.graph = "neo4j"
    /\ Limiter(c) = "redis" => c.redis # "none"

AcceptsIngestion(c) == c.role \in {"all", "processor"}

Keys == {r.sub : r \in Requests} \cup {r.forwarded : r \in Requests} \cup {r.client : r \in Requests}

Init ==
    /\ cfg \in {c \in Configs : ValidConfig(c)}
    /\ skew \in [Pods -> 0 .. MaxSkew]
    /\ delay \in 0 .. MaxDelay
    /\ now = 0
    /\ windows = [p \in Pods |-> [k \in Keys |-> <<>>]]
    /\ ops = [p \in Pods |-> 0]
    /\ buckets = [k \in Keys |-> [tokens |-> Limit * Window, at |-> 0, expires |-> 0]]
    /\ asked = <<>>
    /\ log = [k \in Keys |-> <<>>]
    /\ faults = 0

Tick ==
    /\ now < MaxTime
    /\ now' = now + 1
    /\ UNCHANGED <<cfg, skew, delay, windows, ops, buckets, asked, log, faults>>

-----------------------------------------------------------------------------
(* Middlewares.  A result is the status of the refusal, or 0 to go on.     *)

\* enforce_runtime_surface: a gateway serves only /v1/intercept.
Surface == IF cfg.role = "gateway" THEN 503 ELSE 0

\* enforce_service_auth: a request without a bearer token passes where the
\* bypass is allowed, one with a bad token nowhere.
Auth(r) ==
    IF ~cfg.auth THEN 0
    ELSE IF r.token = "none" THEN (IF NonProduction(cfg) /\ cfg.bypass THEN 0 ELSE 401)
    ELSE IF r.token = "valid" /\ r.tenant = "ours" THEN 0 ELSE 401

\* RequestBodyLimitMiddleware: the declared length, if it can be parsed, and
\* in any case the bytes that arrive.
BodyLimit(r) == IF r.declared > MaxBytes \/ r.bytes > MaxBytes THEN 413 ELSE 0

\* _ingest_rate_limit_key: claims exist only where a token was checked.
RateKey(r) ==
    IF cfg.auth /\ r.token = "valid" THEN r.sub
    ELSE IF r.forwarded # "none" /\ r.trusted THEN r.forwarded
    ELSE r.client

Refusal(r) ==
    LET checks == <<Surface, Auth(r), BodyLimit(r), IF AcceptsIngestion(cfg) THEN 0 ELSE 503>>
        failed == {i \in DOMAIN checks : checks[i] # 0}
    IN  IF failed = {} THEN 0 ELSE checks[Min(failed)]

Answer(r, p, status) ==
    Append(asked, [req |-> r, pod |-> p, status |-> status, checked |-> FALSE, published |-> 0])

Arrives(r, p) == Len(asked) < MaxRequests /\ p \in Pods /\ r \in Requests

\* A request that does not reach a limiter.
Refuse(r, p) ==
    /\ Arrives(r, p)
    /\ Refusal(r) # 0
    /\ asked' = Answer(r, p, Refusal(r))
    /\ UNCHANGED <<cfg, skew, delay, now, windows, ops, buckets, log, faults>>

-----------------------------------------------------------------------------
(* The limiters.                                                           *)

Clock(p) == now + skew[p]

\* Mutant: a bucket is stale when its oldest entry is.
StaleOldest(bucket, cutoff) == bucket = <<>> \/ bucket[1] <= cutoff

\* A bucket without an entry newer than the cutoff may be dropped.
Stale(bucket, cutoff) == bucket = <<>> \/ bucket[Len(bucket)] <= cutoff

\* What the popleft loop leaves of a deque: what follows the entries at its head
\* that are not newer than the cutoff.
Kept(bucket, cutoff) ==
    SubSeq(bucket, Min({n \in 1 .. Len(bucket) : bucket[n] > cutoff} \cup {Len(bucket) + 1}),
           Len(bucket))

\* SlidingWindowRateLimiter.allow.  The lock is never held across an await.
AskWindow(r, p) ==
    LET k == RateKey(r)
        cutoff == Clock(p) - Window
        kept == Kept(windows[p][k], cutoff)
        clean == ops[p] + 1 >= CleanupOps
        allowed == Len(kept) < Limit
    IN  /\ Arrives(r, p) /\ Refusal(r) = 0 /\ Limiter(cfg) = "memory"
        /\ ops' = [ops EXCEPT ![p] = IF clean THEN 0 ELSE @ + 1]
        /\ windows' = [windows EXCEPT ![p] = [j \in Keys |->
                          IF j = k THEN IF allowed THEN Append(kept, Clock(p)) ELSE kept
                          ELSE IF clean /\ Stale(@[j], cutoff) THEN <<>> ELSE @[j]]]
        /\ log' = [log EXCEPT ![k] = Append(@, [pod |-> p, time |-> now, at |-> Clock(p),
                                                back |-> FALSE, ok |-> allowed])]
        /\ asked' = Answer(r, p, IF allowed THEN 0 ELSE 429)
        /\ UNCHANGED <<cfg, skew, delay, now, buckets, faults>>

\* Mutant: the key lives for a quarter of the time.
LifetimeShort == Window \div 2

\* _ttl_seconds.
Lifetime == 2 * Window

\* The script of RedisTokenBucketRateLimiter: a key that is absent or expired
\* has a full bucket, and updated_at becomes the time of the caller even if it
\* is behind the one stored.
Script(k, clock) ==
    LET b == IF now < buckets[k].expires THEN buckets[k]
             ELSE [tokens |-> Limit * Window, at |-> clock, expires |-> 0]
        full == Min({Limit * Window, b.tokens + Max({0, clock - b.at}) * Limit})
        allowed == full >= Window
    IN  [ok |-> allowed, back |-> clock < b.at,
         bucket |-> [tokens |-> IF allowed THEN full - Window ELSE full,
                     at |-> clock, expires |-> now + Lifetime]]

\* When a call that reaches Redis now may have read the pod's clock.
SentAt == {t \in 0 .. now : t + delay >= now}

\* The script runs for a request of pod p, sent at an earlier time.
RunScript(r, p, sent) ==
    LET k == RateKey(r)
        clock == sent + skew[p]
        said == Script(k, clock)
    IN  /\ Arrives(r, p) /\ Refusal(r) = 0 /\ Limiter(cfg) = "redis" /\ sent \in SentAt
        /\ buckets' = [buckets EXCEPT ![k] = said.bucket]
        /\ log' = [log EXCEPT ![k] = Append(@, [pod |-> p, time |-> now, at |-> clock,
                                                back |-> said.back, ok |-> said.ok])]
        /\ UNCHANGED <<cfg, skew, delay, now, windows, ops>>

\* RedisTokenBucketRateLimiter.allow.
AskBucket(r, p, sent) ==
    /\ RunScript(r, p, sent)
    /\ asked' = Answer(r, p, IF Script(RateKey(r), sent + skew[p]).ok THEN 0 ELSE 429)
    /\ UNCHANGED faults

\* Redis is unavailable: the request is allowed, and no token is taken.
AskNothing(r, p) ==
    /\ Arrives(r, p) /\ Refusal(r) = 0 /\ Limiter(cfg) = "redis"
    /\ faults < MaxFaults /\ faults' = faults + 1
    /\ asked' = Answer(r, p, 0)
    /\ UNCHANGED <<cfg, skew, delay, now, windows, ops, buckets, log>>

\* The script ran and its reply is lost: the request is allowed, whatever the
\* script said.
LoseReply(r, p, sent) ==
    /\ RunScript(r, p, sent)
    /\ faults < MaxFaults /\ faults' = faults + 1
    /\ asked' = Answer(r, p, 0)

-----------------------------------------------------------------------------
(* The rest of the handlers.                                               *)

\* What a handler makes of the events of a request that was let in: the size of
\* the batch, then event by event validate_event_attributes (422) and the
\* constructor of DomainEvent (an error nobody catches).
Check(r) ==
    LET bad == {i \in DOMAIN r.events : r.events[i] # "good"}
    IN  IF r.batch /\ Len(r.events) > MaxBatch THEN 413
        ELSE IF bad = {} THEN 0
        ELSE IF r.events[Min(bad)] = "schema" THEN 422 ELSE 500

\* The handler answers when all events are published.
Reply(r, published) == IF published = Len(r.events) THEN 200 ELSE 0

Waiting == {i \in DOMAIN asked : asked[i].status = 0}

\* Mutant: every event is checked just before it is published.
ValidateFirst(i) ==
    LET r == asked[i].req
        first == [r EXCEPT !.events = SubSeq(@, 1, 1)]
    IN  /\ i \in Waiting /\ ~asked[i].checked
        /\ asked' = [asked EXCEPT ![i].checked = TRUE,
                                  ![i].status = IF Check(first) # 0 THEN Check(first) ELSE Reply(r, 0)]
        /\ UNCHANGED <<cfg, skew, delay, now, windows, ops, buckets, log, faults>>

\* The limiter has answered: the handler checks the whole request up to the first
\* call of publish, without an await.
Validate(i) ==
    LET r == asked[i].req
    IN  /\ i \in Waiting /\ ~asked[i].checked
        /\ asked' = [asked EXCEPT ![i].checked = TRUE,
                                  ![i].status = IF Check(r) # 0 THEN Check(r) ELSE Reply(r, 0)]
        /\ UNCHANGED <<cfg, skew, delay, now, windows, ops, buckets, log, faults>>

\* The bus takes the next event (or knows its idempotency key).
Publish(i) ==
    /\ i \in Waiting /\ asked[i].checked
    /\ asked' = [asked EXCEPT ![i].published = @ + 1,
                              ![i].status = Reply(asked[i].req, asked[i].published + 1)]
    /\ UNCHANGED <<cfg, skew, delay, now, windows, ops, buckets, log, faults>>

\* Kafka fails for the next event: the ones before it stay published, and nobody
\* catches the error.
PublishFails(i) ==
    /\ i \in Waiting /\ asked[i].checked
    /\ cfg.bus = "kafka"
    /\ faults < MaxFaults /\ faults' = faults + 1
    /\ asked' = [asked EXCEPT ![i].status = 500]
    /\ UNCHANGED <<cfg, skew, delay, now, windows, ops, buckets, log>>

\* A request arrives and gets as far as the limiter.
Serve(r, p) ==
    \/ Refuse(r, p) \/ AskWindow(r, p) \/ AskNothing(r, p)
    \/ \E sent \in SentAt : AskBucket(r, p, sent) \/ LoseReply(r, p, sent)

\* The handler of a request goes on.
Handle(i) == Validate(i) \/ Publish(i) \/ PublishFails(i)

Next ==
    \/ Tick
    \/ \E r \in Requests, p \in Pods : Serve(r, p)
    \/ \E i \in DOMAIN asked : Handle(i)

Spec == Init /\ [][Next]_vars

-----------------------------------------------------------------------------

\* The positions of log[k] from i to j that were let in.
Admitted(k, i, j) == {n \in i .. j : log[k][n].ok}

\* The in-memory limiter never lets more than Limit requests of a caller into a
\* pod within a window, whatever the other callers do: its cleanup of other
\* callers' deques forgets nothing that still counts.
WindowBound ==
    Limiter(cfg) = "memory" =>
        \A k \in Keys, p \in Pods : \A j \in DOMAIN log[k] :
            Cardinality({n \in Admitted(k, 1, j) : /\ log[k][n].pod = p
                                                  /\ log[k][n].time > log[k][j].time - Window}) <= Limit

\* How far apart the times of two calls that reach Redis together may be.
Drift == Max({skew[p] : p \in Pods}) - Min({skew[p] : p \in Pods}) + delay

\* The shared bucket grants a full bucket and what flows back in between any two
\* calls, and no more than the drift of clocks and calls once, and once more for
\* every call whose time was behind: the script lets updated_at go back, so that
\* the same time is credited again.  A call whose reply is lost counts like any
\* other; the requests that are let in because Redis failed come on top.  A drift
\* beyond a window could gain more: a key that expires forgets how far updated_at
\* was ahead.
TokenBound ==
    Limiter(cfg) = "redis" =>
        \A k \in Keys : \A i, j \in DOMAIN log[k] : i <= j =>
            LET back == Cardinality({n \in i + 1 .. j : log[k][n].back})
                time == log[k][j].time - log[k][i].time
            IN  Window * Cardinality(Admitted(k, i, j))
                    <= Limit * (Window + time + Drift * (1 + back))

\* The answer tells what reached the bus: everything with 200; nothing with a
\* client error, so that a client may correct and send the whole batch again; with
\* 500 a part at most, which a repeated batch meets again (the loop of publish_batch
\* stops where publish fails).  No event of a batch that is too large or has a bad
\* event anywhere is published, although other requests run between the events.
PublishedAsAnswered ==
    \A i \in DOMAIN asked :
        LET a == asked[i]
        IN  /\ a.status = 200 => a.published = Len(a.req.events)
            /\ a.status \in 400 .. 499 => a.published = 0
            /\ a.status \in {0, 500, 503} /\ a.req.events # <<>> => a.published < Len(a.req.events)
            /\ a.published > 0 => /\ \A n \in DOMAIN a.req.events : a.req.events[n] = "good"
                                  /\ a.req.batch => Len(a.req.events) <= MaxBatch

\* With a configuration the validator accepts for production or staging, what
\* reaches the bus came with a valid token of the tenant, from a pod that
\* ingests, and was counted against its subject by the limiter that all pods
\* share (unless Redis was down).
ProductionGuarded ==
    ProductionLike(cfg) => \A i \in DOMAIN asked : asked[i].published > 0 =>
        /\ asked[i].req.token = "valid" /\ asked[i].req.tenant = "ours"
        /\ AcceptsIngestion(cfg)
        /\ faults = 0 => \E n \in DOMAIN log[asked[i].req.sub] : log[asked[i].req.sub][n].ok
        /\ \A p \in Pods, k \in Keys : windows[p][k] = <<>>
============================================================================
