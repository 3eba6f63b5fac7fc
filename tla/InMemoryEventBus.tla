-------------------------- MODULE InMemoryEventBus --------------------------
(***************************************************************************)
(* InMemoryEventBus (core/event_bus.py): a bounded event log, a bounded    *)
(* window of idempotency keys twice as long, and the dispatch of accepted  *)
(* events to the subscribed handlers under a semaphore.  publish holds     *)
(* _state_lock without awaiting, so accepting an event is one step;        *)
(* handlers of several publishers then run interleaved.  The counters      *)
(* behind stats are left out.                                              *)
(***************************************************************************)
EXTENDS Integers, Sequences, FiniteSets

CONSTANTS
    Keys,          \* dedup keys: tenant_id:source:idempotency_key
    Topics,        \* event types
    Handlers,      \* subscribed callables
    Publishers,    \* asyncio tasks calling publish
    MaxEvents,     \* max_events
    DispatchSlots, \* permits of _dispatch_semaphore (64)
    MaxPublishes   \* bound on publish calls

ASSUME BusAssumption ==
    /\ MaxEvents \in Nat
    /\ DispatchSlots \in Nat \ {0}
    /\ MaxPublishes \in Nat

VARIABLES
    log,           \* _log: deque(maxlen=max_events)
    seen,          \* _seen_keys
    order,         \* _idempotency_order
    subscribed,    \* _handlers, as a set of <<topic, handler>>; each is made once
    waiting,       \* waiting[p]: subscriptions p's event has not reached yet
    running,       \* running[p]: subscriptions whose handler is running
    free,          \* _dispatch_semaphore: permits nobody holds
    publishes

busVars == <<log, seen, order, subscribed, waiting, running, free, publishes>>

Events == [key : Keys, topic : Topics]

Subscriptions == (Topics \cup {"*"}) \X Handlers

MaxIdempotencyKeys == 2 * MaxEvents

BusTypeOK ==
    /\ log \in Seq(Events)
    /\ seen \subseteq Keys
    /\ order \in Seq(Keys)
    /\ subscribed \subseteq Subscriptions
    /\ waiting \in [Publishers -> SUBSET Subscriptions]
    /\ running \in [Publishers -> SUBSET Subscriptions]
    /\ free \in Nat
    /\ publishes \in Nat

BusInit ==
    /\ log = <<>>
    /\ seen = {}
    /\ order = <<>>
    /\ subscribed = {}
    /\ waiting = [p \in Publishers |-> {}]
    /\ running = [p \in Publishers |-> {}]
    /\ free = DispatchSlots
    /\ publishes = 0

\* p is not inside publish.
Idle(p) == waiting[p] = {} /\ running[p] = {}

-----------------------------------------------------------------------------

\* A bounded queue: appending to a full one drops its oldest element.
Slide(queue, x, max) ==
    LET q == Append(queue, x) IN IF Len(q) > max THEN Tail(q) ELSE q

\* Mutant: the newest key is evicted (pop for popleft).
RememberWrongEnd(k) ==
    /\ order' = IF Len(order) + 1 > MaxIdempotencyKeys THEN order ELSE Append(order, k)
    /\ seen' = IF Len(order) + 1 > MaxIdempotencyKeys THEN seen ELSE seen \cup {k}

\* Mutant: the evicted key stays in the set.
RememberKeepsSeen(k) ==
    /\ order' = Slide(order, k, MaxIdempotencyKeys)
    /\ seen' = seen \cup {k}

\* The key joins the window, whose oldest key leaves when it is full.
Remember(k) ==
    /\ order' = Slide(order, k, MaxIdempotencyKeys)
    /\ seen' = IF Len(order) + 1 > MaxIdempotencyKeys
               THEN (seen \cup {k}) \ {Head(Append(order, k))}
               ELSE seen \cup {k}

\* The event joins the log, a deque with maxlen.
Logged(e) == Slide(log, e, MaxEvents)

\* publish up to the call of the handlers, which runs without awaiting.
Accept(p, e) ==
    /\ Idle(p)
    /\ publishes < MaxPublishes
    /\ e.key \notin seen
    /\ publishes' = publishes + 1
    /\ Remember(e.key)
    /\ log' = Logged(e)
    /\ waiting' = [waiting EXCEPT ![p] = {s \in subscribed : s[1] \in {e.topic, "*"}}]
    /\ UNCHANGED <<subscribed, running, free>>

\* The key is in the window: publish returns False.
Deduplicate(p, e) ==
    /\ Idle(p)
    /\ publishes < MaxPublishes
    /\ e.key \in seen
    /\ publishes' = publishes + 1
    /\ UNCHANGED <<log, seen, order, subscribed, waiting, running, free>>

Subscribe(s) ==
    /\ s \notin subscribed
    /\ subscribed' = subscribed \cup {s}
    /\ UNCHANGED <<log, seen, order, waiting, running, free, publishes>>

\* Mutant: the last permit is never given out.
StartOffByOne(p, s) ==
    /\ s \in waiting[p]
    /\ free > 1
    /\ free' = free - 1
    /\ waiting' = [waiting EXCEPT ![p] = @ \ {s}]
    /\ running' = [running EXCEPT ![p] = @ \cup {s}]
    /\ UNCHANGED <<log, seen, order, subscribed, publishes>>

\* _dispatch_handler enters the semaphore and calls the handler.
Start(p, s) ==
    /\ s \in waiting[p]
    /\ free > 0
    /\ free' = free - 1
    /\ waiting' = [waiting EXCEPT ![p] = @ \ {s}]
    /\ running' = [running EXCEPT ![p] = @ \cup {s}]
    /\ UNCHANGED <<log, seen, order, subscribed, publishes>>

\* Leaving `async with' gives the permit back.
Release(p, s) ==
    /\ s \in running[p]
    /\ running' = [running EXCEPT ![p] = @ \ {s}]
    /\ free' = free + 1
    /\ UNCHANGED <<log, seen, order, subscribed, waiting, publishes>>

\* The handler returns.
Finish(p, s) == Release(p, s)

\* Mutant: release after the handler, without a finally.
RaiseKeepsPermit(p, s) ==
    /\ s \in running[p]
    /\ running' = [running EXCEPT ![p] = @ \ {s}]
    /\ UNCHANGED <<log, seen, order, subscribed, waiting, free, publishes>>

\* The handler raises: the exception is logged and swallowed.
Raise(p, s) == Release(p, s)

\* The task awaiting publish is cancelled (client gone, shutdown): gather
\* cancels its handlers, waiting or running, and `async with' releases.
Cancel(p) ==
    /\ ~Idle(p)
    /\ waiting' = [waiting EXCEPT ![p] = {}]
    /\ running' = [running EXCEPT ![p] = {}]
    /\ free' = free + Cardinality(running[p])
    /\ UNCHANGED <<log, seen, order, subscribed, publishes>>

BusNext ==
    \/ \E p \in Publishers :
          \/ \E e \in Events : Accept(p, e) \/ Deduplicate(p, e)
          \/ \E s \in Subscriptions : Start(p, s) \/ Finish(p, s) \/ Raise(p, s)
          \/ Cancel(p)
    \/ \E s \in Subscriptions : Subscribe(s)

BusSpec == BusInit /\ [][BusNext]_busVars

\* Handlers end, and a permit that becomes free goes to the first waiter
\* (asyncio.Semaphore is first-come first-served).
Fairness ==
    \A p \in Publishers, s \in Subscriptions :
        /\ SF_busVars(Start(p, s))
        /\ WF_busVars(Finish(p, s) \/ Raise(p, s))

FairSpec == BusSpec /\ Fairness

-----------------------------------------------------------------------------

\* The system of record never holds two events with the same idempotency key,
\* although keys are forgotten: the key window always covers the log.
LogHasNoDuplicates ==
    \A i, j \in 1 .. Len(log) : log[i].key = log[j].key => i = j

\* The set and the queue of idempotency keys stay two views of one window, so
\* eviction forgets exactly the oldest key.
WindowIsConsistent ==
    /\ seen = {order[i] : i \in 1 .. Len(order)}
    /\ \A i, j \in 1 .. Len(order) : order[i] = order[j] => i = j
    /\ Len(order) <= MaxIdempotencyKeys

\* Every permit of the semaphore is free or held by a handler that is running,
\* whether handlers return, raise or are cancelled with their publisher
\* (_dispatch_handler): a lost permit would stall publish for good, a permit
\* released twice would let more handlers run than there are permits.
PermitsConserved ==
    free + Cardinality(UNION {{p} \X running[p] : p \in Publishers}) = DispatchSlots

\* publish returns: every handler of an accepted event gets its turn, even when
\* other publishers keep all permits busy and handlers raise or are cancelled.
EveryHandlerRuns == \A p \in Publishers : ~Idle(p) ~> Idle(p)
=============================================================================
