---------------------------- MODULE KafkaEventBus ----------------------------
(***************************************************************************)
(* KafkaEventBus (core/event_bus.py): publishers that deduplicate in Redis *)
(* and then send, and the consumer group of processor replicas that        *)
(* dispatches, dead-letters and commits.  One partition is modelled: its   *)
(* log is a sequence of dedup keys, offsets are positions in it, and the   *)
(* committed offset is the last position settled.                          *)
(*                                                                         *)
(* Redis, the brokers and the group protocol are external: a call to one   *)
(* of them succeeds, fails, or takes effect and fails (its reply is lost), *)
(* and a commit by a member that lost the partition is refused.            *)
(***************************************************************************)
EXTENDS Integers, Sequences, FiniteSets

CONSTANTS
    Keys,             \* dedup keys: tenant_id:source:idempotency_key
    Publishers,       \* tasks calling publish
    Consumers,        \* processor replicas
    MaxPublishes,     \* bound on publish calls
    MaxExpiries,      \* bound on idempotency keys that outlive their TTL
    MaxFaults,        \* bound on failures of Redis, of send and of the DLQ
    MaxConsumerFaults,\* bound on failures of getmany, and of the owner's commits
    MaxRestarts       \* bound on crashes, and on rebalances away from a live owner

ASSUME KafkaAssumption ==
    /\ IsFiniteSet(Keys) /\ IsFiniteSet(Publishers) /\ IsFiniteSet(Consumers)
    /\ {MaxPublishes, MaxExpiries, MaxFaults, MaxConsumerFaults, MaxRestarts} \subseteq Nat

VARIABLES
    seen,         \* keys present in Redis
    log,          \* the partition
    dlq,          \* offsets sent to the dead-letter topic
    committed,    \* the group's committed position
    sending,      \* sending[p]: keys p has added to Redis and not sent yet
    task,         \* task[c]: where the consumer task of c is
    owner,        \* the members the partition is assigned to (at most one)
    position,     \* position[c]: how far c's consumer has fetched
    batch,        \* batch[c]: fetched offsets not settled, the head in hand
    under,        \* under[c]: the assignment c's batch was fetched under
    publishes, expiries, faults, consumerFaults, restarts,
    dispatched,   \* history: offsets whose handlers all succeeded
    dropped,      \* history: offsets whose dead-lettering failed and was logged
    deliveries,   \* history: offsets handed out, each with its batch's assignment
    assignments,  \* history: times the partition was assigned
    answered      \* history: keys for which publish returned True or False

vars == <<seen, log, dlq, committed, sending, task, owner, position, batch,
          under, publishes, expiries, faults, consumerFaults, restarts,
          dispatched, dropped, deliveries, assignments, answered>>

pubVars == <<seen, log, sending, publishes, expiries, answered>>
conVars == <<dlq, committed, task, owner, position, batch, under, consumerFaults,
             dispatched, dropped, deliveries, assignments>>

\* "loop" is the head of _consume_loop and of _handle_message; "dead" is a
\* consumer task that ended with an exception in a process that lives on.
Tasks == {"down", "loop", "commit", "dlq", "recommit", "dead"}

Offsets == 1 .. MaxPublishes

TypeOK ==
    /\ seen \subseteq Keys
    /\ log \in Seq(Keys)
    /\ Len(log) <= publishes
    /\ dlq \subseteq Offsets
    /\ committed \in 0 .. Len(log)
    /\ sending \in [Publishers -> SUBSET Keys]
    /\ task \in [Consumers -> Tasks]
    /\ owner \subseteq Consumers /\ Cardinality(owner) <= 1
    /\ position \in [Consumers -> 0 .. MaxPublishes]
    /\ batch \in [Consumers -> Seq(Offsets)]
    /\ expiries \in [Keys -> 0 .. MaxExpiries]
    /\ publishes \in 0 .. MaxPublishes
    /\ faults \in 0 .. MaxFaults
    /\ consumerFaults \in 0 .. MaxConsumerFaults
    /\ restarts \in 0 .. MaxRestarts
    /\ dispatched \subseteq Offsets
    /\ dropped \subseteq Offsets
    /\ under \in [Consumers -> 0 .. assignments]
    /\ deliveries \subseteq Offsets \X (1 .. assignments)
    /\ assignments \in Nat
    /\ answered \subseteq Keys

Init ==
    /\ seen = {} /\ log = <<>> /\ dlq = {} /\ committed = 0
    /\ sending = [p \in Publishers |-> {}]
    /\ task = [c \in Consumers |-> "down"]
    /\ owner = {}
    /\ position = [c \in Consumers |-> 0]
    /\ batch = [c \in Consumers |-> <<>>]
    /\ expiries = [k \in Keys |-> 0]
    /\ publishes = 0 /\ faults = 0 /\ consumerFaults = 0 /\ restarts = 0
    /\ dispatched = {} /\ dropped = {}
    /\ under = [c \in Consumers |-> 0]
    /\ deliveries = {}
    /\ assignments = 0
    /\ answered = {}

Fault == faults < MaxFaults /\ faults' = faults + 1

-----------------------------------------------------------------------------
(* publish                                                                  *)

\* Mutant: SET without NX, so that the key never counts as seen.
SeenOrAddAlways(p, k) ==
    /\ sending[p] = {}
    /\ publishes < MaxPublishes
    /\ publishes' = publishes + 1
    /\ seen' = seen \cup {k}
    /\ sending' = [sending EXCEPT ![p] = {k}]
    /\ UNCHANGED <<log, expiries, answered, faults, restarts, conVars>>

\* seen_or_add inserts the key (SET NX): the event is to be sent.
SeenOrAdd(p, k) ==
    /\ sending[p] = {}
    /\ publishes < MaxPublishes
    /\ k \notin seen
    /\ publishes' = publishes + 1
    /\ seen' = seen \cup {k}
    /\ sending' = [sending EXCEPT ![p] = {k}]
    /\ UNCHANGED <<log, expiries, answered, faults, restarts, conVars>>

\* The key is already there: publish returns False.
Deduplicate(p, k) ==
    /\ sending[p] = {}
    /\ publishes < MaxPublishes
    /\ k \in seen
    /\ publishes' = publishes + 1
    /\ answered' = answered \cup {k}
    /\ UNCHANGED <<seen, log, sending, expiries, faults, restarts, conVars>>

\* Redis fails, with or without having stored the key: publish raises.
StoreFails(p, k, took) ==
    /\ sending[p] = {}
    /\ publishes < MaxPublishes
    /\ publishes' = publishes + 1
    /\ Fault
    /\ seen' = IF took THEN seen \cup {k} ELSE seen
    /\ UNCHANGED <<log, sending, expiries, answered, restarts, conVars>>

\* send_and_wait succeeds: publish returns True.
Send(p) ==
    /\ \E k \in sending[p] : log' = Append(log, k) /\ answered' = answered \cup {k}
    /\ sending' = [sending EXCEPT ![p] = {}]
    /\ UNCHANGED <<seen, publishes, expiries, faults, restarts, conVars>>

\* send_and_wait raises, with or without the brokers having taken the event;
\* the key stays in Redis.
SendFails(p, took) ==
    /\ \E k \in sending[p] : log' = IF took THEN Append(log, k) ELSE log
    /\ sending' = [sending EXCEPT ![p] = {}]
    /\ Fault
    /\ UNCHANGED <<seen, publishes, expiries, answered, restarts, conVars>>

\* The publishing process dies between the two.
PublisherDies(p) ==
    /\ sending[p] # {}
    /\ restarts < MaxRestarts
    /\ restarts' = restarts + 1
    /\ sending' = [sending EXCEPT ![p] = {}]
    /\ UNCHANGED <<seen, log, publishes, expiries, answered, faults, conVars>>

\* A key outlives event_bus_dedup_ttl_s.
Expire(k) ==
    /\ k \in seen
    /\ expiries[k] < MaxExpiries
    /\ expiries' = [expiries EXCEPT ![k] = @ + 1]
    /\ seen' = seen \ {k}
    /\ UNCHANGED <<log, sending, publishes, answered, faults, restarts, conVars>>

-----------------------------------------------------------------------------
(* The consumers                                                            *)

Start(c) ==
    /\ task[c] = "down"
    /\ task' = [task EXCEPT ![c] = "loop"]
    /\ UNCHANGED <<dlq, committed, owner, position, batch, under, consumerFaults, dispatched,
                   dropped, deliveries, assignments, faults, restarts, pubVars>>

\* Members whose consumer polls; one that stopped polling leaves the group.
Live == {c \in Consumers : task[c] \notin {"down", "dead"}}

\* Mutant: a new assignment starts at the end of the log (auto_offset_reset).
AssignLatest(c) ==
    /\ c \in Live
    /\ \/ owner \cap Live = {} /\ UNCHANGED restarts
       \/ owner \cap Live # {} /\ restarts < MaxRestarts /\ restarts' = restarts + 1
    /\ owner' = {c}
    /\ position' = [position EXCEPT ![c] = Len(log)]
    /\ assignments' = assignments + 1
    /\ UNCHANGED <<dlq, committed, task, batch, under, consumerFaults, dispatched, dropped,
                   deliveries, faults, pubVars>>

\* The group assigns the partition to c, which fetches from the committed
\* position; what it had fetched before stays in its hands.
Assign(c) ==
    /\ c \in Live
    /\ \/ owner \cap Live = {} /\ UNCHANGED restarts
       \/ owner \cap Live # {} /\ restarts < MaxRestarts /\ restarts' = restarts + 1
    /\ owner' = {c}
    /\ position' = [position EXCEPT ![c] = committed]
    /\ assignments' = assignments + 1
    /\ UNCHANGED <<dlq, committed, task, batch, under, consumerFaults, dispatched, dropped,
                   deliveries, faults, pubVars>>

\* getmany returns what was appended since.
Poll(c) ==
    /\ task[c] = "loop"
    /\ batch[c] = <<>>
    /\ c \in owner
    /\ position[c] < Len(log)
    /\ batch' = [batch EXCEPT ![c] = [i \in 1 .. Len(log) - position[c] |-> position[c] + i]]
    /\ position' = [position EXCEPT ![c] = Len(log)]
    /\ under' = [under EXCEPT ![c] = assignments]
    /\ UNCHANGED <<dlq, committed, task, owner, consumerFaults, dispatched, dropped,
                   deliveries, assignments, faults, restarts, pubVars>>

\* getmany raises, as in an owner so in a member that waits for an assignment:
\* nothing in _consume_loop catches it, and the consumer task ends.
PollFails(c) ==
    /\ task[c] = "loop"
    /\ batch[c] = <<>>
    /\ consumerFaults < MaxConsumerFaults
    /\ consumerFaults' = consumerFaults + 1
    /\ task' = [task EXCEPT ![c] = "dead"]
    /\ UNCHANGED <<dlq, committed, owner, position, batch, under, dispatched, dropped,
                   deliveries, assignments, faults, restarts, pubVars>>

\* _dispatch_event runs every handler; the commit comes next.
Dispatch(c) ==
    /\ task[c] = "loop"
    /\ batch[c] # <<>>
    /\ dispatched' = dispatched \cup {Head(batch[c])}
    /\ deliveries' = deliveries \cup {<<Head(batch[c]), under[c]>>}
    /\ task' = [task EXCEPT ![c] = "commit"]
    /\ UNCHANGED <<dlq, committed, owner, position, batch, under, consumerFaults, dropped,
                   assignments, faults, restarts, pubVars>>

\* Mutant: a failed event is committed without being dead-lettered.
DispatchFailsUnnoticed(c) ==
    /\ task[c] = "loop"
    /\ batch[c] # <<>>
    /\ deliveries' = deliveries \cup {<<Head(batch[c]), under[c]>>}
    /\ task' = [task EXCEPT ![c] = "commit"]
    /\ UNCHANGED <<dlq, committed, owner, position, batch, under, consumerFaults, dispatched,
                   dropped, assignments, faults, restarts, pubVars>>

\* Parsing, validation or a handler fails: the except branch.
DispatchFails(c) ==
    /\ task[c] = "loop"
    /\ batch[c] # <<>>
    /\ deliveries' = deliveries \cup {<<Head(batch[c]), under[c]>>}
    /\ task' = [task EXCEPT ![c] = "dlq"]
    /\ UNCHANGED <<dlq, committed, owner, position, batch, under, consumerFaults, dispatched,
                   dropped, assignments, faults, restarts, pubVars>>

PublishDlq(c) ==
    /\ task[c] = "dlq"
    /\ dlq' = dlq \cup {Head(batch[c])}
    /\ task' = [task EXCEPT ![c] = "recommit"]
    /\ UNCHANGED <<committed, owner, position, batch, under, consumerFaults, dispatched, dropped,
                   deliveries, assignments, faults, restarts, pubVars>>

\* The dead-letter topic fails too: the payload is logged as an error.
DlqFails(c) ==
    /\ task[c] = "dlq"
    /\ Fault
    /\ dropped' = dropped \cup {Head(batch[c])}
    /\ task' = [task EXCEPT ![c] = "recommit"]
    /\ UNCHANGED <<dlq, committed, owner, position, batch, under, consumerFaults, dispatched,
                   deliveries, assignments, restarts, pubVars>>

\* Mutant: the message is not taken off the batch.
CommitKeepsMessage(c) ==
    /\ task[c] \in {"commit", "recommit"}
    /\ c \in owner
    /\ committed' = Head(batch[c])
    /\ task' = [task EXCEPT ![c] = "loop"]
    /\ UNCHANGED <<dlq, owner, position, batch, under, consumerFaults, dispatched, dropped,
                   deliveries, assignments, faults, restarts, pubVars>>

\* _commit_offset succeeds and _handle_message returns.
Commit(c) ==
    /\ task[c] \in {"commit", "recommit"}
    /\ c \in owner
    /\ committed' = Head(batch[c])
    /\ batch' = [batch EXCEPT ![c] = Tail(@)]
    /\ task' = [task EXCEPT ![c] = "loop"]
    /\ UNCHANGED <<dlq, owner, position, under, consumerFaults, dispatched, dropped,
                   deliveries, assignments, faults, restarts, pubVars>>

\* _commit_offset raises.  The first commit is inside the try: the event is
\* dead-lettered.  The second is not: the exception ends the consumer task.
\* _update_partition_lag follows the commit inside the try, so its raise is the
\* case of a first commit that took effect and failed.
CommitFails(c, took) ==
    /\ task[c] \in {"commit", "recommit"}
    /\ \/ c \notin owner /\ UNCHANGED <<consumerFaults, committed>>
       \/ /\ c \in owner
          /\ consumerFaults < MaxConsumerFaults
          /\ consumerFaults' = consumerFaults + 1
          /\ committed' = IF took THEN Head(batch[c]) ELSE committed
    /\ task' = [task EXCEPT ![c] = IF @ = "commit" THEN "dlq" ELSE "dead"]
    /\ UNCHANGED <<dlq, owner, position, batch, under, dispatched, dropped,
                   deliveries, assignments, faults, restarts, pubVars>>

\* The process ends, by a crash or by stop, which cancels the task wherever it
\* waits; a cancellation is not an Exception and skips the except branch.
Crash(c) ==
    /\ task[c] # "down"
    /\ restarts < MaxRestarts
    /\ restarts' = restarts + 1
    /\ task' = [task EXCEPT ![c] = "down"]
    /\ batch' = [batch EXCEPT ![c] = <<>>]
    /\ under' = [under EXCEPT ![c] = 0]
    /\ owner' = owner \ {c}
    /\ UNCHANGED <<dlq, committed, position, consumerFaults, dispatched, dropped,
                   deliveries, assignments, faults, pubVars>>

-----------------------------------------------------------------------------

Publish(p) ==
    \/ \E k \in Keys :
          \/ SeenOrAdd(p, k) \/ Deduplicate(p, k)
          \/ \E took \in BOOLEAN : StoreFails(p, k, took)
    \/ Send(p)
    \/ \E took \in BOOLEAN : SendFails(p, took)
    \/ PublisherDies(p)

\* What a running process does by itself.
Consume(c) ==
    \/ Start(c) \/ Poll(c) \/ Dispatch(c) \/ DispatchFails(c)
    \/ PublishDlq(c) \/ DlqFails(c) \/ Commit(c)
    \/ \E took \in BOOLEAN : CommitFails(c, took)

Next ==
    \/ \E p \in Publishers : Publish(p)
    \/ \E k \in Keys : Expire(k)
    \/ \E c \in Consumers : Consume(c) \/ PollFails(c) \/ Assign(c) \/ Crash(c)

Spec == Init /\ [][Next]_vars

\* Processes run and are restarted when they die, and the group assigns a
\* partition that has no live owner.
Fairness ==
    /\ \A c \in Consumers : WF_vars(Consume(c))
    /\ WF_vars(owner \cap Live = {} /\ \E c \in Consumers : Assign(c))

FairSpec == Spec /\ Fairness

-----------------------------------------------------------------------------

Settled == dispatched \cup dlq \cup dropped

\* Through handler errors, failed commits, crashes and rebalances, the group
\* never commits past an event that was neither dispatched nor dead-lettered nor
\* reported as lost to the dead-letter topic (_handle_message).
CommittedMeansSettled == 1 .. committed \subseteq Settled

\* The log gets a second copy of an event only when its idempotency key expired
\* in between, however publishers race, fail and retry (publish).
OncePerExpiry ==
    \A k \in Keys :
        Cardinality({o \in 1 .. Len(log) : log[o] = k})
            + Cardinality({p \in Publishers : k \in sending[p]}) <= 1 + expiries[k]

\* Handlers are handed an event at most once for every assignment it was fetched
\* under (_consume_loop): a member that lost the partition may still work off what
\* it fetched, and the next assignment starts again at the committed position, but
\* no loop hands out the same fetched event twice and no two members fetch it
\* under one assignment.
OncePerFetch ==
    \A c \in Consumers :
        task[c] = "loop" /\ batch[c] # <<>> => <<Head(batch[c]), under[c]>> \notin deliveries

\* While one replica still has a consumer task, every event in the log is settled
\* in the end: crashes, rebalances, failing handlers, failing commits, a failing
\* dead-letter topic and the tasks that getmany or a second commit ended only
\* delay it (_consume_loop).
SettledUnlessAllTasksEnd ==
    \A o \in Offsets :
        o <= Len(log) ~> o \in Settled \/ \A c \in Consumers : task[c] = "dead"

\* "Redis-backed idempotency dedup for durable at-least-once handling"
\* (wiki-src/Technical-Architecture.md), for the producing side: once publish has
\* answered for an event, the event is in the log or on its way.
AnsweredMeansLogged ==
    \A k \in answered :
        \/ \E o \in 1 .. Len(log) : log[o] = k
        \/ \E p \in Publishers : k \in sending[p]
=============================================================================
