---------------------------- MODULE CircuitStore ----------------------------
(***************************************************************************)
(* RedisCircuitStateStore.mutate and CircuitBreaker._safe_mutate: gateway  *)
(* replicas change the shared record with WATCH / GET / MULTI-SET-EXEC and *)
(* retry when the key was written in between.  When Redis fails, a replica *)
(* applies the mutator to its own fallback copy instead.  A replica's      *)
(* event loop makes one call at a time.                                    *)
(*                                                                         *)
(* `now' is true time, which no process sees.  time.time() of a pod is off *)
(* by at most MaxSkew either way and by a different amount at each         *)
(* reading, so pods disagree and a pod's clock may be stepped back.        *)
(***************************************************************************)
EXTENDS CircuitState, FiniteSets

CONSTANTS
    Replicas,   \* gateway processes sharing one Redis key
    Methods,    \* the breaker methods the replicas call
    Epoch,      \* true time when the model starts
    MaxSkew,    \* how far time.time() of a pod may be from true time
    MaxTime,    \* bound on the clock
    MaxCalls,   \* bound on the number of breaker calls and restarts
    MaxFaults   \* bound on the Redis errors met

ASSUME StoreAssumption ==
    /\ Methods \subseteq Operations
    /\ Epoch \in Int
    /\ MaxSkew \in Nat
    /\ MaxTime \in Int
    /\ MaxCalls \in Nat
    /\ MaxFaults \in Nat

VARIABLES
    store,      \* the record under the Redis key
    now,        \* true time
    written,    \* history: true time of the last commit
    pc,         \* pc[r]: next Redis command of r's call, or "idle"
    op,         \* op[r]: the method being called
    dirty,      \* dirty[r]: the key was written since r's WATCH
    work,       \* work[r]: the mutated copy r will SET
    answer,     \* answer[r]: should_fail_open of r's last is_open mutator
    fallback,   \* fallback[r]: _fallback_state
    calls, faults,
    counted,    \* history: fail-open answers computed by committed mutations
    admits      \* history: requests let through in this half-open episode

vars == <<store, now, written, pc, op, dirty, work, answer,
          fallback, calls, faults, counted, admits>>

Steps == {"idle", "watch", "get", "exec"}

TypeOK ==
    /\ store \in CircuitBreakerState
    /\ now \in Int
    /\ written \in Int
    /\ pc \in [Replicas -> Steps]
    /\ op \in [Replicas -> Operations]
    /\ dirty \in [Replicas -> BOOLEAN]
    /\ work \in [Replicas -> CircuitBreakerState]
    /\ answer \in [Replicas -> BOOLEAN]
    /\ fallback \in [Replicas -> CircuitBreakerState]
    /\ calls \in Nat
    /\ faults \in Nat
    /\ counted \in Nat
    /\ admits \in Nat

Init ==
    /\ store = NewCircuit(Epoch)
    /\ now = Epoch
    /\ written = Epoch
    /\ pc = [r \in Replicas |-> "idle"]
    /\ op = [r \in Replicas |-> "init"]
    /\ dirty = [r \in Replicas |-> FALSE]
    /\ work = [r \in Replicas |-> NewCircuit(Epoch)]
    /\ answer = [r \in Replicas |-> FALSE]
    /\ fallback = [r \in Replicas |-> NewCircuit(Epoch)]
    /\ calls = 0
    /\ faults = 0
    /\ counted = 0
    /\ admits = 0

-----------------------------------------------------------------------------

\* What time.time() may answer: the code adds no correction of its own.
Readings == now - MaxSkew .. now + MaxSkew

\* The call's local variables die with it.
Return(r) ==
    /\ pc' = [pc EXCEPT ![r] = "idle"]
    /\ op' = [op EXCEPT ![r] = "init"]
    /\ work' = [work EXCEPT ![r] = NewCircuit(Epoch)]
    /\ answer' = [answer EXCEPT ![r] = FALSE]

\* A method is called and _safe_mutate enters the store's mutate.
Call(r, o) ==
    /\ pc[r] = "idle"
    /\ calls < MaxCalls
    /\ calls' = calls + 1
    /\ pc' = [pc EXCEPT ![r] = "watch"]
    /\ op' = [op EXCEPT ![r] = o]
    /\ UNCHANGED <<store, now, written, dirty, work, answer, fallback,
                   faults, counted, admits>>

\* The process dies at any point and is started again: the constructor takes a
\* fresh fallback record and performs a no-op mutation.
Restart(r) ==
    /\ calls < MaxCalls
    /\ calls' = calls + 1
    /\ pc' = [pc EXCEPT ![r] = "watch"]
    /\ op' = [op EXCEPT ![r] = "init"]
    /\ dirty' = [dirty EXCEPT ![r] = FALSE]
    /\ fallback' = [fallback EXCEPT ![r] = NewCircuit(Epoch)]
    /\ UNCHANGED <<store, now, written, work, answer,
                   faults, counted, admits>>

Watch(r) ==
    /\ pc[r] = "watch"
    /\ pc' = [pc EXCEPT ![r] = "get"]
    /\ dirty' = [dirty EXCEPT ![r] = FALSE]
    /\ UNCHANGED <<store, now, written, op, work, answer, fallback,
                   calls, faults, counted, admits>>

\* Mutant: the mutator runs on the replica's cached copy, not on a fresh GET.
GetCached(r) ==
    /\ pc[r] = "get"
    /\ pc' = [pc EXCEPT ![r] = "exec"]
    /\ \E t \in Readings :
          /\ work' = [work EXCEPT ![r] = Mutator(op[r], fallback[r], t)]
          /\ answer' = [answer EXCEPT ![r] =
                           op[r] = "is_open" /\ FailsOpen(fallback[r], t)]
    /\ UNCHANGED <<store, now, written, op, dirty, fallback,
                   calls, faults, counted, admits>>

\* GET, then the mutator runs on the parsed copy and reads the pod's clock.
Get(r) ==
    /\ pc[r] = "get"
    /\ pc' = [pc EXCEPT ![r] = "exec"]
    /\ \E t \in Readings :
          /\ work' = [work EXCEPT ![r] = Mutator(op[r], store, t)]
          /\ answer' = [answer EXCEPT ![r] = op[r] = "is_open" /\ FailsOpen(store, t)]
    /\ UNCHANGED <<store, now, written, op, dirty, fallback,
                   calls, faults, counted, admits>>

\* Mutant: the SET is sent without WATCH protection.
CommitsUnwatched(r) == pc[r] = "exec"

\* EXEC runs the queued SET only if the key is as it was at the WATCH.
Commits(r) == pc[r] = "exec" /\ ~dirty[r]

\* The SET of r's EXEC: every connection that watches the key is invalidated.
Install(r) ==
    /\ store' = work[r]
    /\ written' = now
    /\ dirty' = [q \in Replicas |-> q # r /\ pc[q] \in {"get", "exec"}]
    /\ counted' = IF answer[r] THEN counted + 1 ELSE counted
    /\ admits' = IF work[r].state # "half_open" THEN 0
                 ELSE (IF store.state = "half_open" THEN admits ELSE 0)
                      + (IF op[r] = "is_open" /\ ~answer[r] THEN 1 ELSE 0)

\* A successful EXEC: _safe_mutate copies the new record into the fallback.
Exec(r) ==
    /\ Commits(r)
    /\ Install(r)
    /\ fallback' = [fallback EXCEPT ![r] = work[r]]
    /\ Return(r)
    /\ UNCHANGED <<now, calls, faults>>

\* Mutant: the retry reads again but keeps the broken WATCH.
RetryUnwatched(r) ==
    /\ pc[r] = "exec"
    /\ dirty[r]
    /\ pc' = [pc EXCEPT ![r] = "get"]
    /\ UNCHANGED <<store, now, written, op, dirty, work, answer, fallback,
                   calls, faults, counted, admits>>

\* WatchError: the loop starts over.
Retry(r) ==
    /\ pc[r] = "exec"
    /\ dirty[r]
    /\ pc' = [pc EXCEPT ![r] = "watch"]
    /\ UNCHANGED <<store, now, written, op, dirty, work, answer, fallback,
                   calls, faults, counted, admits>>

\* The degraded branch of _safe_mutate: the mutator runs on the local copy.
Degrade(r) ==
    /\ faults < MaxFaults
    /\ faults' = faults + 1
    /\ \E t \in Readings :
          fallback' = [fallback EXCEPT ![r] = Mutator(op[r], fallback[r], t)]
    /\ Return(r)

\* A Redis command of the call fails without effect.
RedisError(r) ==
    /\ pc[r] # "idle"
    /\ Degrade(r)
    /\ UNCHANGED <<store, now, written, dirty, calls, counted, admits>>

\* The EXEC took effect and its reply was lost (10 ms socket timeout): the
\* same call is applied to the shared record and to the fallback.
ReplyLost(r) ==
    /\ Commits(r)
    /\ Install(r)
    /\ Degrade(r)
    /\ UNCHANGED <<now, calls>>

Tick ==
    /\ now < MaxTime
    /\ now' = now + 1
    /\ UNCHANGED <<store, written, pc, op, dirty, work, answer, fallback,
                   calls, faults, counted, admits>>

MutateStep(r) == Watch(r) \/ Get(r) \/ Exec(r) \/ Retry(r)

Next ==
    \/ Tick
    \/ \E r \in Replicas :
          \/ \E o \in Methods : Call(r, o)
          \/ Restart(r)
          \/ MutateStep(r)
          \/ RedisError(r)
          \/ ReplyLost(r)

Spec == Init /\ [][Next]_vars

\* The loop of mutate has no wait in it: a replica that can run, runs.
Fairness == \A r \in Replicas : WF_vars(MutateStep(r))

FairSpec == Spec /\ Fairness

-----------------------------------------------------------------------------

\* Every record a replica may act on - the shared one, its fallback, the copy
\* it is about to commit - satisfies CircuitWellFormed, through races, Redis
\* errors and restarts.
RecordsWellFormed ==
    /\ CircuitWellFormed(store)
    /\ \A r \in Replicas :
          CircuitWellFormed(fallback[r]) /\ CircuitWellFormed(work[r])

\* A replica whose WATCH is unbroken will SET the outcome of its mutator on the
\* record as it is now, at a clock reading it took after the record was written,
\* and its answer is the answer of that mutator.
PendingWriteIsCurrent ==
    \A r \in Replicas : Commits(r) =>
        \E t \in written - MaxSkew .. now + MaxSkew :
            /\ work[r] = Mutator(op[r], store, t)
            /\ answer[r] = (op[r] = "is_open" /\ FailsOpen(store, t))

\* The failure time is one a pod could have read before the last commit.
FailureTimeIsPast ==
    /\ written <= now
    /\ store.last_failure_time <= written + MaxSkew

\* The probe slots taken are the requests really let through.
ProbesAreAdmits ==
    admits = IF store.state = "half_open" THEN store.half_open_probe_count ELSE 0

\* One half-open episode of the shared record lets at most half_open_max_probes
\* requests through, counting the answers of all replicas (is_open).
HalfOpenAdmitsBounded == admits <= HalfOpenMaxProbes

\* No fail-open decision is lost from the shared statistics to a concurrent
\* write of another replica (total_fail_opens of get_metrics).
FailOpensCounted == store.total_fail_opens = counted

\* The shared time of the last failure moves back by no more than two pods'
\* clocks may differ, although every replica computes it from a reading of its
\* own taken some time before it writes (record_failure): how long a call takes
\* between its GET and its EXEC never adds to the error.
FailureTimeWithinSkew ==
    [][store'.last_failure_time >= store.last_failure_time - 2 * MaxSkew]_vars

\* The breaker calls that have ended, by an answer or by a restart.
Ended == calls - Cardinality({r \in Replicas : pc[r] # "idle"})

\* While some replica is inside mutate, some call sooner or later returns: a
\* broken WATCH means that another replica's write got through.  Nothing more
\* holds of the loop (while True, no retry limit): under a stream of calls of
\* the others, one replica may lose every EXEC.
SomeCallReturns ==
    \A n \in 0 .. MaxCalls :
        (Ended = n /\ \E r \in Replicas : pc[r] # "idle") ~> Ended > n

\* The Redis protocol implements one atomic record (CircuitBreaker).
Breaker == INSTANCE CircuitBreaker WITH circuit <- store, since <- written

\* Redis errors and restarts included, the shared record changes only by whole
\* mutators applied to its latest value: all pods share the same circuit state
\* transitions (the class comment of CircuitBreaker).
ImplementsBreaker == Breaker!Spec
=============================================================================
