---------------------------- MODULE ShadowWarmer ----------------------------
(***************************************************************************)
(* ShadowWarmer (interceptor/shadow_warming.py): tasks of several threads  *)
(* that missed the index ask whether to refresh a workload, and refresh it *)
(* later.  A task holds the lock only for single steps, and the refresh    *)
(* itself is awaited without it.  The caller is the gateway's miss path    *)
(* (gateway.py), when the interceptor was given a refresh function: it     *)
(* asks at the miss and starts trigger_refresh as a task that runs later.  *)
(* The counters behind stats are left out.                                 *)
(***************************************************************************)
EXTENDS Integers, FiniteSets, SequencesExt

CONSTANTS
    Workloads, Tasks,
    MinInterval,    \* min_refresh_interval_s
    MaxTracked,     \* shadow_warm_max_tracked_workloads
    WarmTime, MaxRefreshes   \* bounds: the clock, and finished refreshes

ASSUME WarmerAssumption == {MinInterval, MaxTracked} \subseteq Nat \ {0}

VARIABLES
    monotonic,
    inProgress,     \* in_progress
    lastRefresh,    \* last_refresh: entries in the order of the dict
    task,           \* task[t]: what it does, and for which workload
    finished        \* history: the refreshes that completed

warmerVars == <<monotonic, inProgress, lastRefresh, task, finished>>

Idle == [does |-> "nothing", id |-> "none"]

WarmerInit ==
    /\ monotonic \in {0, MinInterval}
    /\ inProgress = {} /\ lastRefresh = <<>> /\ finished = <<>>
    /\ task = [t \in Tasks |-> Idle]

MonotonicTick ==
    /\ monotonic < WarmTime
    /\ monotonic' = monotonic + 1
    /\ UNCHANGED <<inProgress, lastRefresh, task, finished>>

\* Where the dict has the key, if it does.
Places(entries, w) == {i \in DOMAIN entries : entries[i].id = w}

\* last_refresh.get(workload_id, 0.0).
LastRefresh(w) ==
    IF Places(lastRefresh, w) = {} THEN 0
    ELSE lastRefresh[CHOOSE i \in Places(lastRefresh, w) : TRUE].at

\* should_trigger_refresh says yes; whether it does is also left to chance.
ShouldTrigger(t, w) ==
    /\ task[t] = Idle
    /\ w \notin inProgress
    /\ monotonic - LastRefresh(w) >= MinInterval
    /\ task' = [task EXCEPT ![t] = [does |-> "asked", id |-> w]]
    /\ UNCHANGED <<monotonic, inProgress, lastRefresh, finished>>

\* Mutant: the set is not looked at again.
FreeAlways(w) == TRUE

Free(w) == w \notin inProgress

\* trigger_refresh up to the await, or its refusal.
Trigger(t) ==
    LET w == task[t].id
    IN  /\ task[t].does = "asked"
        /\ task' = [task EXCEPT ![t] = IF Free(w) THEN [@ EXCEPT !.does = "refreshes"] ELSE Idle]
        /\ inProgress' = IF Free(w) THEN inProgress \cup {w} ELSE inProgress
        /\ UNCHANGED <<monotonic, lastRefresh, finished>>

\* Mutant: without the pop, an entry that exists keeps its place in the dict.
RecordInPlace(entries, w, time) ==
    LET new == IF Places(entries, w) # {}
               THEN [i \in DOMAIN entries |-> IF entries[i].id = w THEN [id |-> w, at |-> time] ELSE entries[i]]
               ELSE Append(entries, [id |-> w, at |-> time])
    IN  IF Len(new) > MaxTracked THEN Tail(new) ELSE new

\* _record_refresh_locked: an entry that exists is popped and entered anew.
Record(entries, w, time) ==
    LET rest == IF Places(entries, w) = {} THEN entries
                ELSE RemoveAt(entries, CHOOSE i \in Places(entries, w) : TRUE)
        new == Append(rest, [id |-> w, at |-> time])
    IN  IF Len(new) > MaxTracked THEN Tail(new) ELSE new

\* The refresh returned: first its time is recorded ...
Refreshed(t) ==
    LET w == task[t].id
    IN  /\ task[t].does = "refreshes"
        /\ Len(finished) < MaxRefreshes
        /\ lastRefresh' = Record(lastRefresh, w, monotonic)
        /\ finished' = Append(finished, [id |-> w, at |-> monotonic])
        /\ task' = [task EXCEPT ![t].does = "leaves"]
        /\ UNCHANGED <<monotonic, inProgress>>

\* ... and then the finally clause gives the workload free; a refresh that
\* fails or is cancelled comes here directly.
Discard(t) ==
    /\ task[t].does \in {"refreshes", "leaves"}
    /\ inProgress' = inProgress \ {task[t].id}
    /\ task' = [task EXCEPT ![t] = Idle]
    /\ UNCHANGED <<monotonic, lastRefresh, finished>>

WarmerNext ==
    \/ MonotonicTick
    \/ \E t \in Tasks : \/ \E w \in Workloads : ShouldTrigger(t, w)
                        \/ Trigger(t) \/ Refreshed(t) \/ Discard(t)

WarmerSpec == WarmerInit /\ [][WarmerNext]_warmerVars

-----------------------------------------------------------------------------

\* However many misses were told to refresh, at most one of them refreshes a
\* workload at a time, and the set the others look at says so until it is done
\* (trigger_refresh: "Only one refresh runs at a time per workload ID").
OneRefreshAtATime ==
    \A w \in Workloads :
        LET active == {t \in Tasks : task[t].does \in {"refreshes", "leaves"} /\ task[t].id = w}
        IN  Cardinality(active) = IF w \in inProgress THEN 1 ELSE 0

\* A miss is told to refresh a workload within the interval after one of its
\* refreshes completed only if so many other workloads were refreshed since
\* then that the bounded map had to forget it.
IntervalRespected ==
    [][\A t \in Tasks : task[t] = Idle /\ task'[t].does = "asked" =>
          \A i \in DOMAIN finished :
              finished[i].id = task'[t].id /\ monotonic - finished[i].at < MinInterval =>
                  Cardinality({finished[j].id : j \in i + 1 .. Len(finished)} \ {task'[t].id})
                      >= MaxTracked]_warmerVars
=============================================================================
