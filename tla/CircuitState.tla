---------------------------- MODULE CircuitState ----------------------------
(***************************************************************************)
(* The circuit breaker record of interceptor/circuit_breaker.py and the    *)
(* mutators the breaker's methods hand to its state store.  Every method   *)
(* is a function of the record and of the clock reading it takes, so the   *)
(* modules that store the record (Redis, memory, the per-replica fallback) *)
(* share these definitions.                                                *)
(***************************************************************************)
EXTENDS Integers

CONSTANTS
    FailureThreshold,   \* circuit_breaker_threshold
    ResetTimeout,       \* circuit_breaker_reset_s, in clock ticks
    HalfOpenMaxProbes   \* half_open_max_probes

\* The deployed values are 5, 30 and 3.  Nothing in the code rejects 0, but a
\* breaker that opens on no failure or lets no probe through is no breaker.
ASSUME CircuitAssumption ==
    /\ FailureThreshold \in Nat \ {0}
    /\ ResetTimeout \in Nat \ {0}
    /\ HalfOpenMaxProbes \in Nat \ {0}

CircuitStates == {"closed", "open", "half_open"}

CircuitBreakerState ==
    [ state                   : CircuitStates,
      failure_count           : Nat,
      last_failure_time       : Int,
      half_open_success_count : Nat,
      half_open_probe_count   : Nat,
      total_opens             : Nat,
      total_fail_opens        : Nat ]

\* The dataclass defaults.  `epoch' is the reading of the clock's origin.
NewCircuit(epoch) ==
    [ state                   |-> "closed",
      failure_count           |-> 0,
      last_failure_time       |-> epoch,
      half_open_success_count |-> 0,
      half_open_probe_count   |-> 0,
      total_opens             |-> 0,
      total_fail_opens        |-> 0 ]

-----------------------------------------------------------------------------

\* _transition_if_reset_timeout_elapsed
AfterReset(s, now) ==
    IF s.state = "open" /\ now - s.last_failure_time >= ResetTimeout
    THEN [s EXCEPT !.state = "half_open",
                   !.half_open_success_count = 0,
                   !.half_open_probe_count = 0]
    ELSE s

\* Mutant: one probe slot too many.
FailsOpenOffByOne(s, now) ==
    LET c == AfterReset(s, now) IN
    \/ c.state = "open"
    \/ c.state = "half_open" /\ c.half_open_probe_count > HalfOpenMaxProbes

\* The answer of is_open: the caller must skip enrichment.
FailsOpen(s, now) ==
    LET c == AfterReset(s, now) IN
    \/ c.state = "open"
    \/ c.state = "half_open" /\ c.half_open_probe_count >= HalfOpenMaxProbes

\* Mutant: a rejected request takes a probe slot too.
IsOpenCountsRejects(s, now) ==
    LET c == AfterReset(s, now) IN
    IF c.state = "half_open"
    THEN [c EXCEPT !.half_open_probe_count = @ + 1]
    ELSE c

\* Mutant: every rejected request restarts the reset timeout.
IsOpenRestartsTimeout(s, now) ==
    LET c == AfterReset(s, now) IN
    IF FailsOpen(s, now)
    THEN [c EXCEPT !.last_failure_time = now]
    ELSE IF c.state = "half_open"
         THEN [c EXCEPT !.half_open_probe_count = @ + 1]
         ELSE c

\* The record is_open leaves: a fail-open is counted, a half-open admission
\* takes one of the probe slots.
IsOpen(s, now) ==
    LET c == AfterReset(s, now) IN
    IF FailsOpen(s, now)
    THEN [c EXCEPT !.total_fail_opens = @ + 1]
    ELSE IF c.state = "half_open"
         THEN [c EXCEPT !.half_open_probe_count = @ + 1]
         ELSE c

ForceClose(s) ==
    [s EXCEPT !.state = "closed",
              !.failure_count = 0,
              !.half_open_success_count = 0,
              !.half_open_probe_count = 0]

\* Mutant: closing forgets the half-open counters.
RecordSuccessKeepsProbes(s, now) ==
    LET c == AfterReset(s, now) IN
    IF /\ c.state = "half_open"
       /\ c.half_open_success_count + 1 < HalfOpenMaxProbes
    THEN [c EXCEPT !.half_open_success_count = @ + 1]
    ELSE [c EXCEPT !.failure_count = 0, !.state = "closed"]

\* Mutant: one success more than there are probe slots is asked for.
RecordSuccessStrict(s, now) ==
    LET c == AfterReset(s, now) IN
    IF c.state # "half_open"
    THEN [c EXCEPT !.failure_count = 0, !.state = "closed"]
    ELSE IF c.half_open_success_count + 1 > HalfOpenMaxProbes
         THEN ForceClose(c)
         ELSE [c EXCEPT !.half_open_success_count = @ + 1]

\* A success closes the circuit, except in half-open before enough successes.
\* A success also closes a circuit that is open.
RecordSuccess(s, now) ==
    LET c == AfterReset(s, now) IN
    IF c.state # "half_open"
    THEN [c EXCEPT !.failure_count = 0, !.state = "closed"]
    ELSE IF c.half_open_success_count + 1 >= HalfOpenMaxProbes
         THEN ForceClose(c)
         ELSE [c EXCEPT !.half_open_success_count = @ + 1]

\* The assignments all ways of opening the circuit have in common.
Trip(c, failures, now) ==
    [ state                   |-> "open",
      failure_count           |-> failures,
      last_failure_time       |-> now,
      half_open_success_count |-> 0,
      half_open_probe_count   |-> 0,
      total_opens             |-> c.total_opens + 1,
      total_fail_opens        |-> c.total_fail_opens ]

\* Mutant: the threshold is compared before the failure is counted.
RecordFailureLate(s, now) ==
    LET c == AfterReset(s, now) IN
    IF c.state = "half_open"
    THEN Trip(c, FailureThreshold, now)
    ELSE IF c.failure_count >= FailureThreshold
         THEN Trip(c, c.failure_count + 1, now)
         ELSE [c EXCEPT !.failure_count = @ + 1, !.last_failure_time = now]

RecordFailure(s, now) ==
    LET c == AfterReset(s, now) IN
    IF c.state = "half_open"
    THEN Trip(c, FailureThreshold, now)
    ELSE IF c.failure_count + 1 >= FailureThreshold
         THEN Trip(c, c.failure_count + 1, now)
         ELSE [c EXCEPT !.failure_count = @ + 1, !.last_failure_time = now]

ForceOpen(s, now) == Trip(s, s.failure_count, now)

-----------------------------------------------------------------------------

\* "init" is the no-op mutation of the constructor; "state" and "get_metrics"
\* only let the reset timeout take effect.
Operations == {"init", "state", "get_metrics", "is_open", "record_success",
               "record_failure", "force_open", "force_close"}

Mutator(op, s, now) ==
    CASE op = "is_open"                    -> IsOpen(s, now)
      [] op = "record_success"             -> RecordSuccess(s, now)
      [] op = "record_failure"             -> RecordFailure(s, now)
      [] op = "force_open"                 -> ForceOpen(s, now)
      [] op = "force_close"                -> ForceClose(s)
      [] op \in {"state", "get_metrics"}   -> AfterReset(s, now)
      [] op = "init"                       -> s

\* What every sequence of mutations keeps true of a record, whichever store
\* holds it: a closed circuit is below its threshold, probes are counted only
\* in half-open, never beyond the slots, and a half-open circuit still misses
\* a success.
CircuitWellFormed(s) ==
    /\ s.state = "closed" => s.failure_count < FailureThreshold
    /\ s.state # "half_open" => /\ s.half_open_probe_count = 0
                                /\ s.half_open_success_count = 0
    /\ s.half_open_probe_count <= HalfOpenMaxProbes
    /\ s.half_open_success_count < HalfOpenMaxProbes
=============================================================================
