--------------------------- MODULE CircuitBreaker ---------------------------
(***************************************************************************)
(* What the shared circuit breaker promises: one record, changed only by   *)
(* whole mutators, each applied to the latest value with a clock reading   *)
(* a pod took after the value was written.  Pods' clocks are off by at     *)
(* most MaxSkew.  CircuitStore implements it over Redis.                   *)
(***************************************************************************)
EXTENDS CircuitState

CONSTANTS Epoch, MaxSkew

VARIABLES
    circuit,    \* the record all replicas share
    now,        \* true time
    since       \* when the record was last written

cbVars == <<circuit, now, since>>

Init ==
    /\ circuit = NewCircuit(Epoch)
    /\ now = Epoch
    /\ since = Epoch

\* One call of a CircuitBreaker method.
Mutate(op) ==
    /\ \E t \in since - MaxSkew .. now + MaxSkew :
          circuit' = Mutator(op, circuit, t)
    /\ since' = now
    /\ UNCHANGED now

Tick ==
    /\ now' = now + 1
    /\ UNCHANGED <<circuit, since>>

Next == Tick \/ \E op \in Operations : Mutate(op)

Spec == Init /\ [][Next]_cbVars
=============================================================================
