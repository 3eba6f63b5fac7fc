--------------------------- MODULE MCCircuitStore ---------------------------
(***************************************************************************)
(* TLC instance of CircuitStore: the shared circuit breaker record.        *)
(***************************************************************************)
EXTENDS CircuitStore

CONSTANTS r1, r2

=============================================================================
