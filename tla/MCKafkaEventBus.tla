--------------------------- MODULE MCKafkaEventBus ---------------------------
(***************************************************************************)
(* TLC instances of KafkaEventBus.                                         *)
(***************************************************************************)
EXTENDS KafkaEventBus

CONSTANTS k1, k2, p1, p2, c1, c2
==============================================================================
