------------------------- MODULE MCAttributionIndex -------------------------
(***************************************************************************)
(* TLC instance of AttributionIndex.                                       *)
(***************************************************************************)
EXTENDS AttributionIndex

CONSTANTS a1, w1, w2
=============================================================================
