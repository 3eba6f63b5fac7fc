---------------------------- MODULE MCInterceptor ----------------------------
(***************************************************************************)
(* TLC instance of Interceptor.                                            *)
(***************************************************************************)
EXTENDS Interceptor, TLC

CONSTANTS g1, g2, q1, q2

ReplicaSymmetry == Permutations(Replicas)
=============================================================================
