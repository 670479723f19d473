---------------------------- MODULE MCPushDelivery ----------------------------
(***************************************************************************)
(* PushDelivery on small instances.                                        *)
(***************************************************************************)
EXTENDS PushDelivery, TLC

CONSTANTS c1, c2

Symmetry == Permutations(Conns)
================================================================================
