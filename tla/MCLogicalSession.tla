------------------------- MODULE MCLogicalSession -------------------------
(* Instances of LogicalSession for TLC. *)
EXTENDS LogicalSession

CONSTANTS c1, c2, c3

Kinds == {"steer", "boundary", "next_turn"}
=============================================================================
