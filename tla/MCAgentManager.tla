--------------------------- MODULE MCAgentManager ---------------------------
(* Instances of AgentManager for TLC. *)
EXTENDS AgentManager

Steering == {"steer"}
AtBoundary == {"boundary"}
MidTurn == {"steer", "boundary"}
=============================================================================
