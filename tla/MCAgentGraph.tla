----------------------------- MODULE MCAgentGraph -----------------------------
(* Model checking the agent loop and its memory for requests below, at and *)
(* above the limits of the loop.                                           *)
EXTENDS AgentMessages

SomeRequests == -3..5
=============================================================================
