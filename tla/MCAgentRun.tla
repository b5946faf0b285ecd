----------------------------- MODULE MCAgentRun -----------------------------
(* TLC instance of AgentRun.                                                *)
EXTENDS AgentRun

CONSTANTS search, read, trash
=============================================================================
