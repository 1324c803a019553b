-------------------------- MODULE MCAgentVersions --------------------------
(***************************************************************************)
(* Small instances of AgentVersions for TLC.                               *)
(***************************************************************************)
EXTENDS AgentVersions, TLC

CONSTANTS h1, h2

MCSymmetry == Permutations(Handlers)
=============================================================================
