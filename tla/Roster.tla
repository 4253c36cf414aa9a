------------------------------- MODULE Roster -------------------------------
(***************************************************************************)
(* The agents, which most components have in common.                       *)
(***************************************************************************)
CONSTANTS
  Agents,
  None        \* no agent, and nothing else either

ASSUME RosterAssumption == None \notin Agents
=============================================================================
