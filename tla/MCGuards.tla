------------------------------ MODULE MCGuards ------------------------------
(***************************************************************************)
(* What guards things that requests compete for, in one run: the scope     *)
(* locks, and the lock and the breaker around the restart of agents,       *)
(* composed with a graceful shutdown.  They share no state; a behaviour is *)
(* about one of them, the subject, while the other rests in its initial    *)
(* state.                                                                  *)
(***************************************************************************)
EXTENDS MCScopeLocks, AgentRestart

VARIABLE subject

GuardsInit ==
  /\ subject \in {"scope", "respawn"}
  /\ Init /\ RespawnInit

GuardsNext ==
  /\ UNCHANGED subject
  /\ \/ subject = "scope" /\ Next /\ UNCHANGED respawns
     \/ subject = "respawn" /\ RespawnNext /\ UNCHANGED vars

GuardsSpec == GuardsInit /\ [][GuardsNext]_<<subject, vars, respawns>>
=============================================================================
