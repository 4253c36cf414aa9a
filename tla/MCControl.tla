----------------------------- MODULE MCControl -----------------------------
(***************************************************************************)
(* What people and clocks set off, in one run: the planned restart and the *)
(* automations.  They share no state; a behaviour is about one of them,    *)
(* the subject, while the other rests in its initial state.                *)
(***************************************************************************)
EXTENDS RestartControl, Automations

VARIABLE subject

ControlInit == subject \in {"restart", "automation"} /\ Init /\ AutomationInit

ControlNext ==
  /\ UNCHANGED subject
  /\ \/ subject = "restart" /\ Next /\ UNCHANGED automations
     \/ subject = "automation" /\ AutomationNext /\ UNCHANGED vars

\* At rest a component has no step that fairness asks for.
ControlSpec ==
  /\ ControlInit /\ [][ControlNext]_<<subject, vars, automations>>
  /\ Fairness /\ AutomationFairness

-----------------------------------------------------------------------------

\* The state of both is well typed.
TypesOK == TypeOK /\ AutomationTypeOK
=============================================================================
