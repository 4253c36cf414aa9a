------------------------------- MODULE Actors -------------------------------
(***************************************************************************)
(* Who acts in the components in which threads of the server start and     *)
(* stop things.                                                            *)
(***************************************************************************)
EXTENDS Roster

CONSTANT Threads    \* request threads, timers and tools under way at the same time

ASSUME ActorAssumption == None \notin Threads
=============================================================================
