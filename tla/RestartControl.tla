--------------------------- MODULE RestartControl ---------------------------
(***************************************************************************)
(* The planned restart of the bridge server: daemons/restart_control.py    *)
(* and the /server/restart routes of server.py.  A restart goes through    *)
(* warn, stop and kill; a timer leads from one phase to the next, and      *)
(* clients may cancel, reset or force it, or shorten the warning by        *)
(* checkpoints.                                                            *)
(*                                                                         *)
(* One action per section under RESTART_LOCK.  A phase function changes    *)
(* the phase under the lock, tells all agents, and only then starts the    *)
(* timer for the next phase and stores it, without the lock.  The thread   *)
(* that starts a timer has nothing else to do, so the timer goes on under  *)
(* its name.  Timers fire at any time; messages, markers and the interrupt *)
(* of the agents are left out.  That includes the exceptions of the        *)
(* messages: one that cannot be written to the log ends the thread between *)
(* the phase and its timer.                                                *)
(***************************************************************************)
EXTENDS Actors

VARIABLES
  phase,      \* RESTART_STATE["phase"]
  saved,      \* RESTART_STATE["checkpoints"]
  timers,     \* _RESTART_TIMERS; an entry that can no longer be cancelled is None
  thread,     \* where each thread is, and the agent whose checkpoint it saves
  live        \* agents that _get_active_agent_ids returns

vars == <<phase, saved, timers, thread, live>>

Names == {"warn_to_stop", "stop_to_kill"}
Phases == {"warn", "stop", "kill", "restarting"}

\* Where a thread is that brings a restart to its end ...
Carriers == {"arm_warn", "wait_warn", "stop", "arm_stop", "wait_stop", "kill", "mark", "signal"}
\* ... or may do so.
Points == Carriers \union {"idle", "warn", "save", "check"}

At(x) == thread[x].at
Go(x, pc) == thread' = [thread EXCEPT ![x] = [at |-> pc, agent |-> None]]
Idle == [at |-> "idle", agent |-> None]

TypeOK ==
  /\ phase \in Phases \union {None}
  /\ saved \subseteq Agents /\ live \subseteq Agents
  /\ timers \in [Names -> Threads \union {None}]
  /\ thread \in [Threads -> [at : Points, agent : Agents \union {None}]]
  /\ \A x \in Threads : At(x) \in {"save", "check"} <=> thread[x].agent # None
  /\ \A x \in Threads : timers["warn_to_stop"] = x => At(x) = "wait_warn"
  /\ \A x \in Threads : timers["stop_to_kill"] = x => At(x) = "wait_stop"

Init ==
  /\ phase = None /\ saved = {}
  /\ timers = [n \in Names |-> None]
  /\ thread = [x \in Threads |-> Idle]
  /\ live = Agents

-----------------------------------------------------------------------------
(* The phases.                                                             *)

\* POST /server/restart: no restart is under way.
Start(x) ==
  /\ At(x) = "idle" /\ phase = None
  /\ Go(x, "warn")
  /\ UNCHANGED <<phase, saved, timers, live>>

\* _restart_warn_phase, whatever has been started since.
WarnPhase(x) ==
  /\ At(x) = "warn"
  /\ phase' = "warn" /\ saved' = {}
  /\ Go(x, "arm_warn")
  /\ UNCHANGED <<timers, live>>

\* timer.start() and the entry in _RESTART_TIMERS, over another one if need be.
Arm(x, from, name, to) ==
  /\ At(x) = from
  /\ timers' = [timers EXCEPT ![name] = x]
  /\ Go(x, to)
  /\ UNCHANGED <<phase, saved, live>>

\* A timer that has fired can no longer be cancelled.
Fire(x, from, name, to) ==
  /\ At(x) = from
  /\ timers' = [timers EXCEPT ![name] = IF @ = x THEN None ELSE @]
  /\ Go(x, to)
  /\ UNCHANGED <<phase, saved, live>>

\* _restart_stop_phase: the phase is not looked at.
StopPhase(x) ==
  /\ At(x) = "stop"
  /\ phase' = "stop"
  /\ Go(x, "arm_stop")
  /\ UNCHANGED <<saved, timers, live>>

\* _restart_kill_phase
KillPhase(x) ==
  /\ At(x) = "kill"
  /\ phase' = "kill"
  /\ Go(x, "mark")
  /\ UNCHANGED <<saved, timers, live>>

Restarting(x) ==
  /\ At(x) = "mark"
  /\ phase' = "restarting"
  /\ Go(x, "signal")
  /\ UNCHANGED <<saved, timers, live>>

\* SIGTERM ends the process; restart_wrapper.sh starts the next one.
Exit ==
  /\ \E x \in Threads : At(x) = "signal"
  /\ phase' = None /\ saved' = {}
  /\ timers' = [n \in Names |-> None]
  /\ thread' = [x \in Threads |-> Idle]
  /\ UNCHANGED live

-----------------------------------------------------------------------------
(* What clients do to a restart under way.                                 *)

\* _cancel_restart_timers: of the timers only those in the table.
Cancelled(x) == x \in {timers[n] : n \in Names}
KeepsTable == UNCHANGED timers           \* mutant: no _RESTART_TIMERS.clear()
CancelTimers == timers' = [n \in Names |-> None]
Uncancelled == [x \in Threads |-> IF Cancelled(x) THEN Idle ELSE thread[x]]
CancelTimersAndGo(x, pc) ==
  /\ CancelTimers
  /\ thread' = [Uncancelled EXCEPT ![x] = [at |-> pc, agent |-> None]]

KeepsPhase == saved' = {} /\ UNCHANGED phase   \* mutant: the phase is not reset
NoPhase == saved' = {} /\ phase' = None

\* _restart_cancel
Cancel ==
  /\ phase \in {"warn", "stop"}
  /\ CancelTimers
  /\ thread' = Uncancelled
  /\ NoPhase
  /\ UNCHANGED live

\* _restart_reset: the timers stay.
Reset ==
  /\ NoPhase
  /\ UNCHANGED <<timers, thread, live>>

\* _restart_force: straight to the stop phase, from no phase at all as well.
ForceRestart(x) ==
  /\ At(x) = "idle" /\ phase \notin {"kill", "restarting"}
  /\ IF phase = "warn"
       THEN CancelTimersAndGo(x, "stop")
       ELSE UNCHANGED timers /\ Go(x, "stop")
  /\ UNCHANGED <<phase, saved, live>>

\* POST /activity with checkpoint_saved: the phase is read without the lock ...
Checkpoint(x, a) ==
  /\ At(x) = "idle" /\ phase = "warn"
  /\ thread' = [thread EXCEPT ![x] = [at |-> "save", agent |-> a]]
  /\ UNCHANGED <<phase, saved, timers, live>>

\* ... and the checkpoint is noted whatever the phase is by then.
SaveCheckpoint(x) ==
  /\ At(x) = "save"
  /\ saved' = saved \union {thread[x].agent}
  /\ thread' = [thread EXCEPT ![x].at = "check"]
  /\ UNCHANGED <<phase, timers, live>>

\* _check_all_checkpoints_saved
OnlyCancels(x) == "idle"                 \* mutant: nobody goes on to the stop phase
GoesOnTo(x) == "stop"

AllSaved == phase = "warn" /\ live # {} /\ live \subseteq saved

CheckAllSaved(x) ==
  /\ At(x) = "check"
  /\ IF AllSaved
       THEN CancelTimersAndGo(x, GoesOnTo(x))
       ELSE UNCHANGED timers /\ Go(x, "idle")
  /\ UNCHANGED <<phase, saved, live>>

\* An agent goes offline or comes back.
ComeOrGo(a) ==
  /\ live' = (live \ {a}) \union ({a} \ live)
  /\ UNCHANGED <<phase, saved, timers, thread>>

-----------------------------------------------------------------------------

\* What a thread or a timer does by itself.
Step(x) ==
  \/ WarnPhase(x) \/ Arm(x, "arm_warn", "warn_to_stop", "wait_warn")
  \/ Fire(x, "wait_warn", "warn_to_stop", "stop")
  \/ StopPhase(x) \/ Arm(x, "arm_stop", "stop_to_kill", "wait_stop")
  \/ Fire(x, "wait_stop", "stop_to_kill", "kill")
  \/ KillPhase(x) \/ Restarting(x)
  \/ SaveCheckpoint(x) \/ CheckAllSaved(x)

Next ==
  \/ \E x \in Threads : \/ Step(x) \/ Start(x) \/ ForceRestart(x)
                        \/ \E a \in Agents : Checkpoint(x, a)
  \/ Cancel \/ Reset \/ Exit
  \/ \E a \in Agents : ComeOrGo(a)

Spec == Init /\ [][Next]_vars

\* Threads run, timers fire and the signal is delivered; no client has to help.
Fairness == WF_vars(Exit) /\ \A x \in Threads : WF_vars(Step(x))
FairSpec == Spec /\ Fairness

-----------------------------------------------------------------------------
(* Safety.                                                                 *)

\* A restart is never left to itself: as long as there is a phase, some thread or
\* timer is on its way to the end of it, although cancelling, forcing and saving
\* checkpoints stop timers, and overlapping starts overwrite their entries; provided
\* that the messages between a phase and its timer do not fail.
PhaseIsCarried == phase # None => \E x \in Threads : At(x) \in Carriers

-----------------------------------------------------------------------------
(* Liveness.                                                               *)

\* A restart comes to an end: the server goes down, or it is cancelled or reset.
\* Otherwise every further POST /server/restart would be refused for ever.  Again the
\* messages in between are supposed to succeed.
RestartEnds == phase # None ~> phase = None

=============================================================================
