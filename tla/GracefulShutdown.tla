-------------------------- MODULE GracefulShutdown --------------------------
(***************************************************************************)
(* The shutdown of all agents: /system/shutdown, /system/resume,           *)
(* /platform/stop and /platform/start of server.py, the acknowledgements   *)
(* that arrive by /send, and the timer that finalizes a graceful shutdown. *)
(*                                                                         *)
(* One action per section under _GRACEFUL_SHUTDOWN_LOCK, or per step       *)
(* outside it.  The timer of a shutdown is stored without the lock, over   *)
(* the timer of an earlier shutdown, which keeps running, and then started *)
(* through the variable it was stored in; the thread has nothing else to   *)
(* do, so the timer goes on under its name.  Timers fire at any time;      *)
(* messages, the write-back of the agents' contexts and the fields that    *)
(* only explain are left out.                                              *)
(***************************************************************************)
EXTENDS Actors

VARIABLES
  active,     \* _SYSTEM_STATUS["shutdown_active"]
  pending,    \* _GRACEFUL_SHUTDOWN["pending"], and its other fields:
  finalized,
  expected,
  acked,
  timer,      \* _GRACEFUL_SHUTDOWN_TIMER; None too when it cannot be cancelled
  thread,     \* where each thread is, and the agents it still deals with
  sessions    \* agents whose tmux session lives

shutdown == <<pending, finalized, expected, acked>>
vars == <<active, shutdown, timer, thread, sessions>>

\* Where a thread is that finalizes a shutdown, or starts the timer for it.
Carriers == {"arm", "begin", "wait", "all_acked", "finalize"}
Points == Carriers \union {"idle", "announce", "kill", "clear", "resume", "start", "stop"}

Idle == [at |-> "idle", agents |-> {}]
At(x) == thread[x].at
GoWith(x, pc, S) == thread' = [thread EXCEPT ![x] = [at |-> pc, agents |-> S]]
Go(x, pc) == GoWith(x, pc, {})

TypeOK ==
  /\ active \in BOOLEAN /\ pending \in BOOLEAN /\ finalized \in BOOLEAN
  /\ expected \subseteq Agents /\ acked \subseteq Agents /\ sessions \subseteq Agents
  /\ timer \in Threads \union {None}
  /\ thread \in [Threads -> [at : Points, agents : SUBSET Agents]]
  /\ \A x \in Threads : timer = x => At(x) \in {"begin", "wait"}

Init ==
  /\ active = FALSE /\ pending = FALSE /\ finalized = FALSE
  /\ expected = {} /\ acked = {}
  /\ timer = None
  /\ thread = [x \in Threads |-> Idle]
  /\ sessions = Agents

-----------------------------------------------------------------------------
(* POST /system/shutdown                                                   *)

\* Without "graceful" the flag is all there is.
ShutdownNow ==
  /\ active' = TRUE
  /\ UNCHANGED <<shutdown, timer, thread, sessions>>

\* The flag first, then the agents that are online: registered and heard of
\* lately, whether or not their session still lives.
Shutdown(x) ==
  /\ At(x) = "idle"
  /\ active' = TRUE
  /\ \E online \in SUBSET Agents : GoWith(x, "announce", online)
  /\ UNCHANGED <<shutdown, timer, sessions>>

\* The shutdown starts afresh, whatever has become of an earlier one.
Announce(x) ==
  /\ At(x) = "announce"
  /\ pending' = TRUE /\ finalized' = FALSE
  /\ acked' = {} /\ expected' = thread[x].agents
  /\ Go(x, "arm")
  /\ UNCHANGED <<active, timer, sessions>>

\* The timer is stored, over another one if need be ...
Arm(x) ==
  /\ At(x) = "arm"
  /\ timer' = x
  /\ Go(x, "begin")
  /\ UNCHANGED <<active, shutdown, sessions>>

\* ... and the one started that is stored now: x's own, or that of a shutdown after
\* it, whose thread then finds it started.
Startable == timer \in Threads /\ At(timer) = "begin"

Begin(x) ==
  /\ At(x) = "begin" /\ Startable
  /\ thread' = [thread EXCEPT ![x] = Idle, ![timer] = [at |-> "wait", agents |-> {}]]
  /\ UNCHANGED <<active, shutdown, timer, sessions>>

\* With None in its place, as the end of an earlier shutdown or a resume leaves it, or
\* a timer that has been started or cancelled, x ends with an exception or with
\* nothing started.
StartFails(x) ==
  /\ At(x) = "begin" /\ ~Startable
  /\ Go(x, "idle")
  /\ UNCHANGED <<active, shutdown, timer, sessions>>

\* A timer that has fired can no longer be cancelled.
WaitsForMissing(x) ==                       \* mutant: waits for the last acknowledgement
  IF expected \subseteq acked THEN "finalize" ELSE "wait"
FiresTo(x) == "finalize"

Fire(x) ==
  /\ At(x) = "wait"
  /\ timer' = IF timer = x THEN None ELSE timer
  /\ Go(x, FiresTo(x))
  /\ UNCHANGED <<active, shutdown, sessions>>

-----------------------------------------------------------------------------
(* _handle_shutdown_ack                                                    *)

\* An agent acknowledges; one that is not expected is noted as well.
Ack(x, a) ==
  /\ At(x) = "idle" /\ pending /\ ~finalized
  /\ acked' = acked \union {a}
  /\ Go(x, IF expected # {} /\ expected \subseteq acked' THEN "all_acked" ELSE "idle")
  /\ UNCHANGED <<active, pending, finalized, expected, timer, sessions>>

\* Nobody is missing: the timer of the moment is cancelled, the shutdown finalized.
LeavesToTimer(x) == "idle"                  \* mutant: cancels without finalizing
FinalizesAfter(x) == "finalize"

KeepsTimer == UNCHANGED timer              \* mutant: cancelled, and not forgotten
CancelTimer == timer' = None
AfterCancel == [x \in Threads |-> IF x = timer THEN Idle ELSE thread[x]]

AllAcked(x) ==
  /\ At(x) = "all_acked"
  /\ CancelTimer
  /\ thread' = [AfterCancel EXCEPT ![x] = [at |-> FinalizesAfter(x), agents |-> {}]]
  /\ UNCHANGED <<active, shutdown, sessions>>

-----------------------------------------------------------------------------
(* _finalize_graceful_shutdown                                             *)

\* Whoever comes second has nothing to do.  Whether a shutdown is still pending
\* is not looked at.
Finalize(x) ==
  /\ At(x) = "finalize"
  /\ finalized' = TRUE
  /\ IF ~finalized THEN GoWith(x, "kill", expected) ELSE Go(x, "idle")
  /\ UNCHANGED <<active, pending, expected, acked, timer, sessions>>

\* The sessions go one by one; tmux may fail, which is logged.
KillNext(x) ==
  /\ At(x) = "kill"
  /\ \E a \in thread[x].agents :
       /\ sessions' \in {sessions, sessions \ {a}}
       /\ GoWith(x, "kill", thread[x].agents \ {a})
  /\ UNCHANGED <<active, shutdown, timer>>

Finalized(x) ==
  /\ At(x) = "kill" /\ thread[x].agents = {}
  /\ active' = TRUE
  /\ Go(x, "clear")
  /\ UNCHANGED <<shutdown, timer, sessions>>

\* The timer is forgotten, be it that of a later shutdown.
ClearTimer(x) ==
  /\ At(x) = "clear"
  /\ timer' = None
  /\ Go(x, "idle")
  /\ UNCHANGED <<active, shutdown, sessions>>

-----------------------------------------------------------------------------
(* The ways back, and the platform.                                        *)

\* POST /system/resume: the flag without the lock ...
Resume(x) ==
  /\ At(x) = "idle"
  /\ active' = FALSE
  /\ Go(x, "resume")
  /\ UNCHANGED <<shutdown, timer, sessions>>

\* ... and the graceful shutdown under it.
ResetShutdown(x) ==
  /\ At(x) = "resume"
  /\ CancelTimer
  /\ pending' = FALSE /\ finalized' = FALSE
  /\ acked' = {} /\ expected' = {}
  /\ thread' = [AfterCancel EXCEPT ![x] = Idle]
  /\ UNCHANGED <<active, sessions>>

\* POST /platform/start: the configured agents are started one by one, each of which
\* may fail, and then the flag is cleared; a graceful shutdown is left alone.
PlatformStart(x) ==
  /\ At(x) = "idle"
  /\ \E configured \in SUBSET Agents : GoWith(x, "start", configured)
  /\ UNCHANGED <<active, shutdown, timer, sessions>>

StartNext(x) ==
  /\ At(x) = "start"
  /\ \E a \in thread[x].agents :
       /\ sessions' \in {sessions, sessions \union {a}}
       /\ GoWith(x, "start", thread[x].agents \ {a})
  /\ UNCHANGED <<active, shutdown, timer>>

PlatformStarted(x) ==
  /\ At(x) = "start" /\ thread[x].agents = {}
  /\ active' = FALSE
  /\ Go(x, "idle")
  /\ UNCHANGED <<shutdown, timer, sessions>>

\* POST /platform/stop: their sessions go one by one, and then the flag is set.
PlatformStop(x) ==
  /\ At(x) = "idle"
  /\ \E configured \in SUBSET Agents : GoWith(x, "stop", configured)
  /\ UNCHANGED <<active, shutdown, timer, sessions>>

StopNext(x) ==
  /\ At(x) = "stop"
  /\ \E a \in thread[x].agents :
       /\ sessions' = sessions \ {a}
       /\ GoWith(x, "stop", thread[x].agents \ {a})
  /\ UNCHANGED <<active, shutdown, timer>>

PlatformStopped(x) ==
  /\ At(x) = "stop" /\ thread[x].agents = {}
  /\ active' = TRUE
  /\ Go(x, "idle")
  /\ UNCHANGED <<shutdown, timer, sessions>>

-----------------------------------------------------------------------------

\* What a thread or timer does by itself.
Step(x) ==
  \/ Announce(x) \/ Arm(x) \/ Begin(x) \/ StartFails(x) \/ Fire(x) \/ AllAcked(x)
  \/ Finalize(x) \/ KillNext(x) \/ Finalized(x) \/ ClearTimer(x)
  \/ ResetShutdown(x)
  \/ StartNext(x) \/ PlatformStarted(x) \/ StopNext(x) \/ PlatformStopped(x)

Next ==
  \/ \E x \in Threads : \/ Step(x) \/ Shutdown(x) \/ Resume(x)
                        \/ PlatformStart(x) \/ PlatformStop(x)
                        \/ \E a \in Agents : Ack(x, a)
  \/ ShutdownNow

Spec == Init /\ [][Next]_vars

\* Threads run and timers fire.
Fairness == \A x \in Threads : WF_vars(Step(x))

-----------------------------------------------------------------------------

\* Nobody will finalize it, and the agents wait, told to stop, for ever.
Abandoned == pending /\ ~finalized /\ \A x \in Threads : At(x) \notin Carriers

\* A graceful shutdown is left to itself only by a timer that cannot be started: until
\* it is finalized or resumed, some thread or timer is on its way to finalize it,
\* although acknowledgements and resumes cancel timers, and shutdowns that overlap
\* take the place of each other's timers or forget them.
ShutdownIsCarried ==
  [][~Abandoned => ~Abandoned' \/ \E x \in Threads : StartFails(x)]_vars

\* But for such a timer a graceful shutdown comes to its end, whatever else is
\* requested meanwhile and however many agents do not answer.
ShutdownEnds == pending /\ ~finalized ~> finalized \/ ~pending \/ Abandoned
=============================================================================
