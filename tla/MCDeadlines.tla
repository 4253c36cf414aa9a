---------------------------- MODULE MCDeadlines ----------------------------
(***************************************************************************)
(* What timers and the timeout daemon have to bring to an end, on small    *)
(* instances and in one run: the graceful shutdown and the deadlines of    *)
(* tasks.  They share no state; a behaviour is about one of them, the      *)
(* subject, while the other rests in its initial state.                    *)
(***************************************************************************)
EXTENDS GracefulShutdown, Naturals, TLC

CONSTANTS
  a1, o1, System,   \* the agent of the task, a request of the owner
  t1                \* a task

VARIABLES
  subject,
  task, esc, creating, popping, owner, daemon, connected, restarts

\* One task; every deadline is a tick.
T == INSTANCE TaskProtocol WITH
       Tasks <- {t1}, Agents <- {a1}, Assignees <- {a1}, Verifiers <- {},
       OwnerRequests <- {o1}, MaxActive <- 1, MaxRetries <- 2,
       AckDeadline <- 1, TaskTimeout <- 1, ReminderTimeout <- 1, DirectTimeout <- 1,
       MaxRestarts <- 0

tasks == <<task, esc, creating, popping, owner, daemon, connected, restarts>>

DeadlinesInit ==
  /\ subject \in {"shutdown", "tasks"}
  /\ Init /\ T!Init

DeadlinesNext ==
  /\ UNCHANGED subject
  /\ \/ subject = "shutdown" /\ Next /\ UNCHANGED tasks
     \/ subject = "tasks" /\ T!Next /\ UNCHANGED vars

\* A graceful shutdown at rest has no step that fairness asks for.  A timeout daemon has,
\* so that its fairness, T!Fairness, speaks of the tasks as subject.
DeadlinesSpec ==
  /\ DeadlinesInit /\ [][DeadlinesNext]_<<subject, vars, tasks>>
  /\ Fairness
  /\ WF_tasks(subject = "tasks" /\ T!Daemon) /\ WF_tasks(subject = "tasks" /\ T!Tick)
  /\ WF_tasks(subject = "tasks" /\ T!PopEscalation(t1))

-----------------------------------------------------------------------------

\* A claim is acked, or the daemon takes it back (TaskProtocol).
ClaimsAreAckedOrTaken == T!ClaimsAreAckedOrTaken

\* An overdue task is dealt with or reaches the owner (TaskProtocol).
OverdueReachesOwner == T!OverdueReachesOwner
=============================================================================
