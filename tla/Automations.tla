---------------------------- MODULE Automations ----------------------------
(***************************************************************************)
(* Automations: the scheduler thread of automation_engine.py, which runs   *)
(* what is due unless the agent is busy, and the catch-up at registration; *)
(* meanwhile the /automations routes change the table.                     *)
(*                                                                         *)
(* The automations of one agent, with a cron schedule or with a condition; *)
(* of other agents the scheduler keeps separate lists, and automations     *)
(* triggered by events or webhooks run at once and share no state with it. *)
(* The scheduler works on copies, so what it has collected or put off runs *)
(* whatever becomes of the automation.  One action per section under       *)
(* AUTOMATION_LOCK, or per automation outside it; the run of an action and *)
(* the record of it are one.  run_count is left out: max_runs never        *)
(* reaches the table (_build_options drops it).                            *)
(***************************************************************************)
EXTENDS Naturals, FiniteSets, Sequences

CONSTANTS
  Scheduled,    \* ids of automations with a schedule
  Conditional,  \* ids of automations with a condition
  MaxRetries,   \* _MAX_IDLE_RETRIES, 5
  MaxPending,   \* _MAX_PENDING_PER_AGENT, 50
  MaxRestarts   \* bound: restarts of the server in a behaviour

ASSUME AutomationAssumption ==
  /\ IsFiniteSet(Scheduled \union Conditional) /\ Scheduled \intersect Conditional = {}
  /\ {MaxRetries, MaxPending} \subseteq Nat \ {0} /\ MaxRestarts \in Nat

VARIABLES
  auto,       \* AUTOMATIONS
  holds,      \* conditions that hold, as the server sees it
  at,         \* where the scheduler is
  due,        \* due_automations not yet dealt with
  pending,    \* _PENDING_AUTOMATIONS of the agent
  retries,    \* _PENDING_RETRY_COUNT
  todo,       \* put off earlier, being run now
  fired,      \* fired_ids
  catching,   \* automations that a catch-up is running
  restarts

tick == <<at, due, todo, fired>>
waiting == <<pending, retries>>
automations == <<auto, holds, tick, waiting, catching, restarts>>

Ids == Scheduled \union Conditional

\* next_run: not computed, in the future, or due.
Nexts == {"none", "later", "due"}
Absent == [is |-> "absent", next |-> "none", was |-> FALSE, bad |-> FALSE]

Known(a) == auto[a].is # "absent"
On(a) == auto[a].is = "on"                 \* active and not paused
InSeq(a, s) == {k \in DOMAIN s : s[k] = a}

AutomationTypeOK ==
  /\ auto \in [Ids -> [is : {"absent", "on", "off"}, next : Nexts, was : BOOLEAN, bad : BOOLEAN]]
  /\ holds \subseteq Conditional
  /\ at \in {"off", "sleep", "pending", "drain", "due"}
  /\ due \subseteq Ids /\ fired \subseteq Ids /\ catching \subseteq Scheduled
  /\ pending \in Seq(Ids) /\ Len(pending) <= MaxPending
  /\ todo \in Seq(Ids) /\ Len(todo) <= MaxPending
  /\ retries \in [Ids -> 0 .. MaxRetries]
  /\ restarts \in 0 .. MaxRestarts
  /\ at \notin {"pending", "drain", "due"} => due = {}
  /\ at # "drain" => todo = <<>>

AutomationInit ==
  /\ auto = [a \in Ids |-> Absent] /\ holds = {}
  /\ at = "off" /\ due = {} /\ todo = <<>> /\ fired = {}
  /\ pending = <<>> /\ retries = [a \in Ids |-> 0]
  /\ catching = {}
  /\ restarts = 0

-----------------------------------------------------------------------------
(* The table.                                                              *)

\* add_automation: next_run is not computed, and nobody looks at the threshold of a
\* condition: a bad one is no number.
AddAutomation(a) ==
  /\ ~Known(a)
  /\ \E bad \in BOOLEAN :
       /\ bad => a \in Conditional
       /\ auto' = [auto EXCEPT ![a].is = "on", ![a].bad = bad]
  /\ UNCHANGED <<holds, tick, waiting, catching, restarts>>

DeleteAutomation(a) ==
  /\ Known(a)
  /\ auto' = [auto EXCEPT ![a] = Absent]
  /\ UNCHANGED <<holds, tick, waiting, catching, restarts>>

\* set_automation_active, set_automation_pause and the end of a pause; another trigger
\* leaves next_run as it is.
Switch(a) ==
  /\ Known(a)
  /\ auto' = [auto EXCEPT ![a].is = IF On(a) THEN "off" ELSE "on"]
  /\ UNCHANGED <<holds, tick, waiting, catching, restarts>>

\* update_automation, with another threshold.
ChangeThreshold(a) ==
  /\ Known(a)
  /\ auto' = [auto EXCEPT ![a].bad = ~@]
  /\ UNCHANGED <<holds, tick, waiting, catching, restarts>>

\* Time passes, and conditions come and go.
BecomeDue(a) ==
  /\ auto[a].next = "later"
  /\ auto' = [auto EXCEPT ![a].next = "due"]
  /\ UNCHANGED <<holds, tick, waiting, catching, restarts>>

ConditionChanges(a) ==
  /\ holds' = (holds \ {a}) \union ({a} \ holds)
  /\ UNCHANGED <<auto, tick, waiting, catching, restarts>>

\* _record_run_result: the next run of a schedule.
Rescheduled(a) ==
  IF Known(a) /\ a \in Scheduled THEN [auto EXCEPT ![a].next = "later"] ELSE auto

-----------------------------------------------------------------------------
(* The scheduler.                                                          *)

\* run(): _init_next_runs, the only place where a first next_run is computed.
Run ==
  /\ at = "off"
  /\ auto' = [a \in Ids |-> IF Known(a) /\ a \in Scheduled /\ auto[a].next = "none"
                              THEN [auto[a] EXCEPT !.next = "later"] ELSE auto[a]]
  /\ at' = "sleep"
  /\ UNCHANGED <<holds, due, todo, fired, waiting, catching, restarts>>

\* _is_condition_due; a bad threshold that is not read, as the agent is offline or
\* busy, is one of a condition that does not hold.
Holds(a) == a \in holds /\ ~auto[a].bad

\* _tick, under the lock: what is due, and the conditions that have come to hold.
DueOnce(a) ==                              \* mutant: not again while it is put off
  IF a \in Scheduled THEN auto[a].next = "due" /\ retries[a] = 0 ELSE Holds(a) /\ ~auto[a].was
IsDue(a) ==
  IF a \in Scheduled THEN auto[a].next = "due" ELSE Holds(a) /\ ~auto[a].was

\* condition_active of those in S that have been looked at.
Noted(S) ==
  [a \in Ids |-> IF a \in S /\ On(a) THEN [auto[a] EXCEPT !.was = Holds(a)] ELSE auto[a]]

\* int() of a threshold that is read.
BadThreshold == \E a \in Conditional \intersect holds : On(a) /\ auto[a].bad

Collect ==
  /\ at = "sleep" /\ ~BadThreshold
  /\ due' = {a \in Ids : On(a) /\ IsDue(a)}
  /\ auto' = Noted(Conditional)
  /\ fired' = {}
  /\ at' = "pending"
  /\ UNCHANGED <<holds, todo, waiting, catching, restarts>>

\* A bad one raises and ends the tick: what was found due is lost, the conditions that
\* happened to come before, in S, are noted all the same, and nothing that is pending
\* is looked at.
TickFails ==
  /\ at = "sleep"
  /\ \E S \in SUBSET Conditional :
       /\ \E a \in (Conditional \intersect holds) \ S : On(a) /\ auto[a].bad
       /\ auto' = Noted(S)
  /\ UNCHANGED <<holds, tick, waiting, catching, restarts>>

\* _process_pending: the agent is idle, and what has been put off is run, or it is not.
ProcessPending(idle) ==
  /\ at = "pending"
  /\ IF idle /\ pending # <<>>
       THEN todo' = pending /\ pending' = <<>> /\ at' = "drain"
       ELSE at' = "due" /\ UNCHANGED <<todo, pending>>
  /\ UNCHANGED <<auto, holds, due, fired, retries, catching, restarts>>

KeepsCount(a) == UNCHANGED retries         \* mutant: no _PENDING_RETRY_COUNT.pop
ForgetRetries(a) == retries' = [retries EXCEPT ![a] = 0]

RunPending ==
  LET a == Head(todo) IN
  /\ at = "drain" /\ todo # <<>>
  /\ ForgetRetries(a)
  /\ auto' = Rescheduled(a)
  /\ fired' = fired \union {a}
  /\ todo' = Tail(todo)
  /\ UNCHANGED <<holds, at, due, pending, catching, restarts>>

PendingDone ==
  /\ at = "drain" /\ todo = <<>>
  /\ at' = "due"
  /\ UNCHANGED <<auto, holds, due, todo, fired, waiting, catching, restarts>>

\* What is due and has not just been run: at once if the agent is idle ...
AlreadyFired(a) ==
  /\ at = "due" /\ a \in due \intersect fired
  /\ due' = due \ {a}
  /\ UNCHANGED <<auto, holds, at, todo, fired, waiting, catching, restarts>>

RunDue(a) ==
  /\ at = "due" /\ a \in due \ fired
  /\ auto' = Rescheduled(a)
  /\ due' = due \ {a}
  /\ UNCHANGED <<holds, at, todo, fired, waiting, catching, restarts>>

\* ... and otherwise, in _queue_pending, at the retry too many ...
Another(n) == n + 1

ForceRun(a) ==
  /\ at = "due" /\ a \in due \ fired /\ Another(retries[a]) > MaxRetries
  /\ ForgetRetries(a)
  /\ auto' = Rescheduled(a)
  /\ due' = due \ {a}
  /\ UNCHANGED <<holds, at, todo, fired, pending, catching, restarts>>

\* ... not at all when too much is pending, which deactivates the automation ...
Overflow(a) ==
  /\ at = "due" /\ a \in due \ fired /\ Another(retries[a]) <= MaxRetries
  /\ Len(pending) >= MaxPending
  /\ ForgetRetries(a)
  /\ auto' = [auto EXCEPT ![a].is = IF @ = "absent" THEN @ ELSE "off"]
  /\ due' = due \ {a}
  /\ UNCHANGED <<holds, at, todo, fired, pending, catching, restarts>>

\* ... or later.  A schedule stays due, and is put off again at the next tick.
PutOff(a) ==
  /\ at = "due" /\ a \in due \ fired /\ Another(retries[a]) <= MaxRetries
  /\ Len(pending) < MaxPending
  /\ retries' = [retries EXCEPT ![a] = Another(@)]
  /\ pending' = Append(pending, a)
  /\ due' = due \ {a}
  /\ UNCHANGED <<auto, holds, at, todo, fired, catching, restarts>>

Sleep ==
  /\ at = "due" /\ due = {}
  /\ at' = "sleep"
  /\ UNCHANGED <<auto, holds, due, todo, fired, waiting, catching, restarts>>

-----------------------------------------------------------------------------
(* check_catch_up, when the agent registers: a copy, its runs, and then the *)
(* next run.                                                                *)

CatchUp(a) ==
  /\ a \in Scheduled \ catching /\ On(a)
  /\ catching' = catching \union {a}
  /\ UNCHANGED <<auto, holds, tick, waiting, restarts>>

CaughtUp(a) ==
  /\ a \in catching
  /\ auto' = Rescheduled(a)
  /\ catching' = catching \ {a}
  /\ UNCHANGED <<holds, tick, waiting, restarts>>

\* The file has the table, but perhaps an earlier condition_active.
Restart ==
  /\ restarts < MaxRestarts
  /\ restarts' = restarts + 1
  /\ \E W \in SUBSET Conditional :
       auto' = [a \in Ids |-> [auto[a] EXCEPT !.was = Known(a) /\ a \in W]]
  /\ at' = "off" /\ due' = {} /\ todo' = <<>> /\ fired' = {}
  /\ pending' = <<>> /\ retries' = [a \in Ids |-> 0]
  /\ catching' = {}
  /\ UNCHANGED holds

-----------------------------------------------------------------------------

Scheduler ==
  \/ Collect \/ TickFails
  \/ \E idle \in BOOLEAN : ProcessPending(idle)
  \/ RunPending \/ PendingDone
  \/ \E a \in Ids : \/ AlreadyFired(a) \/ RunDue(a)
                    \/ ForceRun(a) \/ Overflow(a) \/ PutOff(a)
  \/ Sleep

AutomationNext ==
  \/ Run \/ Scheduler
  \/ \E a \in Ids : \/ AddAutomation(a) \/ DeleteAutomation(a) \/ Switch(a)
                    \/ BecomeDue(a) \/ CatchUp(a) \/ CaughtUp(a)
  \/ \E a \in Conditional : ConditionChanges(a) \/ ChangeThreshold(a)
  \/ Restart

AutomationSpec == AutomationInit /\ [][AutomationNext]_automations

\* The scheduler thread runs, once it has been started.
AutomationFairness == WF_automations(Scheduler)

-----------------------------------------------------------------------------

\* An automation is forced on a busy agent only after it has been put off MaxRetries
\* times: what counts as a retry is always a copy that still waits, or is running,
\* although idle checks, overflows, catch-ups and the routes come in between.
RetriesAreCopies ==
  \A a \in Ids :
    retries[a] <= Cardinality(InSeq(a, pending)) + Cardinality(InSeq(a, todo))

\* What is due comes to run, however long the agent is busy or offline, or it is
\* switched off, by its owner or because too much is pending: when there is an end to
\* bad thresholds, one of which, in a condition of anybody, keeps all from running.
DueComesToRun ==
  <>[]~BadThreshold =>
    \A a \in Scheduled : On(a) /\ auto[a].next = "due" /\ at # "off"
                           ~> ~On(a) \/ auto[a].next # "due" \/ at = "off"
=============================================================================
