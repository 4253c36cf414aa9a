---------------------------- MODULE TaskProtocol ----------------------------
(***************************************************************************)
(* The structured task protocol of the bridge server: the /task/...        *)
(* handlers of server.py, the escalation resolver and the timeout daemon   *)
(* of handlers/tasks.py.  One action per critical section under TASK_LOCK  *)
(* (or ESCALATION_LOCK): request threads, the owner and the daemon         *)
(* interleave between them.                                                *)
(*                                                                         *)
(* Time is relative.  A timestamp is the age of the event, or the time a   *)
(* lease has left, saturated at the deadline it is compared with, so the   *)
(* clock (Tick) never has to stop.  A run of the daemon takes no time.     *)
(***************************************************************************)
EXTENDS Integers, FiniteSets

CONSTANTS
  Tasks,            \* task ids (uuid4); each is created at most once
  Agents,           \* agent ids
  Assignees,        \* agents a create request may name as assigned_to
  Verifiers,        \* who calls /task/{id}/verify, registered or not
  OwnerRequests,    \* concurrent /escalation/{id}/resolve requests
  System,           \* "system", the author of an auto-claim
  None,             \* None
  MaxActive,        \* TASK_MAX_ACTIVE_PER_AGENT
  MaxRetries,       \* max_retries of every task
  AckDeadline,      \* ack_deadline_seconds of every task
  TaskTimeout,      \* timeout_seconds of every task: lease and unclaimed TTL
  ReminderTimeout,  \* ESCALATION_CONFIG["reminder_timeout"]
  DirectTimeout,    \* ESCALATION_CONFIG["direct_timeout"]
  MaxRestarts       \* bound: server restarts in a behaviour

ASSUME TaskAssumption ==
  /\ IsFiniteSet(Tasks)
  /\ Assignees \subseteq Agents
  /\ None \notin Agents \union Tasks /\ System \notin Agents \union {None}
  /\ MaxActive \in Nat \ {0}
  /\ {MaxRetries, AckDeadline, TaskTimeout, ReminderTimeout, DirectTimeout,
      MaxRestarts} \subseteq Nat

VARIABLES
  task,       \* TASKS: the task table
  esc,        \* ESCALATION_STATE: stage (0 = no entry) and age of started_at
  creating,   \* create requests between the insert and the auto-claim
  popping,    \* requests that still have to drop the escalation entry
  owner,      \* resolve requests that have passed the stage-3 check
  daemon,     \* _check_task_timeouts: where it is, the snapshot it works on
  connected,  \* agents whose liveness signal is fresh
  restarts

vars == <<task, esc, creating, popping, owner, daemon, connected, restarts>>

Active == {"claimed", "acked"}
States == {"absent", "created", "done", "failed", "deleted"} \union Active

Larger(m, n) == IF m > n THEN m ELSE n
ClaimAgeCap == Larger(AckDeadline, TaskTimeout)
StageAgeCap == Larger(ReminderTimeout, DirectTimeout)
RetryCap == MaxRetries + 1   \* bound: retry_count saturates here

TaskRecord ==
  [state : States, assigned_to : Agents \union {None},
   claimed_by : Agents \union {System, None},   \* "by" of the last claimed entry
   done_by : Agents \union {None},              \* "by" of the last done entry
   verified_by : Verifiers \union {None},
   retry_count : 0 .. RetryCap,
   created_age : 0 .. TaskTimeout, queued_age : 0 .. TaskTimeout,
   claimed_age : 0 .. ClaimAgeCap,
   checkin_age : 0 .. TaskTimeout \union {None},
   lease_left : 0 .. TaskTimeout \union {None}]

\* A task as create stores it; queued_age dates the last history entry that
\* put the task into "created".
NewTask(a) ==
  [state |-> "created", assigned_to |-> a, claimed_by |-> None, done_by |-> None,
   verified_by |-> None, retry_count |-> 0, created_age |-> 0,
   queued_age |-> 0, claimed_age |-> 0, checkin_age |-> None, lease_left |-> None]

NoTask == [NewTask(None) EXCEPT !.state = "absent"]
NoEscalation == [stage |-> 0, age |-> 0]
Asleep == [pc |-> "asleep", todo |-> {}, current |-> None]

Snapshot == [task : Tasks, state : Active, agent : Agents \union {None},
             retry : 0 .. RetryCap]

TypeOK ==
  /\ task \in [Tasks -> TaskRecord]
  /\ esc \in [Tasks -> [stage : 0 .. 3, age : 0 .. StageAgeCap]]
  /\ creating \subseteq Tasks \X Agents
  /\ popping \subseteq Tasks
  /\ owner \in [OwnerRequests -> Tasks \union {None}]
  /\ daemon \in [pc : {"asleep", "awake", "ack", "scan", "timeout", "pop"},
                 todo : SUBSET Snapshot, current : Tasks \union {None}]
  /\ connected \subseteq Agents
  /\ restarts \in 0 .. MaxRestarts

Init ==
  /\ task = [t \in Tasks |-> NoTask]
  /\ esc = [t \in Tasks |-> NoEscalation]
  /\ creating = {} /\ popping = {}
  /\ owner = [o \in OwnerRequests |-> None]
  /\ daemon = Asleep
  /\ connected = Agents
  /\ restarts = 0

-----------------------------------------------------------------------------
(* Helpers.                                                                *)

State(t) == task[t].state

\* Fields every handler overwrites before one reads them are forgotten: the
\* claim once the task is neither held nor done, the author of "done" once it is
\* not done, the date of the requeue once it is not in the pool.
Live(r) ==
  [r EXCEPT !.claimed_by = IF r.state \in Active \union {"done"} THEN @ ELSE None,
            !.claimed_age = IF r.state \in Active THEN @ ELSE 0,
            !.done_by = IF r.state = "done" THEN @ ELSE None,
            !.queued_age = IF r.state = "created" THEN @ ELSE 0]

Set(t, r) == task' = [task EXCEPT ![t] = Live(r)]

\* _count_agent_active_tasks(agent_id, exclude_task_id)
ActiveTasks(a, exclude) ==
  {t \in Tasks \ exclude : State(t) \in Active /\ task[t].assigned_to = a}

CountsEverything(a, exclude) == TRUE     \* mutant: the cap is never reached
UnderCap(a, exclude) == Cardinality(ActiveTasks(a, exclude)) < MaxActive

Owns(t, a) == task[t].assigned_to = a

ClearLease(r) == [r EXCEPT !.lease_left = None]
RefreshLease(r) == [r EXCEPT !.lease_left = TaskTimeout]
BackToCreated(r) == [r EXCEPT !.state = "created", !.queued_age = 0]
Retried(n) == IF n < RetryCap THEN n + 1 ELSE RetryCap

DropEscalation(t) == esc' = [esc EXCEPT ![t] = NoEscalation]

-----------------------------------------------------------------------------
(* Request handlers.                                                       *)

\* POST /task/create, first critical section: the insert.
CreateTask(t, a) ==
  /\ State(t) = "absent"
  /\ Set(t, NewTask(a))
  /\ creating' = IF a = None THEN creating ELSE creating \union {<<t, a>>}
  /\ UNCHANGED <<esc, popping, owner, daemon, connected, restarts>>

\* Second critical section: whatever has happened to the task since, it is
\* claimed when the agent named in the request is live.
AutoClaim(t, a) ==
  /\ <<t, a>> \in creating
  /\ creating' = creating \ {<<t, a>>}
  /\ IF a \in connected
       THEN Set(t, [task[t] EXCEPT !.state = "claimed", !.claimed_by = System,
                                   !.claimed_age = 0])
       ELSE UNCHANGED task
  /\ UNCHANGED <<esc, popping, owner, daemon, connected, restarts>>

\* POST /task/{id}/claim; the idempotent reclaim changes nothing.
ClaimTask(t, a) ==
  /\ State(t) = "created"
  /\ task[t].assigned_to \in {None, a}
  /\ UnderCap(a, {})
  /\ Set(t, [task[t] EXCEPT !.state = "claimed", !.assigned_to = a,
                            !.claimed_by = a, !.claimed_age = 0])
  /\ UNCHANGED <<esc, creating, popping, owner, daemon, connected, restarts>>

\* POST /task/{id}/ack
AckTask(t, a) ==
  /\ State(t) = "claimed" /\ Owns(t, a)
  /\ UnderCap(a, {t})
  /\ Set(t, RefreshLease([task[t] EXCEPT !.state = "acked"]))
  /\ UNCHANGED <<esc, creating, popping, owner, daemon, connected, restarts>>

\* POST /task/{id}/done, with evidence and review fields that pass.
CompleteTask(t, a) ==
  /\ State(t) = "acked" /\ Owns(t, a)
  /\ Set(t, [task[t] EXCEPT !.state = "done", !.done_by = a])
  /\ UNCHANGED <<esc, creating, popping, owner, daemon, connected, restarts>>

\* POST /task/{id}/verify
VerifyTask(t, v) ==
  /\ State(t) = "done" /\ task[t].done_by # v
  /\ Set(t, [task[t] EXCEPT !.verified_by = v])
  /\ UNCHANGED <<esc, creating, popping, owner, daemon, connected, restarts>>

\* POST /task/{id}/fail, by the assignee or the creator of the task.
FailTask(t) ==
  /\ State(t) \notin {"absent", "done", "failed"}
  /\ Set(t, [task[t] EXCEPT !.state = "failed",
                            !.retry_count = IF State(t) \in Active THEN Retried(@) ELSE @])
  /\ UNCHANGED <<esc, creating, popping, owner, daemon, connected, restarts>>

\* POST /task/{id}/checkin; the escalation entry is dropped after TASK_LOCK
\* has been released (PopEscalation).
CheckIn(t, a) ==
  /\ State(t) \in Active /\ Owns(t, a)
  /\ Set(t, RefreshLease([task[t] EXCEPT !.checkin_age = 0]))
  /\ popping' = popping \union {t}
  /\ UNCHANGED <<esc, creating, owner, daemon, connected, restarts>>

PopEscalation(t) ==
  /\ t \in popping
  /\ popping' = popping \ {t}
  /\ DropEscalation(t)
  /\ UNCHANGED <<task, creating, owner, daemon, connected, restarts>>

\* PATCH /task/{id} with a new assigned_to, in any state.
KeepsState(r) == r                       \* mutant: reassigned but still held
WhenReassigned(r) == IF r.state \in Active THEN BackToCreated(r) ELSE r

ReassignTask(t, a) ==
  /\ State(t) # "absent" /\ ~Owns(t, a)
  /\ Set(t, [WhenReassigned(task[t]) EXCEPT !.assigned_to = a])
  /\ UNCHANGED <<esc, creating, popping, owner, daemon, connected, restarts>>

\* DELETE /task/{id}: a soft delete from any other state.
DeleteTask(t) ==
  /\ State(t) \notin {"absent", "deleted"}
  /\ Set(t, [task[t] EXCEPT !.state = "deleted"])
  /\ UNCHANGED <<esc, creating, popping, owner, daemon, connected, restarts>>

\* The idle watchdog proposes an unassigned task to a live agent.
AutoAssign(t, a) ==
  /\ State(t) = "created" /\ Owns(t, None) /\ a \in connected
  /\ Set(t, [task[t] EXCEPT !.assigned_to = a])
  /\ UNCHANGED <<esc, creating, popping, owner, daemon, connected, restarts>>

-----------------------------------------------------------------------------
(* The owner resolves a stage-3 escalation: the stage is checked under     *)
(* ESCALATION_LOCK, then the task is changed under TASK_LOCK whatever its  *)
(* state is by then, then the entry is dropped (PopEscalation).            *)

ResolveCheck(o, t) ==
  /\ owner[o] = None /\ esc[t].stage = 3
  /\ owner' = [owner EXCEPT ![o] = t]
  /\ UNCHANGED <<task, esc, creating, popping, daemon, connected, restarts>>

ResolveWith(o, r) ==
  /\ Set(owner[o], r)
  /\ popping' = popping \union {owner[o]}
  /\ owner' = [owner EXCEPT ![o] = None]
  /\ UNCHANGED <<esc, creating, daemon, connected, restarts>>

ResolveExtend(o) ==
  /\ owner[o] # None
  /\ ResolveWith(o, RefreshLease([task[owner[o]] EXCEPT !.checkin_age = 0]))

ResolveReassign(o, a) ==
  /\ owner[o] # None
  /\ ResolveWith(o, ClearLease([BackToCreated(task[owner[o]])
                                  EXCEPT !.assigned_to = a, !.checkin_age = None]))

ResolveCancel(o) ==
  /\ owner[o] # None
  /\ ResolveWith(o, ClearLease([task[owner[o]] EXCEPT !.state = "failed"]))

-----------------------------------------------------------------------------
(* The daemon: one pass of _check_task_timeouts.                           *)

SnapshotOf(t) == [task |-> t, state |-> State(t), agent |-> task[t].assigned_to,
                  retry |-> task[t].retry_count]

\* Requeue, or fail when the retries are used up, as both timeout branches do.
\* n is the retry count computed from the snapshot.
RequeueOrFail(t, n) ==
  LET r == ClearLease([task[t] EXCEPT !.retry_count = n])
  IN  IF n >= MaxRetries
        THEN [r EXCEPT !.state = "failed"]
        ELSE [BackToCreated(r) EXCEPT !.assigned_to = None]

\* The copy of the claimed tasks, restricted to those past the ack deadline.
AckOverdueSinceCheckin(r) ==             \* mutant: a check-in restarts the deadline
  IF r.checkin_age = None THEN r.claimed_age >= AckDeadline ELSE r.checkin_age >= AckDeadline
AckOverdue(r) == r.claimed_age >= AckDeadline

AckScan ==
  /\ daemon.pc = "awake"
  /\ daemon' = [Asleep EXCEPT !.pc = "ack",
       !.todo = {SnapshotOf(t) : t \in {u \in Tasks :
                                   State(u) = "claimed" /\ AckOverdue(task[u])}}]
  /\ UNCHANGED <<task, esc, creating, popping, owner, connected, restarts>>

NoRecheck(s, st) == TRUE                 \* mutant: acts on the snapshot alone
StillIn(s, st) == State(s.task) = st

AckStep(s) ==
  /\ daemon.pc = "ack" /\ s \in daemon.todo
  /\ daemon' = [daemon EXCEPT !.todo = @ \ {s}]
  /\ IF StillIn(s, "claimed")
       THEN Set(s.task, RequeueOrFail(s.task, Retried(s.retry))) /\ DropEscalation(s.task)
       ELSE UNCHANGED <<task, esc>>
  /\ UNCHANGED <<creating, popping, owner, connected, restarts>>

\* The unclaimed-task TTL.  created_at never changes and no time passes during
\* a run, so the copy and the expiry of what is still "created" are one step.
Expired(r) == r.state = "created" /\ r.created_age >= TaskTimeout

ExpireUnclaimed ==
  /\ daemon.pc = "ack" /\ daemon.todo = {}
  /\ task' = [t \in Tasks |-> IF Expired(task[t])
                                THEN Live(ClearLease([task[t] EXCEPT !.state = "failed"]))
                                ELSE task[t]]
  /\ daemon' = [daemon EXCEPT !.pc = "scan"]
  /\ UNCHANGED <<esc, creating, popping, owner, connected, restarts>>

\* The copy of the active tasks, restricted to those whose lease (without one,
\* the timeout since the last check-in or else the claim) has run out.
Overdue(r) ==
  /\ r.state \in Active
  /\ \/ r.lease_left = 0
     \/ r.lease_left = None /\ r.checkin_age = TaskTimeout
     \/ r.lease_left = None /\ r.checkin_age = None /\ r.claimed_age >= TaskTimeout

TimeoutScan ==
  /\ daemon.pc = "scan"
  /\ daemon' = [daemon EXCEPT !.pc = "timeout",
       !.todo = {SnapshotOf(t) : t \in {u \in Tasks : Overdue(task[u])}}]
  /\ UNCHANGED <<task, esc, creating, popping, owner, connected, restarts>>

\* An acked task whose agent is disconnected is requeued or failed ...
Orphan(s) == s.state = "acked" /\ s.agent # None /\ s.agent \notin connected

OrphanStep(s) ==
  /\ daemon.pc = "timeout" /\ s \in daemon.todo /\ Orphan(s)
  /\ IF StillIn(s, "acked")
       THEN /\ Set(s.task, RequeueOrFail(s.task, Retried(s.retry)))
            /\ daemon' = [pc |-> "pop", todo |-> daemon.todo \ {s}, current |-> s.task]
       ELSE daemon' = [daemon EXCEPT !.todo = @ \ {s}] /\ UNCHANGED task
  /\ UNCHANGED <<esc, creating, popping, owner, connected, restarts>>

\* ... and its escalation entry is dropped in a critical section of its own.
OrphanPop ==
  /\ daemon.pc = "pop"
  /\ daemon' = [daemon EXCEPT !.pc = "timeout", !.current = None]
  /\ DropEscalation(daemon.current)
  /\ UNCHANGED <<task, creating, popping, owner, connected, restarts>>

\* Any other overdue task moves up one escalation stage when its time has come.
NextStageUnchecked(e) ==                 \* mutant: every pass escalates
  [stage |-> e.stage + 1, age |-> 0]
NextStageTwo(e) ==                       \* mutant: stage 2 is the last one
  IF e.stage = 0 \/ (e.stage = 1 /\ e.age >= ReminderTimeout)
    THEN [stage |-> e.stage + 1, age |-> 0] ELSE e

NextStage(e) ==
  IF \/ e.stage = 0
     \/ e.stage = 1 /\ e.age >= ReminderTimeout
     \/ e.stage = 2 /\ e.age >= DirectTimeout
    THEN [stage |-> e.stage + 1, age |-> 0]
    ELSE e

EscalateStep(s) ==
  /\ daemon.pc = "timeout" /\ s \in daemon.todo /\ ~Orphan(s)
  /\ esc' = [esc EXCEPT ![s.task] = NextStage(@)]
  /\ daemon' = [daemon EXCEPT !.todo = @ \ {s}]
  /\ UNCHANGED <<task, creating, popping, owner, connected, restarts>>

DaemonDone ==
  /\ daemon.pc = "timeout" /\ daemon.todo = {}
  /\ daemon' = Asleep
  /\ UNCHANGED <<task, esc, creating, popping, owner, connected, restarts>>

-----------------------------------------------------------------------------
(* The environment: time, agents that come and go, a server that restarts. *)

Older(n, cap) == IF n < cap THEN n + 1 ELSE cap

Aged(r) ==
  [r EXCEPT !.created_age = Older(@, TaskTimeout), !.queued_age = Older(@, TaskTimeout),
            !.claimed_age = Older(@, ClaimAgeCap),
            !.checkin_age = IF @ = None THEN None ELSE Older(@, TaskTimeout),
            !.lease_left = IF @ \in {None, 0} THEN @ ELSE @ - 1]

\* Time passes while the daemon sleeps between two runs.
Tick ==
  /\ daemon.pc \in {"asleep", "awake"}
  /\ daemon' = [daemon EXCEPT !.pc = "awake"]
  /\ task' = [t \in Tasks |-> IF State(t) = "absent" THEN task[t] ELSE Live(Aged(task[t]))]
  /\ esc' = [t \in Tasks |-> IF esc[t].stage = 0 THEN esc[t]
                               ELSE [esc[t] EXCEPT !.age = Older(@, StageAgeCap)]]
  /\ UNCHANGED <<creating, popping, owner, connected, restarts>>

Connect(a) ==
  /\ connected' = (connected \ {a}) \union ({a} \ connected)
  /\ UNCHANGED <<task, esc, creating, popping, owner, daemon, restarts>>

\* tasks.json and the escalation file hold what every critical section wrote;
\* requests and the daemon's run end wherever they are.
Restart ==
  /\ restarts < MaxRestarts
  /\ restarts' = restarts + 1
  /\ creating' = {} /\ popping' = {} /\ daemon' = Asleep
  /\ owner' = [o \in OwnerRequests |-> None]
  /\ UNCHANGED <<task, esc, connected>>

-----------------------------------------------------------------------------

Handlers(t) ==
  \/ \E a \in Assignees \union {None} : CreateTask(t, a)
  \/ \E a \in Agents : \/ AutoClaim(t, a) \/ ClaimTask(t, a) \/ AckTask(t, a)
                       \/ CompleteTask(t, a) \/ CheckIn(t, a) \/ AutoAssign(t, a)
  \/ \E v \in Verifiers : VerifyTask(t, v)
  \/ \E a \in Agents \union {None} : ReassignTask(t, a)
  \/ FailTask(t) \/ DeleteTask(t) \/ PopEscalation(t)

Resolve ==
  \E o \in OwnerRequests :
    \/ \E t \in Tasks : ResolveCheck(o, t)
    \/ \E a \in Agents : ResolveReassign(o, a)
    \/ ResolveExtend(o) \/ ResolveCancel(o)

Daemon ==
  \/ AckScan \/ ExpireUnclaimed \/ TimeoutScan \/ OrphanPop \/ DaemonDone
  \/ \E s \in daemon.todo : AckStep(s) \/ OrphanStep(s) \/ EscalateStep(s)

Next ==
  \/ \E t \in Tasks : Handlers(t)
  \/ Resolve \/ Daemon \/ Tick \/ Restart
  \/ \E a \in Agents : Connect(a)

Spec == Init /\ [][Next]_vars

\* The daemon thread keeps running, the clock keeps ticking and a request
\* that has entered its handler finishes it; nobody else has to do anything.
Fairness ==
  /\ WF_vars(Daemon) /\ WF_vars(Tick)
  /\ \A t \in Tasks : WF_vars(PopEscalation(t))

FairSpec == Spec /\ Fairness

-----------------------------------------------------------------------------
(* Safety.                                                                 *)

\* Whatever PATCH, the owner and the daemon do to a task in between, an agent
\* that claimed a task is the one it stays assigned to for as long as it is
\* claimed or acked, and the one credited with the work when it is done.  Only
\* an auto-claim can break the tie (claimed_by is then System).
ClaimantHolds ==
  \A t \in Tasks :
    task[t].claimed_by # System =>
      /\ State(t) \in Active => task[t].assigned_to = task[t].claimed_by
      /\ State(t) = "done" => task[t].done_by = task[t].claimed_by

\* The tasks an agent has claimed itself never exceed
\* TASK_MAX_ACTIVE_PER_AGENT, although the cap is checked on a claim and an ack
\* only and tasks also move by PATCH, requeue, auto-assign and reassignment.
SelfClaimed(a) == {t \in ActiveTasks(a, {}) : task[t].claimed_by = a}
CapOnClaims == \A a \in Agents : Cardinality(SelfClaimed(a)) <= MaxActive

\* A finished task leaves "done" only when it is deleted, when an owner whose
\* stage-3 check passed decides on it, or under an auto-claim still in flight:
\* never by the daemon, however old the snapshot it works on is.
DoneIsLeftBy(t) ==
  \/ State(t)' = "deleted"
  \/ \E o \in OwnerRequests : owner[o] = t
  \/ \E a \in Agents : <<t, a>> \in creating

DoneLeftOnlyByOwner ==
  [][\A t \in Tasks : State(t) = "done" /\ State(t)' # "done" => DoneIsLeftBy(t)]_vars

\* The race of the ack with its deadline: whatever the daemon's copy says, once
\* the ack is in, the ack-deadline phase of that run leaves the task alone.
AckBeatsDeadline ==
  [][\A t \in Tasks : daemon.pc = "ack" /\ daemon' # daemon =>
       (State(t) = "acked" => task'[t] = task[t])]_vars

\* The protocol implements the abstract hold: hand-overs only through the pool,
\* "done" only out of the hands of the holder.
holder == [t \in Tasks |-> IF State(t) \in Active THEN task[t].assigned_to ELSE None]
outcome ==
  [t \in Tasks |-> CASE State(t) = "done" -> "done"
                     [] State(t) \in {"failed", "deleted"} -> "closed"
                     [] OTHER -> "open"]

Hold == INSTANCE TaskHold WITH holder <- holder, outcome <- outcome
ImplementsHold == Hold!Spec

-----------------------------------------------------------------------------
(* Liveness.                                                               *)

\* F-16: a claimed task does not stay claimed; it is acked, or the daemon
\* takes it back.
ClaimsAreAckedOrTaken ==
  \A t \in Tasks : State(t) = "claimed" ~> State(t) # "claimed"

\* An overdue task does not stay overdue in silence: it is checked in, ends, is
\* requeued, or its escalation reaches the owner (stage 3).
OverdueReachesOwner ==
  \A t \in Tasks : Overdue(task[t]) ~> (~Overdue(task[t]) \/ esc[t].stage = 3)

-----------------------------------------------------------------------------
(* What the code's own words say and the code does not keep.               *)

\* "Tasks stuck in "created" state beyond their timeout_seconds are
\* auto-expired": what expires has been in "created" that long.
ExpiryOnlyAfterTTL ==
  [][\A t \in Tasks :
       daemon.pc = "ack" /\ daemon'.pc = "scan" /\ State(t) = "created"
         /\ State(t)' = "failed"
       => task[t].queued_age >= TaskTimeout]_vars

=============================================================================
