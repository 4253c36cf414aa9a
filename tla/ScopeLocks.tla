----------------------------- MODULE ScopeLocks -----------------------------
(***************************************************************************)
(* Scope locks: leases on files and directories that a task takes through  *)
(* /scope/lock, keeps alive by check-ins and gives back through            *)
(* /scope/unlock or when it ends (handlers/scope_locks.py and the handlers *)
(* of server.py that call it).  A request locks its paths one by one, each *)
(* under SCOPE_LOCK_LOCK; its check against the task table comes first,    *)
(* under TASK_LOCK.                                                        *)
(*                                                                         *)
(* Of the task protocol only the holder of a task matters here; it changes *)
(* as TaskHold lets it change.  Time is relative: an entry carries the     *)
(* time its lease has left, -1 once it is over.                            *)
(***************************************************************************)
EXTENDS Integers, Roster

CONSTANTS
  Paths,       \* normalised paths
  Under,       \* <<p, d>>: p lies below the directory d (startswith d + os.sep)
  Tasks,
  Requests,    \* concurrent /scope/lock and /scope/unlock requests
  TTLs,        \* the ttl values requests ask for
  DiskFails,   \* whether a write of scope_locks.json may fail (best effort)
  MaxRestarts  \* bound: server restarts in a behaviour

ASSUME ScopeAssumption ==
  /\ Under \subseteq Paths \X Paths
  /\ TTLs \subseteq Nat /\ DiskFails \in BOOLEAN /\ MaxRestarts \in Nat
  /\ None \notin Paths \union Tasks

VARIABLES
  holder,           \* the agent a claimed or acked task is assigned to, or None
  locks,            \* SCOPE_LOCKS
  disk,             \* scope_locks.json
  req,              \* the requests under way
  releasing,        \* tasks whose done, fail or cancel handler has still to unlock
  refreshing,       \* tasks whose check-in or extension has still to refresh
  restarts

vars == <<holder, locks, disk, req, releasing, refreshing, restarts>>

Kinds == {"file", "directory"}
Leases == {-1} \union UNION {0 .. n : n \in TTLs}
Entry == [task : Tasks, agent : Agents, kind : Kinds, ttl : TTLs, left : Leases]
Free == [task |-> None]
Table == [Paths -> Entry \union {Free}]

Idle == [pc |-> "idle"]

LockRequest ==
  [pc : {"lock", "rollback"}, task : Tasks, agent : Agents, kind : Kinds, ttl : TTLs,
   todo : SUBSET Paths, got : SUBSET Paths, refused : BOOLEAN]
UnlockRequest == [pc : {"unlock"}, task : Tasks, todo : SUBSET Paths]

TypeOK ==
  /\ holder \in [Tasks -> Agents \union {None}]
  /\ locks \in Table /\ disk \in Table
  /\ req \in [Requests -> LockRequest \union UnlockRequest \union {Idle}]
  /\ releasing \subseteq Tasks /\ refreshing \subseteq Tasks
  /\ restarts \in 0 .. MaxRestarts

Init ==
  /\ holder = [t \in Tasks |-> None]
  /\ locks = [p \in Paths |-> Free] /\ disk = locks
  /\ req = [r \in Requests |-> Idle]
  /\ releasing = {} /\ refreshing = {}
  /\ restarts = 0

-----------------------------------------------------------------------------
(* The lock table.                                                         *)

Taken(p) == locks[p] # Free
LocksOf(t) == {p \in Paths : locks[p].task = t}

ExpiredEarly(e) == e.left <= 0           \* mutant: expired in its last second
Expired(e) == e.left < 0
ExpiredFiles ==                          \* mutant: directories never expire
  {p \in Paths : Taken(p) /\ locks[p].kind = "file" /\ Expired(locks[p])}
ExpiredPaths == {p \in Paths : Taken(p) /\ Expired(locks[p])}

Without(S) == [p \in Paths |-> IF p \in S THEN Free ELSE locks[p]]

\* _persist_scope_locks, after locks' has been set.
Persist == (disk' = locks') \/ (DiskFails /\ UNCHANGED disk)

\* A lock of kind k on p collides with the entry at q: q is a directory above
\* p, or p is asked for as a directory above q.
CoversDown(p, k, q) ==                   \* mutant: only directories above block
  locks[q].kind = "directory" /\ <<p, q>> \in Under
Overlaps(p, k, q) ==
  \/ locks[q].kind = "directory" /\ <<p, q>> \in Under
  \/ k = "directory" /\ <<q, p>> \in Under

Blockers(p, k, t) ==
  {q \in Paths : /\ Taken(q) /\ ~Expired(locks[q]) /\ locks[q].task # t
                 /\ (q = p \/ Overlaps(p, k, q))}

-----------------------------------------------------------------------------
(* POST /scope/lock                                                        *)

\* Under TASK_LOCK: the task is claimed or acked and assigned to the caller.
StartLock(r, t, a, k, n, P) ==
  /\ req[r] = Idle /\ holder[t] = a
  /\ req' = [req EXCEPT ![r] =
       [pc |-> "lock", task |-> t, agent |-> a, kind |-> k, ttl |-> n,
        todo |-> P, got |-> {}, refused |-> FALSE]]
  /\ UNCHANGED <<holder, locks, disk, releasing, refreshing, restarts>>

Answered(r, p, f, v) == req' = [req EXCEPT ![r].todo = @ \ {p}, ![r][f] = v]

\* The task has the path already: the lease is prolonged in memory.
ExtendPath(r, p) ==
  /\ req[r].pc = "lock" /\ p \in req[r].todo
  /\ locks[p].task = req[r].task
  /\ locks' = [locks EXCEPT ![p].ttl = req[r].ttl, ![p].left = req[r].ttl]
  /\ Answered(r, p, "got", req[r].got \union {p})
  /\ UNCHANGED <<holder, disk, releasing, refreshing, restarts>>

\* The scan meets no live lock in the way and drops every expired one.
GrantPath(r, p) ==
  LET q == req[r] IN
  /\ q.pc = "lock" /\ p \in q.todo
  /\ locks[p].task # q.task /\ Blockers(p, q.kind, q.task) = {}
  /\ locks' = [Without(ExpiredPaths) EXCEPT ![p] =
       [task |-> q.task, agent |-> q.agent, kind |-> q.kind, ttl |-> q.ttl, left |-> q.ttl]]
  /\ Persist
  /\ Answered(r, p, "got", q.got \union {p})
  /\ UNCHANGED <<holder, releasing, refreshing, restarts>>

\* The scan stops at a live lock; it has dropped the expired ones before it.
RefusePath(r, p) ==
  LET q == req[r] IN
  /\ q.pc = "lock" /\ p \in q.todo
  /\ locks[p].task # q.task /\ Blockers(p, q.kind, q.task) # {}
  /\ \E S \in SUBSET ExpiredPaths :
       /\ Taken(p) => IF Expired(locks[p]) THEN p \in S ELSE S = {}
       /\ locks' = Without(S)
  /\ Answered(r, p, "refused", TRUE)
  /\ UNCHANGED <<holder, disk, releasing, refreshing, restarts>>

\* All paths are through: the answer, or the rollback of what was acquired.
FinishLock(r) ==
  /\ req[r].pc = "lock" /\ req[r].todo = {}
  /\ req' = [req EXCEPT ![r] = IF @.refused THEN [@ EXCEPT !.pc = "rollback"] ELSE Idle]
  /\ UNCHANGED <<holder, locks, disk, releasing, refreshing, restarts>>

\* _unlock_scope_paths: what of S belongs to the task is released, and the file
\* is written if that is anything.
Release(t, S) ==
  /\ locks' = Without(S \intersect LocksOf(t))
  /\ IF S \intersect LocksOf(t) = {} THEN UNCHANGED disk ELSE Persist

RollbackPath(r, p) ==
  /\ req[r].pc = "rollback" /\ p \in req[r].got
  /\ Release(req[r].task, {p})
  /\ req' = [req EXCEPT ![r].got = @ \ {p}]
  /\ UNCHANGED <<holder, releasing, refreshing, restarts>>

Refused(r) ==
  /\ req[r].pc = "rollback" /\ req[r].got = {}
  /\ req' = [req EXCEPT ![r] = Idle]
  /\ UNCHANGED <<holder, locks, disk, releasing, refreshing, restarts>>

-----------------------------------------------------------------------------
(* POST /scope/unlock: the check for locks of other agents and the release *)
(* are two critical sections; the task itself is not looked at.  No paths  *)
(* stand for all of them; a is None for system and watcher, who are not    *)
(* checked.                                                                *)

StartUnlock(r, t, a, P) ==
  LET S == IF P = {} THEN Paths ELSE P IN
  /\ req[r] = Idle
  /\ a = None \/ \A p \in S \intersect LocksOf(t) : locks[p].agent = a
  /\ req' = [req EXCEPT ![r] = [pc |-> "unlock", task |-> t, todo |-> S]]
  /\ UNCHANGED <<holder, locks, disk, releasing, refreshing, restarts>>

FinishUnlock(r) ==
  /\ req[r].pc = "unlock"
  /\ Release(req[r].task, req[r].todo)
  /\ req' = [req EXCEPT ![r] = Idle]
  /\ UNCHANGED <<holder, releasing, refreshing, restarts>>

-----------------------------------------------------------------------------
(* The task protocol and what its handlers do to the locks afterwards.     *)

\* TaskHold!Take: a claim.
TakeTask(t, a) ==
  /\ holder[t] = None
  /\ holder' = [holder EXCEPT ![t] = a]
  /\ UNCHANGED <<locks, disk, req, releasing, refreshing, restarts>>

\* TaskHold!Drop and Close: requeues, reassignments, timeouts and deletions leave
\* the locks alone.
LeaveTask(t) ==
  /\ holder[t] # None
  /\ holder' = [holder EXCEPT ![t] = None]
  /\ UNCHANGED <<locks, disk, req, releasing, refreshing, restarts>>

\* TaskHold!Complete and Close: /done, /fail and the owner's cancel owe a release,
\* the last two also for a task that nobody holds.
EndTask(t) ==
  /\ holder' = [holder EXCEPT ![t] = None]
  /\ releasing' = releasing \union {t}
  /\ UNCHANGED <<locks, disk, req, refreshing, restarts>>

ReleaseAtEnd(t) ==
  /\ t \in releasing
  /\ releasing' = releasing \ {t}
  /\ Release(t, Paths)
  /\ UNCHANGED <<holder, req, refreshing, restarts>>

\* A check-in owes a refresh, and so does the owner's extension of an escalation
\* that began while the task was held.  The escalation outlives the server.
CheckIn(t) ==
  /\ holder[t] # None
  /\ refreshing' = refreshing \union {t}
  /\ UNCHANGED <<holder, locks, disk, req, releasing, restarts>>

\* _refresh_scope_locks_for_task: expired entries that are still there come back.
RefreshLocks(t) ==
  /\ t \in refreshing
  /\ refreshing' = refreshing \ {t}
  /\ locks' = [p \in Paths |-> IF p \in LocksOf(t)
                                 THEN [locks[p] EXCEPT !.left = locks[p].ttl] ELSE locks[p]]
  /\ IF LocksOf(t) = {} THEN UNCHANGED disk ELSE Persist
  /\ UNCHANGED <<holder, req, releasing, restarts>>

-----------------------------------------------------------------------------
(* The cleanup loop, time and restarts.                                    *)

Cleanup ==
  /\ ExpiredPaths # {}
  /\ locks' = Without(ExpiredPaths)
  /\ Persist
  /\ UNCHANGED <<holder, req, releasing, refreshing, restarts>>

OlderStill(e) == IF e # Free THEN [e EXCEPT !.left = @ - 1] ELSE e   \* mutant: no floor
Older(e) == IF e # Free /\ e.left >= 0 THEN [e EXCEPT !.left = @ - 1] ELSE e

Tick ==
  /\ \E p \in Paths : Older(locks[p]) # locks[p] \/ Older(disk[p]) # disk[p]
  /\ locks' = [p \in Paths |-> Older(locks[p])]
  /\ disk' = [p \in Paths |-> Older(disk[p])]
  /\ UNCHANGED <<holder, req, releasing, refreshing, restarts>>

\* _load_scope_locks_from_disk keeps what expires later than now.
Restart ==
  /\ restarts < MaxRestarts
  /\ restarts' = restarts + 1
  /\ locks' = [p \in Paths |-> IF disk[p] # Free /\ disk[p].left > 0 THEN disk[p] ELSE Free]
  /\ req' = [r \in Requests |-> Idle] /\ releasing' = {}
  /\ UNCHANGED <<holder, disk, refreshing>>

-----------------------------------------------------------------------------

Request(r) ==
  \/ \E t \in Tasks, P \in SUBSET Paths :
       \/ \E a \in Agents, k \in Kinds, n \in TTLs : P # {} /\ StartLock(r, t, a, k, n, P)
       \/ \E a \in Agents \union {None} : StartUnlock(r, t, a, P)
  \/ \E p \in Paths : \/ ExtendPath(r, p) \/ GrantPath(r, p)
                      \/ RefusePath(r, p) \/ RollbackPath(r, p)
  \/ FinishLock(r) \/ Refused(r) \/ FinishUnlock(r)

Next ==
  \/ \E r \in Requests : Request(r)
  \/ \E t \in Tasks, a \in Agents : TakeTask(t, a)
  \/ \E t \in Tasks : \/ LeaveTask(t) \/ EndTask(t)
                      \/ ReleaseAtEnd(t) \/ CheckIn(t) \/ RefreshLocks(t)
  \/ Cleanup \/ Tick \/ Restart

Spec == Init /\ [][Next]_vars

\* The cleanup loop runs, time passes, and a handler that has entered its last
\* steps takes them.
Fairness ==
  /\ WF_vars(Cleanup) /\ WF_vars(Tick)
  /\ \A t \in Tasks : WF_vars(RefreshLocks(t))

FairSpec == Spec /\ Fairness

-----------------------------------------------------------------------------
(* Safety.                                                                 *)

\* "File/directory-level locks to prevent conflicting edits": two tasks never
\* have entries of which one is a directory above the other, not even entries
\* that have expired and that a check-in or an extension may bring back.
Exclusive(L) ==
  \A p, q \in Paths :
    /\ L[p] # Free /\ L[q] # Free /\ L[p].task # L[q].task
    => ~(L[p].kind = "directory" /\ <<q, p>> \in Under)
Exclusion == Exclusive(locks)

\* A lease that is not over is taken from its task only by a request of that
\* task, by its end, or by a restart of the server: never by another task's
\* scan, by the cleanup or by the rollback of somebody else.
LeaseEndedBy(t) ==
  \/ t \in releasing \/ restarts' # restarts
  \/ \E r \in Requests : req[r] # Idle /\ req[r].pc \in {"rollback", "unlock"} /\ req[r].task = t

LeaseStep ==
  \A p \in Paths :
    Taken(p) /\ locks[p].left >= 0 /\ locks'[p].task # locks[p].task
      => LeaseEndedBy(locks[p].task)
LeaseHonoured == [][LeaseStep]_vars

-----------------------------------------------------------------------------
(* Liveness.                                                               *)

\* Whatever a requeue, a deletion or a late request leaves behind of a task that
\* nobody holds goes away, or the task is taken again.
OrphanLocksExpire ==
  \A p \in Paths, t \in Tasks :
    locks[p].task = t /\ holder[t] = None ~> locks[p].task # t \/ holder[t] # None

-----------------------------------------------------------------------------
(* What the code's own words say and the code does not keep.               *)

\* "Agent must have claimed/acked the task to lock scope": who is entered in the
\* table holds the task at that moment.
GrantOnlyToHolder ==
  [][\A r \in Requests, p \in Paths : GrantPath(r, p) => holder[req[r].task] = req[r].agent]_vars

=============================================================================
