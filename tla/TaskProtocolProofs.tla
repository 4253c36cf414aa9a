------------------------- MODULE TaskProtocolProofs -------------------------
(***************************************************************************)
(* Proofs about TaskProtocol, for any sets of tasks, agents and owner      *)
(* requests, any deadlines and any cap.                                    *)
(***************************************************************************)
EXTENDS TaskProtocol, FiniteSetTheorems, TLAPS

-----------------------------------------------------------------------------
(* The helpers return task records.                                        *)

LEMMA CapsAreNat ==
  /\ TaskTimeout \in Nat /\ ClaimAgeCap \in Nat /\ StageAgeCap \in Nat
  /\ RetryCap \in Nat /\ MaxRetries \in Nat /\ AckDeadline \in Nat
BY TaskAssumption DEF ClaimAgeCap, StageAgeCap, RetryCap, Larger

\* What Live forgets is not the state, the assignee or the retry count.
LEMMA LiveKeeps ==
  ASSUME NEW r \in TaskRecord
  PROVE  /\ Live(r) \in TaskRecord
         /\ Live(r).state = r.state
         /\ Live(r).assigned_to = r.assigned_to
         /\ Live(r).claimed_by = IF r.state \in Active \union {"done"} THEN r.claimed_by ELSE None
         /\ Live(r).done_by = IF r.state = "done" THEN r.done_by ELSE None
<1> DEFINE cb == IF r.state \in Active \union {"done"} THEN r.claimed_by ELSE None
           ca == IF r.state \in Active THEN r.claimed_age ELSE 0
           db == IF r.state = "done" THEN r.done_by ELSE None
           qa == IF r.state = "created" THEN r.queued_age ELSE 0
<1>1. cb \in Agents \union {System, None} /\ db \in Agents \union {None}
  BY DEF TaskRecord
<1>2. ca \in 0 .. ClaimAgeCap /\ qa \in 0 .. TaskTimeout
  BY CapsAreNat DEF TaskRecord
<1>3. Live(r) = [r EXCEPT !.claimed_by = cb, !.claimed_age = ca, !.done_by = db,
                          !.queued_age = qa]
  BY DEF Live
<1>4. Live(r).state = r.state /\ Live(r).assigned_to = r.assigned_to
      /\ Live(r).claimed_by = cb /\ Live(r).done_by = db
  <2> HIDE DEF cb, ca, db, qa
  <2> QED BY <1>3 DEF TaskRecord
<1>5. Live(r) \in TaskRecord
  <2> HIDE DEF cb, ca, db, qa
  <2> QED BY <1>1, <1>2, <1>3 DEF TaskRecord
<1>6. QED BY <1>4, <1>5

LEMMA NewTaskType ==
  ASSUME NEW a \in Agents \union {None}
  PROVE  NewTask(a) \in TaskRecord /\ NoTask \in TaskRecord
BY CapsAreNat DEF NewTask, NoTask, TaskRecord, States

LEMMA LeaseType ==
  ASSUME NEW r \in TaskRecord
  PROVE  /\ ClearLease(r) \in TaskRecord /\ RefreshLease(r) \in TaskRecord
         /\ BackToCreated(r) \in TaskRecord
<1>1. TaskTimeout \in 0 .. TaskTimeout /\ 0 \in 0 .. TaskTimeout
  BY CapsAreNat
<1>2. "created" \in States
  BY DEF States
<1>3. ClearLease(r) \in TaskRecord
  BY DEF ClearLease, TaskRecord
<1>4. RefreshLease(r) \in TaskRecord
  BY <1>1 DEF RefreshLease, TaskRecord
<1>5. BackToCreated(r) \in TaskRecord
  BY <1>1, <1>2 DEF BackToCreated, TaskRecord
<1>6. QED BY <1>3, <1>4, <1>5

LEMMA RetriedType ==
  ASSUME NEW n \in 0 .. RetryCap
  PROVE  Retried(n) \in 0 .. RetryCap
BY CapsAreNat DEF Retried

LEMMA OlderType ==
  ASSUME NEW c \in Nat, NEW n \in 0 .. c
  PROVE  Older(n, c) \in 0 .. c
BY DEF Older

LEMMA AgedType ==
  ASSUME NEW r \in TaskRecord
  PROVE  /\ Aged(r) \in TaskRecord
         /\ Aged(r).state = r.state /\ Aged(r).assigned_to = r.assigned_to
         /\ Aged(r).claimed_by = r.claimed_by /\ Aged(r).done_by = r.done_by
<1> DEFINE cr == Older(r.created_age, TaskTimeout)
           qu == Older(r.queued_age, TaskTimeout)
           cl == Older(r.claimed_age, ClaimAgeCap)
           ch == IF r.checkin_age = None THEN None ELSE Older(r.checkin_age, TaskTimeout)
           le == IF r.lease_left \in {None, 0} THEN r.lease_left ELSE r.lease_left - 1
<1>1. cr \in 0 .. TaskTimeout /\ qu \in 0 .. TaskTimeout /\ cl \in 0 .. ClaimAgeCap
  BY CapsAreNat, OlderType DEF TaskRecord
<1>2. ch \in 0 .. TaskTimeout \union {None}
  BY CapsAreNat, OlderType DEF TaskRecord
<1>3. le \in 0 .. TaskTimeout \union {None}
  BY CapsAreNat DEF TaskRecord
<1>4. Aged(r) = [r EXCEPT !.created_age = cr, !.queued_age = qu, !.claimed_age = cl,
                          !.checkin_age = ch, !.lease_left = le]
  BY DEF Aged
<1> HIDE DEF cr, qu, cl, ch, le
<1>5. QED BY <1>1, <1>2, <1>3, <1>4 DEF TaskRecord

LEMMA RequeueOrFailType ==
  ASSUME task \in [Tasks -> TaskRecord], NEW t \in Tasks,
         NEW n \in 0 .. RetryCap
  PROVE  /\ RequeueOrFail(t, n) \in TaskRecord
         /\ RequeueOrFail(t, n).state \in {"created", "failed"}
<1> DEFINE r1 == [task[t] EXCEPT !.retry_count = n]
           r2 == ClearLease(r1)
<1>1. r1 \in TaskRecord
  BY DEF TaskRecord
<1>2. r2 \in TaskRecord
  BY <1>1, LeaseType
<1>3. CASE n >= MaxRetries
  <2>1. RequeueOrFail(t, n) = [r2 EXCEPT !.state = "failed"]
    BY <1>3 DEF RequeueOrFail
  <2> HIDE DEF r2
  <2>2. QED BY <1>2, <2>1 DEF TaskRecord, States
<1>4. CASE ~(n >= MaxRetries)
  <2>1. RequeueOrFail(t, n) = [BackToCreated(r2) EXCEPT !.assigned_to = None]
    BY <1>4 DEF RequeueOrFail
  <2> HIDE DEF r2
  <2>2. BackToCreated(r2) \in TaskRecord /\ BackToCreated(r2).state = "created"
    BY <1>2, LeaseType DEF BackToCreated, TaskRecord
  <2>3. QED BY <2>1, <2>2 DEF TaskRecord
<1>5. QED BY <1>3, <1>4

-----------------------------------------------------------------------------
(* The inductive invariant, task by task.                                  *)

Tie(r) ==
  r.claimed_by # System =>
    /\ r.state \in Active => r.assigned_to = r.claimed_by
    /\ r.state = "done" => r.done_by = r.claimed_by

SelfHeld(r, a) == r.state \in Active /\ r.assigned_to = a /\ r.claimed_by = a

IInv == TypeOK /\ ClaimantHolds /\ CapOnClaims

LEMMA TieIsClaimant == ClaimantHolds <=> \A t \in Tasks : Tie(task[t])
BY DEF ClaimantHolds, Tie, State

LEMMA SelfClaimedIs ==
  \A a : SelfClaimed(a) = {t \in Tasks : SelfHeld(task[t], a)}
BY DEF SelfClaimed, ActiveTasks, SelfHeld, State

\* A step after which nobody holds a claim of its own that it did not hold
\* before keeps the cap.
LEMMA CapKeptFor ==
  ASSUME CapOnClaims, NEW a \in Agents,
         \A t \in Tasks : SelfHeld(task[t], a)' => SelfHeld(task[t], a)
  PROVE  Cardinality(SelfClaimed(a)') <= MaxActive
<1>1. SelfClaimed(a)' \subseteq SelfClaimed(a)
  BY SelfClaimedIs DEF SelfClaimed, ActiveTasks, SelfHeld, State
<1>2. IsFiniteSet(SelfClaimed(a))
  BY TaskAssumption, FS_Subset DEF SelfClaimed, ActiveTasks
<1>3. /\ IsFiniteSet(SelfClaimed(a)')
      /\ Cardinality(SelfClaimed(a)') <= Cardinality(SelfClaimed(a))
  BY <1>1, <1>2, FS_Subset
<1>4. /\ Cardinality(SelfClaimed(a)) \in Nat /\ Cardinality(SelfClaimed(a)') \in Nat
      /\ Cardinality(SelfClaimed(a)) <= MaxActive /\ MaxActive \in Nat
  BY <1>2, <1>3, FS_CardinalityType, TaskAssumption DEF CapOnClaims
<1>5. QED BY <1>3, <1>4

LEMMA CapKept ==
  ASSUME CapOnClaims,
         \A t \in Tasks, a \in Agents : SelfHeld(task[t], a)' => SelfHeld(task[t], a)
  PROVE  CapOnClaims'
BY CapKeptFor DEF CapOnClaims

\* A handler that stores a record r for task t, without a new claim of the
\* agent's own, keeps the three parts that speak of the task table.
LEMMA SetKeeps ==
  ASSUME IInv, NEW t \in Tasks, NEW r \in TaskRecord, Set(t, r), Tie(r),
         \A a \in Agents : SelfHeld(r, a) => SelfHeld(task[t], a)
  PROVE  task' \in [Tasks -> TaskRecord] /\ ClaimantHolds' /\ CapOnClaims'
<1>1. task \in [Tasks -> TaskRecord] /\ ClaimantHolds /\ CapOnClaims
  BY DEF IInv, TypeOK
<1>2. Live(r) \in TaskRecord /\ Tie(Live(r))
  BY LiveKeeps DEF Tie, Active
<1>3. task' = [task EXCEPT ![t] = Live(r)]
  BY DEF Set
<1>4. task' \in [Tasks -> TaskRecord]
  BY <1>1, <1>2, <1>3
<1>5. \A u \in Tasks : task'[u] = IF u = t THEN Live(r) ELSE task[u]
  BY <1>1, <1>3
<1>6. ClaimantHolds'
  <2>1. \A u \in Tasks : Tie(task'[u])
    BY <1>1, <1>2, <1>5, TieIsClaimant
  <2>2. QED BY <2>1 DEF ClaimantHolds, Tie, State
<1>7. \A u \in Tasks, a \in Agents : SelfHeld(task[u], a)' => SelfHeld(task[u], a)
  <2> SUFFICES ASSUME NEW u \in Tasks, NEW a \in Agents, SelfHeld(task'[u], a)
               PROVE  SelfHeld(task[u], a)
    BY DEF SelfHeld
  <2>1. CASE u # t
    BY <2>1, <1>5
  <2>2. CASE u = t
    <3>1. SelfHeld(Live(r), a)
      BY <2>2, <1>5
    <3>2. SelfHeld(r, a)
      BY <3>1, LiveKeeps DEF SelfHeld, Active
    <3>3. QED BY <3>2, <2>2
  <2>3. QED BY <2>1, <2>2
<1>8. QED BY <1>1, <1>4, <1>6, <1>7, CapKept

-----------------------------------------------------------------------------
(* One lemma per action: the request handlers.                             *)

LEMMA CreateTaskKeeps ==
  ASSUME IInv, NEW t \in Tasks, NEW a \in Assignees \union {None}, CreateTask(t, a)
  PROVE  IInv'
<1>1. a \in Agents \union {None} /\ NewTask(a) \in TaskRecord
  BY TaskAssumption, NewTaskType
<1>2. Tie(NewTask(a)) /\ \A b \in Agents : ~SelfHeld(NewTask(a), b)
  BY DEF Tie, SelfHeld, NewTask, Active
<1>3. task' \in [Tasks -> TaskRecord] /\ ClaimantHolds' /\ CapOnClaims'
  BY <1>1, <1>2, SetKeeps DEF CreateTask
<1>4. creating' \subseteq Tasks \X Agents
  BY <1>1 DEF CreateTask, IInv, TypeOK
<1>5. QED BY <1>3, <1>4 DEF CreateTask, IInv, TypeOK

LEMMA AutoClaimKeeps ==
  ASSUME IInv, NEW t \in Tasks, NEW a \in Agents, AutoClaim(t, a)
  PROVE  IInv'
<1> DEFINE r == [task[t] EXCEPT !.state = "claimed", !.claimed_by = System,
                                !.claimed_age = 0]
<1>1. creating' \subseteq Tasks \X Agents
  BY DEF AutoClaim, IInv, TypeOK
<1>2. CASE Set(t, r)
  <2>1. task[t] \in TaskRecord /\ 0 \in 0 .. ClaimAgeCap
    BY CapsAreNat DEF IInv, TypeOK
  <2>2. r \in TaskRecord /\ Tie(r) /\ \A b \in Agents : ~SelfHeld(r, b)
    BY <2>1, TaskAssumption DEF TaskRecord, Tie, SelfHeld, Active, States
  <2>3. task' \in [Tasks -> TaskRecord] /\ ClaimantHolds' /\ CapOnClaims'
    <3> HIDE DEF r
    <3> QED BY <1>2, <2>2, SetKeeps
  <2>4. QED BY <1>1, <2>3 DEF AutoClaim, IInv, TypeOK
<1>3. CASE UNCHANGED task
  <2>1. ClaimantHolds' /\ CapOnClaims'
    BY <1>3, CapKept DEF IInv, ClaimantHolds, SelfHeld, State
  <2>2. QED BY <1>1, <1>3, <2>1 DEF AutoClaim, IInv, TypeOK
<1>4. QED BY <1>2, <1>3 DEF AutoClaim

LEMMA AddOne ==
  ASSUME NEW S, IsFiniteSet(S), NEW x
  PROVE  IsFiniteSet(S \union {x}) /\ Cardinality(S \union {x}) <= Cardinality(S) + 1
<1>1. Cardinality(S) \in Nat
  BY FS_CardinalityType
<1>2. /\ IsFiniteSet(S \union {x})
      /\ Cardinality(S \union {x}) = IF x \in S THEN Cardinality(S) ELSE Cardinality(S) + 1
  BY FS_AddElement
<1>3. QED BY <1>1, <1>2

LEMMA ClaimTaskKeeps ==
  ASSUME IInv, NEW t \in Tasks, NEW a \in Agents, ClaimTask(t, a)
  PROVE  IInv'
<1> DEFINE r == [task[t] EXCEPT !.state = "claimed", !.assigned_to = a,
                                !.claimed_by = a, !.claimed_age = 0]
<1>1. task \in [Tasks -> TaskRecord] /\ task[t] \in TaskRecord
  BY DEF IInv, TypeOK
<1>2. r \in TaskRecord /\ Tie(r) /\ r.assigned_to = a
  <2>1. 0 \in 0 .. ClaimAgeCap
    BY CapsAreNat
  <2>2. QED BY <1>1, <2>1 DEF TaskRecord, Tie, Active, States
<1>3. Set(t, r)
  BY DEF ClaimTask
<1> HIDE DEF r
<1>4. Live(r) \in TaskRecord /\ Tie(Live(r)) /\ Live(r).assigned_to = a
  BY <1>2, LiveKeeps DEF Tie, Active
<1>5. task' \in [Tasks -> TaskRecord]
      /\ \A u \in Tasks : task'[u] = IF u = t THEN Live(r) ELSE task[u]
  BY <1>1, <1>3, <1>4 DEF Set
<1>6. ClaimantHolds'
  <2>1. \A u \in Tasks : Tie(task'[u])
    BY <1>4, <1>5, TieIsClaimant DEF IInv
  <2>2. QED BY <2>1 DEF ClaimantHolds, Tie, State
<1>7. ASSUME NEW b \in Agents
      PROVE  Cardinality(SelfClaimed(b)') <= MaxActive
  <2>1. CASE b # a
    <3>1. \A u \in Tasks : SelfHeld(task[u], b)' => SelfHeld(task[u], b)
      BY <1>4, <1>5, <2>1 DEF SelfHeld
    <3>2. QED BY <3>1, CapKeptFor DEF IInv
  <2>2. CASE b = a
    <3>1. SelfClaimed(a)' \subseteq ActiveTasks(a, {}) \union {t}
      BY <1>5 DEF SelfClaimed, ActiveTasks, State
    <3>2. IsFiniteSet(ActiveTasks(a, {}))
      BY TaskAssumption, FS_Subset DEF ActiveTasks
    <3>3. /\ IsFiniteSet(ActiveTasks(a, {}) \union {t})
          /\ Cardinality(ActiveTasks(a, {}) \union {t}) <= Cardinality(ActiveTasks(a, {})) + 1
      BY <3>2, AddOne
    <3>4. /\ IsFiniteSet(SelfClaimed(a)')
          /\ Cardinality(SelfClaimed(a)') <= Cardinality(ActiveTasks(a, {}) \union {t})
      BY <3>1, <3>3, FS_Subset
    <3>5. /\ Cardinality(ActiveTasks(a, {})) \in Nat /\ MaxActive \in Nat
          /\ Cardinality(ActiveTasks(a, {}) \union {t}) \in Nat
          /\ Cardinality(SelfClaimed(a)') \in Nat
      BY <3>2, <3>3, <3>4, FS_CardinalityType, TaskAssumption
    <3>6. Cardinality(ActiveTasks(a, {})) < MaxActive
      BY DEF ClaimTask, UnderCap
    <3>7. QED BY <2>2, <3>3, <3>4, <3>5, <3>6
  <2>3. QED BY <2>1, <2>2
<1>8. CapOnClaims'
  BY <1>7 DEF CapOnClaims
<1>9. QED BY <1>5, <1>6, <1>8 DEF ClaimTask, IInv, TypeOK

LEMMA AckTaskKeeps ==
  ASSUME IInv, NEW t \in Tasks, NEW a \in Agents, AckTask(t, a)
  PROVE  IInv'
<1> DEFINE r0 == [task[t] EXCEPT !.state = "acked"]
           r == RefreshLease(r0)
<1>1. task[t] \in TaskRecord /\ Tie(task[t])
  BY TieIsClaimant DEF IInv, TypeOK
<1>2. r0 \in TaskRecord
  BY <1>1 DEF TaskRecord, States, Active
<1>3. r \in TaskRecord
  BY <1>2, LeaseType
<1>4. /\ r.state = "acked" /\ r.assigned_to = task[t].assigned_to
      /\ r.claimed_by = task[t].claimed_by
  BY <1>1 DEF RefreshLease, TaskRecord
<1>5. Tie(r) /\ \A b \in Agents : SelfHeld(r, b) => SelfHeld(task[t], b)
  <2> HIDE DEF r
  <2> QED BY <1>1, <1>4 DEF AckTask, State, Tie, SelfHeld, Active
<1>6. task' \in [Tasks -> TaskRecord] /\ ClaimantHolds' /\ CapOnClaims'
  <2> HIDE DEF r
  <2> QED BY <1>3, <1>5, SetKeeps DEF AckTask, r
<1>7. QED BY <1>6 DEF AckTask, IInv, TypeOK

LEMMA CompleteTaskKeeps ==
  ASSUME IInv, NEW t \in Tasks, NEW a \in Agents, CompleteTask(t, a)
  PROVE  IInv'
<1> DEFINE r == [task[t] EXCEPT !.state = "done", !.done_by = a]
<1>1. task[t] \in TaskRecord /\ Tie(task[t])
  BY TieIsClaimant DEF IInv, TypeOK
<1>2. r \in TaskRecord /\ Tie(r) /\ \A b \in Agents : ~SelfHeld(r, b)
  BY <1>1 DEF CompleteTask, State, Owns, TaskRecord, States, Active, Tie, SelfHeld
<1>3. task' \in [Tasks -> TaskRecord] /\ ClaimantHolds' /\ CapOnClaims'
  <2> HIDE DEF r
  <2> QED BY <1>2, SetKeeps DEF CompleteTask, r
<1>4. QED BY <1>3 DEF CompleteTask, IInv, TypeOK

LEMMA VerifyTaskKeeps ==
  ASSUME IInv, NEW t \in Tasks, NEW v \in Verifiers, VerifyTask(t, v)
  PROVE  IInv'
<1> DEFINE r == [task[t] EXCEPT !.verified_by = v]
<1>1. task[t] \in TaskRecord /\ Tie(task[t])
  BY TieIsClaimant DEF IInv, TypeOK
<1>2. r \in TaskRecord /\ Tie(r) /\ \A b \in Agents : SelfHeld(r, b) => SelfHeld(task[t], b)
  BY <1>1 DEF TaskRecord, Tie, SelfHeld
<1>3. task' \in [Tasks -> TaskRecord] /\ ClaimantHolds' /\ CapOnClaims'
  <2> HIDE DEF r
  <2> QED BY <1>2, SetKeeps DEF VerifyTask, r
<1>4. QED BY <1>3 DEF VerifyTask, IInv, TypeOK

LEMMA FailTaskKeeps ==
  ASSUME IInv, NEW t \in Tasks, FailTask(t)
  PROVE  IInv'
<1> DEFINE n == IF State(t) \in Active THEN Retried(task[t].retry_count)
                ELSE task[t].retry_count
           r == [task[t] EXCEPT !.state = "failed", !.retry_count = n]
<1>1. task[t] \in TaskRecord
  BY DEF IInv, TypeOK
<1>2. n \in 0 .. RetryCap
  BY <1>1, RetriedType DEF TaskRecord
<1>3. Set(t, r)
  BY DEF FailTask
<1>4. r \in TaskRecord /\ Tie(r) /\ \A b \in Agents : ~SelfHeld(r, b)
  <2> HIDE DEF n
  <2> QED BY <1>1, <1>2 DEF TaskRecord, States, Active, Tie, SelfHeld
<1>5. task' \in [Tasks -> TaskRecord] /\ ClaimantHolds' /\ CapOnClaims'
  <2> HIDE DEF r
  <2> QED BY <1>3, <1>4, SetKeeps
<1>6. QED BY <1>5 DEF FailTask, IInv, TypeOK

LEMMA CheckInKeeps ==
  ASSUME IInv, NEW t \in Tasks, NEW a \in Agents, CheckIn(t, a)
  PROVE  IInv'
<1> DEFINE r0 == [task[t] EXCEPT !.checkin_age = 0]
           r == RefreshLease(r0)
<1>1. task[t] \in TaskRecord /\ Tie(task[t]) /\ 0 \in 0 .. TaskTimeout
  BY TieIsClaimant, CapsAreNat DEF IInv, TypeOK
<1>2. r0 \in TaskRecord
  BY <1>1 DEF TaskRecord
<1>3. r \in TaskRecord
  BY <1>2, LeaseType
<1>4. /\ r.state = task[t].state /\ r.assigned_to = task[t].assigned_to
      /\ r.claimed_by = task[t].claimed_by /\ r.done_by = task[t].done_by
  BY <1>1 DEF RefreshLease, TaskRecord
<1>5. task' \in [Tasks -> TaskRecord] /\ ClaimantHolds' /\ CapOnClaims'
  <2> HIDE DEF r
  <2> QED BY <1>1, <1>3, <1>4, SetKeeps DEF CheckIn, r, Tie, SelfHeld
<1>6. QED BY <1>5 DEF CheckIn, IInv, TypeOK

LEMMA ReassignTaskKeeps ==
  ASSUME IInv, NEW t \in Tasks, NEW a \in Agents \union {None}, ReassignTask(t, a)
  PROVE  IInv'
<1> DEFINE r0 == WhenReassigned(task[t])
           r == [r0 EXCEPT !.assigned_to = a]
<1>1. task[t] \in TaskRecord /\ Tie(task[t])
  BY TieIsClaimant DEF IInv, TypeOK
<1>2. r0 \in TaskRecord /\ r0.state \notin Active /\ (r0.state = "done" => r0 = task[t])
  BY <1>1, LeaseType DEF WhenReassigned, BackToCreated, TaskRecord, Active
<1>3. Set(t, r)
  BY DEF ReassignTask
<1>4. r \in TaskRecord /\ Tie(r) /\ \A b \in Agents : ~SelfHeld(r, b)
  <2> HIDE DEF r0
  <2> QED BY <1>1, <1>2 DEF TaskRecord, Tie, SelfHeld
<1>5. task' \in [Tasks -> TaskRecord] /\ ClaimantHolds' /\ CapOnClaims'
  <2> HIDE DEF r
  <2> QED BY <1>3, <1>4, SetKeeps
<1>6. QED BY <1>5 DEF ReassignTask, IInv, TypeOK

LEMMA DeleteTaskKeeps ==
  ASSUME IInv, NEW t \in Tasks, DeleteTask(t)
  PROVE  IInv'
<1> DEFINE r == [task[t] EXCEPT !.state = "deleted"]
<1>0. task[t] \in TaskRecord
  BY DEF IInv, TypeOK
<1>1. r \in TaskRecord /\ Tie(r) /\ \A b \in Agents : ~SelfHeld(r, b)
  BY <1>0 DEF TaskRecord, States, Active, Tie, SelfHeld
<1>2. task' \in [Tasks -> TaskRecord] /\ ClaimantHolds' /\ CapOnClaims'
  <2> HIDE DEF r
  <2> QED BY <1>1, SetKeeps DEF DeleteTask, r
<1>3. QED BY <1>2 DEF DeleteTask, IInv, TypeOK

LEMMA AutoAssignKeeps ==
  ASSUME IInv, NEW t \in Tasks, NEW a \in Agents, AutoAssign(t, a)
  PROVE  IInv'
<1> DEFINE r == [task[t] EXCEPT !.assigned_to = a]
<1>1. r \in TaskRecord /\ Tie(r) /\ \A b \in Agents : ~SelfHeld(r, b)
  BY DEF IInv, TypeOK, TaskRecord, AutoAssign, State, Active, Tie, SelfHeld
<1>2. task' \in [Tasks -> TaskRecord] /\ ClaimantHolds' /\ CapOnClaims'
  <2> HIDE DEF r
  <2> QED BY <1>1, SetKeeps DEF AutoAssign, r
<1>3. QED BY <1>2 DEF AutoAssign, IInv, TypeOK

\* Steps that leave the task table alone.
LEMMA SameTasksKeep ==
  ASSUME IInv, UNCHANGED task
  PROVE  task' \in [Tasks -> TaskRecord] /\ ClaimantHolds' /\ CapOnClaims'
BY CapKept DEF IInv, TypeOK, ClaimantHolds, SelfHeld, State

LEMMA DropEscalationType ==
  ASSUME IInv, NEW t, DropEscalation(t)
  PROVE  esc' \in [Tasks -> [stage : 0 .. 3, age : 0 .. StageAgeCap]]
<1> DEFINE E == [stage : 0 .. 3, age : 0 .. StageAgeCap]
<1>1. esc \in [Tasks -> E]
  BY DEF IInv, TypeOK
<1>2. NoEscalation \in E
  BY CapsAreNat DEF NoEscalation
<1> HIDE DEF E
<1>3. esc' \in [Tasks -> E]
  BY <1>1, <1>2 DEF DropEscalation
<1>4. QED BY <1>3 DEF E

LEMMA PopEscalationKeeps ==
  ASSUME IInv, NEW t \in Tasks, PopEscalation(t)
  PROVE  IInv'
<1>1. UNCHANGED task /\ DropEscalation(t)
  BY DEF PopEscalation
<1>2. QED BY <1>1, SameTasksKeep, DropEscalationType DEF PopEscalation, IInv, TypeOK

-----------------------------------------------------------------------------
(* The owner's decisions.                                                  *)

LEMMA ResolveWithKeeps ==
  ASSUME IInv, NEW o \in OwnerRequests, owner[o] # None, NEW r \in TaskRecord,
         ResolveWith(o, r), Tie(r),
         \A a \in Agents : SelfHeld(r, a) => SelfHeld(task[owner[o]], a)
  PROVE  IInv'
<1>1. owner[o] \in Tasks
  BY DEF IInv, TypeOK
<1>2. task' \in [Tasks -> TaskRecord] /\ ClaimantHolds' /\ CapOnClaims'
  BY <1>1, SetKeeps DEF ResolveWith
<1>3. owner' \in [OwnerRequests -> Tasks \union {None}] /\ popping' \subseteq Tasks
  BY <1>1 DEF ResolveWith, IInv, TypeOK
<1>4. QED BY <1>2, <1>3 DEF ResolveWith, IInv, TypeOK

LEMMA ResolveKeeps ==
  ASSUME IInv, Resolve
  PROVE  IInv'
<1>1. PICK o \in OwnerRequests :
        \/ \E t \in Tasks : ResolveCheck(o, t)
        \/ \E a \in Agents : ResolveReassign(o, a)
        \/ ResolveExtend(o) \/ ResolveCancel(o)
  BY DEF Resolve
<1>2. CASE \E t \in Tasks : ResolveCheck(o, t)
  <2>1. UNCHANGED task /\ owner' \in [OwnerRequests -> Tasks \union {None}]
    BY <1>2 DEF ResolveCheck, IInv, TypeOK
  <2>2. QED BY <1>2, <2>1, SameTasksKeep DEF ResolveCheck, IInv, TypeOK
<1> DEFINE q == task[owner[o]]
<1>3. owner[o] # None => q \in TaskRecord /\ Tie(q)
  <2>1. owner[o] # None => owner[o] \in Tasks
    BY DEF IInv, TypeOK
  <2>2. QED BY <2>1, TieIsClaimant DEF IInv, TypeOK
<1>4. ASSUME NEW a \in Agents, ResolveReassign(o, a)
      PROVE  IInv'
  <2> DEFINE r0 == BackToCreated(q)
             r1 == [r0 EXCEPT !.assigned_to = a, !.checkin_age = None]
             r == ClearLease(r1)
  <2>1. q \in TaskRecord /\ owner[o] # None /\ ResolveWith(o, r)
    BY <1>3, <1>4 DEF ResolveReassign
  <2>2. r0 \in TaskRecord /\ r0.state = "created"
    BY <2>1, LeaseType DEF BackToCreated, TaskRecord
  <2>3. r1 \in TaskRecord /\ r1.state = "created"
    <3> HIDE DEF r0
    <3> QED BY <2>2 DEF TaskRecord
  <2>4. r \in TaskRecord /\ r.state = "created"
    <3> HIDE DEF r1
    <3> QED BY <2>3, LeaseType DEF ClearLease, TaskRecord
  <2>5. Tie(r) /\ \A b \in Agents : ~SelfHeld(r, b)
    <3> HIDE DEF r
    <3> QED BY <2>4 DEF Tie, SelfHeld, Active
  <2> HIDE DEF r
  <2>6. QED BY <2>1, <2>4, <2>5, ResolveWithKeeps
<1>5. CASE ResolveExtend(o)
  <2> DEFINE r1 == [q EXCEPT !.checkin_age = 0]
             r == RefreshLease(r1)
  <2>1. q \in TaskRecord /\ Tie(q) /\ owner[o] # None /\ ResolveWith(o, r)
    BY <1>3, <1>5 DEF ResolveExtend
  <2>2. r1 \in TaskRecord
    <3>1. 0 \in 0 .. TaskTimeout
      BY CapsAreNat
    <3> HIDE DEF q
    <3>2. QED BY <2>1, <3>1 DEF TaskRecord
  <2>3. r \in TaskRecord
    <3> HIDE DEF r1
    <3> QED BY <2>2, LeaseType
  <2>4. /\ r.state = q.state /\ r.assigned_to = q.assigned_to
        /\ r.claimed_by = q.claimed_by /\ r.done_by = q.done_by
    <3> HIDE DEF q
    <3> QED BY <2>1 DEF RefreshLease, TaskRecord
  <2>5. Tie(r) /\ \A b \in Agents : SelfHeld(r, b) => SelfHeld(q, b)
    <3> HIDE DEF r, q
    <3> QED BY <2>1, <2>4 DEF Tie, SelfHeld
  <2> HIDE DEF r
  <2>6. QED BY <2>1, <2>3, <2>5, ResolveWithKeeps
<1>6. CASE ResolveCancel(o)
  <2> DEFINE r1 == [q EXCEPT !.state = "failed"]
             r == ClearLease(r1)
  <2>1. q \in TaskRecord /\ owner[o] # None /\ ResolveWith(o, r)
    BY <1>3, <1>6 DEF ResolveCancel
  <2>2. r1 \in TaskRecord /\ r1.state = "failed"
    <3> HIDE DEF q
    <3> QED BY <2>1 DEF TaskRecord, States
  <2>3. r \in TaskRecord /\ r.state = "failed"
    <3> HIDE DEF r1
    <3> QED BY <2>2, LeaseType DEF ClearLease, TaskRecord
  <2>4. Tie(r) /\ \A b \in Agents : ~SelfHeld(r, b)
    <3> HIDE DEF r
    <3> QED BY <2>3 DEF Tie, SelfHeld, Active
  <2> HIDE DEF r
  <2>5. QED BY <2>1, <2>3, <2>4, ResolveWithKeeps
<1>7. QED BY <1>1, <1>2, <1>4, <1>5, <1>6

-----------------------------------------------------------------------------
(* The daemon.                                                             *)

LEMMA SnapshotType ==
  ASSUME IInv, NEW t \in Tasks, State(t) \in Active
  PROVE  SnapshotOf(t) \in Snapshot
BY DEF IInv, TypeOK, TaskRecord, SnapshotOf, Snapshot, State

\* What the daemon gives back is in nobody's hands.
LEMMA RequeueKeeps ==
  ASSUME IInv, NEW s \in Snapshot, Set(s.task, RequeueOrFail(s.task, Retried(s.retry)))
  PROVE  task' \in [Tasks -> TaskRecord] /\ ClaimantHolds' /\ CapOnClaims'
<1> DEFINE r == RequeueOrFail(s.task, Retried(s.retry))
<1>1. s.task \in Tasks /\ Retried(s.retry) \in 0 .. RetryCap
  BY RetriedType DEF Snapshot
<1>2. r \in TaskRecord /\ r.state \in {"created", "failed"}
  BY <1>1, RequeueOrFailType DEF IInv, TypeOK
<1> HIDE DEF r
<1>3. Tie(r) /\ \A b \in Agents : ~SelfHeld(r, b)
  BY <1>2 DEF Tie, SelfHeld, Active
<1>4. QED BY <1>1, <1>2, <1>3, SetKeeps DEF r

DaemonType == [pc : {"asleep", "awake", "ack", "scan", "timeout", "pop"},
               todo : SUBSET Snapshot, current : Tasks \union {None}]

LEMMA ScanKeeps ==
  ASSUME IInv, AckScan \/ TimeoutScan
  PROVE  IInv'
<1>1. {SnapshotOf(t) : t \in {u \in Tasks : State(u) = "claimed" /\ AckOverdue(task[u])}}
        \in SUBSET Snapshot
  BY SnapshotType DEF Active
<1>2. {SnapshotOf(t) : t \in {u \in Tasks : Overdue(task[u])}} \in SUBSET Snapshot
  BY SnapshotType DEF Overdue, State
<1>3. daemon \in DaemonType /\ Asleep \in DaemonType
  BY DEF IInv, TypeOK, DaemonType, Asleep
<1>4. daemon' \in DaemonType
  <2>1. CASE AckScan
    BY <1>1, <1>3, <2>1 DEF AckScan, DaemonType
  <2>2. CASE TimeoutScan
    BY <1>2, <1>3, <2>2 DEF TimeoutScan, DaemonType
  <2>3. QED BY <2>1, <2>2
<1>5. task' \in [Tasks -> TaskRecord] /\ ClaimantHolds' /\ CapOnClaims'
  BY SameTasksKeep DEF AckScan, TimeoutScan
<1>6. QED BY <1>4, <1>5 DEF AckScan, TimeoutScan, IInv, TypeOK, DaemonType

LEMMA AckStepKeeps ==
  ASSUME IInv, NEW s \in daemon.todo, AckStep(s)
  PROVE  IInv'
<1>1. s \in Snapshot /\ daemon' \in DaemonType
  BY DEF IInv, TypeOK, AckStep, DaemonType
<1>2. /\ task' \in [Tasks -> TaskRecord] /\ ClaimantHolds' /\ CapOnClaims'
      /\ esc' \in [Tasks -> [stage : 0 .. 3, age : 0 .. StageAgeCap]]
  <2>1. CASE StillIn(s, "claimed")
    BY <1>1, <2>1, RequeueKeeps, DropEscalationType DEF AckStep
  <2>2. CASE ~StillIn(s, "claimed")
    BY <2>2, SameTasksKeep DEF AckStep, IInv, TypeOK
  <2>3. QED BY <2>1, <2>2
<1>3. QED BY <1>1, <1>2 DEF AckStep, IInv, TypeOK, DaemonType

LEMMA ExpireUnclaimedKeeps ==
  ASSUME IInv, ExpireUnclaimed
  PROVE  IInv'
<1> DEFINE r(t) == ClearLease([task[t] EXCEPT !.state = "failed"])
<1>1. ASSUME NEW t \in Tasks
      PROVE  Live(r(t)) \in TaskRecord /\ Live(r(t)).state = "failed"
  <2> DEFINE r0 == [task[t] EXCEPT !.state = "failed"]
  <2>1. task[t] \in TaskRecord
    BY DEF IInv, TypeOK
  <2>2. r0 \in TaskRecord /\ r0.state = "failed"
    BY <2>1 DEF TaskRecord, States
  <2>3. ClearLease(r0) \in TaskRecord /\ ClearLease(r0).state = "failed"
    <3> HIDE DEF r0
    <3> QED BY <2>2, LeaseType DEF ClearLease, TaskRecord
  <2>4. QED
    <3> DEFINE r1 == ClearLease(r0)
    <3> HIDE DEF r1
    <3>1. Live(r1) \in TaskRecord /\ Live(r1).state = "failed"
      BY <2>3, LiveKeeps DEF r1
    <3>2. QED BY <3>1 DEF r1
<1>2. \A t \in Tasks : task'[t] = IF Expired(task[t]) THEN Live(r(t)) ELSE task[t]
  BY DEF ExpireUnclaimed
<1> HIDE DEF r
<1>3. task' \in [Tasks -> TaskRecord]
  BY <1>1, <1>2 DEF ExpireUnclaimed, IInv, TypeOK, r
<1>4. ClaimantHolds'
  <2>1. \A t \in Tasks : Tie(task'[t])
    BY <1>1, <1>2, TieIsClaimant DEF IInv, Tie, Active
  <2>2. QED BY <2>1 DEF ClaimantHolds, Tie, State
<1>5. CapOnClaims'
  <2>1. \A t \in Tasks, a \in Agents : SelfHeld(task[t], a)' => SelfHeld(task[t], a)
    BY <1>1, <1>2 DEF SelfHeld, Active
  <2>2. QED BY <2>1, CapKept DEF IInv
<1>6. daemon' \in DaemonType
  BY DEF ExpireUnclaimed, IInv, TypeOK, DaemonType
<1>7. QED BY <1>3, <1>4, <1>5, <1>6 DEF ExpireUnclaimed, IInv, TypeOK, DaemonType

LEMMA OrphanStepKeeps ==
  ASSUME IInv, NEW s \in daemon.todo, OrphanStep(s)
  PROVE  IInv'
<1>1. s \in Snapshot /\ s.task \in Tasks
  BY DEF IInv, TypeOK, Snapshot
<1>2. daemon' \in DaemonType
  BY <1>1 DEF IInv, TypeOK, OrphanStep, DaemonType
<1>3. task' \in [Tasks -> TaskRecord] /\ ClaimantHolds' /\ CapOnClaims'
  <2>1. CASE StillIn(s, "acked")
    BY <1>1, <2>1, RequeueKeeps DEF OrphanStep
  <2>2. CASE ~StillIn(s, "acked")
    BY <2>2, SameTasksKeep DEF OrphanStep
  <2>3. QED BY <2>1, <2>2
<1>4. QED BY <1>2, <1>3 DEF OrphanStep, IInv, TypeOK, DaemonType

LEMMA OrphanPopKeeps ==
  ASSUME IInv, OrphanPop
  PROVE  IInv'
<1>1. UNCHANGED task /\ DropEscalation(daemon.current)
  BY DEF OrphanPop
<1>2. daemon' \in DaemonType
  BY DEF OrphanPop, IInv, TypeOK, DaemonType
<1>3. esc' \in [Tasks -> [stage : 0 .. 3, age : 0 .. StageAgeCap]]
  BY <1>1, DropEscalationType
<1>4. QED BY <1>1, <1>2, <1>3, SameTasksKeep DEF OrphanPop, IInv, TypeOK, DaemonType

\* A stage-3 escalation stays at stage 3: no stage follows it.
LEMMA NextStageType ==
  ASSUME NEW e \in [stage : 0 .. 3, age : 0 .. StageAgeCap]
  PROVE  NextStage(e) \in [stage : 0 .. 3, age : 0 .. StageAgeCap]
BY CapsAreNat DEF NextStage

LEMMA EscalateStepKeeps ==
  ASSUME IInv, NEW s \in daemon.todo, EscalateStep(s)
  PROVE  IInv'
<1> DEFINE E == [stage : 0 .. 3, age : 0 .. StageAgeCap]
<1>1. s.task \in Tasks /\ daemon' \in DaemonType
  BY DEF IInv, TypeOK, EscalateStep, DaemonType, Snapshot
<1>2. esc \in [Tasks -> E] /\ NextStage(esc[s.task]) \in E
  BY <1>1, NextStageType DEF IInv, TypeOK
<1>3. esc' \in [Tasks -> E]
  <2> HIDE DEF E
  <2> QED BY <1>2 DEF EscalateStep
<1>4. QED BY <1>1, <1>3, SameTasksKeep DEF EscalateStep, IInv, TypeOK, DaemonType

LEMMA DaemonDoneKeeps ==
  ASSUME IInv, DaemonDone
  PROVE  IInv'
BY SameTasksKeep DEF DaemonDone, Asleep, IInv, TypeOK

-----------------------------------------------------------------------------
(* The environment.                                                        *)

LEMMA TickKeeps ==
  ASSUME IInv, Tick
  PROVE  IInv'
<1> DEFINE r(t) == Live(Aged(task[t]))
<1>1. ASSUME NEW t \in Tasks
      PROVE  /\ r(t) \in TaskRecord /\ Tie(r(t))
             /\ \A a \in Agents : SelfHeld(r(t), a) => SelfHeld(task[t], a)
  <2> DEFINE r1 == Aged(task[t])
  <2>1. task[t] \in TaskRecord /\ Tie(task[t])
    BY TieIsClaimant DEF IInv, TypeOK
  <2>2. /\ r1 \in TaskRecord /\ r1.state = task[t].state
        /\ r1.assigned_to = task[t].assigned_to
        /\ r1.claimed_by = task[t].claimed_by /\ r1.done_by = task[t].done_by
    BY <2>1, AgedType
  <2> HIDE DEF r1
  <2>3. /\ Live(r1) \in TaskRecord /\ Tie(Live(r1))
        /\ \A a \in Agents : SelfHeld(Live(r1), a) => SelfHeld(task[t], a)
    BY <2>1, <2>2, LiveKeeps DEF Tie, SelfHeld, Active
  <2>4. QED BY <2>3 DEF r1
<1>2. \A t \in Tasks : task'[t] = IF State(t) = "absent" THEN task[t] ELSE r(t)
  BY DEF Tick
<1>3. task' \in [Tasks -> TaskRecord]
  BY <1>1, <1>2 DEF Tick, IInv, TypeOK
<1> HIDE DEF r
<1>4. ClaimantHolds'
  <2>1. \A t \in Tasks : Tie(task'[t])
    BY <1>1, <1>2, TieIsClaimant DEF IInv
  <2>2. QED BY <2>1 DEF ClaimantHolds, Tie, State
<1>5. CapOnClaims'
  <2>1. \A t \in Tasks, a \in Agents : SelfHeld(task[t], a)' => SelfHeld(task[t], a)
    BY <1>1, <1>2 DEF SelfHeld
  <2>2. QED BY <2>1, CapKept DEF IInv
<1>6. daemon' \in DaemonType
  BY DEF Tick, IInv, TypeOK, DaemonType
<1>7. esc' \in [Tasks -> [stage : 0 .. 3, age : 0 .. StageAgeCap]]
  <2>1. \A t \in Tasks : Older(esc[t].age, StageAgeCap) \in 0 .. StageAgeCap
    BY CapsAreNat, OlderType DEF IInv, TypeOK
  <2>2. QED BY <2>1 DEF Tick, IInv, TypeOK
<1>8. QED BY <1>3, <1>4, <1>5, <1>6, <1>7 DEF Tick, IInv, TypeOK, DaemonType

LEMMA ConnectKeeps ==
  ASSUME IInv, NEW a \in Agents, Connect(a)
  PROVE  IInv'
BY SameTasksKeep DEF Connect, IInv, TypeOK

LEMMA RestartKeeps ==
  ASSUME IInv, Restart
  PROVE  IInv'
<1>1. MaxRestarts \in Nat
  BY TaskAssumption
<1>2. UNCHANGED task /\ restarts' \in 0 .. MaxRestarts
  BY <1>1 DEF Restart, IInv, TypeOK
<1>3. QED BY <1>2, SameTasksKeep DEF Restart, Asleep, IInv, TypeOK

-----------------------------------------------------------------------------
(* The invariant.                                                          *)

LEMMA InitIInv == Init => IInv
<1> SUFFICES ASSUME Init PROVE IInv
  OBVIOUS
<1>1. TypeOK
  <2>1. NoTask \in TaskRecord /\ MaxRestarts \in Nat
    BY NewTaskType, TaskAssumption
  <2>2. NoEscalation \in [stage : 0 .. 3, age : 0 .. StageAgeCap]
    BY CapsAreNat DEF NoEscalation
  <2>3. QED BY <2>1, <2>2 DEF Init, TypeOK, Asleep
<1>2. \A t \in Tasks : State(t) = "absent"
  BY DEF Init, NoTask, NewTask, State
<1>3. ClaimantHolds
  BY <1>2 DEF ClaimantHolds, Active
<1>4. CapOnClaims
  <2>1. \A a \in Agents : SelfClaimed(a) = {}
    BY <1>2 DEF SelfClaimed, ActiveTasks, Active
  <2>2. QED BY <2>1, FS_EmptySet, TaskAssumption DEF CapOnClaims
<1>5. QED BY <1>1, <1>3, <1>4 DEF IInv

LEMMA HandlersKeep ==
  ASSUME IInv, NEW t \in Tasks, Handlers(t)
  PROVE  IInv'
<1>1. CASE \E a \in Assignees \union {None} : CreateTask(t, a)
  BY <1>1, CreateTaskKeeps
<1>2. CASE \E a \in Agents : \/ AutoClaim(t, a) \/ ClaimTask(t, a) \/ AckTask(t, a)
                              \/ CompleteTask(t, a) \/ CheckIn(t, a) \/ AutoAssign(t, a)
  BY <1>2, AutoClaimKeeps, ClaimTaskKeeps, AckTaskKeeps, CompleteTaskKeeps,
     CheckInKeeps, AutoAssignKeeps
<1>3. CASE \E v \in Verifiers : VerifyTask(t, v)
  BY <1>3, VerifyTaskKeeps
<1>4. CASE \E a \in Agents \union {None} : ReassignTask(t, a)
  BY <1>4, ReassignTaskKeeps
<1>5. CASE FailTask(t) \/ DeleteTask(t) \/ PopEscalation(t)
  BY <1>5, FailTaskKeeps, DeleteTaskKeeps, PopEscalationKeeps
<1>6. QED BY <1>1, <1>2, <1>3, <1>4, <1>5 DEF Handlers

LEMMA DaemonKeeps ==
  ASSUME IInv, Daemon
  PROVE  IInv'
BY ScanKeeps, ExpireUnclaimedKeeps, OrphanPopKeeps, DaemonDoneKeeps, AckStepKeeps,
   OrphanStepKeeps, EscalateStepKeeps DEF Daemon

LEMMA StutterKeeps ==
  ASSUME IInv, UNCHANGED vars
  PROVE  IInv'
BY SameTasksKeep DEF vars, IInv, TypeOK

LEMMA NextIInv == IInv /\ [Next]_vars => IInv'
<1> SUFFICES ASSUME IInv, [Next]_vars PROVE IInv'
  OBVIOUS
<1>1. CASE \E t \in Tasks : Handlers(t)
  BY <1>1, HandlersKeep
<1>2. CASE Resolve \/ Daemon \/ Tick \/ Restart
  BY <1>2, ResolveKeeps, DaemonKeeps, TickKeeps, RestartKeeps
<1>3. CASE \E a \in Agents : Connect(a)
  BY <1>3, ConnectKeeps
<1>4. CASE UNCHANGED vars
  BY <1>4, StutterKeeps
<1>5. QED BY <1>1, <1>2, <1>3, <1>4 DEF Next

THEOREM Invariance == Spec => []IInv
BY InitIInv, NextIInv, PTL DEF Spec

\* Every reachable state of the task protocol is well typed.
THEOREM TypeCorrect == Spec => []TypeOK
<1>1. IInv => TypeOK
  BY DEF IInv
<1>2. QED BY Invariance, <1>1, PTL

\* Who claimed a task itself holds it, and is credited with it, however PATCH,
\* the owner, the daemon and restarts interleave with its requests.
THEOREM ClaimantHoldsAlways == Spec => []ClaimantHolds
<1>1. IInv => ClaimantHolds
  BY DEF IInv
<1>2. QED BY Invariance, <1>1, PTL

\* The cap holds on the claims an agent made itself, for any cap and any number
\* of tasks and agents.
THEOREM CapAlways == Spec => []CapOnClaims
<1>1. IInv => CapOnClaims
  BY DEF IInv
<1>2. QED BY Invariance, <1>1, PTL

-----------------------------------------------------------------------------
(* What takes a task out of "done".                                        *)

LEMMA SetOne ==
  ASSUME IInv, NEW u \in Tasks, NEW r \in TaskRecord, Set(u, r), NEW t \in Tasks
  PROVE  State(t)' = IF t = u THEN r.state ELSE State(t)
<1>1. task \in [Tasks -> TaskRecord] /\ Live(r).state = r.state
  BY LiveKeeps DEF IInv, TypeOK
<1>2. QED BY <1>1 DEF Set, State

LEMMA HandlersLeaveDone ==
  ASSUME IInv, NEW u \in Tasks, Handlers(u), NEW t \in Tasks,
         State(t) = "done", State(t)' # "done"
  PROVE  DoneIsLeftBy(t)
<1>1. task[u] \in TaskRecord /\ task[t] \in TaskRecord /\ task[t].state = "done"
  BY DEF IInv, TypeOK, State
<1>2. ASSUME NEW a \in Assignees \union {None}, CreateTask(u, a)
      PROVE  FALSE
  <2>1. NewTask(a) \in TaskRecord
    BY TaskAssumption, NewTaskType
  <2>2. QED BY <1>2, <2>1, SetOne DEF CreateTask
<1>3. ASSUME NEW a \in Agents, AutoClaim(u, a)
      PROVE  DoneIsLeftBy(t)
  <2> DEFINE r == [task[u] EXCEPT !.state = "claimed", !.claimed_by = System,
                                  !.claimed_age = 0]
  <2>1. r \in TaskRecord
    <3>1. 0 \in 0 .. ClaimAgeCap
      BY CapsAreNat
    <3>2. QED BY <1>1, <3>1 DEF TaskRecord, States, Active
  <2>2. UNCHANGED task \/ Set(u, r)
    BY <1>3 DEF AutoClaim
  <2> HIDE DEF r
  <2>3. t = u
    BY <2>1, <2>2, SetOne DEF State
  <2>4. QED BY <1>3, <2>3 DEF AutoClaim, DoneIsLeftBy
<1>4. ASSUME NEW a \in Agents, ClaimTask(u, a)
      PROVE  FALSE
  <2> DEFINE r == [task[u] EXCEPT !.state = "claimed", !.assigned_to = a,
                                  !.claimed_by = a, !.claimed_age = 0]
  <2>1. r \in TaskRecord
    <3>1. 0 \in 0 .. ClaimAgeCap
      BY CapsAreNat
    <3>2. QED BY <1>1, <3>1 DEF TaskRecord, States, Active
  <2>2. Set(u, r) /\ State(u) = "created"
    BY <1>4 DEF ClaimTask
  <2> HIDE DEF r
  <2>3. QED BY <2>1, <2>2, SetOne
<1>5. ASSUME NEW a \in Agents, AckTask(u, a)
      PROVE  FALSE
  <2> DEFINE r0 == [task[u] EXCEPT !.state = "acked"]
             r == RefreshLease(r0)
  <2>1. r0 \in TaskRecord
    BY <1>1 DEF TaskRecord, States, Active
  <2>2. r \in TaskRecord
    BY <2>1, LeaseType
  <2>3. Set(u, r) /\ State(u) = "claimed"
    BY <1>5 DEF AckTask
  <2> HIDE DEF r
  <2>4. QED BY <2>2, <2>3, SetOne
<1>6. ASSUME NEW a \in Agents, CompleteTask(u, a)
      PROVE  FALSE
  <2> DEFINE r == [task[u] EXCEPT !.state = "done", !.done_by = a]
  <2>1. r \in TaskRecord /\ r.state = "done"
    BY <1>1 DEF TaskRecord, States, Active
  <2>2. Set(u, r)
    BY <1>6 DEF CompleteTask
  <2> HIDE DEF r
  <2>3. QED BY <2>1, <2>2, SetOne
<1>7. ASSUME NEW a \in Agents, CheckIn(u, a)
      PROVE  FALSE
  <2> DEFINE r0 == [task[u] EXCEPT !.checkin_age = 0]
             r == RefreshLease(r0)
  <2>1. r0 \in TaskRecord
    <3>1. 0 \in 0 .. TaskTimeout
      BY CapsAreNat
    <3>2. QED BY <1>1, <3>1 DEF TaskRecord
  <2>2. r \in TaskRecord
    BY <2>1, LeaseType
  <2>3. Set(u, r) /\ State(u) \in Active
    BY <1>7 DEF CheckIn
  <2>4. t # u
    BY <2>3 DEF Active
  <2> HIDE DEF r
  <2>5. QED BY <2>2, <2>3, <2>4, SetOne
<1>8. ASSUME NEW a \in Agents, AutoAssign(u, a)
      PROVE  FALSE
  <2> DEFINE r == [task[u] EXCEPT !.assigned_to = a]
  <2>1. r \in TaskRecord
    BY <1>1 DEF TaskRecord
  <2>2. Set(u, r) /\ State(u) = "created"
    BY <1>8 DEF AutoAssign
  <2> HIDE DEF r
  <2>3. QED BY <2>1, <2>2, SetOne
<1>9. ASSUME NEW v \in Verifiers, VerifyTask(u, v)
      PROVE  FALSE
  <2> DEFINE r == [task[u] EXCEPT !.verified_by = v]
  <2>1. r \in TaskRecord /\ r.state = task[u].state
    BY <1>1 DEF TaskRecord
  <2>2. Set(u, r)
    BY <1>9 DEF VerifyTask
  <2> HIDE DEF r
  <2>3. QED BY <2>1, <2>2, SetOne DEF State
<1>10. ASSUME NEW a \in Agents \union {None}, ReassignTask(u, a)
       PROVE  FALSE
  <2> DEFINE r0 == WhenReassigned(task[u])
             r == [r0 EXCEPT !.assigned_to = a]
  <2>1. r0 \in TaskRecord /\ (t = u => r0.state = "done")
    BY <1>1, LeaseType DEF WhenReassigned, Active
  <2>2. r \in TaskRecord /\ r.state = r0.state
    <3> HIDE DEF r0
    <3> QED BY <2>1 DEF TaskRecord
  <2>3. Set(u, r)
    BY <1>10 DEF ReassignTask
  <2> HIDE DEF r, r0
  <2>4. QED BY <2>1, <2>2, <2>3, SetOne
<1>11. ASSUME FailTask(u)
       PROVE  FALSE
  <2> DEFINE n == IF State(u) \in Active THEN Retried(task[u].retry_count)
                  ELSE task[u].retry_count
             r == [task[u] EXCEPT !.state = "failed", !.retry_count = n]
  <2>1. n \in 0 .. RetryCap
    BY <1>1, RetriedType DEF TaskRecord
  <2>2. r \in TaskRecord
    <3> HIDE DEF n
    <3> QED BY <1>1, <2>1 DEF TaskRecord, States
  <2>3. Set(u, r) /\ State(u) # "done"
    BY <1>11 DEF FailTask
  <2> HIDE DEF r
  <2>4. QED BY <2>2, <2>3, SetOne
<1>12. ASSUME DeleteTask(u)
       PROVE  DoneIsLeftBy(t)
  <2> DEFINE r == [task[u] EXCEPT !.state = "deleted"]
  <2>1. r \in TaskRecord /\ r.state = "deleted"
    BY <1>1 DEF TaskRecord, States
  <2>2. Set(u, r)
    BY <1>12 DEF DeleteTask
  <2> HIDE DEF r
  <2>3. QED BY <2>1, <2>2, SetOne DEF DoneIsLeftBy
<1>13. ~PopEscalation(u)
  BY DEF PopEscalation, State
<1>14. QED BY <1>2, <1>3, <1>4, <1>5, <1>6, <1>7, <1>8, <1>9, <1>10, <1>11, <1>12,
              <1>13 DEF Handlers

LEMMA ResolveLeavesDone ==
  ASSUME IInv, Resolve, NEW t \in Tasks, State(t) = "done", State(t)' # "done"
  PROVE  DoneIsLeftBy(t)
<1>1. PICK o \in OwnerRequests :
        \/ \E u \in Tasks : ResolveCheck(o, u)
        \/ \E a \in Agents : ResolveReassign(o, a)
        \/ ResolveExtend(o) \/ ResolveCancel(o)
  BY DEF Resolve
<1>2. \A u \in Tasks : ~ResolveCheck(o, u)
  BY DEF ResolveCheck, State
<1>3. \E r : Set(owner[o], r)
  BY <1>1, <1>2 DEF ResolveReassign, ResolveExtend, ResolveCancel, ResolveWith
<1>4. owner[o] = t
  BY <1>3 DEF Set, State, IInv, TypeOK
<1>5. QED BY <1>4 DEF DoneIsLeftBy

\* The daemon looks again before it acts: a finished task is out of its reach.
LEMMA DaemonLeavesDone ==
  ASSUME IInv, Daemon, NEW t \in Tasks, State(t) = "done"
  PROVE  State(t)' = "done"
<1>1. ASSUME NEW u \in Tasks, NEW r, Set(u, r), State(u) \in Active
      PROVE  State(t)' = "done"
  BY <1>1 DEF Set, State, Active, IInv, TypeOK
<1>2. ASSUME NEW s \in daemon.todo, AckStep(s) \/ OrphanStep(s)
      PROVE  State(t)' = "done"
  <2>1. s.task \in Tasks
    BY DEF IInv, TypeOK, Snapshot
  <2>2. \/ UNCHANGED task
        \/ State(s.task) \in Active /\ \E r : Set(s.task, r)
    BY <1>2 DEF AckStep, OrphanStep, StillIn, Active
  <2>3. QED BY <1>1, <2>1, <2>2 DEF State
<1>3. CASE ExpireUnclaimed
  BY <1>3 DEF ExpireUnclaimed, Expired, State
<1>4. CASE \/ AckScan \/ TimeoutScan \/ OrphanPop \/ DaemonDone
           \/ \E s \in daemon.todo : EscalateStep(s)
  BY <1>4 DEF AckScan, TimeoutScan, OrphanPop, DaemonDone, EscalateStep, State
<1>5. QED BY <1>2, <1>3, <1>4 DEF Daemon

LEMMA OthersLeaveDone ==
  ASSUME IInv, NEW t \in Tasks, State(t) = "done",
         Tick \/ Restart \/ (\E a \in Agents : Connect(a)) \/ UNCHANGED vars
  PROVE  State(t)' = "done"
<1>1. CASE Tick
  <2>1. Aged(task[t]) \in TaskRecord /\ Aged(task[t]).state = "done"
    BY AgedType DEF IInv, TypeOK, State
  <2>2. Live(Aged(task[t])).state = "done"
    BY <2>1, LiveKeeps
  <2>3. QED BY <1>1, <2>2 DEF Tick, State
<1>2. CASE Restart \/ (\E a \in Agents : Connect(a)) \/ UNCHANGED vars
  BY <1>2 DEF Restart, Connect, vars, State
<1>3. QED BY <1>1, <1>2

LEMMA NextLeavesDone ==
  ASSUME IInv, [Next]_vars, NEW t \in Tasks, State(t) = "done", State(t)' # "done"
  PROVE  DoneIsLeftBy(t)
BY HandlersLeaveDone, ResolveLeavesDone, DaemonLeavesDone, OthersLeaveDone DEF Next

\* A finished task leaves "done" by deletion, by an owner whose stage-3 check has
\* passed or by an auto-claim in flight: for any number of overlapping owner
\* requests, and never through the daemon.
THEOREM DoneLeftOnlyByOwnerAlways == Spec => DoneLeftOnlyByOwner
<1>1. IInv /\ [Next]_vars =>
        [\A t \in Tasks : State(t) = "done" /\ State(t)' # "done" => DoneIsLeftBy(t)]_vars
  BY NextLeavesDone
<1>2. QED BY Invariance, <1>1, PTL DEF Spec, DoneLeftOnlyByOwner

-----------------------------------------------------------------------------
(* The ack and its deadline.                                               *)

\* In the ack-deadline phase the daemon acts on what is still claimed and on
\* what is unclaimed; nobody but the daemon moves its program counter.
LEMMA AckPhaseLeavesAcked ==
  ASSUME IInv, [Next]_vars, NEW t \in Tasks,
         daemon.pc = "ack", daemon' # daemon, State(t) = "acked"
  PROVE  task'[t] = task[t]
<1>1. CASE Daemon
  <2>1. ASSUME NEW s \in daemon.todo, AckStep(s)
        PROVE  task'[t] = task[t]
    <3>1. s.task \in Tasks \/ task' = task
      BY <2>1 DEF AckStep, IInv, TypeOK, Snapshot
    <3>2. task' = task \/ (State(s.task) = "claimed" /\ \E r : Set(s.task, r))
      BY <2>1 DEF AckStep, StillIn
    <3>3. QED BY <3>1, <3>2 DEF Set, State, IInv, TypeOK
  <2>2. CASE ExpireUnclaimed
    BY <2>2 DEF ExpireUnclaimed, Expired, State
  <2>3. ~AckScan /\ ~TimeoutScan /\ ~OrphanPop /\ ~DaemonDone
    BY DEF AckScan, TimeoutScan, OrphanPop, DaemonDone
  <2>4. \A s \in daemon.todo : ~OrphanStep(s) /\ ~EscalateStep(s)
    BY DEF OrphanStep, EscalateStep
  <2>5. QED BY <1>1, <2>1, <2>2, <2>3, <2>4 DEF Daemon
<1>2. CASE Restart
  BY <1>2 DEF Restart
<1>3. \A u \in Tasks : ~Handlers(u)
  BY DEF Handlers, CreateTask, AutoClaim, ClaimTask, AckTask, CompleteTask, CheckIn, AutoAssign,
         VerifyTask, ReassignTask, FailTask, DeleteTask, PopEscalation
<1>4. ~Resolve
  BY DEF Resolve, ResolveCheck, ResolveReassign, ResolveExtend, ResolveCancel, ResolveWith
<1>5. ~Tick /\ ~(\E a \in Agents : Connect(a)) /\ ~UNCHANGED vars
  BY DEF Tick, Connect, vars
<1>6. QED BY <1>1, <1>2, <1>3, <1>4, <1>5 DEF Next

\* Whatever copy of the tasks the daemon works on, an ack that is in by then is not
\* undone by the ack deadline of that run.
THEOREM AckBeatsDeadlineAlways == Spec => AckBeatsDeadline
<1>1. IInv /\ [Next]_vars =>
        [\A t \in Tasks : daemon.pc = "ack" /\ daemon' # daemon =>
           (State(t) = "acked" => task'[t] = task[t])]_vars
  BY AckPhaseLeavesAcked
<1>2. QED BY Invariance, <1>1, PTL DEF Spec, AckBeatsDeadline

-----------------------------------------------------------------------------
(* TaskProtocol implements TaskHold: every step moves the holder and the   *)
(* outcome of tasks as the abstract specification allows, or leaves them   *)
(* alone.                                                                  *)

\* The refinement mapping, task by task.
HolderOf(r) == IF r.state \in Active THEN r.assigned_to ELSE None
OutcomeOf(r) == CASE r.state = "done" -> "done"
                  [] r.state \in {"failed", "deleted"} -> "closed"
                  [] OTHER -> "open"

\* Leases and dates are no part of the mapping.
LEMMA LeaseKeeps ==
  ASSUME NEW r \in TaskRecord
  PROVE  /\ ClearLease(r) \in TaskRecord /\ ClearLease(r).state = r.state
         /\ RefreshLease(r) \in TaskRecord /\ RefreshLease(r).state = r.state
         /\ RefreshLease(r).assigned_to = r.assigned_to
         /\ BackToCreated(r) \in TaskRecord /\ BackToCreated(r).state = "created"
<1>1. /\ ClearLease(r).state = r.state /\ RefreshLease(r).state = r.state
      /\ RefreshLease(r).assigned_to = r.assigned_to /\ BackToCreated(r).state = "created"
  BY DEF ClearLease, RefreshLease, BackToCreated, TaskRecord
<1>2. QED BY <1>1, LeaseType

LEMMA MappedRecord ==
  ASSUME NEW r \in TaskRecord
  PROVE  /\ HolderOf(r) \in Agents \union {None}
         /\ OutcomeOf(r) \in {"open", "done", "closed"}
         /\ HolderOf(r) # None => OutcomeOf(r) = "open"
         /\ HolderOf(Live(r)) = HolderOf(r) /\ OutcomeOf(Live(r)) = OutcomeOf(r)
<1>1. Live(r).state = r.state /\ (Live(r).assigned_to = r.assigned_to)
  BY LiveKeeps
<1>2. r.assigned_to \in Agents \union {None}
  BY DEF TaskRecord
<1>3. QED BY <1>1, <1>2 DEF HolderOf, OutcomeOf, Active

LEMMA Mapped ==
  /\ holder = [t \in Tasks |-> HolderOf(task[t])]
  /\ outcome = [t \in Tasks |-> OutcomeOf(task[t])]
BY DEF holder, outcome, HolderOf, OutcomeOf, State

\* What may become of one task.
Moves(r, s) ==
  \/ HolderOf(s) = HolderOf(r) /\ OutcomeOf(s) = OutcomeOf(r)
  \/ HolderOf(r) = None /\ HolderOf(s) # None                              \* Take
  \/ HolderOf(r) # None /\ HolderOf(s) = None                              \* Drop, Complete, Close
  \/ HolderOf(s) = None /\ OutcomeOf(s) = "closed"                         \* Close
  \/ HolderOf(r) = None /\ HolderOf(s) = None /\ OutcomeOf(s) = "open"     \* Reopen

LEMMA SetMoves ==
  ASSUME IInv, NEW t \in Tasks, NEW r \in TaskRecord, Set(t, r), Moves(task[t], r)
  PROVE  [Hold!Next]_<<holder, outcome>>
<1>1. task \in [Tasks -> TaskRecord] /\ task' = [task EXCEPT ![t] = Live(r)]
  BY DEF IInv, TypeOK, Set
<1> DEFINE h == HolderOf(r)
           o == OutcomeOf(r)
<1>2. holder' = [holder EXCEPT ![t] = h] /\ outcome' = [outcome EXCEPT ![t] = o]
  <2>1. holder' = [u \in Tasks |-> HolderOf(task'[u])]
    BY DEF holder, HolderOf, State
  <2>2. outcome' = [u \in Tasks |-> OutcomeOf(task'[u])]
    BY DEF outcome, OutcomeOf, State
  <2>3. \A u \in Tasks : task'[u] = IF u = t THEN Live(r) ELSE task[u]
    BY <1>1
  <2>4. HolderOf(Live(r)) = h /\ OutcomeOf(Live(r)) = o
    BY MappedRecord
  <2> HIDE DEF h, o
  <2>5. QED BY <2>1, <2>2, <2>3, <2>4, Mapped
<1>3. /\ h \in Agents \union {None} /\ o \in {"open", "done", "closed"}
      /\ h # None => o = "open"
  BY MappedRecord
<1>4. /\ holder[t] = HolderOf(task[t]) /\ outcome[t] = OutcomeOf(task[t])
      /\ holder[t] # None => outcome[t] = "open"
      /\ outcome[t] \in {"open", "done", "closed"}
  BY <1>1, MappedRecord, Mapped
<1>5. holder = [holder EXCEPT ![t] = holder[t]] /\ outcome = [outcome EXCEPT ![t] = outcome[t]]
  BY Mapped
<1>6. \/ h = holder[t] /\ o = outcome[t]
      \/ holder[t] = None /\ h # None
      \/ holder[t] # None /\ h = None
      \/ h = None /\ o = "closed"
      \/ holder[t] = None /\ h = None /\ o = "open"
  BY <1>4 DEF Moves
<1> HIDE DEF h, o
<1>7. CASE h = holder[t] /\ o = outcome[t]
  BY <1>2, <1>5, <1>7
<1>8. CASE holder[t] = None /\ h # None
  <2>1. Hold!Take(t, h)
    BY <1>2, <1>3, <1>8 DEF Hold!Take
  <2>2. QED BY <2>1, <1>3, <1>8 DEF Hold!Next
<1>9. CASE holder[t] # None /\ h = None
  <2>1. CASE o = "open"
    <3>1. Hold!Drop(t)
      BY <1>2, <1>4, <1>5, <1>9, <2>1 DEF Hold!Drop
    <3>2. QED BY <3>1 DEF Hold!Next
  <2>2. CASE o = "done"
    <3>1. Hold!Complete(t)
      BY <1>2, <1>4, <1>9, <2>2 DEF Hold!Complete
    <3>2. QED BY <3>1 DEF Hold!Next
  <2>3. CASE o = "closed"
    <3>1. Hold!Close(t)
      BY <1>2, <1>9, <2>3 DEF Hold!Close
    <3>2. QED BY <3>1 DEF Hold!Next
  <2>4. QED BY <1>3, <2>1, <2>2, <2>3
<1>10. CASE h = None /\ o = "closed"
  <2>1. Hold!Close(t)
    BY <1>2, <1>10 DEF Hold!Close
  <2>2. QED BY <2>1 DEF Hold!Next
<1>11. CASE holder[t] = None /\ h = None /\ o = "open" /\ outcome[t] # "open"
  <2>1. Hold!Reopen(t)
    BY <1>2, <1>5, <1>11 DEF Hold!Reopen
  <2>2. QED BY <2>1 DEF Hold!Next
<1>12. QED BY <1>6, <1>7, <1>8, <1>9, <1>10, <1>11

LEMMA NothingMoves ==
  ASSUME UNCHANGED task
  PROVE  [Hold!Next]_<<holder, outcome>>
BY DEF holder, outcome, State

-----------------------------------------------------------------------------
(* The request handlers.                                                   *)

LEMMA HandlersMap ==
  ASSUME IInv, NEW t \in Tasks, Handlers(t)
  PROVE  [Hold!Next]_<<holder, outcome>>
<1>1. task[t] \in TaskRecord /\ 0 \in 0 .. ClaimAgeCap /\ 0 \in 0 .. TaskTimeout
  BY CapsAreNat DEF IInv, TypeOK
<1>2. ASSUME NEW a \in Assignees \union {None}, CreateTask(t, a)
      PROVE  [Hold!Next]_<<holder, outcome>>
  <2>1. NewTask(a) \in TaskRecord /\ NewTask(a).state = "created"
    BY TaskAssumption, NewTaskType DEF NewTask
  <2>2. Moves(task[t], NewTask(a)) /\ Set(t, NewTask(a))
    BY <1>2, <2>1 DEF Moves, HolderOf, OutcomeOf, CreateTask, State, Active
  <2>3. QED BY <2>1, <2>2, SetMoves
<1>3. ASSUME NEW a \in Agents, AutoClaim(t, a)
      PROVE  [Hold!Next]_<<holder, outcome>>
  <2> DEFINE r == [task[t] EXCEPT !.state = "claimed", !.claimed_by = System,
                                  !.claimed_age = 0]
  <2>1. r \in TaskRecord /\ r.state = "claimed" /\ r.assigned_to = task[t].assigned_to
    BY <1>1 DEF TaskRecord, States, Active
  <2>2. UNCHANGED task \/ Set(t, r)
    BY <1>3 DEF AutoClaim
  <2> HIDE DEF r
  <2>3. Moves(task[t], r)
    BY <2>1 DEF Moves, HolderOf, OutcomeOf, Active
  <2>4. QED BY <2>1, <2>2, <2>3, SetMoves, NothingMoves
<1>4. ASSUME NEW a \in Agents, ClaimTask(t, a)
      PROVE  [Hold!Next]_<<holder, outcome>>
  <2> DEFINE r == [task[t] EXCEPT !.state = "claimed", !.assigned_to = a,
                                  !.claimed_by = a, !.claimed_age = 0]
  <2>1. r \in TaskRecord /\ r.state = "claimed" /\ r.assigned_to = a
    BY <1>1 DEF TaskRecord, States, Active
  <2>2. Set(t, r) /\ task[t].state = "created"
    BY <1>4 DEF ClaimTask, State
  <2> HIDE DEF r
  <2>3. Moves(task[t], r)
    BY <2>1, <2>2, TaskAssumption DEF Moves, HolderOf, OutcomeOf, Active
  <2>4. QED BY <2>1, <2>2, <2>3, SetMoves
<1>5. ASSUME NEW a \in Agents, AckTask(t, a)
      PROVE  [Hold!Next]_<<holder, outcome>>
  <2> DEFINE r0 == [task[t] EXCEPT !.state = "acked"]
             r == RefreshLease(r0)
  <2>1. r0 \in TaskRecord /\ r0.state = "acked" /\ r0.assigned_to = task[t].assigned_to
    BY <1>1 DEF TaskRecord, States, Active
  <2>2. r \in TaskRecord /\ r.state = "acked" /\ r.assigned_to = task[t].assigned_to
    <3> HIDE DEF r0
    <3> QED BY <2>1, LeaseKeeps
  <2>3. Set(t, r) /\ task[t].state = "claimed"
    BY <1>5 DEF AckTask, State
  <2> HIDE DEF r
  <2>4. Moves(task[t], r)
    BY <2>2, <2>3 DEF Moves, HolderOf, OutcomeOf, Active
  <2>5. QED BY <2>2, <2>3, <2>4, SetMoves
<1>6. ASSUME NEW a \in Agents, CompleteTask(t, a)
      PROVE  [Hold!Next]_<<holder, outcome>>
  <2> DEFINE r == [task[t] EXCEPT !.state = "done", !.done_by = a]
  <2>1. r \in TaskRecord /\ r.state = "done"
    BY <1>1 DEF TaskRecord, States, Active
  <2>2. Set(t, r) /\ task[t].state = "acked" /\ task[t].assigned_to # None
    BY <1>6, TaskAssumption DEF CompleteTask, State, Owns
  <2> HIDE DEF r
  <2>3. Moves(task[t], r)
    BY <2>1, <2>2 DEF Moves, HolderOf, OutcomeOf, Active
  <2>4. QED BY <2>1, <2>2, <2>3, SetMoves
<1>7. ASSUME NEW a \in Agents, CheckIn(t, a)
      PROVE  [Hold!Next]_<<holder, outcome>>
  <2> DEFINE r0 == [task[t] EXCEPT !.checkin_age = 0]
             r == RefreshLease(r0)
  <2>1. r0 \in TaskRecord /\ r0.state = task[t].state /\ r0.assigned_to = task[t].assigned_to
    BY <1>1 DEF TaskRecord
  <2>2. r \in TaskRecord /\ r.state = task[t].state /\ r.assigned_to = task[t].assigned_to
    <3> HIDE DEF r0
    <3> QED BY <2>1, LeaseKeeps
  <2>3. Set(t, r)
    BY <1>7 DEF CheckIn
  <2> HIDE DEF r
  <2>4. Moves(task[t], r)
    BY <2>2 DEF Moves, HolderOf, OutcomeOf
  <2>5. QED BY <2>2, <2>3, <2>4, SetMoves
<1>8. ASSUME NEW a \in Agents, AutoAssign(t, a)
      PROVE  [Hold!Next]_<<holder, outcome>>
  <2> DEFINE r == [task[t] EXCEPT !.assigned_to = a]
  <2>1. r \in TaskRecord /\ r.state = task[t].state
    BY <1>1 DEF TaskRecord
  <2>2. Set(t, r) /\ task[t].state = "created"
    BY <1>8 DEF AutoAssign, State
  <2> HIDE DEF r
  <2>3. Moves(task[t], r)
    BY <2>1, <2>2 DEF Moves, HolderOf, OutcomeOf, Active
  <2>4. QED BY <2>1, <2>2, <2>3, SetMoves
<1>9. ASSUME NEW v \in Verifiers, VerifyTask(t, v)
      PROVE  [Hold!Next]_<<holder, outcome>>
  <2> DEFINE r == [task[t] EXCEPT !.verified_by = v]
  <2>1. r \in TaskRecord /\ r.state = task[t].state /\ r.assigned_to = task[t].assigned_to
    BY <1>1 DEF TaskRecord
  <2>2. Set(t, r)
    BY <1>9 DEF VerifyTask
  <2> HIDE DEF r
  <2>3. Moves(task[t], r)
    BY <2>1 DEF Moves, HolderOf, OutcomeOf
  <2>4. QED BY <2>1, <2>2, <2>3, SetMoves
<1>10. ASSUME NEW a \in Agents \union {None}, ReassignTask(t, a)
       PROVE  [Hold!Next]_<<holder, outcome>>
  <2> DEFINE r0 == WhenReassigned(task[t])
             r == [r0 EXCEPT !.assigned_to = a]
  <2>1. /\ r0 \in TaskRecord
        /\ IF task[t].state \in Active THEN r0.state = "created" ELSE r0.state = task[t].state
    BY <1>1, LeaseKeeps DEF WhenReassigned
  <2>2. r \in TaskRecord /\ r.state = r0.state
    <3> HIDE DEF r0
    <3> QED BY <2>1 DEF TaskRecord
  <2>3. Set(t, r)
    BY <1>10 DEF ReassignTask
  <2> HIDE DEF r, r0
  <2>4. Moves(task[t], r)
    BY <2>1, <2>2 DEF Moves, HolderOf, OutcomeOf, Active
  <2>5. QED BY <2>2, <2>3, <2>4, SetMoves
<1>11. CASE FailTask(t)
  <2> DEFINE n == IF State(t) \in Active THEN Retried(task[t].retry_count)
                  ELSE task[t].retry_count
             r == [task[t] EXCEPT !.state = "failed", !.retry_count = n]
  <2>1. n \in 0 .. RetryCap
    BY <1>1, RetriedType DEF TaskRecord
  <2>2. r \in TaskRecord /\ r.state = "failed"
    <3> HIDE DEF n
    <3> QED BY <1>1, <2>1 DEF TaskRecord, States
  <2>3. Set(t, r)
    BY <1>11 DEF FailTask
  <2> HIDE DEF r
  <2>4. Moves(task[t], r)
    BY <2>2 DEF Moves, HolderOf, OutcomeOf, Active
  <2>5. QED BY <2>2, <2>3, <2>4, SetMoves
<1>12. CASE DeleteTask(t)
  <2> DEFINE r == [task[t] EXCEPT !.state = "deleted"]
  <2>1. r \in TaskRecord /\ r.state = "deleted"
    BY <1>1 DEF TaskRecord, States
  <2>2. Set(t, r)
    BY <1>12 DEF DeleteTask
  <2> HIDE DEF r
  <2>3. Moves(task[t], r)
    BY <2>1 DEF Moves, HolderOf, OutcomeOf, Active
  <2>4. QED BY <2>1, <2>2, <2>3, SetMoves
<1>13. CASE PopEscalation(t)
  BY <1>13, NothingMoves DEF PopEscalation
<1>14. QED BY <1>2, <1>3, <1>4, <1>5, <1>6, <1>7, <1>8, <1>9, <1>10, <1>11, <1>12,
              <1>13 DEF Handlers

-----------------------------------------------------------------------------
(* The owner and the daemon.                                               *)

LEMMA ResolveMaps ==
  ASSUME IInv, Resolve
  PROVE  [Hold!Next]_<<holder, outcome>>
<1>1. PICK o \in OwnerRequests :
        \/ \E t \in Tasks : ResolveCheck(o, t)
        \/ \E a \in Agents : ResolveReassign(o, a)
        \/ ResolveExtend(o) \/ ResolveCancel(o)
  BY DEF Resolve
<1>2. CASE \E t \in Tasks : ResolveCheck(o, t)
  BY <1>2, NothingMoves DEF ResolveCheck
<1>3. SUFFICES ASSUME owner[o] # None PROVE [Hold!Next]_<<holder, outcome>>
  BY <1>1, <1>2 DEF ResolveReassign, ResolveExtend, ResolveCancel
<1> DEFINE t == owner[o]
<1>4. t \in Tasks /\ task[t] \in TaskRecord /\ 0 \in 0 .. TaskTimeout
  BY <1>3, CapsAreNat DEF IInv, TypeOK
<1>5. ASSUME NEW a \in Agents, ResolveReassign(o, a)
      PROVE  [Hold!Next]_<<holder, outcome>>
  <2> DEFINE r0 == BackToCreated(task[t])
             r1 == [r0 EXCEPT !.assigned_to = a, !.checkin_age = None]
             r == ClearLease(r1)
  <2>1. r0 \in TaskRecord /\ r0.state = "created"
    BY <1>4, LeaseKeeps
  <2>2. r1 \in TaskRecord /\ r1.state = "created"
    <3> HIDE DEF r0
    <3> QED BY <2>1 DEF TaskRecord
  <2>3. r \in TaskRecord /\ r.state = "created"
    <3> HIDE DEF r1
    <3> QED BY <2>2, LeaseKeeps
  <2>4. Set(t, r)
    BY <1>5 DEF ResolveReassign, ResolveWith
  <2> HIDE DEF r
  <2>5. Moves(task[t], r)
    BY <2>3 DEF Moves, HolderOf, OutcomeOf, Active
  <2> HIDE DEF t
  <2>6. QED BY <1>4, <2>3, <2>4, <2>5, SetMoves
<1>6. CASE ResolveExtend(o)
  <2> DEFINE r0 == [task[t] EXCEPT !.checkin_age = 0]
             r == RefreshLease(r0)
  <2>1. r0 \in TaskRecord /\ r0.state = task[t].state /\ r0.assigned_to = task[t].assigned_to
    BY <1>4 DEF TaskRecord
  <2>2. r \in TaskRecord /\ r.state = task[t].state /\ r.assigned_to = task[t].assigned_to
    <3> HIDE DEF r0
    <3> QED BY <2>1, LeaseKeeps
  <2>3. Set(t, r)
    BY <1>6 DEF ResolveExtend, ResolveWith
  <2> HIDE DEF r
  <2>4. Moves(task[t], r)
    BY <2>2 DEF Moves, HolderOf, OutcomeOf
  <2> HIDE DEF t
  <2>5. QED BY <1>4, <2>2, <2>3, <2>4, SetMoves
<1>7. CASE ResolveCancel(o)
  <2> DEFINE r0 == [task[t] EXCEPT !.state = "failed"]
             r == ClearLease(r0)
  <2>1. r0 \in TaskRecord /\ r0.state = "failed"
    BY <1>4 DEF TaskRecord, States
  <2>2. r \in TaskRecord /\ r.state = "failed"
    <3> HIDE DEF r0
    <3> QED BY <2>1, LeaseKeeps
  <2>3. Set(t, r)
    BY <1>7 DEF ResolveCancel, ResolveWith
  <2> HIDE DEF r
  <2>4. Moves(task[t], r)
    BY <2>2 DEF Moves, HolderOf, OutcomeOf, Active
  <2> HIDE DEF t
  <2>5. QED BY <1>4, <2>2, <2>3, <2>4, SetMoves
<1>8. QED BY <1>1, <1>2, <1>5, <1>6, <1>7

LEMMA RequeueMaps ==
  ASSUME IInv, NEW s \in daemon.todo, State(s.task) \in Active,
         Set(s.task, RequeueOrFail(s.task, Retried(s.retry)))
  PROVE  [Hold!Next]_<<holder, outcome>>
<1> DEFINE r == RequeueOrFail(s.task, Retried(s.retry))
<1>1. s.task \in Tasks /\ Retried(s.retry) \in 0 .. RetryCap
  BY RetriedType DEF IInv, TypeOK, Snapshot
<1>2. task[s.task] \in TaskRecord /\ task[s.task].state \in Active
  BY <1>1 DEF IInv, TypeOK, State
<1>3. r \in TaskRecord /\ r.state \in {"created", "failed"}
  BY <1>1, RequeueOrFailType DEF IInv, TypeOK
<1> HIDE DEF r
<1>4. Moves(task[s.task], r)
  BY <1>2, <1>3 DEF Moves, HolderOf, OutcomeOf, Active
<1>5. QED BY <1>1, <1>3, <1>4, SetMoves DEF r

\* The tasks that nobody took in time are closed together.
LEMMA ExpiryMaps ==
  ASSUME IInv, ExpireUnclaimed
  PROVE  [Hold!Next]_<<holder, outcome>>
<1> DEFINE S == {t \in Tasks : Expired(task[t])}
           r(t) == Live(ClearLease([task[t] EXCEPT !.state = "failed"]))
<1>1. ASSUME NEW t \in Tasks
      PROVE  r(t) \in TaskRecord /\ r(t).state = "failed"
  <2> DEFINE r0 == [task[t] EXCEPT !.state = "failed"]
             r1 == ClearLease(r0)
  <2>1. r0 \in TaskRecord /\ r0.state = "failed"
    <3>1. task[t] \in TaskRecord
      BY DEF IInv, TypeOK
    <3>2. QED BY <3>1 DEF TaskRecord, States
  <2>2. r1 \in TaskRecord /\ r1.state = "failed"
    <3> HIDE DEF r0
    <3> QED BY <2>1, LeaseKeeps
  <2> HIDE DEF r1
  <2>3. Live(r1) \in TaskRecord /\ Live(r1).state = "failed"
    BY <2>2, LiveKeeps
  <2>4. QED BY <2>3 DEF r1
<1>2. \A t \in Tasks : task'[t] = IF t \in S THEN r(t) ELSE task[t]
  BY DEF ExpireUnclaimed
<1> HIDE DEF r
<1>3. \A t \in S : HolderOf(task[t]) = None /\ OutcomeOf(task[t]) = "open"
  BY DEF Expired, HolderOf, OutcomeOf, Active
<1>4. \A t \in Tasks : HolderOf(r(t)) = None /\ OutcomeOf(r(t)) = "closed"
  BY <1>1 DEF HolderOf, OutcomeOf, Active
<1>5. holder' = [t \in Tasks |-> HolderOf(task'[t])] /\ outcome' = [t \in Tasks |-> OutcomeOf(task'[t])]
  BY DEF holder, outcome, HolderOf, OutcomeOf, State
<1> HIDE DEF S
<1>6. S \subseteq Tasks
  BY DEF S
<1>7. Hold!CloseUnheld(S)
  <2>1. \A t \in Tasks : holder[t] = HolderOf(task[t]) /\ outcome[t] = OutcomeOf(task[t])
    BY Mapped
  <2>2. \A t \in S : holder[t] = None /\ outcome[t] = "open"
    BY <1>3, <1>6, <2>1
  <2>3. outcome' = [t \in Tasks |-> IF t \in S THEN "closed" ELSE outcome[t]]
    BY <1>2, <1>4, <1>5, <2>1
  <2>4. holder' = holder
    BY <1>2, <1>3, <1>4, <1>5, <2>1, Mapped
  <2>5. QED BY <2>2, <2>3, <2>4 DEF Hold!CloseUnheld
<1>8. QED BY <1>6, <1>7 DEF Hold!Next

LEMMA DaemonMaps ==
  ASSUME IInv, Daemon
  PROVE  [Hold!Next]_<<holder, outcome>>
<1>1. ASSUME NEW s \in daemon.todo, AckStep(s) \/ OrphanStep(s)
      PROVE  [Hold!Next]_<<holder, outcome>>
  <2>1. \/ UNCHANGED task
        \/ /\ State(s.task) \in Active
           /\ Set(s.task, RequeueOrFail(s.task, Retried(s.retry)))
    BY <1>1 DEF AckStep, OrphanStep, StillIn, Active
  <2>2. QED BY <2>1, NothingMoves, RequeueMaps
<1>2. CASE ExpireUnclaimed
  BY <1>2, ExpiryMaps
<1>3. CASE \/ AckScan \/ TimeoutScan \/ OrphanPop \/ DaemonDone
           \/ \E s \in daemon.todo : EscalateStep(s)
  BY <1>3, NothingMoves DEF AckScan, TimeoutScan, OrphanPop, DaemonDone, EscalateStep
<1>4. QED BY <1>1, <1>2, <1>3 DEF Daemon

\* Time changes ages only.
LEMMA TickMaps ==
  ASSUME IInv, Tick
  PROVE  [Hold!Next]_<<holder, outcome>>
<1>1. ASSUME NEW t \in Tasks
      PROVE  /\ task'[t].state = task[t].state
             /\ task'[t].assigned_to = task[t].assigned_to
  <2>1. task[t] \in TaskRecord
    BY DEF IInv, TypeOK
  <2>2. /\ Aged(task[t]) \in TaskRecord /\ Aged(task[t]).state = task[t].state
        /\ Aged(task[t]).assigned_to = task[t].assigned_to
    BY <2>1, AgedType DEF Aged, TaskRecord
  <2> DEFINE r == Aged(task[t])
  <2> HIDE DEF r
  <2>3. Live(r).state = task[t].state /\ Live(r).assigned_to = task[t].assigned_to
    BY <2>2, LiveKeeps DEF r
  <2>4. task'[t] = task[t] \/ task'[t] = Live(r)
    BY DEF Tick, r
  <2>5. QED BY <2>3, <2>4
<1>2. holder' = holder /\ outcome' = outcome
  BY <1>1 DEF holder, outcome, State
<1>3. QED BY <1>2

-----------------------------------------------------------------------------

LEMMA InitMaps == Init => Hold!Init
BY DEF Init, Hold!Init, holder, outcome, State, NoTask, NewTask, Active

LEMMA NextMaps == IInv /\ [Next]_vars => [Hold!Next]_<<holder, outcome>>
<1> SUFFICES ASSUME IInv, [Next]_vars PROVE [Hold!Next]_<<holder, outcome>>
  OBVIOUS
<1>1. CASE Restart \/ (\E a \in Agents : Connect(a)) \/ UNCHANGED vars
  BY <1>1, NothingMoves DEF Restart, Connect, vars
<1>2. QED BY <1>1, HandlersMap, ResolveMaps, DaemonMaps, TickMaps DEF Next

\* Whatever requests, owners, the daemon and restarts interleave, a task changes
\* hands through the pool only and is finished only out of the hands of its holder.
THEOREM ImplementsHoldAlways == Spec => ImplementsHold
BY InitMaps, NextMaps, Invariance, PTL DEF Spec, ImplementsHold, Hold!Spec

=============================================================================
