----------------------------- MODULE GuardsProofs -----------------------------
(***************************************************************************)
(* Proofs about what guards things that requests compete for: ScopeLocks,  *)
(* for any paths and any nesting of them, any tasks, agents, requests and  *)
(* ttl values, with or without failing disks; and AgentRestart, for any    *)
(* number of workers, agents and overlapping shutdowns, any breaker and    *)
(* any cooldown.                                                           *)
(***************************************************************************)
EXTENDS ScopeLocks, AgentRestart, FiniteSetTheorems, TLAPS

-----------------------------------------------------------------------------
(* Scope locks.                                                            *)

IInv == TypeOK /\ Exclusive(locks) /\ Exclusive(disk)

-----------------------------------------------------------------------------
(* Entries and tables.                                                     *)

LEMMA FreeIsNoEntry ==
  /\ \A e \in Entry : e # Free /\ e.task \in Tasks
  /\ Free.task = None /\ None \notin Tasks
BY ScopeAssumption, RosterAssumption DEF Entry, Free

LEMMA TableEntry ==
  ASSUME NEW L \in Table, NEW p \in Paths
  PROVE  /\ L[p] # Free => L[p] \in Entry
         /\ L[p].task \in Tasks => L[p] \in Entry
BY FreeIsNoEntry DEF Table

\* A table M that has only entries of L, of the same task and kind, is as
\* exclusive as L.
Within(M, L) ==
  \A p \in Paths : M[p] # Free =>
    L[p] # Free /\ M[p].task = L[p].task /\ M[p].kind = L[p].kind

LEMMA WithinExclusive ==
  ASSUME NEW L, NEW M, Exclusive(L), Within(M, L)
  PROVE  Exclusive(M)
BY DEF Exclusive, Within

LEMMA LeaseTypes ==
  /\ -1 \in Leases /\ TTLs \subseteq Leases
  /\ \A n \in Leases : n \in Int /\ (n >= 0 => n - 1 \in Leases)
<1>1. TTLs \subseteq Nat
  BY ScopeAssumption, RosterAssumption
<1>2. TTLs \subseteq Leases
  BY <1>1 DEF Leases
<1>3. ASSUME NEW n \in Leases
      PROVE  n \in Int /\ (n >= 0 => n - 1 \in Leases)
  <2>1. CASE n = -1
    BY <2>1
  <2>2. CASE n # -1
    <3>1. PICK m \in TTLs : n \in 0 .. m
      BY <2>2 DEF Leases
    <3>2. m \in Nat /\ n \in Int /\ (n = 0 => n - 1 = -1) /\ (n > 0 => n - 1 \in 0 .. m)
      BY <1>1, <3>1
    <3>3. CASE n = 0
      BY <3>2, <3>3 DEF Leases
    <3>4. CASE n > 0
      BY <3>1, <3>2, <3>4 DEF Leases
    <3>5. QED BY <3>1, <3>2, <3>3, <3>4, <1>1
  <2>3. QED BY <2>1, <2>2
<1>4. QED BY <1>2, <1>3 DEF Leases

LEMMA WithoutType ==
  ASSUME locks \in Table, NEW S
  PROVE  Without(S) \in Table /\ Within(Without(S), locks)
BY DEF Without, Table, Within

LEMMA PersistKeeps ==
  ASSUME IInv, locks' \in Table, Exclusive(locks'), Persist \/ UNCHANGED disk
  PROVE  disk' \in Table /\ Exclusive(disk')
BY DEF Persist, IInv, TypeOK, Exclusive

LEMMA ReleaseKeeps ==
  ASSUME IInv, NEW t, NEW S, Release(t, S)
  PROVE  locks' \in Table /\ Exclusive(locks)' /\ disk' \in Table /\ Exclusive(disk)'
<1>1. locks' \in Table /\ Within(locks', locks)
  BY WithoutType DEF Release, IInv, TypeOK
<1>2. Exclusive(locks')
  BY <1>1, WithinExclusive DEF IInv
<1>3. disk' \in Table /\ Exclusive(disk')
  BY <1>1, <1>2, PersistKeeps DEF Release
<1>4. QED BY <1>1, <1>2, <1>3 DEF Exclusive

-----------------------------------------------------------------------------
(* Requests.                                                               *)

LEMMA LockRequestIs ==
  ASSUME IInv, NEW r \in Requests
  PROVE  /\ req[r].pc \in {"lock", "rollback"} => req[r] \in LockRequest
         /\ req[r].pc = "unlock" => req[r] \in UnlockRequest
BY DEF IInv, TypeOK, LockRequest, UnlockRequest, Idle

LEMMA StartLockKeeps ==
  ASSUME IInv, NEW r \in Requests, NEW t \in Tasks, NEW a \in Agents, NEW k \in Kinds,
         NEW n \in TTLs, NEW P \in SUBSET Paths, StartLock(r, t, a, k, n, P)
  PROVE  IInv'
<1>1. req' \in [Requests -> LockRequest \union UnlockRequest \union {Idle}]
  <2> DEFINE q == [pc |-> "lock", task |-> t, agent |-> a, kind |-> k, ttl |-> n,
                   todo |-> P, got |-> {}, refused |-> FALSE]
  <2>1. q \in LockRequest
    BY DEF LockRequest, LocksOf
  <2>2. req' = [req EXCEPT ![r] = q]
    BY DEF StartLock
  <2> HIDE DEF q
  <2>3. QED BY <2>1, <2>2 DEF IInv, TypeOK
<1>2. QED BY <1>1 DEF StartLock, IInv, TypeOK, Exclusive

LEMMA AnsweredType ==
  ASSUME IInv, NEW r \in Requests, NEW p \in Paths, req[r].pc = "lock",
         \/ Answered(r, p, "got", req[r].got \union {p})
         \/ Answered(r, p, "refused", TRUE)
  PROVE  req' \in [Requests -> LockRequest \union UnlockRequest \union {Idle}]
<1>1. req[r] \in LockRequest /\ req \in [Requests -> LockRequest \union UnlockRequest \union {Idle}]
  BY LockRequestIs DEF IInv, TypeOK
<1>2. PICK q \in LockRequest : req' = [req EXCEPT ![r] = q]
  <2>1. CASE Answered(r, p, "got", req[r].got \union {p})
    <3> DEFINE q == [req[r] EXCEPT !.todo = @ \ {p}, !.got = req[r].got \union {p}]
    <3>1. q \in LockRequest
      BY <1>1 DEF LockRequest
    <3>2. req' = [req EXCEPT ![r] = q]
      BY <2>1, <1>1 DEF Answered, LockRequest
    <3>3. QED BY <3>1, <3>2
  <2>2. CASE Answered(r, p, "refused", TRUE)
    <3> DEFINE q == [req[r] EXCEPT !.todo = @ \ {p}, !.refused = TRUE]
    <3>1. q \in LockRequest
      BY <1>1 DEF LockRequest
    <3>2. req' = [req EXCEPT ![r] = q]
      BY <2>2, <1>1 DEF Answered, LockRequest
    <3>3. QED BY <3>1, <3>2
  <2>3. QED BY <2>1, <2>2
<1>3. QED BY <1>1, <1>2

LEMMA ExtendPathKeeps ==
  ASSUME IInv, NEW r \in Requests, NEW p \in Paths, ExtendPath(r, p)
  PROVE  IInv'
<1>1. req' \in [Requests -> LockRequest \union UnlockRequest \union {Idle}]
  BY AnsweredType DEF ExtendPath
<1>2. req[r] \in LockRequest
  BY LockRequestIs DEF ExtendPath
<1> DEFINE n == req[r].ttl
           e == [locks[p] EXCEPT !.ttl = n, !.left = n]
<1>3. n \in TTLs /\ n \in Leases /\ locks[p] \in Entry
  BY <1>2, LeaseTypes, TableEntry DEF LockRequest, ExtendPath, IInv, TypeOK
<1>4. e \in Entry /\ e.task = locks[p].task /\ e.kind = locks[p].kind
  <2> HIDE DEF n
  <2> QED BY <1>3 DEF Entry
<1>5. locks' = [locks EXCEPT ![p] = e]
  BY <1>3 DEF ExtendPath, IInv, TypeOK, Table, Entry
<1> HIDE DEF e
<1>6. locks' \in Table /\ Within(locks', locks)
  BY <1>3, <1>4, <1>5, FreeIsNoEntry DEF Within, Table, IInv, TypeOK
<1>7. Exclusive(locks')
  BY <1>6, WithinExclusive DEF IInv
<1>8. QED BY <1>1, <1>6, <1>7 DEF ExtendPath, IInv, TypeOK, Exclusive

\* No live lock in the way and no expired one left: the new entry collides with
\* nothing in the table.
LEMMA GrantPathKeeps ==
  ASSUME IInv, NEW r \in Requests, NEW p \in Paths, GrantPath(r, p)
  PROVE  IInv'
<1>1. req' \in [Requests -> LockRequest \union UnlockRequest \union {Idle}]
  BY AnsweredType DEF GrantPath
<1> DEFINE q == req[r]
           M == Without(ExpiredPaths)
           e == [task |-> q.task, agent |-> q.agent, kind |-> q.kind, ttl |-> q.ttl,
                 left |-> q.ttl]
<1>2. q \in LockRequest
  BY LockRequestIs DEF GrantPath
<1>3. e \in Entry /\ e.task = q.task /\ e.kind = q.kind
  <2>1. q.ttl \in TTLs /\ q.ttl \in Leases
    BY <1>2, LeaseTypes DEF LockRequest
  <2>2. QED BY <1>2, <2>1 DEF LockRequest, Entry
<1>4. M \in Table /\ Within(M, locks) /\ Exclusive(M)
  BY WithoutType, WithinExclusive DEF IInv, TypeOK
<1>5. locks' = [M EXCEPT ![p] = e]
  BY DEF GrantPath
<1>6. ASSUME NEW u \in Paths, u # p, M[u] # Free, M[u].task # q.task
      PROVE  ~Overlaps(p, q.kind, u)
  <2>1. Taken(u) /\ ~Expired(locks[u]) /\ M[u] = locks[u]
    BY <1>6 DEF Without, ExpiredPaths, Taken
  <2>2. u \notin Blockers(p, q.kind, q.task)
    BY DEF GrantPath
  <2>3. QED BY <1>6, <2>1, <2>2 DEF Blockers
<1>7. ASSUME NEW u \in Paths, M[u] # Free
      PROVE  M[u] = locks[u]
  BY <1>7 DEF Without
<1> HIDE DEF M, e
<1>8. locks' \in Table /\ \A u \in Paths : locks'[u] = IF u = p THEN e ELSE M[u]
  BY <1>3, <1>4, <1>5 DEF Table
<1>9. Exclusive(locks')
  <2> SUFFICES ASSUME NEW u \in Paths, NEW v \in Paths, locks'[u] # Free, locks'[v] # Free,
                      locks'[u].task # locks'[v].task, locks'[u].kind = "directory",
                      <<v, u>> \in Under
               PROVE  FALSE
    BY DEF Exclusive
  <2>1. CASE u # p /\ v # p
    BY <1>4, <1>8, <2>1 DEF Exclusive
  <2>2. CASE u = p /\ v # p
    <3>1. M[v] # Free /\ M[v].task # q.task /\ q.kind = "directory"
      BY <1>3, <1>8, <2>2
    <3>2. QED BY <1>6, <2>2, <3>1 DEF Overlaps
  <2>3. CASE u # p /\ v = p
    <3>1. M[u] # Free /\ M[u].task # q.task /\ locks[u].kind = "directory"
      BY <1>3, <1>7, <1>8, <2>3
    <3>2. QED BY <1>6, <2>3, <3>1 DEF Overlaps
  <2>4. CASE u = p /\ v = p
    BY <2>4
  <2>5. QED BY <2>1, <2>2, <2>3, <2>4
<1>10. disk' \in Table /\ Exclusive(disk')
  BY <1>8, <1>9, PersistKeeps DEF GrantPath
<1>11. QED BY <1>1, <1>8, <1>9, <1>10 DEF GrantPath, IInv, TypeOK, Exclusive

LEMMA RefusePathKeeps ==
  ASSUME IInv, NEW r \in Requests, NEW p \in Paths, RefusePath(r, p)
  PROVE  IInv'
<1>1. req' \in [Requests -> LockRequest \union UnlockRequest \union {Idle}]
  BY AnsweredType DEF RefusePath
<1>2. locks' \in Table /\ Within(locks', locks)
  BY WithoutType DEF RefusePath, IInv, TypeOK
<1>3. Exclusive(locks')
  BY <1>2, WithinExclusive DEF IInv
<1>4. QED BY <1>1, <1>2, <1>3 DEF RefusePath, IInv, TypeOK, Exclusive

LEMMA RollbackPathKeeps ==
  ASSUME IInv, NEW r \in Requests, NEW p \in Paths, RollbackPath(r, p)
  PROVE  IInv'
<1>1. req' \in [Requests -> LockRequest \union UnlockRequest \union {Idle}]
  <2> DEFINE q == [req[r] EXCEPT !.got = @ \ {p}]
  <2>1. req[r] \in LockRequest
    BY LockRequestIs DEF RollbackPath
  <2>2. q \in LockRequest
    BY <2>1 DEF LockRequest
  <2>3. req' = [req EXCEPT ![r] = q]
    BY DEF RollbackPath
  <2> HIDE DEF q
  <2>4. QED BY <2>2, <2>3 DEF IInv, TypeOK
<1>2. QED BY <1>1, ReleaseKeeps DEF RollbackPath, IInv, TypeOK

LEMMA FinishKeeps ==
  ASSUME IInv, NEW r \in Requests, FinishLock(r) \/ Refused(r) \/ FinishUnlock(r)
  PROVE  IInv'
<1> DEFINE R == LockRequest \union UnlockRequest \union {Idle}
<1>1. CASE FinishLock(r)
  <2> DEFINE q == [req[r] EXCEPT !.pc = "rollback"]
  <2>1. req[r] \in LockRequest
    BY <1>1, LockRequestIs DEF FinishLock
  <2>2. q \in R
    BY <2>1 DEF LockRequest
  <2>3. req' = [req EXCEPT ![r] = q] \/ req' = [req EXCEPT ![r] = Idle]
    BY <1>1 DEF FinishLock
  <2> HIDE DEF q
  <2>4. req' \in [Requests -> R]
    BY <2>2, <2>3 DEF IInv, TypeOK
  <2>5. QED BY <1>1, <2>4 DEF FinishLock, IInv, TypeOK, Exclusive
<1>2. CASE Refused(r)
  BY <1>2 DEF Refused, IInv, TypeOK, Exclusive
<1>3. CASE FinishUnlock(r)
  <2>1. req' \in [Requests -> R]
    BY <1>3 DEF FinishUnlock, IInv, TypeOK
  <2>2. QED BY <1>3, <2>1, ReleaseKeeps DEF FinishUnlock, IInv, TypeOK
<1>4. QED BY <1>1, <1>2, <1>3

LEMMA StartUnlockKeeps ==
  ASSUME IInv, NEW r \in Requests, NEW t \in Tasks, NEW a \in Agents \union {None},
         NEW P \in SUBSET Paths, StartUnlock(r, t, a, P)
  PROVE  IInv'
<1> DEFINE S == IF P = {} THEN Paths ELSE P
           q == [pc |-> "unlock", task |-> t, todo |-> S]
<1>1. q \in UnlockRequest
  BY DEF UnlockRequest
<1>2. req' = [req EXCEPT ![r] = q]
  BY DEF StartUnlock
<1> HIDE DEF q
<1>3. req' \in [Requests -> LockRequest \union UnlockRequest \union {Idle}]
  BY <1>1, <1>2 DEF IInv, TypeOK
<1>4. QED BY <1>3 DEF StartUnlock, IInv, TypeOK, Exclusive

LEMMA RequestKeeps ==
  ASSUME IInv, NEW r \in Requests, Request(r)
  PROVE  IInv'
BY StartLockKeeps, StartUnlockKeeps, ExtendPathKeeps, GrantPathKeeps, RefusePathKeeps,
   RollbackPathKeeps, FinishKeeps DEF Request

-----------------------------------------------------------------------------
(* Task steps, cleanup, time and restarts.                                 *)

LEMMA TaskStepsKeep ==
  ASSUME IInv, NEW t \in Tasks,
         \/ \E a \in Agents : TakeTask(t, a)
         \/ LeaveTask(t) \/ EndTask(t) \/ CheckIn(t)
  PROVE  IInv'
BY DEF TakeTask, LeaveTask, EndTask, CheckIn, IInv, TypeOK, Exclusive

LEMMA ReleaseAtEndKeeps ==
  ASSUME IInv, NEW t \in Tasks, ReleaseAtEnd(t)
  PROVE  IInv'
BY ReleaseKeeps DEF ReleaseAtEnd, IInv, TypeOK

LEMMA RefreshLocksKeeps ==
  ASSUME IInv, NEW t \in Tasks, RefreshLocks(t)
  PROVE  IInv'
<1> DEFINE e(p) == [locks[p] EXCEPT !.left = locks[p].ttl]
<1>1. ASSUME NEW p \in LocksOf(t)
      PROVE  /\ locks[p] \in Entry /\ e(p) \in Entry
             /\ e(p).task = locks[p].task /\ e(p).kind = locks[p].kind
  <2>1. locks[p] \in Entry
    BY TableEntry DEF LocksOf, IInv, TypeOK
  <2>2. locks[p].ttl \in Leases
    BY <2>1, LeaseTypes DEF Entry
  <2>3. QED BY <2>1, <2>2 DEF Entry
<1>2. locks' = [p \in Paths |-> IF p \in LocksOf(t) THEN e(p) ELSE locks[p]]
  BY DEF RefreshLocks
<1> HIDE DEF e
<1>3. locks' \in Table /\ Within(locks', locks)
  BY <1>1, <1>2, FreeIsNoEntry DEF Table, Within, IInv, TypeOK
<1>4. Exclusive(locks')
  BY <1>3, WithinExclusive DEF IInv
<1>5. disk' \in Table /\ Exclusive(disk')
  BY <1>3, <1>4, PersistKeeps DEF RefreshLocks
<1>6. QED BY <1>3, <1>4, <1>5 DEF RefreshLocks, IInv, TypeOK, Exclusive

LEMMA CleanupKeeps ==
  ASSUME IInv, Cleanup
  PROVE  IInv'
<1>1. locks' \in Table /\ Within(locks', locks)
  BY WithoutType DEF Cleanup, IInv, TypeOK
<1>2. Exclusive(locks')
  BY <1>1, WithinExclusive DEF IInv
<1>3. disk' \in Table /\ Exclusive(disk')
  BY <1>1, <1>2, PersistKeeps DEF Cleanup
<1>4. QED BY <1>1, <1>2, <1>3 DEF Cleanup, IInv, TypeOK, Exclusive

LEMMA OlderTable ==
  ASSUME NEW L \in Table, Exclusive(L)
  PROVE  [p \in Paths |-> Older(L[p])] \in Table /\ Exclusive([p \in Paths |-> Older(L[p])])
<1> DEFINE M == [p \in Paths |-> Older(L[p])]
<1>1. ASSUME NEW p \in Paths
      PROVE  /\ Older(L[p]) \in Entry \union {Free}
             /\ Older(L[p]) # Free => /\ L[p] # Free /\ Older(L[p]).task = L[p].task
                                     /\ Older(L[p]).kind = L[p].kind
  <2>1. CASE L[p] = Free
    BY <2>1 DEF Older
  <2>2. CASE L[p] # Free
    <3>1. L[p] \in Entry
      BY <2>2, TableEntry
    <3>2. L[p].left \in Leases
      BY <3>1 DEF Entry
    <3>3. CASE L[p].left >= 0
      <4>1. L[p].left - 1 \in Leases
        BY <3>2, <3>3, LeaseTypes
      <4>2. QED BY <2>2, <3>1, <3>3, <4>1 DEF Older, Entry
    <3>4. CASE ~(L[p].left >= 0)
      BY <2>2, <3>1, <3>4 DEF Older
    <3>5. QED BY <3>3, <3>4
  <2>3. QED BY <2>1, <2>2
<1>2. M \in Table /\ Within(M, L)
  BY <1>1 DEF Table, Within
<1>3. QED BY <1>2, WithinExclusive

LEMMA TickKeeps ==
  ASSUME IInv, Tick
  PROVE  IInv'
<1>1. locks' \in Table /\ Exclusive(locks') /\ disk' \in Table /\ Exclusive(disk')
  BY OlderTable DEF Tick, IInv, TypeOK
<1>2. QED BY <1>1 DEF Tick, IInv, TypeOK, Exclusive

LEMMA RestartKeeps ==
  ASSUME IInv, Restart
  PROVE  IInv'
<1>1. locks' \in Table /\ Within(locks', disk)
  BY DEF Restart, Table, Within, IInv, TypeOK
<1>2. Exclusive(locks')
  BY <1>1, WithinExclusive DEF IInv
<1>3. restarts' \in 0 .. MaxRestarts
  BY ScopeAssumption, RosterAssumption DEF Restart, IInv, TypeOK
<1>4. QED BY <1>1, <1>2, <1>3 DEF Restart, IInv, TypeOK, Exclusive

-----------------------------------------------------------------------------
(* The invariant.                                                          *)

LEMMA InitIInv == Init => IInv
<1> SUFFICES ASSUME Init PROVE IInv
  OBVIOUS
<1>1. locks \in Table /\ disk \in Table /\ Exclusive(locks) /\ Exclusive(disk)
  BY DEF Init, Table, Exclusive
<1>2. QED BY <1>1, ScopeAssumption, RosterAssumption DEF Init, IInv, TypeOK

LEMMA NextIInv == IInv /\ [Next]_vars => IInv'
<1> SUFFICES ASSUME IInv, [Next]_vars PROVE IInv'
  OBVIOUS
<1>1. CASE \E r \in Requests : Request(r)
  BY <1>1, RequestKeeps
<1>2. CASE \E t \in Tasks, a \in Agents : TakeTask(t, a)
  BY <1>2, TaskStepsKeep
<1>3. CASE \E t \in Tasks : \/ LeaveTask(t) \/ EndTask(t)
                           \/ ReleaseAtEnd(t) \/ CheckIn(t) \/ RefreshLocks(t)
  BY <1>3, TaskStepsKeep, ReleaseAtEndKeeps, RefreshLocksKeeps
<1>4. CASE Cleanup \/ Tick \/ Restart
  BY <1>4, CleanupKeeps, TickKeeps, RestartKeeps
<1>5. CASE UNCHANGED vars
  BY <1>5 DEF vars, IInv, TypeOK, Exclusive
<1>6. QED BY <1>1, <1>2, <1>3, <1>4, <1>5 DEF Next

THEOREM Invariance == Spec => []IInv
BY InitIInv, NextIInv, PTL DEF Spec

\* Every reachable state of the lock table, its file and the requests is well typed.
THEOREM TypeCorrect == Spec => []TypeOK
<1>1. IInv => TypeOK
  BY DEF IInv
<1>2. QED BY Invariance, <1>1, PTL

\* Two tasks never hold colliding entries, whatever the nesting of the paths, and
\* although requests lock path by path, expired entries come back by a refresh,
\* and the table is reloaded from a file that may be stale.
THEOREM ExclusionAlways == Spec => []Exclusion
<1>1. IInv => Exclusion
  BY DEF IInv, Exclusion
<1>2. QED BY Invariance, <1>1, PTL

-----------------------------------------------------------------------------
(* Leases.                                                                 *)

LEMMA ReleaseSteps ==
  ASSUME IInv, NEW t \in Tasks, NEW S, Release(t, S), LeaseEndedBy(t)
  PROVE  LeaseStep
BY DEF Release, Without, LocksOf, LeaseStep

LEMMA WithoutExpiredSteps ==
  ASSUME IInv, NEW S, S \subseteq ExpiredPaths, locks' = Without(S)
  PROVE  LeaseStep
<1> SUFFICES ASSUME NEW p \in Paths, Taken(p), locks[p].left >= 0
             PROVE  locks'[p] = locks[p]
  BY DEF LeaseStep
<1>1. locks[p].left \in Int
  BY TableEntry, LeaseTypes DEF IInv, TypeOK, Taken, Entry
<1>2. p \notin S
  BY <1>1 DEF ExpiredPaths, Expired
<1>3. QED BY <1>2 DEF Without

\* The path a grant is given is free or its entry has expired.
LEMMA GrantSteps ==
  ASSUME IInv, NEW r \in Requests, NEW p \in Paths, GrantPath(r, p)
  PROVE  LeaseStep
<1> SUFFICES ASSUME NEW u \in Paths, Taken(u), locks[u].left >= 0
             PROVE  locks'[u] = locks[u]
  BY DEF LeaseStep
<1>1. locks[u].left \in Int
  BY TableEntry, LeaseTypes DEF IInv, TypeOK, Taken, Entry
<1>2. ~Expired(locks[u]) /\ u \notin ExpiredPaths
  BY <1>1 DEF Expired, ExpiredPaths
<1>3. u # p
  BY <1>2 DEF GrantPath, Blockers
<1> DEFINE M == Without(ExpiredPaths)
<1>4. M[u] = locks[u]
  BY <1>2 DEF Without
<1>5. PICK e : locks' = [M EXCEPT ![p] = e]
  BY DEF GrantPath
<1>6. M \in [Paths -> {M[v] : v \in Paths}]
  BY DEF Without
<1> HIDE DEF M
<1>7. QED BY <1>3, <1>4, <1>5, <1>6

LEMMA RequestSteps ==
  ASSUME IInv, NEW r \in Requests, Request(r)
  PROVE  LeaseStep
<1>1. CASE \E p \in Paths : GrantPath(r, p)
  BY <1>1, GrantSteps
<1>2. CASE \E p \in Paths : ExtendPath(r, p)
  <2>1. PICK p \in Paths : ExtendPath(r, p)
    BY <1>2
  <2>2. locks[p] \in Entry
    BY <2>1, LockRequestIs, TableEntry DEF ExtendPath, LockRequest, IInv, TypeOK
  <2>3. \A u \in Paths : locks'[u].task = locks[u].task
    BY <2>1, <2>2 DEF ExtendPath, Entry, IInv, TypeOK, Table
  <2>4. QED BY <2>3 DEF LeaseStep
<1>3. CASE \E p \in Paths : RefusePath(r, p)
  BY <1>3, WithoutExpiredSteps DEF RefusePath
<1>4. CASE \E p \in Paths : RollbackPath(r, p)
  <2>1. PICK p \in Paths : RollbackPath(r, p)
    BY <1>4
  <2>2. req[r] \in LockRequest
    BY <2>1, LockRequestIs DEF RollbackPath
  <2>3. LeaseEndedBy(req[r].task) /\ req[r].task \in Tasks
    BY <2>1, <2>2 DEF LeaseEndedBy, RollbackPath, LockRequest, Idle
  <2>4. QED BY <2>1, <2>3, ReleaseSteps DEF RollbackPath
<1>5. CASE FinishUnlock(r)
  <2>1. req[r] \in UnlockRequest
    BY <1>5, LockRequestIs DEF FinishUnlock
  <2>2. LeaseEndedBy(req[r].task) /\ req[r].task \in Tasks
    BY <1>5, <2>1 DEF LeaseEndedBy, FinishUnlock, UnlockRequest, Idle
  <2>3. QED BY <1>5, <2>2, ReleaseSteps DEF FinishUnlock
<1>6. CASE UNCHANGED locks
  BY <1>6 DEF LeaseStep
<1>7. QED
  BY <1>1, <1>2, <1>3, <1>4, <1>5, <1>6 DEF Request, StartLock, StartUnlock, FinishLock, Refused

LEMMA NextSteps == IInv /\ [Next]_vars => [LeaseStep]_vars
<1> SUFFICES ASSUME IInv, [Next]_vars PROVE LeaseStep \/ UNCHANGED vars
  OBVIOUS
<1>1. CASE \E r \in Requests : Request(r)
  BY <1>1, RequestSteps
<1>2. CASE \E t \in Tasks : ReleaseAtEnd(t)
  <2>1. PICK t \in Tasks : ReleaseAtEnd(t)
    BY <1>2
  <2>2. QED BY <2>1, ReleaseSteps DEF ReleaseAtEnd, LeaseEndedBy
<1>3. CASE \E t \in Tasks : RefreshLocks(t)
  <2>1. PICK t \in Tasks : RefreshLocks(t)
    BY <1>3
  <2>2. ASSUME NEW p \in Paths
        PROVE  locks'[p].task = locks[p].task
    <3>1. p \in LocksOf(t) => locks[p] \in Entry
      BY TableEntry DEF LocksOf, IInv, TypeOK
    <3>2. QED BY <2>1, <3>1 DEF RefreshLocks, Entry
  <2>3. QED BY <2>2 DEF LeaseStep
<1>4. CASE Cleanup
  BY <1>4, WithoutExpiredSteps DEF Cleanup
<1>5. CASE Tick
  <2>1. ASSUME NEW p \in Paths
        PROVE  locks'[p].task = locks[p].task
    <3>1. locks[p] = Free \/ locks[p] \in Entry
      BY TableEntry DEF IInv, TypeOK
    <3>2. Older(locks[p]).task = locks[p].task
      BY <3>1 DEF Older, Entry
    <3>3. QED BY <1>5, <3>2 DEF Tick
  <2>2. QED BY <2>1 DEF LeaseStep
<1>6. CASE Restart
  <2>1. restarts' # restarts
    BY <1>6 DEF Restart, IInv, TypeOK
  <2>2. QED BY <2>1 DEF LeaseStep, LeaseEndedBy
<1>7. CASE UNCHANGED locks
  BY <1>7 DEF LeaseStep
<1>8. QED
  BY <1>1, <1>2, <1>3, <1>4, <1>5, <1>6, <1>7
  DEF Next, TakeTask, LeaveTask, EndTask, CheckIn, vars

\* No scan, cleanup or rollback of another task ends a lease before its time, for
\* any number of requests under way.
THEOREM LeasesHonoured == Spec => LeaseHonoured
BY Invariance, NextSteps, PTL DEF Spec, LeaseHonoured

-----------------------------------------------------------------------------
(* The restart of agents.                                                  *)

Points == {"idle", "queue", "check", "start", "tick"}
Record == [at : Points, agent : Agents \union {None}, kind : Ways \union {None}]

\* Under a free circuit breaker another failure is allowed.
BreakerLeaves == \A a \in Agents : a \notin blocked => failures[a] < MaxFailures

RespawnInv == WorkersOK /\ CooldownHolds /\ BreakerLeaves /\ BreakerStops

-----------------------------------------------------------------------------
(* The cooldown.                                                           *)

LEMMA CooldownsAreNat ==
  ASSUME NEW n \in Nat
  PROVE  CooldownAfter(n) \in Nat /\ CooldownAfter(n) >= Cooldown
<1> DEFINE k == IF n < MaxDoublings THEN n ELSE MaxDoublings
<1>1. k \in 0 .. MaxDoublings
  BY RespawnAssumption
<1>2. 2 ^ k \in Nat \ {0} /\ Cooldown \in Nat
  BY <1>1, RespawnAssumption
<1> DEFINE p == 2 ^ k
<1>3. p \in Nat \ {0}
  BY <1>2
<1>4. CooldownAfter(n) = Cooldown * p
  BY DEF CooldownAfter
<1> HIDE DEF p
<1>5. Cooldown * p \in Nat /\ Cooldown * p >= Cooldown
  BY <1>2, <1>3
<1>6. QED BY <1>4, <1>5

LEMMA LongAgoIsNat == LongAgo \in Nat /\ LongAgo >= Cooldown
BY CooldownsAreNat, RespawnAssumption DEF LongAgo

LEMMA WaitIsNat ==
  ASSUME WorkersOK, NEW w \in Workers, At(w) = "queue"
  PROVE  Wait(w) \in Nat /\ Wait(w) >= Cooldown
<1>1. failures[worker[w].agent] \in Nat
  BY DEF WorkersOK
<1>2. QED BY <1>1, CooldownsAreNat DEF Wait

-----------------------------------------------------------------------------
(* Who tries to restart an agent for an assignment.                        *)

LEMMA TriesAreFew ==
  ASSUME NEW a \in Agents
  PROVE  /\ IsFiniteSet(Tries(a)) /\ Cardinality(Tries(a)) \in Nat
         /\ Cardinality(Workers) \in Nat /\ Cardinality(Tries(a)) <= Cardinality(Workers)
<1>1. Tries(a) \subseteq Workers
  BY DEF Tries
<1>2. QED BY <1>1, FS_Subset, FS_CardinalityType, RespawnAssumption

\* Fewer or the same.
LEMMA TriesShrink ==
  ASSUME NEW a \in Agents, Tries(a)' \subseteq Tries(a)
  PROVE  Cardinality(Tries(a)') \in Nat /\ Cardinality(Tries(a)') <= Cardinality(Tries(a))
BY TriesAreFew, FS_Subset, FS_CardinalityType

\* One who tried has left.
LEMMA TriesLose ==
  ASSUME NEW a \in Agents, NEW w \in Tries(a),
         Tries(a)' \subseteq Tries(a) \ {w}
  PROVE  Cardinality(Tries(a)') \in Nat /\ Cardinality(Tries(a)') + 1 <= Cardinality(Tries(a))
<1>1. /\ IsFiniteSet(Tries(a) \ {w})
      /\ Cardinality(Tries(a) \ {w}) = Cardinality(Tries(a)) - 1
  BY TriesAreFew, FS_RemoveElement
<1>2. /\ IsFiniteSet(Tries(a)')
      /\ Cardinality(Tries(a)') <= Cardinality(Tries(a) \ {w})
  BY <1>1, FS_Subset
<1>3. QED BY <1>1, <1>2, TriesAreFew, FS_CardinalityType

\* When nobody fails and nobody begins to try, the breaker stays as it is.
LEMMA BreakerRests ==
  ASSUME RespawnInv, UNCHANGED <<failures, blocked>>,
         \A a \in Agents : Tries(a)' \subseteq Tries(a)
  PROVE  BreakerLeaves' /\ BreakerStops'
<1>1. BreakerLeaves'
  BY DEF RespawnInv, BreakerLeaves
<1>2. ASSUME NEW a \in Agents
      PROVE  failures'[a] + Cardinality(Tries(a)') < MaxFailures + Cardinality(Workers)
  <2>1. Cardinality(Tries(a)') \in Nat /\ Cardinality(Tries(a)') <= Cardinality(Tries(a))
    BY TriesShrink
  <2>2. failures[a] + Cardinality(Tries(a)) < MaxFailures + Cardinality(Workers)
    BY DEF RespawnInv, BreakerStops
  <2>3. failures[a] \in Nat /\ MaxFailures \in Nat
    BY RespawnAssumption DEF RespawnInv, WorkersOK
  <2>4. QED BY <2>1, <2>2, <2>3, TriesAreFew
<1>3. QED BY <1>1, <1>2 DEF BreakerStops

-----------------------------------------------------------------------------
(* A worker that moves.                                                    *)

LEMMA EnterIs ==
  ASSUME WorkersOK, NEW w \in Workers, NEW pc \in Points, NEW a \in Agents \union {None},
         NEW k \in Ways \union {None}, Enter(w, pc, a, k)
  PROVE  /\ worker' \in [Workers -> Record]
         /\ worker'[w] = [at |-> pc, agent |-> a, kind |-> k]
         /\ \A v \in Workers \ {w} : worker'[v] = worker[v]
BY DEF WorkersOK, Enter, Record, Points

LEMMA GoIs ==
  ASSUME WorkersOK, NEW w \in Workers, NEW pc \in Points, Go(w, pc)
  PROVE  /\ worker' \in [Workers -> Record]
         /\ worker'[w] = [at |-> pc, agent |-> worker[w].agent, kind |-> worker[w].kind]
         /\ \A v \in Workers \ {w} : worker'[v] = worker[v]
BY DEF WorkersOK, Go, Record, Points

\* Who returns is out of the way, and no longer tries.
LEMMA ReturnIs ==
  ASSUME WorkersOK, NEW w \in Workers, Return(w)
  PROVE  /\ worker' \in [Workers -> Record]
         /\ worker'[w].at \in {"idle", "tick"} /\ worker'[w].kind # "assigned"
         /\ \A v \in Workers \ {w} : worker'[v] = worker[v]
<1>1. CASE worker[w].kind \in OfTheDaemon
  <2>1. Enter(w, "tick", None, "health")
    BY <1>1 DEF Return
  <2>2. "tick" \in Points /\ "health" \in Ways
    BY DEF Points, Ways
  <2>3. /\ worker' \in [Workers -> Record]
        /\ worker'[w] = [at |-> "tick", agent |-> None, kind |-> "health"]
        /\ \A v \in Workers \ {w} : worker'[v] = worker[v]
    BY <2>1, <2>2, EnterIs
  <2>4. QED BY <2>3
<1>2. CASE worker[w].kind \notin OfTheDaemon
  <2>1. worker' = [worker EXCEPT ![w] = Resting]
    BY <1>2 DEF Return, Leave
  <2>2. Resting \in Record /\ Resting.at = "idle" /\ Resting.kind # "assigned"
    BY RespawnAssumption DEF Resting, Record, Points, Ways
  <2>3. QED BY <2>1, <2>2 DEF WorkersOK, Record, Points
<1>3. QED BY <1>1, <1>2

\* The lock goes with who is under way with it.
LEMMA TypeAfterMove ==
  ASSUME WorkersOK, NEW w \in Workers,
         worker' \in [Workers -> Record],
         \A v \in Workers \ {w} : worker'[v] = worker[v],
         worker'[w].at \in {"queue", "check", "start"} => worker'[w].agent \in Agents,
         worker'[w].at = "queue" => worker'[w].kind \in Guarded,
         lock' \in {lock, None, w}, lock \notin {w, None} => lock' = lock,
         lock' = w <=> worker'[w].at \in {"check", "start"} /\ worker'[w].kind \in Guarded,
         failures' \in [Agents -> Nat], blocked' \subseteq Agents, age' \in [Agents -> 0 .. LongAgo]
  PROVE  WorkersOK'
<1>1. lock' \in Workers \union {None}
  BY DEF WorkersOK
<1>2. ASSUME NEW v \in Workers, v # w
      PROVE  lock' = v <=> lock = v
  BY <1>2, RespawnAssumption
<1>3. ASSUME NEW v \in Workers
      PROVE  /\ At(v)' \in {"queue", "check", "start"} => worker'[v].agent \in Agents
             /\ At(v)' = "queue" => worker'[v].kind \in Guarded
             /\ lock' = v <=> At(v)' \in {"check", "start"} /\ worker'[v].kind \in Guarded
  <2>1. CASE v = w
    BY <2>1 DEF At
  <2>2. CASE v # w
    <3>1. worker'[v] = worker[v]
      BY <2>2
    <3>2. /\ At(v) \in {"queue", "check", "start"} => worker[v].agent \in Agents
          /\ At(v) = "queue" => worker[v].kind \in Guarded
          /\ lock = v <=> At(v) \in {"check", "start"} /\ worker[v].kind \in Guarded
      BY DEF WorkersOK
    <3>3. QED BY <3>1, <3>2, <1>2, <2>2 DEF At
  <2>3. QED BY <2>1, <2>2
<1>4. QED BY <1>1, <1>3 DEF WorkersOK, Record, Points

\* As long as nobody is noted as restarted, who moves has to have waited.
LEMMA CooldownAfterMove ==
  ASSUME CooldownHolds, NEW w \in Workers, UNCHANGED age,
         \A v \in Workers \ {w} : worker'[v] = worker[v],
         worker'[w].at \in {"check", "start"} /\ worker'[w].kind \in Guarded
           => age[worker'[w].agent] >= Cooldown
  PROVE  CooldownHolds'
<1> SUFFICES ASSUME NEW v \in Workers, At(v)' \in {"check", "start"}, worker'[v].kind \in Guarded
             PROVE  age'[worker'[v].agent] >= Cooldown
  BY DEF CooldownHolds
<1>1. CASE v = w
  BY <1>1 DEF At
<1>2. CASE v # w
  BY <1>2 DEF CooldownHolds, At
<1>3. QED BY <1>1, <1>2

\* Who moves, and does not try for an assignment afterwards or did so before for the
\* same agent, does not add to those who try.
LEMMA TriesAfterMove ==
  ASSUME NEW w \in Workers, \A v \in Workers \ {w} : worker'[v] = worker[v],
         \/ worker'[w].kind # "assigned"
         \/ worker'[w].kind = worker[w].kind /\ worker'[w].agent = worker[w].agent
  PROVE  \A a \in Agents : Tries(a)' \subseteq Tries(a)
<1> SUFFICES ASSUME NEW a \in Agents, NEW v \in Tries(a)'
             PROVE  v \in Tries(a)
  OBVIOUS
<1>1. v \in Workers /\ worker'[v].agent = a /\ worker'[v].kind = "assigned"
  BY DEF Tries
<1>2. worker[v].agent = a /\ worker[v].kind = "assigned"
  <2>1. CASE v = w
    BY <2>1, <1>1
  <2>2. CASE v # w
    BY <2>2, <1>1
  <2>3. QED BY <2>1, <2>2
<1>3. QED BY <1>1, <1>2 DEF Tries

-----------------------------------------------------------------------------
(* How a worker comes to restart an agent.                                 *)

LEMMA InitRespawnInv == RespawnInit => RespawnInv
<1> SUFFICES ASSUME RespawnInit PROVE RespawnInv
  OBVIOUS
<1>1. Resting \in Record /\ Resting.at = "idle" /\ Resting.kind = None
  BY DEF Resting, Record, Points
<1>2. /\ worker \in [Workers -> Record]
      /\ \A w \in Workers : At(w) = "idle" /\ worker[w].kind = None
  BY <1>1 DEF RespawnInit, At
<1>3. age \in [Agents -> 0 .. LongAgo]
  BY LongAgoIsNat DEF RespawnInit
<1>4. WorkersOK
  BY <1>2, <1>3, RespawnAssumption DEF RespawnInit, WorkersOK, Record, Points
<1>5. CooldownHolds
  BY <1>2 DEF CooldownHolds
<1>6. BreakerLeaves
  BY RespawnAssumption DEF RespawnInit, BreakerLeaves
<1>7. ASSUME NEW a \in Agents
      PROVE  failures[a] + Cardinality(Tries(a)) < MaxFailures + Cardinality(Workers)
  <2>1. failures[a] = 0 /\ MaxFailures \in Nat \ {0}
    BY RespawnAssumption DEF RespawnInit
  <2>2. QED BY <2>1, TriesAreFew
<1>8. QED BY <1>4, <1>5, <1>6, <1>7 DEF RespawnInv, BreakerStops

LEMMA RestKeeps ==
  ASSUME RespawnInv, UNCHANGED restart
  PROVE  RespawnInv'
<1>1. \A a \in Agents : Tries(a)' \subseteq Tries(a)
  BY DEF restart, Tries
<1>2. BreakerLeaves' /\ BreakerStops'
  BY <1>1, BreakerRests DEF restart
<1>3. WorkersOK' /\ CooldownHolds'
  BY DEF restart, RespawnInv, WorkersOK, CooldownHolds, At
<1>4. QED BY <1>2, <1>3 DEF RespawnInv

LEMMA PassKeeps ==
  ASSUME RespawnInv, Pass
  PROVE  RespawnInv'
<1>1. LongAgo \in Nat /\ LongAgo >= Cooldown /\ Cooldown \in Nat
  BY LongAgoIsNat, RespawnAssumption
<1>2. ASSUME NEW a \in Agents
      PROVE  age'[a] \in 0 .. LongAgo /\ (age[a] >= Cooldown => age'[a] >= Cooldown)
  <2>1. age[a] \in 0 .. LongAgo
    BY DEF RespawnInv, WorkersOK
  <2>2. age'[a] = IF age[a] < LongAgo THEN age[a] + 1 ELSE LongAgo
    BY DEF Pass
  <2>3. QED BY <2>1, <2>2, <1>1
<1>3. WorkersOK'
  <2>1. age' \in [Agents -> 0 .. LongAgo]
    BY <1>2 DEF Pass
  <2>2. WorkersOK
    BY DEF RespawnInv
  <2>3. UNCHANGED <<failures, blocked, lock, worker>>
    BY DEF Pass
  <2>4. QED BY <2>1, <2>2, <2>3 DEF WorkersOK, At
<1>4. CooldownHolds'
  <2> SUFFICES ASSUME NEW v \in Workers, At(v)' \in {"check", "start"}, worker'[v].kind \in Guarded
               PROVE  age'[worker'[v].agent] >= Cooldown
    BY DEF CooldownHolds
  <2>1. worker'[v] = worker[v]
    BY DEF Pass
  <2>2. At(v) \in {"check", "start"} /\ worker[v].kind \in Guarded
    BY <2>1 DEF At
  <2>3. worker[v].agent \in Agents /\ age[worker[v].agent] >= Cooldown
    BY <2>2 DEF RespawnInv, WorkersOK, CooldownHolds
  <2>4. QED BY <2>1, <2>3, <1>2
<1>5. \A a \in Agents : Tries(a)' \subseteq Tries(a)
  BY DEF Pass, Tries
<1>6. BreakerLeaves' /\ BreakerStops'
  BY <1>5, BreakerRests DEF Pass
<1>7. QED BY <1>3, <1>4, <1>6 DEF RespawnInv

\* A worker that moves, and leaves the records about the agents alone.
LEMMA MoveKeeps ==
  ASSUME RespawnInv, NEW w \in Workers, UNCHANGED <<failures, blocked, age>>,
         worker' \in [Workers -> Record],
         \A v \in Workers \ {w} : worker'[v] = worker[v],
         worker'[w].at \in {"queue", "check", "start"} => worker'[w].agent \in Agents,
         worker'[w].at = "queue" => worker'[w].kind \in Guarded,
         lock' \in {lock, None, w}, lock \notin {w, None} => lock' = lock,
         lock' = w <=> worker'[w].at \in {"check", "start"} /\ worker'[w].kind \in Guarded,
         worker'[w].at \in {"check", "start"} /\ worker'[w].kind \in Guarded
           => age[worker'[w].agent] >= Cooldown,
         \/ worker'[w].kind # "assigned"
         \/ worker'[w].kind = worker[w].kind /\ worker'[w].agent = worker[w].agent
  PROVE  RespawnInv'
<1>1. WorkersOK /\ CooldownHolds
  BY DEF RespawnInv
<1>2. failures' \in [Agents -> Nat] /\ blocked' \subseteq Agents /\ age' \in [Agents -> 0 .. LongAgo]
  BY <1>1 DEF WorkersOK
<1>3. WorkersOK'
  BY <1>1, <1>2, TypeAfterMove
<1>4. CooldownHolds'
  BY <1>1, CooldownAfterMove
<1>5. BreakerLeaves' /\ BreakerStops'
  BY TriesAfterMove, BreakerRests
<1>6. QED BY <1>3, <1>4, <1>5 DEF RespawnInv

LEMMA DaemonKeeps ==
  ASSUME RespawnInv, NEW w \in Workers, TickBegins(w) \/ TickDone(w)
  PROVE  RespawnInv'
<1>1. WorkersOK /\ lock # w
  BY DEF RespawnInv, WorkersOK, TickBegins, TickDone
<1>2. /\ worker' \in [Workers -> Record]
      /\ worker'[w].at \in {"idle", "tick"} /\ worker'[w].kind \in {None, "health"}
      /\ \A v \in Workers \ {w} : worker'[v] = worker[v]
  <2>1. CASE TickBegins(w)
    <3>1. Enter(w, "tick", None, "health") /\ "tick" \in Points /\ "health" \in Ways
      BY <2>1 DEF TickBegins, Points, Ways
    <3>2. /\ worker' \in [Workers -> Record]
          /\ worker'[w] = [at |-> "tick", agent |-> None, kind |-> "health"]
          /\ \A v \in Workers \ {w} : worker'[v] = worker[v]
      BY <3>1, <1>1, EnterIs
    <3>3. QED BY <3>2
  <2>2. CASE TickDone(w)
    <3>1. Resting \in Record /\ Resting.at = "idle" /\ Resting.kind = None
      BY DEF Resting, Record, Points
    <3>2. QED BY <2>2, <1>1, <3>1 DEF TickDone, Leave, WorkersOK, Record, Points
  <2>3. QED BY <2>1, <2>2
<1>3. UNCHANGED <<failures, blocked, age, lock>>
  BY DEF TickBegins, TickDone
<1>4. worker'[w].kind # "assigned"
  BY <1>2, RespawnAssumption DEF Ways
<1>5. QED BY <1>1, <1>2, <1>3, <1>4, MoveKeeps

\* The daemon turns to an agent, the start route is called.
LEMMA TurnKeeps ==
  ASSUME RespawnInv, NEW w \in Workers, NEW a \in Agents,
         TickDead(w, a) \/ TickRescue(w, a) \/ StartRoute(w, a)
  PROVE  RespawnInv'
<1>1. WorkersOK /\ lock # w
  BY DEF RespawnInv, WorkersOK, TickDead, TickRescue, StartRoute
<1> PICK pc \in {"queue", "check"}, k \in {"health", "rescue", "start"} :
       Enter(w, pc, a, k) /\ (k = "health" <=> pc = "queue")
  BY DEF TickDead, TickRescue, StartRoute
<1>2. pc \in Points /\ k \in Ways
  BY DEF Points, Ways
<1>3. /\ worker' \in [Workers -> Record]
      /\ worker'[w] = [at |-> pc, agent |-> a, kind |-> k]
      /\ \A v \in Workers \ {w} : worker'[v] = worker[v]
  BY <1>1, <1>2, EnterIs
<1>4. UNCHANGED <<failures, blocked, age, lock>>
  BY DEF TickDead, TickRescue, StartRoute
<1>5. /\ worker'[w].kind # "assigned" /\ worker'[w].agent \in Agents
      /\ worker'[w].at = "queue" => worker'[w].kind \in Guarded
      /\ ~(worker'[w].at \in {"check", "start"} /\ worker'[w].kind \in Guarded)
  BY <1>3 DEF Guarded
<1>6. QED BY <1>1, <1>3, <1>4, <1>5, MoveKeeps

\* An assignment begins to try only under a free breaker.
LEMMA AssignedKeeps ==
  ASSUME RespawnInv, NEW w \in Workers, NEW a \in Agents, Assigned(w, a)
  PROVE  RespawnInv'
<1>1. WorkersOK /\ CooldownHolds /\ lock # w
  BY DEF RespawnInv, WorkersOK, Assigned
<1>2. Enter(w, "queue", a, "assigned") /\ "queue" \in Points /\ "assigned" \in Ways
  BY DEF Assigned, Points, Ways
<1>3. /\ worker' \in [Workers -> Record]
      /\ worker'[w] = [at |-> "queue", agent |-> a, kind |-> "assigned"]
      /\ \A v \in Workers \ {w} : worker'[v] = worker[v]
  BY <1>1, <1>2, EnterIs
<1>4. UNCHANGED <<failures, blocked, age, lock>>
  BY DEF Assigned
<1>5. failures' \in [Agents -> Nat] /\ blocked' \subseteq Agents /\ age' \in [Agents -> 0 .. LongAgo]
  BY <1>1, <1>4 DEF WorkersOK
<1>6. WorkersOK'
  BY <1>1, <1>3, <1>4, <1>5, TypeAfterMove DEF Guarded
<1>7. CooldownHolds'
  BY <1>1, <1>3, <1>4, CooldownAfterMove
<1>8. BreakerLeaves'
  BY <1>4 DEF RespawnInv, BreakerLeaves
<1>9. ASSUME NEW b \in Agents
      PROVE  failures'[b] + Cardinality(Tries(b)') < MaxFailures + Cardinality(Workers)
  <2>1. failures[b] \in Nat /\ MaxFailures \in Nat
    BY <1>1, RespawnAssumption DEF WorkersOK
  <2>2. CASE b = a
    <3>1. failures[a] < MaxFailures
      BY DEF Assigned, RespawnInv, BreakerLeaves
    <3>2. Tries(b)' \subseteq Workers
      BY DEF Tries
    <3>3. Cardinality(Tries(b)') \in Nat /\ Cardinality(Tries(b)') <= Cardinality(Workers)
      BY <3>2, FS_Subset, FS_CardinalityType, RespawnAssumption
    <3>4. QED BY <3>1, <3>3, <2>1, <2>2, <1>4, TriesAreFew
  <2>3. CASE b # a
    <3>1. Tries(b)' \subseteq Tries(b)
      BY <2>3, <1>3 DEF Tries
    <3>2. Cardinality(Tries(b)') \in Nat /\ Cardinality(Tries(b)') <= Cardinality(Tries(b))
      BY <3>1, TriesShrink
    <3>3. failures[b] + Cardinality(Tries(b)) < MaxFailures + Cardinality(Workers)
      BY DEF RespawnInv, BreakerStops
    <3>4. QED BY <3>2, <3>3, <2>1, <1>4, TriesAreFew
  <2>4. QED BY <2>2, <2>3
<1>10. QED BY <1>6, <1>7, <1>8, <1>9 DEF RespawnInv, BreakerStops

-----------------------------------------------------------------------------
(* The restart.                                                            *)

LEMMA TakeLockKeeps ==
  ASSUME RespawnInv, NEW w \in Workers, TakeLock(w)
  PROVE  RespawnInv'
<1>1. WorkersOK /\ lock = None /\ w # None
  BY RespawnAssumption DEF RespawnInv, TakeLock, LockFree
<1>2. At(w) = "queue" /\ worker[w].agent \in Agents /\ worker[w].kind \in Guarded
  BY <1>1 DEF TakeLock, WorkersOK
<1>3. UNCHANGED <<failures, blocked, age>>
  BY DEF TakeLock
<1>4. CASE UNCHANGED lock /\ Return(w)
  <2>1. /\ worker' \in [Workers -> Record]
        /\ worker'[w].at \in {"idle", "tick"} /\ worker'[w].kind # "assigned"
        /\ \A v \in Workers \ {w} : worker'[v] = worker[v]
    BY <1>1, <1>4, ReturnIs
  <2>2. QED BY <2>1, <1>1, <1>3, <1>4, MoveKeeps
<1>5. CASE ~(age[worker[w].agent] < Wait(w)) /\ lock' = w /\ (Go(w, "check") \/ Go(w, "start"))
  <2>1. PICK pc \in {"check", "start"} : Go(w, pc)
    BY <1>5
  <2>2. /\ worker' \in [Workers -> Record]
        /\ worker'[w] = [at |-> pc, agent |-> worker[w].agent, kind |-> worker[w].kind]
        /\ \A v \in Workers \ {w} : worker'[v] = worker[v]
    BY <1>1, <2>1, GoIs DEF Points
  <2>3. age[worker[w].agent] >= Cooldown
    <3>1. Wait(w) \in Nat /\ Wait(w) >= Cooldown
      BY <1>1, <1>2, WaitIsNat
    <3>2. age[worker[w].agent] \in Nat /\ LongAgo \in Nat
      BY <1>1, <1>2, LongAgoIsNat DEF WorkersOK
    <3>3. QED BY <3>1, <3>2, <1>5, RespawnAssumption
  <2>4. /\ worker'[w].at \in {"check", "start"} /\ worker'[w].kind = worker[w].kind
        /\ worker'[w].agent = worker[w].agent
    BY <2>2
  <2>5. QED BY <2>2, <2>3, <2>4, <1>1, <1>2, <1>3, <1>5, MoveKeeps
<1>6. QED BY <1>4, <1>5 DEF TakeLock

LEMMA KillKeeps ==
  ASSUME RespawnInv, NEW w \in Workers, Kill(w)
  PROVE  RespawnInv'
<1>1. WorkersOK /\ At(w) = "check" /\ worker[w].agent \in Agents
  BY DEF RespawnInv, WorkersOK, Kill
<1>2. /\ worker' \in [Workers -> Record]
      /\ worker'[w] = [at |-> "start", agent |-> worker[w].agent, kind |-> worker[w].kind]
      /\ \A v \in Workers \ {w} : worker'[v] = worker[v]
  BY <1>1, GoIs DEF Kill, Points
<1>3. UNCHANGED <<failures, blocked, age, lock>>
  BY DEF Kill
<1>4. lock = w <=> worker[w].kind \in Guarded
  BY <1>1 DEF WorkersOK
<1>5. worker[w].kind \in Guarded => age[worker[w].agent] >= Cooldown
  BY <1>1 DEF RespawnInv, CooldownHolds
<1>6. QED BY <1>1, <1>2, <1>3, <1>4, <1>5, MoveKeeps

\* The end of a restart, well or not.  Under the lock nobody else is about to restart an
\* agent whose last restart is noted now; a failure counts while its thread stops trying.
LEMMA EndKeeps ==
  ASSUME RespawnInv, NEW w \in Workers, NEW ok \in BOOLEAN,
         At(w) \in {"check", "start"}, End(w, ok)
  PROVE  RespawnInv'
<1> DEFINE a == worker[w].agent
<1>1. WorkersOK /\ a \in Agents /\ w # None
  BY RespawnAssumption DEF RespawnInv, WorkersOK
<1>2. /\ worker' \in [Workers -> Record]
      /\ worker'[w].at \in {"idle", "tick"} /\ worker'[w].kind # "assigned"
      /\ \A v \in Workers \ {w} : worker'[v] = worker[v]
  BY <1>1, ReturnIs DEF End
<1>3. lock' = IF lock = w THEN None ELSE lock
  BY DEF End
<1>4. age' = IF ok /\ worker[w].kind \in Guarded THEN [age EXCEPT ![a] = 0] ELSE age
  BY DEF End
<1>5. \/ worker[w].kind # "assigned" /\ UNCHANGED <<failures, blocked>>
      \/ worker[w].kind = "assigned" /\ failures' = [failures EXCEPT ![a] = 0] /\ UNCHANGED blocked
      \/ worker[w].kind = "assigned" /\ CountFailure(a)
  BY DEF End
<1>6. failures \in [Agents -> Nat] /\ blocked \subseteq Agents /\ age \in [Agents -> 0 .. LongAgo]
  BY <1>1 DEF WorkersOK
<1>7. failures' \in [Agents -> Nat] /\ blocked' \subseteq Agents
  BY <1>1, <1>5, <1>6 DEF CountFailure
<1>8. age' \in [Agents -> 0 .. LongAgo]
  BY <1>1, <1>4, <1>6, LongAgoIsNat
<1>9. WorkersOK'
  BY <1>1, <1>2, <1>3, <1>7, <1>8, TypeAfterMove
<1>10. CooldownHolds'
  <2> SUFFICES ASSUME NEW v \in Workers, At(v)' \in {"check", "start"}, worker'[v].kind \in Guarded
               PROVE  age'[worker'[v].agent] >= Cooldown
    BY DEF CooldownHolds
  <2>1. v # w /\ worker'[v] = worker[v]
    BY <1>2 DEF At
  <2>2. At(v) \in {"check", "start"} /\ worker[v].kind \in Guarded
    BY <2>1 DEF At
  <2>3. lock = v /\ age[worker[v].agent] >= Cooldown
    BY <2>2, <1>1 DEF RespawnInv, WorkersOK, CooldownHolds
  <2>4. worker[w].kind \notin Guarded
    BY <2>1, <2>3, <1>1 DEF WorkersOK
  <2>5. QED BY <2>1, <2>3, <2>4, <1>4
<1>11. \A b \in Agents : Tries(b)' \subseteq Tries(b)
  BY <1>2, TriesAfterMove
<1>12. BreakerLeaves' /\ BreakerStops'
  <2>1. CASE worker[w].kind # "assigned"
    BY <2>1, <1>5, <1>11, BreakerRests
  <2>2. CASE worker[w].kind = "assigned" /\ failures' = [failures EXCEPT ![a] = 0] /\ UNCHANGED blocked
    <3>1. \A b \in Agents : failures'[b] = IF b = a THEN 0 ELSE failures[b]
      BY <2>2, <1>1, <1>6
    <3>2. BreakerLeaves'
      BY <2>2, <3>1, RespawnAssumption DEF RespawnInv, BreakerLeaves
    <3>3. ASSUME NEW b \in Agents
          PROVE  failures'[b] + Cardinality(Tries(b)') < MaxFailures + Cardinality(Workers)
      <4>1. Cardinality(Tries(b)') \in Nat /\ Cardinality(Tries(b)') <= Cardinality(Tries(b))
        BY <1>11, TriesShrink
      <4>2. failures[b] + Cardinality(Tries(b)) < MaxFailures + Cardinality(Workers)
        BY DEF RespawnInv, BreakerStops
      <4>3. failures'[b] <= failures[b] /\ failures'[b] \in Nat /\ failures[b] \in Nat
        BY <3>1, <1>6
      <4>4. MaxFailures \in Nat
        BY RespawnAssumption
      <4>5. QED BY <4>1, <4>2, <4>3, <4>4, TriesAreFew
    <3>4. QED BY <3>2, <3>3 DEF BreakerStops
  <2>3. CASE worker[w].kind = "assigned" /\ CountFailure(a)
    <3>1. \A b \in Agents : failures'[b] = IF b = a THEN failures[b] + 1 ELSE failures[b]
      BY <2>3, <1>1, <1>6 DEF CountFailure
    <3>2. BreakerLeaves'
      <4> SUFFICES ASSUME NEW b \in Agents, b \notin blocked'
                   PROVE  failures'[b] < MaxFailures
        BY DEF BreakerLeaves
      <4>1. b \notin blocked /\ (b = a => ~TooMany(failures[a] + 1))
        BY <2>3 DEF CountFailure
      <4>2. failures[b] \in Nat /\ MaxFailures \in Nat
        BY <1>6, RespawnAssumption
      <4>3. QED BY <4>1, <4>2, <3>1 DEF TooMany, RespawnInv, BreakerLeaves
    <3>3. ASSUME NEW b \in Agents
          PROVE  failures'[b] + Cardinality(Tries(b)') < MaxFailures + Cardinality(Workers)
      <4>1. failures[b] + Cardinality(Tries(b)) < MaxFailures + Cardinality(Workers)
        BY DEF RespawnInv, BreakerStops
      <4>2. failures[b] \in Nat /\ MaxFailures \in Nat
        BY <1>6, RespawnAssumption
      <4>3. CASE b = a
        <5>1. w \in Tries(b) /\ w \notin Tries(b)'
          BY <4>3, <2>3, <1>2 DEF Tries
        <5>2. Tries(b)' \subseteq Tries(b) \ {w}
          BY <5>1, <1>11
        <5>3. Cardinality(Tries(b)') \in Nat
              /\ Cardinality(Tries(b)') + 1 <= Cardinality(Tries(b))
          BY <5>1, <5>2, TriesLose
        <5>4. QED BY <5>3, <4>1, <4>2, <4>3, <3>1, TriesAreFew
      <4>4. CASE b # a
        <5>1. Cardinality(Tries(b)') \in Nat /\ Cardinality(Tries(b)') <= Cardinality(Tries(b))
          BY <1>11, TriesShrink
        <5>2. QED BY <5>1, <4>1, <4>2, <4>4, <3>1, TriesAreFew
      <4>5. QED BY <4>3, <4>4
    <3>4. QED BY <3>2, <3>3 DEF BreakerStops
  <2>4. QED BY <2>1, <2>2, <2>3, <1>5
<1>13. QED BY <1>9, <1>10, <1>12 DEF RespawnInv

-----------------------------------------------------------------------------

LEMMA NextRespawnInv ==
  ASSUME RespawnInv, [RespawnNext]_respawns
  PROVE  RespawnInv'
<1>1. CASE UNCHANGED restart
  BY <1>1, RestKeeps
<1>2. ASSUME NEW w \in Workers, TickBegins(w) \/ TickDone(w)
      PROVE  RespawnInv'
  BY <1>2, DaemonKeeps
<1>3. ASSUME NEW w \in Workers, TakeLock(w)
      PROVE  RespawnInv'
  BY <1>3, TakeLockKeeps
<1>4. ASSUME NEW w \in Workers, Refuse(w) \/ NotStarted(w)
      PROVE  RespawnInv'
  BY <1>4, EndKeeps DEF Refuse, NotStarted
<1>5. ASSUME NEW w \in Workers, Kill(w)
      PROVE  RespawnInv'
  BY <1>5, KillKeeps
<1>6. ASSUME NEW w \in Workers, Started(w)
      PROVE  RespawnInv'
  BY <1>6, EndKeeps DEF Started
<1>7. ASSUME NEW w \in Workers, NEW a \in Agents, Assigned(w, a)
      PROVE  RespawnInv'
  BY <1>7, AssignedKeeps
<1>8. ASSUME NEW w \in Workers, NEW a \in Agents,
             TickDead(w, a) \/ TickRescue(w, a) \/ StartRoute(w, a)
      PROVE  RespawnInv'
  BY <1>8, TurnKeeps
<1>9. CASE Pass
  BY <1>9, PassKeeps
<1>10. ASSUME NEW a \in Agents, Die(a)
       PROVE  UNCHANGED restart
  BY <1>10 DEF Die
<1>11. (G!Next /\ UNCHANGED restart) \/ UNCHANGED respawns => UNCHANGED restart
  BY DEF respawns
<1>12. QED
  BY <1>1, <1>2, <1>3, <1>4, <1>5, <1>6, <1>7, <1>8, <1>9, <1>10, <1>11 DEF RespawnNext

-----------------------------------------------------------------------------
(* The shutdown that AgentRestart composes with, and the sessions that     *)
(* both change.                                                            *)

ThreadRecord == [at : G!Points, agents : SUBSET Agents]

\* A thread of the shutdown goes to another point; the timer of the moment still
\* waits, unless it is the thread that moves.
LEMMA ThreadMoves ==
  ASSUME G!TypeOK, NEW x \in Threads, NEW pc \in G!Points, NEW S \in SUBSET Agents,
         G!GoWith(x, pc, S), timer' \in {timer, None}, timer' = x => pc \in {"begin", "wait"},
         active' \in BOOLEAN, pending' \in BOOLEAN, finalized' \in BOOLEAN,
         expected' \subseteq Agents, acked' \subseteq Agents, sessions' \subseteq Agents
  PROVE  G!TypeOK'
<1>1. /\ thread' \in [Threads -> ThreadRecord]
      /\ \A y \in Threads : thread'[y] = IF y = x THEN [at |-> pc, agents |-> S] ELSE thread[y]
  BY DEF G!TypeOK, G!GoWith, ThreadRecord
<1>2. timer' \in Threads \union {None}
  BY DEF G!TypeOK
<1>3. ASSUME NEW y \in Threads, timer' = y
      PROVE  thread'[y].at \in {"begin", "wait"}
  <2>1. CASE y = x
    BY <2>1, <1>1, <1>3
  <2>2. CASE y # x
    <3>1. timer = y
      BY <1>3, ActorAssumption, RosterAssumption
    <3>2. QED BY <3>1, <2>2, <1>1 DEF G!TypeOK, G!At
  <2>3. QED BY <2>1, <2>2
<1>4. QED BY <1>1, <1>2, <1>3 DEF G!TypeOK, ThreadRecord, G!At

LEMMA ThreadArms ==
  ASSUME G!TypeOK, NEW x \in Threads, G!Arm(x) \/ G!Begin(x)
  PROVE  G!TypeOK'
<1> DEFINE at(pc) == [at |-> pc, agents |-> {}]
<1>1. G!Idle \in ThreadRecord /\ at("begin") \in ThreadRecord /\ at("wait") \in ThreadRecord
  BY DEF G!Idle, ThreadRecord, G!Points, G!Carriers
<1>2. CASE G!Arm(x)
  <2>1. thread' = [thread EXCEPT ![x] = at("begin")]
    BY <1>2 DEF G!Arm, G!Go, G!GoWith
  <2>2. /\ thread' \in [Threads -> ThreadRecord] /\ thread'[x].at = "begin"
    BY <1>1, <2>1 DEF G!TypeOK, ThreadRecord
  <2>3. QED BY <1>2, <2>2 DEF G!Arm, G!shutdown, G!TypeOK, ThreadRecord, G!At
<1>3. CASE G!Begin(x)
  <2>1. timer \in Threads /\ thread' = [thread EXCEPT ![x] = G!Idle, ![timer] = at("wait")]
    BY <1>3 DEF G!Begin, G!Startable
  <2>2. /\ thread' \in [Threads -> ThreadRecord] /\ thread'[timer].at = "wait"
    BY <1>1, <2>1 DEF G!TypeOK, ThreadRecord
  <2>3. QED BY <1>3, <2>2 DEF G!Begin, G!shutdown, G!TypeOK, ThreadRecord, G!At
<1>4. QED BY <1>2, <1>3

LEMMA ThreadCancels ==
  ASSUME G!TypeOK, NEW x \in Threads, G!AllAcked(x) \/ G!ResetShutdown(x)
  PROVE  G!TypeOK'
<1>1. G!AfterCancel \in [Threads -> ThreadRecord]
  <2>1. G!Idle \in ThreadRecord
    BY DEF G!Idle, ThreadRecord, G!Points
  <2>2. QED BY <2>1 DEF G!AfterCancel, G!TypeOK, ThreadRecord
<1>2. PICK r \in ThreadRecord : thread' = [G!AfterCancel EXCEPT ![x] = r]
  <2>1. /\ G!Idle \in ThreadRecord
        /\ [at |-> "finalize", agents |-> {}] \in ThreadRecord
    BY DEF G!Idle, ThreadRecord, G!Points, G!Carriers
  <2>2. QED BY <2>1 DEF G!AllAcked, G!FinalizesAfter, G!ResetShutdown
<1>3. thread' \in [Threads -> ThreadRecord] /\ timer' = None
  BY <1>1, <1>2 DEF G!AllAcked, G!ResetShutdown, G!CancelTimer
<1>4. /\ active' \in BOOLEAN /\ pending' \in BOOLEAN /\ finalized' \in BOOLEAN
      /\ expected' \subseteq Agents /\ acked' \subseteq Agents /\ sessions' \subseteq Agents
  BY DEF G!AllAcked, G!ResetShutdown, G!shutdown, G!TypeOK
<1>5. QED BY <1>3, <1>4, ActorAssumption DEF G!TypeOK, ThreadRecord

\* One of the threads that deal with a set of agents, one after the other.
LEMMA ThreadGoesOn ==
  ASSUME G!TypeOK, NEW x \in Threads,
         G!Finalize(x) \/ G!KillNext(x) \/ G!StartNext(x) \/ G!StopNext(x)
  PROVE  G!TypeOK'
<1>1. timer # x /\ thread[x].agents \subseteq Agents /\ UNCHANGED timer
  BY DEF G!TypeOK, G!Finalize, G!KillNext, G!StartNext, G!StopNext, G!shutdown
<1>2. PICK pc \in G!Points, S \in SUBSET Agents : G!GoWith(x, pc, S)
  <2>1. CASE G!Finalize(x)
    BY <2>1 DEF G!Finalize, G!Go, G!TypeOK, G!Points
  <2>2. CASE G!KillNext(x) \/ G!StartNext(x) \/ G!StopNext(x)
    <3>1. PICK pc \in G!Points, a \in thread[x].agents : G!GoWith(x, pc, thread[x].agents \ {a})
      BY <2>2 DEF G!KillNext, G!StartNext, G!StopNext, G!Points
    <3>2. thread[x].agents \ {a} \in SUBSET Agents
      BY <1>1
    <3>3. QED BY <3>1, <3>2
  <2>3. QED BY <2>1, <2>2
<1>3. sessions' \subseteq Agents
  BY <1>1 DEF G!Finalize, G!KillNext, G!StartNext, G!StopNext, G!TypeOK
<1>4. /\ active' \in BOOLEAN /\ pending' \in BOOLEAN /\ finalized' \in BOOLEAN
      /\ expected' \subseteq Agents /\ acked' \subseteq Agents
  BY DEF G!Finalize, G!KillNext, G!StartNext, G!StopNext, G!shutdown, G!TypeOK
<1>5. QED BY <1>1, <1>2, <1>3, <1>4, ThreadMoves

\* Or one that goes to a point where it deals with none.
LEMMA ThreadGoes ==
  ASSUME G!TypeOK, NEW x \in Threads,
         \/ G!Announce(x) \/ G!StartFails(x) \/ G!Fire(x) \/ G!Finalized(x) \/ G!ClearTimer(x)
         \/ G!PlatformStarted(x) \/ G!PlatformStopped(x) \/ G!Resume(x)
         \/ \E a \in Agents : G!Ack(x, a)
  PROVE  G!TypeOK'
<1>1. PICK pc \in G!Points : G!GoWith(x, pc, {})
  BY DEF G!Announce, G!StartFails, G!Fire, G!FiresTo, G!Finalized, G!ClearTimer, G!PlatformStarted, G!PlatformStopped,
         G!Resume, G!Ack, G!Go, G!Points, G!Carriers
<1>2. timer' \in {timer, None} /\ timer' # x
  BY ActorAssumption DEF G!TypeOK, G!shutdown,
         G!Announce, G!StartFails, G!Startable, G!Fire, G!Finalized, G!ClearTimer, G!PlatformStarted, G!PlatformStopped,
         G!Resume, G!Ack
<1>3. /\ active' \in BOOLEAN /\ pending' \in BOOLEAN /\ finalized' \in BOOLEAN
      /\ expected' \subseteq Agents /\ acked' \subseteq Agents /\ sessions' \subseteq Agents
  BY DEF G!TypeOK, G!shutdown,
         G!Announce, G!StartFails, G!Fire, G!Finalized, G!ClearTimer, G!PlatformStarted, G!PlatformStopped,
         G!Resume, G!Ack
<1>4. {} \in SUBSET Agents
  OBVIOUS
<1>5. QED BY <1>1, <1>2, <1>3, <1>4, ThreadMoves

LEMMA ThreadBegins ==
  ASSUME G!TypeOK, NEW x \in Threads, G!Shutdown(x) \/ G!PlatformStart(x) \/ G!PlatformStop(x)
  PROVE  G!TypeOK'
<1>1. PICK pc \in G!Points, S \in SUBSET Agents : G!GoWith(x, pc, S)
  BY DEF G!Shutdown, G!PlatformStart, G!PlatformStop, G!Points
<1>2. timer # x /\ UNCHANGED timer
  BY DEF G!Shutdown, G!PlatformStart, G!PlatformStop, G!TypeOK
<1>3. /\ active' \in BOOLEAN /\ pending' \in BOOLEAN /\ finalized' \in BOOLEAN
      /\ expected' \subseteq Agents /\ acked' \subseteq Agents /\ sessions' \subseteq Agents
  BY DEF G!Shutdown, G!PlatformStart, G!PlatformStop, G!shutdown, G!TypeOK
<1>4. QED BY <1>1, <1>2, <1>3, ThreadMoves

LEMMA ShutdownTypes ==
  ASSUME G!TypeOK, G!Next
  PROVE  G!TypeOK'
<1>1. CASE G!ShutdownNow
  BY <1>1 DEF G!ShutdownNow, G!shutdown, G!TypeOK, G!At
<1>2. CASE \E x \in Threads : G!Step(x)
  BY <1>2, ThreadArms, ThreadCancels, ThreadGoesOn, ThreadGoes DEF G!Step
<1>3. CASE \E x \in Threads : \/ G!Shutdown(x) \/ G!Resume(x)
                              \/ G!PlatformStart(x) \/ G!PlatformStop(x)
                              \/ \E a \in Agents : G!Ack(x, a)
  BY <1>3, ThreadBegins, ThreadGoes
<1>4. QED BY <1>1, <1>2, <1>3 DEF G!Next

\* Workers change nothing of it but the sessions.
LEMMA SessionTypes ==
  ASSUME G!TypeOK, UNCHANGED status, sessions' \subseteq Agents
  PROVE  G!TypeOK'
BY DEF status, G!TypeOK, G!At

LEMMA NextTypes ==
  ASSUME RespawnInv, G!TypeOK, [RespawnNext]_respawns
  PROVE  G!TypeOK'
<1>1. sessions \subseteq Agents
  BY DEF G!TypeOK
<1>2. CASE G!Next
  BY <1>2, ShutdownTypes
<1>3. ASSUME NEW w \in Workers,
             \/ TickBegins(w) \/ TickDone(w) \/ TakeLock(w) \/ Refuse(w) \/ Kill(w) \/ NotStarted(w)
             \/ \E a \in Agents : Assigned(w, a) \/ TickDead(w, a) \/ StartRoute(w, a)
                                    \/ TickRescue(w, a)
      PROVE  UNCHANGED status /\ sessions' \subseteq sessions
  BY <1>3 DEF TickBegins, TickDone, TakeLock, Refuse, Kill, NotStarted, Assigned, TickDead,
              StartRoute, TickRescue, gsVars
<1>4. ASSUME NEW w \in Workers, Started(w)
      PROVE  UNCHANGED status /\ sessions' \subseteq Agents
  <2>1. worker[w].agent \in Agents
    BY <1>4 DEF Started, RespawnInv, WorkersOK
  <2>2. QED BY <1>1, <1>4, <2>1 DEF Started
<1>5. ASSUME NEW a \in Agents, Die(a)
      PROVE  UNCHANGED status /\ sessions' \subseteq sessions
  BY <1>5 DEF Die
<1>6. CASE Pass \/ UNCHANGED respawns
  BY <1>1, <1>6, SessionTypes DEF Pass, gsVars, respawns
<1>7. QED BY <1>1, <1>2, <1>3, <1>4, <1>5, <1>6, SessionTypes DEF RespawnNext


LEMMA InitTypes == RespawnInit => G!TypeOK
<1> SUFFICES ASSUME RespawnInit PROVE G!TypeOK
  OBVIOUS
<1>1. G!Idle \in ThreadRecord
  BY DEF G!Idle, ThreadRecord, G!Points
<1>2. thread \in [Threads -> ThreadRecord] /\ timer = None
  BY <1>1 DEF RespawnInit, G!Init
<1>3. QED BY <1>2, ActorAssumption DEF RespawnInit, G!Init, G!TypeOK, ThreadRecord

LEMMA RespawnInvariance == RespawnSpec => [](RespawnInv /\ G!TypeOK)
<1>1. RespawnInit => RespawnInv /\ G!TypeOK
  BY InitRespawnInv, InitTypes
<1>2. RespawnInv /\ G!TypeOK /\ [RespawnNext]_respawns => RespawnInv' /\ G!TypeOK'
  BY NextRespawnInv, NextTypes
<1>3. QED BY <1>1, <1>2, PTL DEF RespawnSpec

\* The threads that restart agents are where they can be, whoever is under way with
\* _RESTART_LOCK is the one that holds it, and they leave the state of a shutdown that
\* goes on beside them in order.
THEOREM RespawnTypeCorrect == RespawnSpec => []RespawnTypeOK
<1>1. RespawnInv /\ G!TypeOK => RespawnTypeOK
  BY DEF RespawnInv, RespawnTypeOK
<1>2. QED BY <1>1, RespawnInvariance, PTL

\* No session of an agent is killed for an assignment or by the daemon within a cooldown
\* of the restart that started it, however the threads overlap.
THEOREM CooldownAlwaysHolds == RespawnSpec => []CooldownHolds
<1>1. RespawnInv => CooldownHolds
  BY DEF RespawnInv
<1>2. QED BY <1>1, RespawnInvariance, PTL

\* The circuit breaker stops the assignments of an agent that does not start: their
\* failures stay below its limit and the number of threads together.
THEOREM BreakerAlwaysStops == RespawnSpec => []BreakerStops
<1>1. RespawnInv => BreakerStops
  BY DEF RespawnInv
<1>2. QED BY <1>1, RespawnInvariance, PTL
=============================================================================
