--------------------------- MODULE ApprovalsProofs ---------------------------
(***************************************************************************)
(* Proofs about Approvals, for any number of threads, requests, standing   *)
(* approvals and payloads, and any limits.                                 *)
(***************************************************************************)
EXTENDS Approvals, FiniteSetTheorems, TLAPS

Record == [at : Points, id : Requests \union Grants \union {None},
           payload : Payloads \union {None}]

\* What a thread deals with at which point.
ThreadsOK ==
  \A x \in Threads :
    /\ At(x) \in {"act", "decide", "edit"} => thread[x].id \in Requests
    /\ At(x) = "insert" => thread[x].id = None

\* Approved requests keep the payload the owner saw, also for those who act.
ApprovedKept ==
  \A r \in Requests : request[r].status = "approved" => request[r].payload = approvedAs[r]
ActedOnIsDecided ==
  \A x \in Threads : At(x) = "act" => request[thread[x].id].status \notin Open

IInv ==
  /\ TypeOK /\ ThreadsOK
  /\ ApprovedKept /\ ActedOnIsDecided /\ ActsAsApproved

-----------------------------------------------------------------------------
(* A thread that goes to another point.                                    *)

LEMMA EnterIs ==
  ASSUME TypeOK, NEW x \in Threads, NEW pc \in Points,
         NEW i \in Requests \union Grants \union {None}, NEW p \in Payloads \union {None},
         Enter(x, pc, i, p)
  PROVE  /\ thread' \in [Threads -> Record]
         /\ thread'[x] = [at |-> pc, id |-> i, payload |-> p]
         /\ \A y \in Threads : y # x => thread'[y] = thread[y]
BY DEF TypeOK, Enter, Record

LEMMA LeaveIs ==
  ASSUME TypeOK, NEW x \in Threads, Leave(x)
  PROVE  /\ thread' \in [Threads -> Record]
         /\ thread'[x].at = "idle"
         /\ \A y \in Threads : y # x => thread'[y] = thread[y]
<1>1. Idle \in Record /\ Idle.at = "idle"
  BY DEF Idle, Record, Points
<1>2. QED BY <1>1 DEF TypeOK, Leave, Record

\* The types of the threads, after a step of one of them.
TypeOfThreads ==
  /\ thread \in [Threads -> Record]
  /\ \A x \in Threads : At(x) = "use" => thread[x].id \in Grants
  /\ ThreadsOK

LEMMA EnterTypes ==
  ASSUME TypeOK, ThreadsOK, NEW x \in Threads, NEW pc \in Points,
         NEW i \in Requests \union Grants \union {None}, NEW p \in Payloads \union {None},
         Enter(x, pc, i, p),
         pc = "use" => i \in Grants, pc = "insert" => i = None,
         pc \in {"act", "decide", "edit"} => i \in Requests
  PROVE  TypeOfThreads'
<1>1. /\ thread' \in [Threads -> Record]
      /\ thread'[x] = [at |-> pc, id |-> i, payload |-> p]
      /\ \A y \in Threads : y # x => thread'[y] = thread[y]
  BY EnterIs
<1>2. ASSUME NEW y \in Threads
      PROVE  /\ thread'[y].at = "use" => thread'[y].id \in Grants
             /\ thread'[y].at \in {"act", "decide", "edit"} => thread'[y].id \in Requests
             /\ thread'[y].at = "insert" => thread'[y].id = None
  <2>1. CASE y = x
    BY <1>1, <2>1
  <2>2. CASE y # x
    BY <1>1, <2>2 DEF TypeOK, ThreadsOK, At
  <2>3. QED BY <2>1, <2>2
<1>3. QED BY <1>1, <1>2 DEF TypeOfThreads, ThreadsOK, At

LEMMA LeaveTypes ==
  ASSUME TypeOK, ThreadsOK, NEW x \in Threads, Leave(x)
  PROVE  TypeOfThreads'
<1>1. /\ thread' \in [Threads -> Record]
      /\ thread'[x].at = "idle"
      /\ \A y \in Threads : y # x => thread'[y] = thread[y]
  BY LeaveIs
<1>2. QED BY <1>1 DEF TypeOfThreads, TypeOK, ThreadsOK, At

LEMMA UnchangedTypes ==
  ASSUME TypeOK, ThreadsOK, UNCHANGED thread
  PROVE  TypeOfThreads'
BY DEF TypeOfThreads, TypeOK, ThreadsOK, At, Record

\* The types of the rest.
TypeOfTables ==
  /\ request \in [Requests -> [status : Statuses, payload : Payloads \union {None}]]
  /\ grant \in [Grants -> [status : {"none", "active", "revoked"}, uses : Nat, over : BOOLEAN]]
  /\ approvedAs \in [Requests -> Payloads \union {None}]

LEMMA Types == TypeOK /\ ThreadsOK <=> TypeOfTables /\ TypeOfThreads
BY DEF TypeOK, TypeOfTables, TypeOfThreads, Record

LEMMA TypesNext == TypeOfTables' /\ TypeOfThreads' => TypeOK' /\ ThreadsOK'
BY DEF TypeOK, TypeOfTables, TypeOfThreads, Record

-----------------------------------------------------------------------------
(* What is approved stays as it is.                                        *)

\* Requests change only as long as they are pending; the owner's approval is noted
\* with the payload; who comes to act has found the request approved.
Approving ==
  /\ \A r \in Requests :
       \/ request'[r] = request[r] /\ approvedAs'[r] = approvedAs[r]
       \/ /\ request[r].status \in Open
          /\ request'[r].status = "approved" => request'[r].payload = approvedAs'[r]
       \/ request'[r].status = "forgotten" /\ approvedAs'[r] = approvedAs[r]
  /\ \A x \in Threads :
       At(x)' = "act" =>
         \/ thread'[x] = thread[x]
         \/ /\ thread'[x].id \in Requests
            /\ request[thread'[x].id].status = "approved"
            /\ thread'[x].payload = request[thread'[x].id].payload

LEMMA ApprovingKeeps ==
  ASSUME IInv, Approving
  PROVE  (ApprovedKept /\ ActedOnIsDecided /\ ActsAsApproved)'
<1>1. ApprovedKept'
  BY DEF IInv, ApprovedKept, Approving
<1>2. ASSUME NEW x \in Threads, At(x)' = "act"
      PROVE  /\ request'[thread'[x].id].status \notin Open
             /\ thread'[x].payload = approvedAs'[thread'[x].id]
  <2> DEFINE r == thread'[x].id
  <2>1. /\ r \in Requests
        /\ request[r].status \notin Open
        /\ thread'[x].payload = approvedAs[r]
    <3>1. CASE thread'[x] = thread[x]
      <4>1. At(x) = "act" /\ r = thread[x].id
        BY <1>2, <3>1 DEF At
      <4>2. QED BY <3>1, <4>1 DEF IInv, ThreadsOK, ActedOnIsDecided, ActsAsApproved
    <3>2. CASE thread'[x] # thread[x]
      BY <1>2, <3>2 DEF IInv, ApprovedKept, Approving, Open
    <3>3. QED BY <3>1, <3>2
  <2>2. /\ approvedAs'[r] = approvedAs[r]
        /\ request'[r] = request[r] \/ request'[r].status = "forgotten"
    BY <2>1 DEF Approving
  <2>3. QED BY <2>1, <2>2 DEF Open
<1>3. QED BY <1>1, <1>2 DEF ActedOnIsDecided, ActsAsApproved, At

-----------------------------------------------------------------------------
(* The actions.                                                            *)

Keeps == TypeOfTables' /\ TypeOfThreads' /\ Approving

\* Nobody comes to act, and requests stay as they are.
LEMMA QuietEnter ==
  ASSUME IInv, NEW x \in Threads, NEW pc \in Points \ {"act"},
         NEW i \in Requests \union Grants \union {None}, NEW p \in Payloads \union {None},
         Enter(x, pc, i, p), UNCHANGED <<request, approvedAs>>
  PROVE  Approving
<1>a. TypeOK /\ pc \in Points
  BY DEF IInv
<1>b. /\ thread'[x] = [at |-> pc, id |-> i, payload |-> p]
      /\ \A y \in Threads : y # x => thread'[y] = thread[y]
  BY <1>a, EnterIs
<1>1. /\ thread'[x].at = pc
      /\ \A y \in Threads : y # x => thread'[y] = thread[y]
  BY <1>b
<1>2. QED BY <1>1 DEF Approving, At

LEMMA QuietLeave ==
  ASSUME IInv, NEW x \in Threads, Leave(x), UNCHANGED <<request, approvedAs>>
  PROVE  Approving
<1>1. /\ thread'[x].at = "idle"
      /\ \A y \in Threads : y # x => thread'[y] = thread[y]
  BY LeaveIs DEF IInv
<1>2. QED BY <1>1 DEF Approving, At

\* Requests that are due expire, and nothing else happens to them.
LEMMA ExpireDueIs ==
  ASSUME TypeOK, ExpireDue
  PROVE  /\ request' \in [Requests -> [status : Statuses, payload : Payloads \union {None}]]
         /\ \A r \in Requests :
              \/ request'[r] = request[r]
              \/ request[r].status = "pending" /\ request'[r].status = "expired"
<1>1. PICK due \in SUBSET Pending :
        request' = [r \in Requests |-> IF r \in due THEN [request[r] EXCEPT !.status = "expired"]
                                                     ELSE request[r]]
  BY DEF ExpireDue
<1>2. ASSUME NEW r \in Requests
      PROVE  /\ request'[r] \in [status : Statuses, payload : Payloads \union {None}]
             /\ \/ request'[r] = request[r]
                \/ request[r].status = "pending" /\ request'[r].status = "expired"
  BY <1>1 DEF TypeOK, Pending, Statuses
<1>3. QED BY <1>1, <1>2

LEMMA GrantKeeps ==
  ASSUME IInv, NEW s \in Grants, CreateGrant(s) \/ RevokeGrant(s) \/ GrantRunsOut(s)
  PROVE  Keeps
<1>1. UNCHANGED <<request, thread, approvedAs>>
  BY DEF CreateGrant, RevokeGrant, GrantRunsOut
<1>2. grant' \in [Grants -> [status : {"none", "active", "revoked"}, uses : Nat, over : BOOLEAN]]
  <2>1. CASE CreateGrant(s)
    BY <2>1 DEF IInv, TypeOK, CreateGrant
  <2>2. CASE RevokeGrant(s)
    BY <2>2 DEF IInv, TypeOK, RevokeGrant
  <2>3. CASE GrantRunsOut(s)
    BY <2>3 DEF IInv, TypeOK, GrantRunsOut
  <2>4. QED BY <2>1, <2>2, <2>3
<1>3. TypeOfTables'
  BY <1>1, <1>2 DEF IInv, TypeOK, TypeOfTables
<1>4. QED BY <1>1, <1>3, UnchangedTypes DEF IInv, Keeps, Approving, At

LEMMA MatchKeeps ==
  ASSUME IInv, NEW x \in Threads, Match(x)
  PROVE  Keeps
<1>1. UNCHANGED <<request, grant, approvedAs>>
  BY DEF Match
<1>2. TypeOfTables'
  BY <1>1 DEF IInv, TypeOK, TypeOfTables
<1>3. CASE \E s \in Grants : Enter(x, "use", s, None)
  <2>1. PICK s \in Grants : Enter(x, "use", s, None)
    BY <1>3
  <2>2. TypeOfThreads'
    BY <2>1, EnterTypes DEF IInv, Points
  <2>3. Approving
    BY <2>1, <1>1, QuietEnter DEF Points
  <2>4. QED BY <1>2, <2>2, <2>3 DEF Keeps
<1>4. CASE Enter(x, "count", None, None)
  <2>1. TypeOfThreads'
    BY <1>4, EnterTypes DEF IInv, Points
  <2>2. Approving
    BY <1>4, <1>1, QuietEnter DEF Points
  <2>3. QED BY <1>2, <2>1, <2>2 DEF Keeps
<1>5. QED BY <1>3, <1>4 DEF Match

LEMMA UseKeeps ==
  ASSUME IInv, NEW x \in Threads, Use(x)
  PROVE  Keeps
<1>1. Leave(x) /\ UNCHANGED <<request, approvedAs>>
  BY DEF Use
<1>2. grant' \in [Grants -> [status : {"none", "active", "revoked"}, uses : Nat, over : BOOLEAN]]
  BY DEF IInv, TypeOK, Use
<1>3. TypeOfTables'
  BY <1>1, <1>2 DEF IInv, TypeOK, TypeOfTables
<1>4. QED BY <1>1, <1>3, LeaveTypes, QuietLeave DEF IInv, Keeps

LEMMA CountPendingKeeps ==
  ASSUME IInv, NEW x \in Threads, CountPending(x)
  PROVE  Keeps
<1>1. UNCHANGED <<request, grant, approvedAs>>
  BY DEF CountPending
<1>2. TypeOfTables'
  BY <1>1 DEF IInv, TypeOK, TypeOfTables
<1>3. CASE Enter(x, "insert", None, None)
  <2>1. TypeOfThreads'
    BY <1>3, EnterTypes DEF IInv, Points
  <2>2. Approving
    BY <1>3, <1>1, QuietEnter DEF Points
  <2>3. QED BY <1>2, <2>1, <2>2 DEF Keeps
<1>4. CASE Leave(x)
  BY <1>1, <1>2, <1>4, LeaveTypes, QuietLeave DEF IInv, Keeps
<1>5. QED BY <1>3, <1>4 DEF CountPending

\* A thread that leaves, while only requests that are open change.
LEMMA LeaveAndChange ==
  ASSUME IInv, NEW x \in Threads, Leave(x), UNCHANGED grant,
         request' \in [Requests -> [status : Statuses, payload : Payloads \union {None}]],
         approvedAs' \in [Requests -> Payloads \union {None}],
         \A r \in Requests :
           \/ request'[r] = request[r] /\ approvedAs'[r] = approvedAs[r]
           \/ /\ request[r].status \in Open
              /\ request'[r].status = "approved" => request'[r].payload = approvedAs'[r]
  PROVE  Keeps
<1>1. TypeOfTables'
  BY DEF IInv, TypeOK, TypeOfTables
<1>2. TypeOfThreads'
  BY LeaveTypes DEF IInv
<1>3. /\ thread'[x].at = "idle"
      /\ \A y \in Threads : y # x => thread'[y] = thread[y]
  BY LeaveIs DEF IInv
<1>4. Approving
  BY <1>3 DEF Approving, At
<1>5. QED BY <1>1, <1>2, <1>4 DEF Keeps

LEMMA InsertKeeps ==
  ASSUME IInv, NEW x \in Threads, Insert(x)
  PROVE  Keeps
<1>1. PICK r \in Requests, p \in Payloads :
        /\ request[r].status = "none"
        /\ request' = [request EXCEPT ![r] = [status |-> "pending", payload |-> p]]
  BY DEF Insert
<1>2. request' \in [Requests -> [status : Statuses, payload : Payloads \union {None}]]
  BY <1>1 DEF IInv, TypeOK, Statuses, Open
<1>3. \A q \in Requests : \/ request'[q] = request[q]
                          \/ request[q].status \in Open /\ request'[q].status = "pending"
  BY <1>1 DEF IInv, TypeOK, Open
<1>4. QED BY <1>2, <1>3, LeaveAndChange DEF Insert, IInv, TypeOK

LEMMA NoIdLeftKeeps ==
  ASSUME IInv, NEW x \in Threads, NoIdLeft(x)
  PROVE  Keeps
BY LeaveAndChange DEF NoIdLeft, IInv, TypeOK

LEMMA LookKeeps ==
  ASSUME IInv, Look
  PROVE  Keeps
<1>1. /\ request' \in [Requests -> [status : Statuses, payload : Payloads \union {None}]]
      /\ \A r \in Requests :
           \/ request'[r] = request[r]
           \/ request[r].status = "pending" /\ request'[r].status = "expired"
  BY ExpireDueIs DEF IInv, Look
<1>2. TypeOfTables'
  BY <1>1 DEF Look, IInv, TypeOK, TypeOfTables
<1>3. TypeOfThreads'
  BY UnchangedTypes DEF Look, IInv
<1>4. Approving
  BY <1>1 DEF Look, Approving, Open
<1>5. QED BY <1>2, <1>3, <1>4 DEF Keeps

LEMMA AnswerKeeps ==
  ASSUME IInv, NEW x \in Threads, NEW r \in Requests, NEW pc \in {"decide", "edit"},
         Answer(x, r, pc)
  PROVE  Keeps
<1>1. Enter(x, pc, r, None) /\ UNCHANGED <<grant, approvedAs>>
  BY DEF Answer
<1>2. /\ request' \in [Requests -> [status : Statuses, payload : Payloads \union {None}]]
      /\ \A q \in Requests :
           \/ request'[q] = request[q]
           \/ request[q].status = "pending" /\ request'[q].status = "expired"
  BY ExpireDueIs DEF IInv, Answer
<1>3. TypeOfTables'
  BY <1>1, <1>2 DEF IInv, TypeOK, TypeOfTables
<1>4. TypeOfThreads'
  BY <1>1, EnterTypes DEF IInv, Points
<1>a. TypeOK /\ pc \in Points
  BY DEF IInv, Points
<1>b. /\ thread'[x] = [at |-> pc, id |-> r, payload |-> None]
      /\ \A y \in Threads : y # x => thread'[y] = thread[y]
  BY <1>1, <1>a, EnterIs
<1>5. /\ thread'[x].at = pc
      /\ \A y \in Threads : y # x => thread'[y] = thread[y]
  BY <1>b
<1>6. Approving
  BY <1>1, <1>2, <1>5 DEF Approving, Open, At
<1>7. QED BY <1>3, <1>4, <1>6 DEF Keeps

\* The owner decides about what is pending: approval and payload at one moment.
LEMMA DecideKeeps ==
  ASSUME IInv, NEW x \in Threads, NEW verdict \in {"approved", "denied"}, Decide(x, verdict)
  PROVE  Keeps
<1> DEFINE r == thread[x].id
<1>1. r \in Requests
  BY DEF Decide, IInv, ThreadsOK
<1>2. CASE r \in Pending
  <2>1. request' = [request EXCEPT ![r].status = verdict]
    BY <1>2 DEF Decide
  <2>2. request' \in [Requests -> [status : Statuses, payload : Payloads \union {None}]]
    BY <2>1, <1>1 DEF IInv, TypeOK, Statuses
  <2>3. /\ request[r].status \in Open
        /\ request'[r].status = verdict /\ request'[r].payload = request[r].payload
        /\ \A q \in Requests : q # r => request'[q] = request[q]
    BY <2>1, <1>1, <1>2 DEF IInv, TypeOK, Pending, Open
  <2>4. /\ approvedAs' \in [Requests -> Payloads \union {None}]
        /\ verdict = "approved" => approvedAs'[r] = request[r].payload
        /\ \A q \in Requests : q # r => approvedAs'[q] = approvedAs[q]
    BY <1>1, <1>2 DEF Decide, IInv, TypeOK
  <2>5. Leave(x) /\ UNCHANGED grant
    BY DEF Decide
  <2>6. QED BY <1>1, <2>2, <2>3, <2>4, <2>5, LeaveAndChange
<1>3. CASE r \notin Pending
  <2>1. Leave(x) /\ UNCHANGED <<request, approvedAs, grant>>
    BY <1>3 DEF Decide
  <2>2. QED BY <2>1, LeaveAndChange DEF IInv, TypeOK
<1>4. QED BY <1>2, <1>3

LEMMA EditKeeps ==
  ASSUME IInv, NEW x \in Threads, Edit(x)
  PROVE  Keeps
<1> DEFINE r == thread[x].id
<1>1. r \in Requests /\ Leave(x) /\ UNCHANGED <<grant, approvedAs>>
  BY DEF Edit, IInv, ThreadsOK
<1>2. CASE r \in Pending
  <2>1. PICK p \in Payloads : request' = [request EXCEPT ![r].payload = p]
    BY <1>2 DEF Edit, Editable
  <2>2. request' \in [Requests -> [status : Statuses, payload : Payloads \union {None}]]
    BY <2>1, <1>1 DEF IInv, TypeOK
  <2>3. /\ request'[r].status = "pending" /\ request[r].status \in Open
        /\ \A q \in Requests : q # r => request'[q] = request[q]
    BY <2>1, <1>1, <1>2 DEF IInv, TypeOK, Pending, Open
  <2>4. QED BY <1>1, <2>2, <2>3, LeaveAndChange DEF IInv, TypeOK
<1>3. CASE r \notin Pending
  <2>1. UNCHANGED request
    BY <1>3 DEF Edit, Editable
  <2>2. QED BY <1>1, <2>1, LeaveAndChange DEF IInv, TypeOK
<1>4. QED BY <1>2, <1>3

LEMMA ExecuteKeeps ==
  ASSUME IInv, NEW x \in Threads, NEW r \in Requests, Execute(x, r)
  PROVE  Keeps
<1>1. /\ request[r].status = "approved" /\ Enter(x, "act", r, request[r].payload)
      /\ UNCHANGED <<grant, approvedAs>>
  BY DEF Execute
<1>2. request[r].payload \in Payloads \union {None}
  BY DEF IInv, TypeOK
<1>3. /\ request' \in [Requests -> [status : Statuses, payload : Payloads \union {None}]]
      /\ \A q \in Requests :
           \/ request'[q] = request[q]
           \/ request[q].status = "pending" /\ request'[q].status = "expired"
  BY ExpireDueIs DEF IInv, Execute
<1>4. TypeOfTables'
  BY <1>1, <1>3 DEF IInv, TypeOK, TypeOfTables
<1>5. TypeOfThreads'
  BY <1>1, <1>2, EnterTypes DEF IInv, Points
<1>6. /\ thread'[x] = [at |-> "act", id |-> r, payload |-> request[r].payload]
      /\ \A y \in Threads : y # x => thread'[y] = thread[y]
  BY <1>1, <1>2, EnterIs DEF IInv, Points
<1>7. Approving
  BY <1>1, <1>3, <1>6 DEF Approving, Open
<1>8. QED BY <1>4, <1>5, <1>7 DEF Keeps

LEMMA ActKeeps ==
  ASSUME IInv, NEW x \in Threads, Act(x)
  PROVE  Keeps
BY LeaveAndChange DEF Act, IInv, TypeOK

LEMMA RestartKeeps ==
  ASSUME IInv, Restart
  PROVE  Keeps
<1>1. \A r \in Requests :
        request'[r] = IF request[r].status = "none" THEN request[r]
                      ELSE [status |-> "forgotten", payload |-> None]
  BY DEF Restart
<1>2. request' \in [Requests -> [status : Statuses, payload : Payloads \union {None}]]
  BY DEF Restart, IInv, TypeOK, Statuses
<1>3. TypeOfTables'
  BY <1>2 DEF Restart, IInv, TypeOK, TypeOfTables
<1>4. Idle \in Record /\ Idle.at = "idle"
  BY DEF Idle, Record, Points
<1>5. \A x \in Threads : thread'[x] = thread[x] \/ thread'[x] = Idle
  BY DEF Restart
<1>6. thread' \in [Threads -> Record]
  BY <1>4 DEF Restart, IInv, TypeOK, Record
<1>7. TypeOfThreads'
  BY <1>4, <1>5, <1>6 DEF TypeOfThreads, ThreadsOK, IInv, TypeOK, At
<1>8. Approving
  BY <1>1, <1>4, <1>5 DEF Restart, Approving, At
<1>9. QED BY <1>3, <1>7, <1>8 DEF Keeps

LEMMA StutterKeeps ==
  ASSUME IInv, UNCHANGED vars
  PROVE  Keeps
<1>1. UNCHANGED <<request, grant, thread, approvedAs>>
  BY DEF vars
<1>2. TypeOfTables'
  BY <1>1 DEF IInv, TypeOK, TypeOfTables
<1>3. QED BY <1>1, <1>2, UnchangedTypes DEF IInv, Keeps, Approving

LEMMA StepKeeps ==
  ASSUME IInv, [Next]_vars
  PROVE  Keeps
BY GrantKeeps, MatchKeeps, UseKeeps, CountPendingKeeps, InsertKeeps, NoIdLeftKeeps, LookKeeps,
   AnswerKeeps, DecideKeeps, EditKeeps, ExecuteKeeps, ActKeeps, RestartKeeps, StutterKeeps
   DEF Next

-----------------------------------------------------------------------------
(* The invariant.                                                          *)

LEMMA InitIInv == Init => IInv
<1> SUFFICES ASSUME Init PROVE IInv
  OBVIOUS
<1>1. Idle \in Record /\ Idle.at = "idle"
  BY DEF Idle, Record, Points
<1>2. /\ thread \in [Threads -> Record]
      /\ \A x \in Threads : At(x) = "idle"
  BY <1>1 DEF Init, At
<1>3. \A r \in Requests : request[r].status = "none"
  BY DEF Init
<1>4. TypeOK
  BY <1>2 DEF Init, TypeOK, Record, Statuses, Open
<1>5. QED BY <1>2, <1>3, <1>4
           DEF IInv, ThreadsOK, ApprovedKept, ActedOnIsDecided, ActsAsApproved

LEMMA NextIInv == IInv /\ [Next]_vars => IInv'
<1> SUFFICES ASSUME IInv, [Next]_vars PROVE IInv'
  OBVIOUS
<1>1. Keeps
  BY StepKeeps
<1>2. TypeOK' /\ ThreadsOK'
  BY <1>1, TypesNext DEF Keeps
<1>3. (ApprovedKept /\ ActedOnIsDecided /\ ActsAsApproved)'
  BY <1>1, ApprovingKeeps DEF Keeps
<1>4. QED BY <1>2, <1>3 DEF IInv

THEOREM Invariance == Spec => []IInv
BY InitIInv, NextIInv, PTL DEF Spec

\* Every reachable state of requests, standing approvals and threads is well typed.
THEOREM TypeCorrect == Spec => []TypeOK
<1>1. IInv => TypeOK
  BY DEF IInv
<1>2. QED BY Invariance, <1>1, PTL

\* Whoever is about to act has the payload the owner approved, for any number of
\* tools, edits, answers and restarts.
THEOREM AlwaysActsAsApproved == Spec => []ActsAsApproved
<1>1. IInv => ActsAsApproved
  BY DEF IInv
<1>2. QED BY Invariance, <1>1, PTL
-----------------------------------------------------------------------------
(* The limits, which only what is under way may exceed.  Per limit, each   *)
(* step uses up no more of it, or finds that there is some of it left, or  *)
(* uses one up that has been under way.                                    *)

WithinStep(used, flying, usedNext, flyingNext, limit) ==
  \/ usedNext <= used /\ flyingNext \subseteq flying
  \/ usedNext < limit
  \/ usedNext <= used + 1 /\ \E x \in flying : flyingNext \subseteq flying \ {x}

LEMMA WithinKeeps ==
  ASSUME NEW limit \in Nat, NEW n \in Nat, NEW m \in Nat,
         NEW F \in SUBSET Threads, NEW G \in SUBSET Threads,
         n + Cardinality(F) < limit + Cardinality(Threads),
         WithinStep(n, F, m, G, limit)
  PROVE  m + Cardinality(G) < limit + Cardinality(Threads)
<1>1. /\ IsFiniteSet(Threads) /\ Cardinality(Threads) \in Nat
      /\ IsFiniteSet(F) /\ Cardinality(F) \in Nat
      /\ Cardinality(G) \in Nat /\ Cardinality(G) <= Cardinality(Threads)
  BY FS_Subset, FS_CardinalityType, ApprovalAssumption
<1>2. CASE m <= n /\ G \subseteq F
  <2>1. Cardinality(G) <= Cardinality(F)
    BY <1>1, <1>2, FS_Subset
  <2>2. QED BY <1>1, <1>2, <2>1
<1>3. CASE m < limit
  BY <1>1, <1>3
<1>4. CASE m <= n + 1 /\ \E x \in F : G \subseteq F \ {x}
  <2>1. PICK x \in F : G \subseteq F \ {x}
    BY <1>4
  <2>2. IsFiniteSet(F \ {x}) /\ Cardinality(F \ {x}) = Cardinality(F) - 1
    BY <1>1, FS_RemoveElement
  <2>3. Cardinality(G) <= Cardinality(F \ {x})
    BY <2>1, <2>2, FS_Subset
  <2>4. QED BY <1>1, <1>4, <2>2, <2>3
<1>5. QED BY <1>2, <1>3, <1>4 DEF WithinStep

\* The two limits, before and after a step.
UsesStep ==
  \A s \in Grants :
    WithinStep(grant[s].uses, InFlight("use", s), grant'[s].uses, InFlight("use", s)', MaxUses)
PendingStep ==
  WithinStep(Cardinality(Pending), InFlight("insert", None),
             Cardinality(Pending)', InFlight("insert", None)', MaxPending)

LEMMA PendingIsNat ==
  /\ Cardinality(Pending) \in Nat /\ Cardinality(Pending)' \in Nat
  /\ IsFiniteSet(Pending) /\ IsFiniteSet(Pending')
<1>1. Pending \subseteq Requests /\ Pending' \subseteq Requests
  BY DEF Pending
<1>2. QED BY <1>1, FS_Subset, FS_CardinalityType, ApprovalAssumption

LEMMA LimitsKept ==
  ASSUME TypeOK, TypeOK', LimitsHold, UsesStep, PendingStep
  PROVE  LimitsHold'
<1>1. ASSUME NEW s \in Grants
      PROVE  grant'[s].uses + Cardinality(InFlight("use", s)') < MaxUses + Cardinality(Threads)
  <2>1. /\ grant[s].uses \in Nat /\ grant'[s].uses \in Nat /\ MaxUses \in Nat
        /\ InFlight("use", s) \in SUBSET Threads /\ InFlight("use", s)' \in SUBSET Threads
    BY ApprovalAssumption DEF TypeOK, InFlight
  <2>2. grant[s].uses + Cardinality(InFlight("use", s)) < MaxUses + Cardinality(Threads)
    BY DEF LimitsHold
  <2>3. WithinStep(grant[s].uses, InFlight("use", s), grant'[s].uses, InFlight("use", s)', MaxUses)
    BY DEF UsesStep
  <2>4. QED BY <2>1, <2>2, <2>3, WithinKeeps
<1>2. Cardinality(Pending)' + Cardinality(InFlight("insert", None)')
        < MaxPending + Cardinality(Threads)
  <2>1. /\ MaxPending \in Nat
        /\ InFlight("insert", None) \in SUBSET Threads /\ InFlight("insert", None)' \in SUBSET Threads
    BY ApprovalAssumption DEF InFlight
  <2>2. Cardinality(Pending) + Cardinality(InFlight("insert", None))
          < MaxPending + Cardinality(Threads)
    BY DEF LimitsHold
  <2>3. QED BY <2>1, <2>2, PendingIsNat, WithinKeeps DEF PendingStep
<1>3. QED BY <1>1, <1>2 DEF LimitsHold

\* A step that touches neither the uses nor, but for one thread that goes to a point
\* without a limit, where the threads are.
LEMMA UsesStay ==
  ASSUME TypeOK, \A s \in Grants : grant'[s].uses = grant[s].uses,
         \A y \in Threads : thread'[y] = thread[y] \/ thread'[y].at # "use"
  PROVE  UsesStep
<1>1. ASSUME NEW s \in Grants
      PROVE  grant'[s].uses <= grant[s].uses /\ InFlight("use", s)' \subseteq InFlight("use", s)
  BY DEF TypeOK, InFlight, At
<1>2. QED BY <1>1 DEF UsesStep, WithinStep

LEMMA PendingStays ==
  ASSUME Pending' \subseteq Pending,
         \A y \in Threads : thread'[y] = thread[y] \/ thread'[y].at # "insert"
  PROVE  PendingStep
<1>1. InFlight("insert", None)' \subseteq InFlight("insert", None)
  BY DEF InFlight, At
<1>2. Cardinality(Pending)' <= Cardinality(Pending)
  BY PendingIsNat, FS_Subset
<1>3. QED BY <1>1, <1>2 DEF PendingStep, WithinStep

Steps == UsesStep /\ PendingStep

LEMMA EnterElsewhere ==
  ASSUME IInv, NEW x \in Threads, NEW pc \in Points \ {"use", "insert"},
         NEW i \in Requests \union Grants \union {None}, NEW p \in Payloads \union {None},
         Enter(x, pc, i, p), Pending' \subseteq Pending, UNCHANGED grant
  PROVE  Steps
<1>1. TypeOK /\ pc \in Points
  BY DEF IInv
<1>2. /\ thread'[x] = [at |-> pc, id |-> i, payload |-> p]
      /\ \A y \in Threads : y # x => thread'[y] = thread[y]
  BY <1>1, EnterIs
<1>3. thread'[x].at \notin {"use", "insert"}
  BY <1>2
<1>4. QED BY <1>1, <1>2, <1>3, UsesStay, PendingStays DEF Steps

LEMMA LeaveElsewhere ==
  ASSUME IInv, NEW x \in Threads, Leave(x),
         Pending' \subseteq Pending, UNCHANGED grant
  PROVE  Steps
<1>1. /\ thread'[x].at = "idle"
      /\ \A y \in Threads : y # x => thread'[y] = thread[y]
  BY LeaveIs DEF IInv
<1>2. QED BY <1>1, UsesStay, PendingStays DEF Steps, IInv

LEMMA ExpiryShrinks ==
  ASSUME TypeOK, ExpireDue
  PROVE  Pending' \subseteq Pending
<1>1. \A r \in Requests : \/ request'[r] = request[r]
                          \/ request[r].status = "pending" /\ request'[r].status = "expired"
  BY ExpireDueIs
<1>2. QED BY <1>1 DEF Pending

LEMMA GrantSteps ==
  ASSUME IInv, NEW s \in Grants,
         CreateGrant(s) \/ RevokeGrant(s) \/ GrantRunsOut(s)
  PROVE  Steps
<1>1. \A t \in Grants : grant'[t].uses = grant[t].uses
  <2>1. CASE CreateGrant(s)
    BY <2>1 DEF IInv, TypeOK, CreateGrant
  <2>2. CASE RevokeGrant(s)
    BY <2>2 DEF IInv, TypeOK, RevokeGrant
  <2>3. CASE GrantRunsOut(s)
    BY <2>3 DEF IInv, TypeOK, GrantRunsOut
  <2>4. QED BY <2>1, <2>2, <2>3
<1>2. UNCHANGED <<request, thread>>
  BY DEF CreateGrant, RevokeGrant, GrantRunsOut
<1>3. Pending' \subseteq Pending
  BY <1>2 DEF Pending
<1>4. QED BY <1>1, <1>2, <1>3, UsesStay, PendingStays DEF IInv, Steps

\* A standing approval is matched while it has uses left.
LEMMA MatchSteps ==
  ASSUME IInv, NEW x \in Threads, Match(x)
  PROVE  Steps
<1>1. UNCHANGED <<request, grant>> /\ Pending' \subseteq Pending
  BY DEF Match, Pending
<1>2. CASE \E s \in Grants : Usable(s) /\ Enter(x, "use", s, None)
  <2>1. PICK s \in Grants : Usable(s) /\ Enter(x, "use", s, None)
    BY <1>2
  <2>2. TypeOK /\ "use" \in Points
    BY DEF IInv, Points
  <2>3. /\ thread'[x] = [at |-> "use", id |-> s, payload |-> None]
        /\ \A y \in Threads : y # x => thread'[y] = thread[y]
    BY <2>1, <2>2, EnterIs
  <2>4. thread'[x].at = "use" /\ thread'[x].id = s
    BY <2>3
  <2>5. ASSUME NEW t \in Grants
        PROVE  WithinStep(grant[t].uses, InFlight("use", t), grant'[t].uses,
                          InFlight("use", t)', MaxUses)
    <3>1. CASE t = s
      BY <1>1, <2>1, <3>1 DEF Usable, UsesLeft, WithinStep
    <3>2. CASE t # s
      <4>1. InFlight("use", t)' \subseteq InFlight("use", t)
        BY <2>3, <2>4, <3>2 DEF InFlight, At
      <4>2. grant'[t].uses <= grant[t].uses
        BY <1>1, <2>2 DEF TypeOK
      <4>3. QED BY <4>1, <4>2 DEF WithinStep
    <3>3. QED BY <3>1, <3>2
  <2>6. PendingStep
    BY <1>1, <2>3, <2>4, PendingStays
  <2>7. QED BY <2>5, <2>6 DEF UsesStep, Steps
<1>3. CASE Enter(x, "count", None, None)
  BY <1>1, <1>3, EnterElsewhere DEF Points
<1>4. QED BY <1>2, <1>3 DEF Match

LEMMA UseSteps ==
  ASSUME IInv, NEW x \in Threads, Use(x)
  PROVE  Steps
<1> DEFINE s == thread[x].id
<1>1. s \in Grants /\ At(x) = "use" /\ UNCHANGED request
  BY DEF Use, IInv, TypeOK
<1>2. /\ thread'[x].at = "idle"
      /\ \A y \in Threads : y # x => thread'[y] = thread[y]
  BY LeaveIs DEF IInv, Use
<1>3. /\ grant'[s].uses = grant[s].uses + 1
      /\ \A t \in Grants : grant[t].uses \in Nat /\ (t # s => grant'[t] = grant[t])
  BY <1>1 DEF Use, IInv, TypeOK
<1>4. ASSUME NEW t \in Grants
      PROVE  WithinStep(grant[t].uses, InFlight("use", t), grant'[t].uses,
                        InFlight("use", t)', MaxUses)
  <2>1. CASE t = s
    <3>1. x \in InFlight("use", t)
      BY <1>1, <2>1 DEF InFlight
    <3>2. InFlight("use", t)' \subseteq InFlight("use", t) \ {x}
      BY <1>2 DEF InFlight, At
    <3>3. grant'[t].uses <= grant[t].uses + 1
      BY <1>3, <2>1
    <3>4. QED BY <3>1, <3>2, <3>3 DEF WithinStep
  <2>2. CASE t # s
    <3>1. InFlight("use", t)' \subseteq InFlight("use", t)
      BY <1>2 DEF InFlight, At
    <3>2. QED BY <1>3, <2>2, <3>1 DEF WithinStep
  <2>3. QED BY <2>1, <2>2
<1>5. Pending' \subseteq Pending
  BY <1>1 DEF Pending
<1>6. QED BY <1>2, <1>4, <1>5, PendingStays DEF UsesStep, Steps

\* A request is let through while fewer than the limit are pending.
LEMMA CountPendingSteps ==
  ASSUME IInv, NEW x \in Threads, CountPending(x)
  PROVE  Steps
<1>1. UNCHANGED <<request, grant>> /\ Pending' = Pending
  BY DEF CountPending, Pending
<1>2. CASE Cardinality(Pending) < MaxPending /\ Enter(x, "insert", None, None)
  <2>1. TypeOK /\ "insert" \in Points
    BY DEF IInv, Points
  <2>2. /\ thread'[x] = [at |-> "insert", id |-> None, payload |-> None]
        /\ \A y \in Threads : y # x => thread'[y] = thread[y]
    BY <1>2, <2>1, EnterIs
  <2>3. UsesStep
    BY <1>1, <2>1, <2>2, UsesStay
  <2>4. PendingStep
    BY <1>1, <1>2 DEF PendingStep, WithinStep
  <2>5. QED BY <2>3, <2>4 DEF Steps
<1>3. CASE Leave(x)
  BY <1>1, <1>3, LeaveElsewhere
<1>4. QED BY <1>2, <1>3 DEF CountPending

LEMMA InsertSteps ==
  ASSUME IInv, NEW x \in Threads, Insert(x)
  PROVE  Steps
<1>1. PICK r \in Requests, p \in Payloads :
        /\ request[r].status = "none"
        /\ request' = [request EXCEPT ![r] = [status |-> "pending", payload |-> p]]
  BY DEF Insert
<1>2. At(x) = "insert" /\ thread[x].id = None /\ UNCHANGED grant
  BY DEF Insert, IInv, ThreadsOK
<1>3. /\ thread'[x].at = "idle"
      /\ \A y \in Threads : y # x => thread'[y] = thread[y]
  BY LeaveIs DEF IInv, Insert
<1>4. UsesStep
  BY <1>2, <1>3, UsesStay DEF IInv
<1>5. /\ x \in InFlight("insert", None)
      /\ InFlight("insert", None)' \subseteq InFlight("insert", None) \ {x}
  BY <1>2, <1>3 DEF InFlight, At
<1>6. Pending' \subseteq Pending \union {r}
  BY <1>1 DEF IInv, TypeOK, Pending
<1>7. Cardinality(Pending)' <= Cardinality(Pending) + 1
  <2>1. /\ IsFiniteSet(Pending \union {r})
        /\ Cardinality(Pending \union {r}) <= Cardinality(Pending) + 1
    <3>1. IsFiniteSet(Pending) /\ Cardinality(Pending) \in Nat
      BY PendingIsNat
    <3>2. /\ IsFiniteSet(Pending \union {r})
          /\ Cardinality(Pending \union {r})
               = IF r \in Pending THEN Cardinality(Pending) ELSE Cardinality(Pending) + 1
      BY <3>1, FS_AddElement
    <3>3. QED BY <3>1, <3>2
  <2>2. Cardinality(Pending') <= Cardinality(Pending \union {r})
    BY <1>6, <2>1, FS_Subset
  <2>3. Cardinality(Pending \union {r}) \in Nat
    BY <2>1, FS_CardinalityType
  <2>4. QED BY <2>1, <2>2, <2>3, PendingIsNat
<1>8. PendingStep
  BY <1>5, <1>7 DEF PendingStep, WithinStep
<1>9. QED BY <1>4, <1>8 DEF Steps

LEMMA AnswerSteps ==
  ASSUME IInv, NEW x \in Threads, NEW r \in Requests,
         NEW pc \in {"decide", "edit"}, Answer(x, r, pc)
  PROVE  Steps
<1>1. Enter(x, pc, r, None) /\ UNCHANGED grant
  BY DEF Answer
<1>2. Pending' \subseteq Pending
  BY ExpiryShrinks DEF Answer, IInv
<1>3. pc \in Points \ {"use", "insert"}
  BY DEF Points
<1>4. QED BY <1>1, <1>2, <1>3, EnterElsewhere

LEMMA ExecuteSteps ==
  ASSUME IInv, NEW x \in Threads, NEW r \in Requests, Execute(x, r)
  PROVE  Steps
<1>1. Enter(x, "act", r, request[r].payload) /\ UNCHANGED grant
  BY DEF Execute
<1>2. Pending' \subseteq Pending
  BY ExpiryShrinks DEF Execute, IInv
<1>3. request[r].payload \in Payloads \union {None} /\ "act" \in Points \ {"use", "insert"}
  BY DEF IInv, TypeOK, Points
<1>4. QED BY <1>1, <1>2, <1>3, EnterElsewhere

\* The owner's answer can only take a request off the pending ones.
LEMMA DecideSteps ==
  ASSUME IInv, NEW x \in Threads,
         NEW verdict \in {"approved", "denied"}, Decide(x, verdict)
  PROVE  Steps
<1>1. Leave(x) /\ UNCHANGED grant
  BY DEF Decide
<1>2. Pending' \subseteq Pending
  <2>1. CASE thread[x].id \in Pending
    <3>1. request' = [request EXCEPT ![thread[x].id].status = verdict]
      BY <2>1 DEF Decide
    <3>2. QED BY <3>1 DEF Pending, IInv, TypeOK
  <2>2. CASE thread[x].id \notin Pending
    BY <2>2 DEF Decide, Pending
  <2>3. QED BY <2>1, <2>2
<1>3. QED BY <1>1, <1>2, LeaveElsewhere

LEMMA EditSteps ==
  ASSUME IInv, NEW x \in Threads, Edit(x)
  PROVE  Steps
<1>1. Leave(x) /\ UNCHANGED grant
  BY DEF Edit
<1>2. Pending' \subseteq Pending
  <2>1. CASE thread[x].id \in Pending
    <3>1. PICK p \in Payloads : request' = [request EXCEPT ![thread[x].id].payload = p]
      BY <2>1 DEF Edit, Editable
    <3>2. QED BY <3>1 DEF Pending, IInv, TypeOK
  <2>2. CASE thread[x].id \notin Pending
    BY <2>2 DEF Edit, Editable, Pending
  <2>3. QED BY <2>1, <2>2
<1>3. QED BY <1>1, <1>2, LeaveElsewhere

LEMMA RestSteps ==
  ASSUME IInv, NEW x \in Threads, NoIdLeft(x) \/ Act(x)
  PROVE  Steps
<1>1. Leave(x) /\ UNCHANGED <<request, grant>>
  BY DEF NoIdLeft, Act
<1>2. Pending' \subseteq Pending
  BY <1>1 DEF Pending
<1>3. QED BY <1>1, <1>2, LeaveElsewhere

LEMMA GlobalSteps ==
  ASSUME IInv, Look \/ Restart \/ UNCHANGED vars
  PROVE  Steps
<1>1. \A y \in Threads : thread'[y] = thread[y] \/ thread'[y] = Idle
  BY DEF Look, Restart, IInv, TypeOK, vars
<1>2. Idle.at \notin {"use", "insert"}
  BY DEF Idle
<1>3. UNCHANGED grant
  BY DEF Look, Restart, vars
<1>4. CASE Look
  BY <1>1, <1>2, <1>3, <1>4, ExpiryShrinks, UsesStay, PendingStays DEF Look, IInv, Steps
<1>5. CASE Restart
  <2>1. Pending' \subseteq Pending
    BY <1>5 DEF Restart, Pending, IInv, TypeOK
  <2>2. QED BY <1>1, <1>2, <1>3, <2>1, UsesStay, PendingStays DEF IInv, Steps
<1>6. CASE UNCHANGED vars
  <2>1. Pending' \subseteq Pending
    BY <1>6 DEF vars, Pending
  <2>2. QED BY <1>1, <1>2, <1>3, <2>1, UsesStay, PendingStays DEF IInv, Steps
<1>7. QED BY <1>4, <1>5, <1>6

LEMMA StepIsWithin ==
  ASSUME IInv, [Next]_vars
  PROVE  Steps
BY GrantSteps, MatchSteps, UseSteps, CountPendingSteps, InsertSteps, AnswerSteps, ExecuteSteps,
   DecideSteps, EditSteps, RestSteps, GlobalSteps
   DEF Next

LEMMA InitLimits == Init => LimitsHold
<1> SUFFICES ASSUME Init PROVE LimitsHold
  OBVIOUS
<1>1. \A x \in Threads : At(x) = "idle"
  BY DEF Init, At, Idle
<1>2. /\ Pending = {}
      /\ \A s \in Grants : grant[s].uses = 0 /\ InFlight("use", s) = {}
      /\ InFlight("insert", None) = {}
  BY <1>1 DEF Init, Pending, InFlight
<1>3. Cardinality({}) = 0
  BY FS_EmptySet
<1>4. Cardinality(Threads) \in Nat
  BY FS_CardinalityType, ApprovalAssumption
<1>5. MaxUses \in Nat \ {0} /\ MaxPending \in Nat \ {0}
  BY ApprovalAssumption
<1>6. ASSUME NEW s \in Grants
      PROVE  grant[s].uses + Cardinality(InFlight("use", s)) < MaxUses + Cardinality(Threads)
  <2>1. grant[s].uses = 0 /\ Cardinality(InFlight("use", s)) = 0
    BY <1>2, <1>3
  <2>2. QED BY <1>4, <1>5, <2>1
<1>7. Cardinality(Pending) = 0 /\ Cardinality(InFlight("insert", None)) = 0
  BY <1>2, <1>3
<1>8. Cardinality(Pending) + Cardinality(InFlight("insert", None))
        < MaxPending + Cardinality(Threads)
  BY <1>4, <1>5, <1>7
<1>9. QED BY <1>6, <1>8 DEF LimitsHold

\* A standing approval's uses and the pending requests exceed their limit by less than
\* the number of threads, whatever the limits and however many threads there are.
THEOREM LimitsAlwaysHold == Spec => []LimitsHold
<1>1. Init => LimitsHold
  BY InitLimits
<1>2. IInv /\ IInv' /\ LimitsHold /\ [Next]_vars => LimitsHold'
  <2> SUFFICES ASSUME IInv, IInv', LimitsHold, [Next]_vars PROVE LimitsHold'
    OBVIOUS
  <2>1. UsesStep /\ PendingStep
    BY StepIsWithin DEF Steps
  <2>2. QED BY <2>1, LimitsKept DEF IInv
<1>3. QED BY Invariance, <1>1, <1>2, PTL DEF Spec
=============================================================================
