----------------------------- MODULE Approvals -----------------------------
(***************************************************************************)
(* Approvals by the owner: the /approval and /standing-approval routes     *)
(* (server.py, handlers/approvals.py), and the tools of bridge_mcp.py that *)
(* act once the owner has approved, such as bridge_email_execute.          *)
(*                                                                         *)
(* One action per section under APPROVAL_LOCK or _SA_LOCK; a section loads *)
(* the file of standing approvals and saves it again.  Requests live in    *)
(* memory, standing approvals in the file.  All requests here are one      *)
(* agent's, for one action and target, which are what a standing approval  *)
(* is looked up by; texts, risk levels, notices and the audit log are left *)
(* out.  A payload is one of a few versions.                               *)
(***************************************************************************)
EXTENDS Naturals, FiniteSets

CONSTANTS
  Threads,      \* request threads and tools under way at the same time
  Requests,     \* ids of requests
  Grants,       \* ids of standing approvals
  Payloads,
  MaxPending,   \* pending requests of an agent, 10 in the code
  MaxUses,      \* max_uses of every standing approval
  None

ASSUME ApprovalAssumption ==
  /\ IsFiniteSet(Threads) /\ IsFiniteSet(Requests)
  /\ MaxPending \in Nat \ {0} /\ MaxUses \in Nat \ {0}
  /\ None \notin Requests \union Grants \union Payloads

VARIABLES
  request,    \* APPROVAL_REQUESTS
  grant,      \* the file of standing approvals
  thread,     \* where each thread is and what it has read
  approvedAs  \* history: the payload of a request when the owner approved it

vars == <<request, grant, thread, approvedAs>>

Open == {"none", "pending"}
Statuses == Open \union {"approved", "denied", "expired", "forgotten"}
Points == {"idle", "use", "act", "count", "insert", "decide", "edit"}

Idle == [at |-> "idle", id |-> None, payload |-> None]
At(x) == thread[x].at
Enter(x, pc, i, p) == thread' = [thread EXCEPT ![x] = [at |-> pc, id |-> i, payload |-> p]]
Leave(x) == thread' = [thread EXCEPT ![x] = Idle]

TypeOK ==
  /\ request \in [Requests -> [status : Statuses, payload : Payloads \union {None}]]
  /\ grant \in [Grants -> [status : {"none", "active", "revoked"}, uses : Nat, over : BOOLEAN]]
  /\ thread \in [Threads -> [at : Points, id : Requests \union Grants \union {None},
                             payload : Payloads \union {None}]]
  /\ \A x \in Threads : At(x) = "use" => thread[x].id \in Grants
  /\ approvedAs \in [Requests -> Payloads \union {None}]

Init ==
  /\ request = [r \in Requests |-> [status |-> "none", payload |-> None]]
  /\ grant = [s \in Grants |-> [status |-> "none", uses |-> 0, over |-> FALSE]]
  /\ thread = [x \in Threads |-> Idle]
  /\ approvedAs = [r \in Requests |-> None]

-----------------------------------------------------------------------------
(* Standing approvals.                                                     *)

\* POST /standing-approval/create: none is active; one that is over or used up
\* counts as active.
CreateGrant(s) ==
  /\ grant[s].status = "none"
  /\ \A t \in Grants : grant[t].status # "active"
  /\ grant' = [grant EXCEPT ![s].status = "active"]
  /\ UNCHANGED <<request, thread, approvedAs>>

RevokeGrant(s) ==
  /\ grant[s].status = "active"
  /\ grant' = [grant EXCEPT ![s].status = "revoked"]
  /\ UNCHANGED <<request, thread, approvedAs>>

GrantRunsOut(s) ==
  /\ grant[s].status = "active" /\ ~grant[s].over
  /\ grant' = [grant EXCEPT ![s].over = TRUE]
  /\ UNCHANGED <<request, thread, approvedAs>>

\* _check_standing_approval
OneMore(n) == n <= MaxUses                 \* mutant: one use too many
UsesLeft(n) == n < MaxUses

Usable(s) == grant[s].status = "active" /\ ~grant[s].over /\ UsesLeft(grant[s].uses)

Match(x) ==
  /\ At(x) = "idle"
  /\ \/ \E s \in Grants : Usable(s) /\ Enter(x, "use", s, None)
     \/ (\A s \in Grants : ~Usable(s)) /\ Enter(x, "count", None, None)
  /\ UNCHANGED <<request, grant, approvedAs>>

\* _sa_increment_usage, whatever has become of the standing approval; the tool that
\* asked acts at once.
Use(x) ==
  /\ At(x) = "use"
  /\ grant' = [grant EXCEPT ![thread[x].id].uses = @ + 1]
  /\ Leave(x)
  /\ UNCHANGED <<request, approvedAs>>

-----------------------------------------------------------------------------
(* Requests.                                                               *)

Pending == {r \in Requests : request[r].status = "pending"}

\* POST /approval/request: the pending ones are counted in one section ...
CountPending(x) ==
  /\ At(x) = "count"
  /\ IF Cardinality(Pending) < MaxPending
       THEN Enter(x, "insert", None, None)
       ELSE Leave(x)
  /\ UNCHANGED <<request, grant, approvedAs>>

\* ... and the request inserted in another, under a new id.
Insert(x) ==
  /\ At(x) = "insert"
  /\ \E r \in Requests, p \in Payloads :
       /\ request[r].status = "none"
       /\ request' = [request EXCEPT ![r] = [status |-> "pending", payload |-> p]]
  /\ Leave(x)
  /\ UNCHANGED <<grant, approvedAs>>

\* Bound: when the ids are used up, the thread leaves.
NoIdLeft(x) ==
  /\ At(x) = "insert"
  /\ \A r \in Requests : request[r].status # "none"
  /\ Leave(x)
  /\ UNCHANGED <<request, grant, approvedAs>>

\* _approval_expire_check: some of the pending requests are due.
ExpireDue ==
  \E due \in SUBSET Pending :
    request' = [r \in Requests |-> IF r \in due THEN [request[r] EXCEPT !.status = "expired"]
                                                ELSE request[r]]

Look ==
  /\ ExpireDue
  /\ UNCHANGED <<grant, thread, approvedAs>>

\* The owner answers or edits: first the expiry, then the section that looks at the
\* status; the request may have become due, or have been answered, in between.
Answer(x, r, pc) ==
  /\ At(x) = "idle" /\ request[r].status # "none"
  /\ ExpireDue
  /\ Enter(x, pc, r, None)
  /\ UNCHANGED <<grant, approvedAs>>

Decide(x, verdict) ==
  LET r == thread[x].id IN
  /\ At(x) = "decide"
  /\ IF r \in Pending
       THEN /\ request' = [request EXCEPT ![r].status = verdict]
            /\ approvedAs' = IF verdict = "approved"
                               THEN [approvedAs EXCEPT ![r] = request[r].payload]
                               ELSE approvedAs
       ELSE UNCHANGED <<request, approvedAs>>
  /\ Leave(x)
  /\ UNCHANGED grant

\* POST /approval/{id}/edit
Known(r) == request[r].status \in Statuses \ {"none", "forgotten"}
                                           \* mutant: the status is not looked at
Editable(r) == r \in Pending

Edit(x) ==
  LET r == thread[x].id IN
  /\ At(x) = "edit"
  /\ IF Editable(r)
       THEN \E p \in Payloads : request' = [request EXCEPT ![r].payload = p]
       ELSE UNCHANGED request
  /\ Leave(x)
  /\ UNCHANGED <<grant, approvedAs>>

\* bridge_email_execute: reads the request ...
Execute(x, r) ==
  /\ At(x) = "idle" /\ request[r].status = "approved"
  /\ ExpireDue
  /\ Enter(x, "act", r, request[r].payload)
  /\ UNCHANGED <<grant, approvedAs>>

\* ... and acts on what it has read.  Nothing keeps it from acting again.
Act(x) ==
  /\ At(x) = "act"
  /\ Leave(x)
  /\ UNCHANGED <<request, grant, approvedAs>>

\* The server restarts: requests are forgotten, tools go on.
Restart ==
  /\ request' = [r \in Requests |-> IF request[r].status = "none" THEN request[r]
                                    ELSE [status |-> "forgotten", payload |-> None]]
  /\ thread' = [x \in Threads |-> IF At(x) = "act" THEN thread[x] ELSE Idle]
  /\ UNCHANGED <<grant, approvedAs>>

-----------------------------------------------------------------------------

Next ==
  \/ \E s \in Grants : CreateGrant(s) \/ RevokeGrant(s) \/ GrantRunsOut(s)
  \/ \E x \in Threads :
       \/ Match(x) \/ Use(x) \/ CountPending(x) \/ Insert(x) \/ NoIdLeft(x)
       \/ Edit(x) \/ Act(x)
       \/ \E verdict \in {"approved", "denied"} : Decide(x, verdict)
       \/ \E r \in Requests : Answer(x, r, "decide") \/ Answer(x, r, "edit") \/ Execute(x, r)
  \/ Look \/ Restart

Spec == Init /\ [][Next]_vars

-----------------------------------------------------------------------------

\* The limits are checked in one section and used in another.  They may be exceeded,
\* but only by the requests that were under way when the last one was let through:
\* a standing approval's uses, counted and still to be counted, stay below max_uses
\* plus the number of threads, also over revocations, and the agent's pending
\* requests below the limit of ten in the same way.
InFlight(pc, i) == {x \in Threads : At(x) = pc /\ thread[x].id = i}
LimitsHold ==
  /\ \A s \in Grants :
       grant[s].uses + Cardinality(InFlight("use", s)) < MaxUses + Cardinality(Threads)
  /\ Cardinality(Pending) + Cardinality(InFlight("insert", None))
       < MaxPending + Cardinality(Threads)

\* What a tool is about to do is what the owner approved: the payload may be edited
\* until the decision, and neither an edit under way, nor a second answer, nor a
\* restart comes between the approval and the act.
ActsAsApproved ==
  \A x \in Threads : At(x) = "act" => thread[x].payload = approvedAs[thread[x].id]
=============================================================================
