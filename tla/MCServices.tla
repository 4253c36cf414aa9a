----------------------------- MODULE MCServices -----------------------------
(***************************************************************************)
(* What reaches agents and what is cleaned up behind them, in one run: the *)
(* approvals, the push to an agent's client, the federation and the locks  *)
(* of an abandoned task.  They share no state; a behaviour is about one of *)
(* them, the subject, while the others rest in their initial states.       *)
(***************************************************************************)
EXTENDS Approvals, PushDelivery, Federation

CONSTANTS d, t1, a1, r1   \* a directory, a task, an agent, a request

VARIABLES
  subject,
  holder, locks, disk, req, releasing, refreshing, restarts

\* One directory and one task, with writes that may fail and a restart.
L == INSTANCE ScopeLocks WITH
       Paths <- {d}, Under <- {}, Tasks <- {t1}, Agents <- {a1}, Requests <- {r1},
       TTLs <- {1}, DiskFails <- TRUE, MaxRestarts <- 1

scope == <<holder, locks, disk, req, releasing, refreshing, restarts>>

ServicesInit ==
  /\ subject \in {"approval", "push", "federation", "scope"}
  /\ Init /\ PushInit /\ FederationInit /\ L!Init

ServicesNext ==
  /\ UNCHANGED subject
  /\ \/ subject = "approval" /\ Next /\ UNCHANGED <<push, federation, scope>>
     \/ subject = "push" /\ PushNext /\ UNCHANGED <<vars, federation, scope>>
     \/ subject = "federation" /\ FederationNext /\ UNCHANGED <<vars, push, scope>>
     \/ subject = "scope" /\ L!Next /\ UNCHANGED <<vars, push, federation>>

\* At rest a component has no step that fairness asks for.
ServicesSpec ==
  /\ ServicesInit /\ [][ServicesNext]_<<subject, vars, push, federation, scope>>
  /\ PushFairness /\ FederationFairness /\ L!Fairness

-----------------------------------------------------------------------------

\* The state of each is well typed, but for the locks, which have a run of their own.
TypesOK == TypeOK /\ PushTypeOK /\ FederationTypeOK

\* Locks of a task that nobody holds go away (ScopeLocks).
OrphanLocksExpire == L!OrphanLocksExpire
=============================================================================
