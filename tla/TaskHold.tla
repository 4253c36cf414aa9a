------------------------------ MODULE TaskHold ------------------------------
(***************************************************************************)
(* What the task protocol promises, without clocks, retries, daemons or    *)
(* escalations: a task is held by one agent at a time, changes hands only  *)
(* through the pool, and is done only out of the hands of its holder.      *)
(***************************************************************************)
CONSTANTS Tasks, Agents, None

VARIABLES
  holder,    \* the agent that holds a task, or None
  outcome    \* "open" | "done" | "closed" (failed or deleted)

TypeOK ==
  /\ holder \in [Tasks -> Agents \union {None}]
  /\ outcome \in [Tasks -> {"open", "done", "closed"}]

Init ==
  /\ holder = [t \in Tasks |-> None]
  /\ outcome = [t \in Tasks |-> "open"]

\* An agent takes a task out of the pool.
Take(t, a) ==
  /\ holder[t] = None
  /\ holder' = [holder EXCEPT ![t] = a]
  /\ outcome' = [outcome EXCEPT ![t] = "open"]

\* The holder loses a task that is not finished: it is back in the pool.
Drop(t) ==
  /\ holder[t] # None
  /\ holder' = [holder EXCEPT ![t] = None]
  /\ UNCHANGED outcome

\* The holder finishes its task.
Complete(t) ==
  /\ holder[t] # None /\ outcome[t] = "open"
  /\ holder' = [holder EXCEPT ![t] = None]
  /\ outcome' = [outcome EXCEPT ![t] = "done"]

\* One task is given up, whoever holds it ...
Close(t) ==
  /\ holder' = [holder EXCEPT ![t] = None]
  /\ outcome' = [outcome EXCEPT ![t] = "closed"]

\* ... or the tasks nobody took in time.
CloseUnheld(S) ==
  /\ \A t \in S : holder[t] = None /\ outcome[t] = "open"
  /\ outcome' = [t \in Tasks |-> IF t \in S THEN "closed" ELSE outcome[t]]
  /\ UNCHANGED holder

\* A finished task goes back into the pool.
Reopen(t) ==
  /\ outcome[t] # "open"
  /\ outcome' = [outcome EXCEPT ![t] = "open"]
  /\ UNCHANGED holder

Next ==
  \/ \E t \in Tasks : Drop(t) \/ Complete(t) \/ Close(t) \/ Reopen(t)
                      \/ \E a \in Agents : Take(t, a)
  \/ \E S \in SUBSET Tasks : CloseUnheld(S)

Spec == Init /\ [][Next]_<<holder, outcome>>

=============================================================================
