---------------------------- MODULE AgentRestart ----------------------------
(***************************************************************************)
(* Who starts an agent whose session has died: the assignment of a task    *)
(* (_ensure_agent_online, with a circuit breaker), the health daemon       *)
(* (daemons/agent_health.py), and the start route; composed with           *)
(* GracefulShutdown, which kills sessions, refuses restarts while it is    *)
(* pending and stops the daemon while the system is shut down.             *)
(*                                                                         *)
(* A worker is a request thread or the daemon's.  An assignment or a tick  *)
(* that finds the session dead decides under _RESTART_LOCK and keeps it    *)
(* until the restart has ended; the start route and the daemon's rescues   *)
(* go without.  Time is counted in ticks.  A restart of an agent that is   *)
(* rate limited is refused, which looks like a failed one; registrations   *)
(* only spare agents the check, and are left out with the messages.        *)
(***************************************************************************)
EXTENDS Actors, Naturals, FiniteSets

CONSTANTS
  Workers,                 \* threads that restart agents
  MaxFailures,             \* _RESTART_MAX_FAILURES
  Cooldown,                \* _RESTART_COOLDOWN in ticks
  MaxDoublings             \* the cooldown doubles this often at most

Ways == {"assigned", "health", "rescue", "start"}

\* That powers of two are positive numbers is said because the proofs cannot derive it.
ASSUME RespawnAssumption ==
  /\ IsFiniteSet(Workers) /\ None \notin Workers \union Ways
  /\ MaxFailures \in Nat \ {0} /\ Cooldown \in Nat /\ MaxDoublings \in Nat
  /\ \A n \in 0 .. MaxDoublings : 2 ^ n \in Nat \ {0}

VARIABLES
  active, pending, finalized, expected, acked, timer, thread, sessions,
  failures,   \* _AGENT_RESTART_FAILURES
  blocked,    \* _RESTART_BLOCKED
  age,        \* ticks since _AGENT_LAST_RESTART, LongAgo at most
  lock,       \* the worker that holds _RESTART_LOCK
  worker      \* where each worker is, for which agent, and how it came there

G == INSTANCE GracefulShutdown

status == <<active, pending, finalized, expected, acked, timer, thread>>
gsVars == <<status, sessions>>
restart == <<failures, blocked, age, lock, worker>>
respawns == <<gsVars, restart>>

CooldownAfter(n) == Cooldown * 2 ^ (IF n < MaxDoublings THEN n ELSE MaxDoublings)
LongAgo == CooldownAfter(MaxDoublings)

Guarded == {"assigned", "health"}
OfTheDaemon == {"health", "rescue"}
Resting == [at |-> "idle", agent |-> None, kind |-> None]
At(w) == worker[w].at
Go(w, pc) == worker' = [worker EXCEPT ![w].at = pc]
Enter(w, pc, a, k) == worker' = [worker EXCEPT ![w] = [at |-> pc, agent |-> a, kind |-> k]]
Leave(w) == worker' = [worker EXCEPT ![w] = Resting]

\* The daemon goes on with the other agents, a request thread answers.
Return(w) == IF worker[w].kind \in OfTheDaemon THEN Enter(w, "tick", None, "health")
                                               ELSE Leave(w)

\* The state that is not GracefulShutdown's; who holds the lock is under way with it.
WorkersOK ==
  /\ failures \in [Agents -> Nat] /\ blocked \subseteq Agents
  /\ age \in [Agents -> 0 .. LongAgo]
  /\ lock \in Workers \union {None}
  /\ worker \in [Workers -> [at : {"idle", "queue", "check", "start", "tick"},
                             agent : Agents \union {None}, kind : Ways \union {None}]]
  /\ \A w \in Workers :
       /\ At(w) \in {"queue", "check", "start"} => worker[w].agent \in Agents
       /\ At(w) = "queue" => worker[w].kind \in Guarded
       /\ lock = w <=> At(w) \in {"check", "start"} /\ worker[w].kind \in Guarded

RespawnTypeOK == G!TypeOK /\ WorkersOK

RespawnInit ==
  /\ G!Init
  /\ failures = [a \in Agents |-> 0] /\ blocked = {}
  /\ age = [a \in Agents |-> LongAgo]
  /\ lock = None
  /\ worker = [w \in Workers |-> Resting]

-----------------------------------------------------------------------------
(* How a worker comes to restart an agent.                                 *)

\* _ensure_agent_online: the session is dead and the breaker has not tripped.
Assigned(w, a) ==
  /\ At(w) = "idle" /\ a \notin sessions /\ a \notin blocked
  /\ Enter(w, "queue", a, "assigned")
  /\ UNCHANGED <<gsVars, failures, blocked, age, lock>>

\* The daemon, one thread, looks at shutdown_active once per tick ...
TickBegins(w) ==
  /\ At(w) = "idle" /\ ~active
  /\ \A v \in Workers : worker[v].kind \notin OfTheDaemon
  /\ Enter(w, "tick", None, "health")
  /\ UNCHANGED <<gsVars, failures, blocked, age, lock>>

\* ... goes through the agents, restarts the dead ones ...
TickDead(w, a) ==
  /\ At(w) = "tick" /\ a \notin sessions
  /\ Enter(w, "queue", a, "health")
  /\ UNCHANGED <<gsVars, failures, blocked, age, lock>>

\* ... and, without the lock, those that have crashed or wait for a login; for the
\* latter it kills the session itself first.
TickRescue(w, a) ==
  /\ At(w) = "tick" /\ a \in sessions
  /\ sessions' \in {sessions, sessions \ {a}}
  /\ Enter(w, "check", a, "rescue")
  /\ UNCHANGED <<status, failures, blocked, age, lock>>

TickDone(w) ==
  /\ At(w) = "tick"
  /\ Leave(w)
  /\ UNCHANGED <<gsVars, failures, blocked, age, lock>>

\* POST /agents/{id}/start: a dead agent, or one that has not been heard of lately.
StartRoute(w, a) ==
  /\ At(w) = "idle"
  /\ Enter(w, "check", a, "start")
  /\ UNCHANGED <<gsVars, failures, blocked, age, lock>>

-----------------------------------------------------------------------------
(* The restart.                                                            *)

\* The daemon waits for the plain cooldown, an assignment for one that doubles with
\* every failure.
Wait(w) ==
  CooldownAfter(IF worker[w].kind = "assigned" THEN failures[worker[w].agent] ELSE 0)

NoLock == TRUE                             \* mutant: the lock is not waited for
LockFree == lock = None

\* An agent the daemon knows from the configuration only is started without a check.
TakeLock(w) ==
  /\ At(w) = "queue" /\ LockFree
  /\ IF age[worker[w].agent] < Wait(w)
       THEN UNCHANGED lock /\ Return(w)
       ELSE /\ lock' = w
            /\ \/ Go(w, "check")
               \/ worker[w].kind = "health" /\ Go(w, "start")
  /\ UNCHANGED <<gsVars, failures, blocked, age>>

\* The breaker: the failures in a row, and who is not tried again.
OneTooMany(n) == n > MaxFailures           \* mutant: an attempt too many
TooMany(n) == n >= MaxFailures

CountFailure(a) ==
  /\ failures' = [failures EXCEPT ![a] = @ + 1]
  /\ blocked' = IF TooMany(failures[a] + 1) THEN blocked \union {a} ELSE blocked

\* Only an assignment counts failures; nobody ever leaves "blocked".
End(w, ok) ==
  LET a == worker[w].agent IN
  /\ lock' = IF lock = w THEN None ELSE lock
  /\ age' = IF ok /\ worker[w].kind \in Guarded THEN [age EXCEPT ![a] = 0] ELSE age
  /\ \/ worker[w].kind # "assigned" /\ UNCHANGED <<failures, blocked>>
     \/ worker[w].kind = "assigned" /\ ok /\ failures' = [failures EXCEPT ![a] = 0]
        /\ UNCHANGED blocked
     \/ worker[w].kind = "assigned" /\ ~ok /\ CountFailure(a)
  /\ Return(w)

\* _auto_restart_agent: refused while a graceful shutdown is pending, or for an
\* agent that is rate limited.
Refuse(w) ==
  /\ At(w) = "check"
  /\ End(w, FALSE)
  /\ UNCHANGED gsVars

\* The old session is killed; two seconds later a new one is started.
Kill(w) ==
  /\ At(w) = "check" /\ ~pending
  /\ sessions' = sessions \ {worker[w].agent}
  /\ Go(w, "start")
  /\ UNCHANGED <<status, failures, blocked, age, lock>>

Started(w) ==
  /\ At(w) = "start"
  /\ sessions' = sessions \union {worker[w].agent}
  /\ End(w, TRUE)
  /\ UNCHANGED <<status>>

NotStarted(w) ==
  /\ At(w) = "start"
  /\ End(w, FALSE)
  /\ UNCHANGED gsVars

-----------------------------------------------------------------------------

\* A session ends by itself.
Die(a) ==
  /\ a \in sessions
  /\ sessions' = sessions \ {a}
  /\ UNCHANGED <<status, restart>>

Pass ==
  /\ age' = [a \in Agents |-> IF age[a] < LongAgo THEN age[a] + 1 ELSE LongAgo]
  /\ UNCHANGED <<gsVars, failures, blocked, lock, worker>>

RespawnNext ==
  \/ G!Next /\ UNCHANGED restart
  \/ \E w \in Workers :
       \/ TickBegins(w) \/ TickDone(w) \/ TakeLock(w)
       \/ Refuse(w) \/ Kill(w) \/ Started(w) \/ NotStarted(w)
       \/ \E a \in Agents : Assigned(w, a) \/ TickDead(w, a) \/ TickRescue(w, a)
                              \/ StartRoute(w, a)
  \/ \E a \in Agents : Die(a)
  \/ Pass

RespawnSpec == RespawnInit /\ [][RespawnNext]_respawns

-----------------------------------------------------------------------------

\* The breaker stops the assignments: beyond the failures it allows come at most
\* those of the threads that had asked before it tripped, however many tasks are
\* assigned, also when it is a pending shutdown that makes them fail.
Tries(a) == {w \in Workers : worker[w].agent = a /\ worker[w].kind = "assigned"}
BreakerStops ==
  \A a \in Agents : failures[a] + Cardinality(Tries(a)) < MaxFailures + Cardinality(Workers)

\* Whoever is about to kill and start an agent for an assignment or the daemon, the
\* last such restart of that agent was a cooldown ago, although the cooldown is checked
\* and the restart noted seconds apart: a session that has just been started would be
\* killed before the agent could report.
CooldownHolds ==
  \A w \in Workers : At(w) \in {"check", "start"} /\ worker[w].kind \in Guarded
                       => age[worker[w].agent] >= Cooldown
=============================================================================
