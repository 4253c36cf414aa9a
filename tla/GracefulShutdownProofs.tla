------------------------ MODULE GracefulShutdownProofs ------------------------
(***************************************************************************)
(* Proofs about GracefulShutdown, for any number of overlapping requests   *)
(* and timers and any agents.                                              *)
(***************************************************************************)
EXTENDS GracefulShutdown, TLAPS

\* What every step but a failed start of a timer keeps.
Kept == TypeOK' /\ (~Abandoned => ~Abandoned')

Record == [at : Points, agents : SUBSET Agents]

LEMMA NoAgents == {} \in SUBSET Agents
OBVIOUS

LEMMA InitTypeOK == Init => TypeOK
<1> SUFFICES ASSUME Init PROVE TypeOK
  OBVIOUS
<1>1. Idle \in Record
  BY NoAgents DEF Idle, Record, Points
<1>2. thread \in [Threads -> Record]
  BY <1>1 DEF Init
<1>3. QED BY <1>2, ActorAssumption, RosterAssumption DEF Init, TypeOK, Record

-----------------------------------------------------------------------------
(* A thread that goes from one point to the next.                          *)

LEMMA GoIs ==
  ASSUME TypeOK, NEW x \in Threads, NEW pc \in Points, NEW S \in SUBSET Agents,
         GoWith(x, pc, S)
  PROVE  /\ thread' \in [Threads -> Record]
         /\ \A y \in Threads : thread'[y] = IF y = x THEN [at |-> pc, agents |-> S]
                                            ELSE thread[y]
BY DEF TypeOK, GoWith, Record

\* The timer of the moment still waits, unless it is the thread that moves.
LEMMA TypeAfterGo ==
  ASSUME TypeOK, NEW x \in Threads, NEW pc \in Points, NEW S \in SUBSET Agents,
         GoWith(x, pc, S), timer' \in {timer, None},
         timer' = x => pc \in {"begin", "wait"},
         active' \in BOOLEAN, pending' \in BOOLEAN, finalized' \in BOOLEAN,
         expected' \subseteq Agents, acked' \subseteq Agents, sessions' \subseteq Agents
  PROVE  TypeOK'
<1>1. /\ thread' \in [Threads -> Record]
      /\ \A y \in Threads : thread'[y] = IF y = x THEN [at |-> pc, agents |-> S] ELSE thread[y]
  BY GoIs
<1>2. timer' \in Threads \union {None}
  BY DEF TypeOK
<1>3. ASSUME NEW y \in Threads, timer' = y
      PROVE  thread'[y].at \in {"begin", "wait"}
  <2>1. CASE y = x
    BY <2>1, <1>1, <1>3
  <2>2. CASE y # x
    <3>1. timer = y
      BY <1>3, ActorAssumption, RosterAssumption
    <3>2. QED BY <3>1, <2>2, <1>1 DEF TypeOK, At
  <2>3. QED BY <2>1, <2>2
<1>4. QED BY <1>1, <1>2, <1>3 DEF TypeOK, Record, At

\* A thread on its way to finalize the shutdown that moves on to another such point.
LEMMA CarriedOn ==
  ASSUME TypeOK, NEW x \in Threads, NEW pc \in Carriers, NEW S \in SUBSET Agents,
         GoWith(x, pc, S)
  PROVE  ~Abandoned'
<1>1. thread'[x] = [at |-> pc, agents |-> S]
  BY GoIs DEF Points
<1>2. QED BY <1>1 DEF Abandoned, At

\* A thread that carries nothing may go wherever it likes.
LEMMA StillCarried ==
  ASSUME TypeOK, NEW x \in Threads, At(x) \notin Carriers, NEW pc \in Points,
         NEW S \in SUBSET Agents, GoWith(x, pc, S), UNCHANGED <<pending, finalized>>
  PROVE  ~Abandoned => ~Abandoned'
<1>1. \A y \in Threads : y # x => thread'[y] = thread[y]
  BY GoIs
<1>2. QED BY <1>1 DEF Abandoned, At

-----------------------------------------------------------------------------
(* The shutdown and its timer.                                             *)

LEMMA ShutdownNowKeeps ==
  ASSUME TypeOK, ShutdownNow
  PROVE  Kept
BY DEF ShutdownNow, shutdown, TypeOK, Abandoned, At, Kept

LEMMA ShutdownKeeps ==
  ASSUME TypeOK, NEW x \in Threads, Shutdown(x)
  PROVE  Kept
<1>1. PICK online \in SUBSET Agents : GoWith(x, "announce", online)
  BY DEF Shutdown
<1>2. /\ At(x) = "idle" /\ active' = TRUE
      /\ UNCHANGED <<pending, finalized, expected, acked, timer, sessions>>
  BY DEF Shutdown, shutdown
<1>3. timer # x
  BY <1>2 DEF TypeOK
<1>4. TypeOK'
  BY <1>1, <1>2, <1>3, TypeAfterGo, NoAgents DEF TypeOK, Points
<1>5. ~Abandoned => ~Abandoned'
  BY <1>1, <1>2, StillCarried, NoAgents DEF Points, Carriers
<1>6. QED BY <1>4, <1>5 DEF Kept

LEMMA AnnounceKeeps ==
  ASSUME TypeOK, NEW x \in Threads, Announce(x)
  PROVE  Kept
<1>1. GoWith(x, "arm", {})
  BY DEF Announce, Go
<1>2. timer # x /\ thread[x].agents \subseteq Agents
  BY DEF Announce, TypeOK
<1>3. TypeOK'
  BY <1>1, <1>2, TypeAfterGo, NoAgents DEF Announce, TypeOK, Points, Carriers
<1>4. ~Abandoned => ~Abandoned'
  BY <1>1, CarriedOn, NoAgents DEF Carriers
<1>5. QED BY <1>3, <1>4 DEF Kept

LEMMA ArmKeeps ==
  ASSUME TypeOK, NEW x \in Threads, Arm(x)
  PROVE  Kept
<1>1. GoWith(x, "begin", {})
  BY DEF Arm, Go
<1>2. /\ thread' \in [Threads -> Record]
      /\ thread'[x] = [at |-> "begin", agents |-> {}]
  BY <1>1, GoIs, NoAgents DEF Points, Carriers
<1>3. TypeOK'
  BY <1>2 DEF Arm, shutdown, TypeOK, Record, At
<1>4. ~Abandoned'
  BY <1>1, CarriedOn, NoAgents DEF Carriers
<1>5. QED BY <1>3, <1>4 DEF Kept

\* Whoever's timer is started, it waits now for the shutdown.
LEMMA BeginKeeps ==
  ASSUME TypeOK, NEW x \in Threads, Begin(x)
  PROVE  Kept
<1> DEFINE waiting == [at |-> "wait", agents |-> {}]
<1>1. waiting \in Record /\ waiting.at = "wait" /\ Idle \in Record
  BY NoAgents DEF Idle, Record, Points, Carriers
<1>2. timer \in Threads /\ thread' = [thread EXCEPT ![x] = Idle, ![timer] = waiting]
  BY DEF Begin, Startable
<1> HIDE DEF waiting
<1>3. thread' \in [Threads -> Record] /\ thread'[timer] = waiting
  BY <1>1, <1>2 DEF TypeOK, Record
<1>4. TypeOK'
  BY <1>1, <1>3 DEF Begin, shutdown, TypeOK, Record, At
<1>5. ~Abandoned'
  BY <1>1, <1>2, <1>3 DEF Abandoned, At, Carriers
<1>6. QED BY <1>4, <1>5 DEF Kept

LEMMA StartFailsKeepsType ==
  ASSUME TypeOK, NEW x \in Threads, StartFails(x)
  PROVE  TypeOK'
<1>1. GoWith(x, "idle", {}) /\ timer # x
  BY DEF StartFails, Startable, Go
<1>2. QED BY <1>1, TypeAfterGo, NoAgents DEF StartFails, shutdown, TypeOK, Points

LEMMA FireKeeps ==
  ASSUME TypeOK, NEW x \in Threads, Fire(x)
  PROVE  Kept
<1>1. GoWith(x, "finalize", {})
  BY DEF Fire, FiresTo, Go
<1>2. timer' \in {timer, None} /\ timer' # x
  BY ActorAssumption, RosterAssumption DEF Fire
<1>3. TypeOK'
  BY <1>1, <1>2, TypeAfterGo, NoAgents DEF Fire, shutdown, TypeOK, Points, Carriers
<1>4. ~Abandoned => ~Abandoned'
  BY <1>1, CarriedOn, NoAgents DEF Carriers
<1>5. QED BY <1>3, <1>4 DEF Kept

-----------------------------------------------------------------------------
(* Acknowledgements.                                                       *)

\* Cancelling the timer of the moment leaves every other thread where it is.
LEMMA AfterCancelIs ==
  ASSUME TypeOK
  PROVE  /\ AfterCancel \in [Threads -> Record]
         /\ \A y \in Threads : y # timer => AfterCancel[y] = thread[y]
<1>1. Idle \in Record
  BY NoAgents DEF Idle, Record, Points
<1>2. \A y \in Threads : AfterCancel[y] = IF y = timer THEN Idle ELSE thread[y]
  BY DEF AfterCancel
<1>3. QED BY <1>1, <1>2 DEF AfterCancel, TypeOK, Record

LEMMA AckKeeps ==
  ASSUME TypeOK, NEW x \in Threads, NEW a \in Agents, Ack(x, a)
  PROVE  Kept
<1>1. PICK pc \in {"all_acked", "idle"} : GoWith(x, pc, {})
  BY DEF Ack, Go
<1>2. /\ At(x) = "idle" /\ acked' = acked \union {a}
      /\ UNCHANGED <<active, pending, finalized, expected, timer, sessions>>
  BY DEF Ack
<1>3. timer # x
  BY <1>2 DEF TypeOK
<1>4. TypeOK'
  BY <1>1, <1>2, <1>3, TypeAfterGo, NoAgents DEF TypeOK, Points, Carriers
<1>5. ~Abandoned => ~Abandoned'
  BY <1>1, <1>2, StillCarried, NoAgents DEF Points, Carriers
<1>6. QED BY <1>4, <1>5 DEF Kept

\* Who cancels the timer because nobody is missing finalizes the shutdown itself.
LEMMA AllAckedKeeps ==
  ASSUME TypeOK, NEW x \in Threads, AllAcked(x)
  PROVE  Kept
<1> DEFINE new == [at |-> "finalize", agents |-> {}]
<1>1. new \in Record /\ new.at = "finalize"
  BY DEF Record, Points, Carriers
<1>2. thread' = [AfterCancel EXCEPT ![x] = new]
  BY DEF AllAcked, FinalizesAfter
<1> HIDE DEF new
<1>3. /\ thread' \in [Threads -> Record]
      /\ thread'[x] = new
  BY <1>1, <1>2, AfterCancelIs
<1>4. TypeOK'
  BY <1>3, ActorAssumption, RosterAssumption DEF AllAcked, CancelTimer, shutdown, TypeOK, Record, At
<1>5. ~Abandoned => ~Abandoned'
  BY <1>1, <1>3 DEF Abandoned, At, Carriers
<1>6. QED BY <1>4, <1>5 DEF Kept

-----------------------------------------------------------------------------
(* The end of a shutdown.                                                  *)

\* Once the flag is set there is nothing left to carry.
LEMMA FinalizeKeeps ==
  ASSUME TypeOK, NEW x \in Threads, Finalize(x)
  PROVE  Kept
<1>1. PICK pc \in {"kill", "idle"}, S \in SUBSET Agents : GoWith(x, pc, S)
  BY DEF Finalize, Go, TypeOK
<1>2. timer # x
  BY DEF Finalize, TypeOK
<1>3. TypeOK'
  BY <1>1, <1>2, TypeAfterGo, NoAgents DEF Finalize, TypeOK, Points
<1>4. ~Abandoned => ~Abandoned'
  BY DEF Finalize, Abandoned
<1>5. QED BY <1>3, <1>4 DEF Kept

LEMMA KillNextKeeps ==
  ASSUME TypeOK, NEW x \in Threads, KillNext(x)
  PROVE  Kept
<1>1. PICK a \in thread[x].agents : /\ sessions' \in {sessions, sessions \ {a}}
                                    /\ GoWith(x, "kill", thread[x].agents \ {a})
  BY DEF KillNext
<1>2. timer # x /\ thread[x].agents \ {a} \in SUBSET Agents /\ sessions' \subseteq Agents
  BY <1>1 DEF KillNext, TypeOK
<1>3. TypeOK'
  BY <1>1, <1>2, TypeAfterGo DEF KillNext, shutdown, TypeOK, Points
<1>4. ~Abandoned => ~Abandoned'
  BY <1>1, <1>2, StillCarried, NoAgents DEF KillNext, shutdown, Points, Carriers
<1>5. QED BY <1>3, <1>4 DEF Kept

LEMMA FinalizedKeeps ==
  ASSUME TypeOK, NEW x \in Threads, Finalized(x)
  PROVE  Kept
<1>1. GoWith(x, "clear", {}) /\ timer # x
  BY DEF Finalized, Go, TypeOK
<1>2. TypeOK'
  BY <1>1, TypeAfterGo, NoAgents DEF Finalized, shutdown, TypeOK, Points
<1>3. ~Abandoned => ~Abandoned'
  BY <1>1, StillCarried, NoAgents DEF Finalized, shutdown, Points, Carriers
<1>4. QED BY <1>2, <1>3 DEF Kept

\* The timer that is forgotten here may be that of a later shutdown: it still waits,
\* and carries that one to its end.
LEMMA ClearTimerKeeps ==
  ASSUME TypeOK, NEW x \in Threads, ClearTimer(x)
  PROVE  Kept
<1>1. GoWith(x, "idle", {}) /\ timer' # x
  BY ActorAssumption, RosterAssumption DEF ClearTimer, Go
<1>2. TypeOK'
  BY <1>1, TypeAfterGo, NoAgents DEF ClearTimer, shutdown, TypeOK, Points
<1>3. ~Abandoned => ~Abandoned'
  BY <1>1, StillCarried, NoAgents DEF ClearTimer, shutdown, Points, Carriers
<1>4. QED BY <1>2, <1>3 DEF Kept

-----------------------------------------------------------------------------
(* The ways back, and the platform.                                        *)

LEMMA ResumeKeeps ==
  ASSUME TypeOK, NEW x \in Threads, Resume(x)
  PROVE  Kept
<1>1. GoWith(x, "resume", {}) /\ timer # x
  BY DEF Resume, Go, TypeOK
<1>2. TypeOK'
  BY <1>1, TypeAfterGo, NoAgents DEF Resume, shutdown, TypeOK, Points
<1>3. ~Abandoned => ~Abandoned'
  BY <1>1, StillCarried, NoAgents DEF Resume, shutdown, Points, Carriers
<1>4. QED BY <1>2, <1>3 DEF Kept

LEMMA ResetShutdownKeeps ==
  ASSUME TypeOK, NEW x \in Threads, ResetShutdown(x)
  PROVE  Kept
<1>1. Idle \in Record
  BY NoAgents DEF Idle, Record, Points
<1>2. thread' \in [Threads -> Record]
  BY <1>1, AfterCancelIs DEF ResetShutdown
<1>3. TypeOK'
  BY <1>2, ActorAssumption, RosterAssumption DEF ResetShutdown, CancelTimer, TypeOK, Record, At
<1>4. ~Abandoned => ~Abandoned'
  BY DEF ResetShutdown, Abandoned
<1>5. QED BY <1>3, <1>4 DEF Kept

LEMMA PlatformStartKeeps ==
  ASSUME TypeOK, NEW x \in Threads, PlatformStart(x)
  PROVE  Kept
<1>1. PICK configured \in SUBSET Agents : GoWith(x, "start", configured)
  BY DEF PlatformStart
<1>2. timer # x
  BY DEF PlatformStart, TypeOK
<1>3. TypeOK'
  BY <1>1, <1>2, TypeAfterGo DEF PlatformStart, shutdown, TypeOK, Points
<1>4. ~Abandoned => ~Abandoned'
  BY <1>1, StillCarried DEF PlatformStart, shutdown, Points, Carriers
<1>5. QED BY <1>3, <1>4 DEF Kept

LEMMA StartNextKeeps ==
  ASSUME TypeOK, NEW x \in Threads, StartNext(x)
  PROVE  Kept
<1>1. PICK a \in thread[x].agents : /\ sessions' \in {sessions, sessions \union {a}}
                                    /\ GoWith(x, "start", thread[x].agents \ {a})
  BY DEF StartNext
<1>2. timer # x /\ thread[x].agents \ {a} \in SUBSET Agents /\ sessions' \subseteq Agents
  BY <1>1 DEF StartNext, TypeOK
<1>3. TypeOK'
  BY <1>1, <1>2, TypeAfterGo DEF StartNext, shutdown, TypeOK, Points
<1>4. ~Abandoned => ~Abandoned'
  BY <1>1, <1>2, StillCarried DEF StartNext, shutdown, Points, Carriers
<1>5. QED BY <1>3, <1>4 DEF Kept

LEMMA PlatformStartedKeeps ==
  ASSUME TypeOK, NEW x \in Threads, PlatformStarted(x)
  PROVE  Kept
<1>1. GoWith(x, "idle", {}) /\ timer # x
  BY DEF PlatformStarted, Go, TypeOK
<1>2. TypeOK'
  BY <1>1, TypeAfterGo, NoAgents DEF PlatformStarted, shutdown, TypeOK, Points
<1>3. ~Abandoned => ~Abandoned'
  BY <1>1, StillCarried, NoAgents DEF PlatformStarted, shutdown, Points, Carriers
<1>4. QED BY <1>2, <1>3 DEF Kept

LEMMA PlatformStopKeeps ==
  ASSUME TypeOK, NEW x \in Threads, PlatformStop(x)
  PROVE  Kept
<1>1. PICK configured \in SUBSET Agents : GoWith(x, "stop", configured)
  BY DEF PlatformStop
<1>2. timer # x
  BY DEF PlatformStop, TypeOK
<1>3. TypeOK'
  BY <1>1, <1>2, TypeAfterGo DEF PlatformStop, shutdown, TypeOK, Points
<1>4. ~Abandoned => ~Abandoned'
  BY <1>1, StillCarried DEF PlatformStop, shutdown, Points, Carriers
<1>5. QED BY <1>3, <1>4 DEF Kept

LEMMA StopNextKeeps ==
  ASSUME TypeOK, NEW x \in Threads, StopNext(x)
  PROVE  Kept
<1>1. PICK a \in thread[x].agents : /\ sessions' = sessions \ {a}
                                    /\ GoWith(x, "stop", thread[x].agents \ {a})
  BY DEF StopNext
<1>2. timer # x /\ thread[x].agents \ {a} \in SUBSET Agents /\ sessions' \subseteq Agents
  BY <1>1 DEF StopNext, TypeOK
<1>3. TypeOK'
  BY <1>1, <1>2, TypeAfterGo DEF StopNext, shutdown, TypeOK, Points
<1>4. ~Abandoned => ~Abandoned'
  BY <1>1, <1>2, StillCarried DEF StopNext, shutdown, Points, Carriers
<1>5. QED BY <1>3, <1>4 DEF Kept

LEMMA PlatformStoppedKeeps ==
  ASSUME TypeOK, NEW x \in Threads, PlatformStopped(x)
  PROVE  Kept
<1>1. GoWith(x, "idle", {}) /\ timer # x
  BY DEF PlatformStopped, Go, TypeOK
<1>2. TypeOK'
  BY <1>1, TypeAfterGo, NoAgents DEF PlatformStopped, shutdown, TypeOK, Points
<1>3. ~Abandoned => ~Abandoned'
  BY <1>1, StillCarried, NoAgents DEF PlatformStopped, shutdown, Points, Carriers
<1>4. QED BY <1>2, <1>3 DEF Kept

LEMMA StutterKeeps ==
  ASSUME TypeOK, UNCHANGED vars
  PROVE  Kept
BY DEF vars, shutdown, TypeOK, Abandoned, At, Kept

-----------------------------------------------------------------------------
(* The invariant.                                                          *)

LEMMA StepKeeps ==
  ASSUME TypeOK, NEW x \in Threads, Step(x)
  PROVE  Kept \/ StartFails(x)
BY AnnounceKeeps, ArmKeeps, BeginKeeps, FireKeeps, AllAckedKeeps, FinalizeKeeps,
   KillNextKeeps, FinalizedKeeps, ClearTimerKeeps, ResetShutdownKeeps, StartNextKeeps,
   PlatformStartedKeeps, StopNextKeeps, PlatformStoppedKeeps DEF Step

LEMMA NextKeeps ==
  TypeOK /\ [Next]_vars => Kept \/ \E x \in Threads : StartFails(x)
BY StepKeeps, ShutdownKeeps, ResumeKeeps, PlatformStopKeeps, AckKeeps, ShutdownNowKeeps,
   PlatformStartKeeps, StutterKeeps DEF Next

\* Every reachable state of a shutdown is well typed, and the timer that can be
\* cancelled is one that waits or is about to be started.
THEOREM TypeCorrect == Spec => []TypeOK
<1>1. TypeOK /\ [Next]_vars => TypeOK'
  BY NextKeeps, StartFailsKeepsType DEF Kept
<1>2. QED BY InitTypeOK, <1>1, PTL DEF Spec

\* Until a graceful shutdown is finalized or resumed a thread or timer is on its way
\* to finalize it, for any number of overlapping shutdowns, acknowledgements, resumes
\* and timers; only the failed start of a timer may leave it to itself.
THEOREM ShutdownAlwaysCarried == Spec => ShutdownIsCarried
<1>1. TypeOK /\ [Next]_vars =>
        [~Abandoned => ~Abandoned' \/ \E x \in Threads : StartFails(x)]_vars
  BY NextKeeps DEF Kept
<1>2. QED BY TypeCorrect, <1>1, PTL DEF Spec, ShutdownIsCarried
=============================================================================
