---------------------------- MODULE ControlProofs ----------------------------
(***************************************************************************)
(* Proofs about what people and clocks set off: RestartControl, for any    *)
(* number of overlapping requests and timers and any agents; and           *)
(* Automations, for any automations, limits and restarts.                  *)
(***************************************************************************)
EXTENDS MCControl, FiniteSetTheorems, FunctionTheorems, SequenceTheorems, TLAPS

-----------------------------------------------------------------------------
(* The planned restart.                                                    *)

IInv == TypeOK /\ PhaseIsCarried

Record == [at : Points, agent : Agents \union {None}]

LEMMA InitIInv == Init => IInv
BY ActorAssumption, RosterAssumption
   DEF Init, IInv, TypeOK, PhaseIsCarried, Idle, At, Points, Carriers, Phases, Names

-----------------------------------------------------------------------------
(* A thread that goes from one point to the next.                          *)

LEMMA GoIs ==
  ASSUME TypeOK, NEW x \in Threads, NEW pc \in Points, Go(x, pc)
  PROVE  /\ thread' \in [Threads -> Record]
         /\ \A y \in Threads : thread'[y] = IF y = x THEN [at |-> pc, agent |-> None]
                                            ELSE thread[y]
BY DEF TypeOK, Go, Record

\* When a thread of a restart under way moves on to another such point, the
\* restart is still carried.
LEMMA CarriedOn ==
  ASSUME TypeOK, NEW x \in Threads, NEW pc \in Carriers, Go(x, pc)
  PROVE  PhaseIsCarried'
<1>1. pc \in Points
  BY DEF Points
<1>2. thread'[x] = [at |-> pc, agent |-> None]
  BY <1>1, GoIs
<1>3. At(x)' = pc
  BY <1>2 DEF At
<1>4. QED BY <1>3 DEF PhaseIsCarried

LEMMA StartKeeps ==
  ASSUME IInv, NEW x \in Threads, Start(x)
  PROVE  IInv'
<1>1. TypeOK'
  BY DEF Start, Go, IInv, TypeOK, At, Points, Carriers
<1>2. PhaseIsCarried'
  BY DEF Start, PhaseIsCarried
<1>3. QED BY <1>1, <1>2 DEF IInv

LEMMA WarnPhaseKeeps ==
  ASSUME IInv, NEW x \in Threads, WarnPhase(x)
  PROVE  IInv'
<1>1. TypeOK'
  BY DEF WarnPhase, Go, IInv, TypeOK, At, Points, Carriers, Phases
<1>2. PhaseIsCarried'
  BY CarriedOn DEF WarnPhase, IInv, Carriers
<1>3. QED BY <1>1, <1>2 DEF IInv

\* Starting and firing a timer: the pairs of points that Step uses.
LEMMA ArmKeeps ==
  ASSUME IInv, NEW x \in Threads,
         \/ Arm(x, "arm_warn", "warn_to_stop", "wait_warn")
         \/ Arm(x, "arm_stop", "stop_to_kill", "wait_stop")
  PROVE  IInv'
<1>1. TypeOK'
  BY ActorAssumption, RosterAssumption DEF Arm, Go, IInv, TypeOK, At, Points, Carriers, Names
<1>2. PhaseIsCarried'
  BY CarriedOn DEF Arm, IInv, Carriers
<1>3. QED BY <1>1, <1>2 DEF IInv

LEMMA FireKeeps ==
  ASSUME IInv, NEW x \in Threads,
         \/ Fire(x, "wait_warn", "warn_to_stop", "stop")
         \/ Fire(x, "wait_stop", "stop_to_kill", "kill")
  PROVE  IInv'
<1>1. TypeOK'
  BY ActorAssumption, RosterAssumption DEF Fire, Go, IInv, TypeOK, At, Points, Carriers, Names
<1>2. PhaseIsCarried'
  BY CarriedOn DEF Fire, IInv, Carriers
<1>3. QED BY <1>1, <1>2 DEF IInv

LEMMA StopPhaseKeeps ==
  ASSUME IInv, NEW x \in Threads, StopPhase(x)
  PROVE  IInv'
<1>1. TypeOK'
  BY DEF StopPhase, Go, IInv, TypeOK, At, Points, Carriers, Phases
<1>2. PhaseIsCarried'
  BY CarriedOn DEF StopPhase, IInv, Carriers
<1>3. QED BY <1>1, <1>2 DEF IInv

LEMMA KillPhaseKeeps ==
  ASSUME IInv, NEW x \in Threads, KillPhase(x)
  PROVE  IInv'
<1>1. TypeOK'
  BY DEF KillPhase, Go, IInv, TypeOK, At, Points, Carriers, Phases
<1>2. PhaseIsCarried'
  BY CarriedOn DEF KillPhase, IInv, Carriers
<1>3. QED BY <1>1, <1>2 DEF IInv

LEMMA RestartingKeeps ==
  ASSUME IInv, NEW x \in Threads, Restarting(x)
  PROVE  IInv'
<1>1. TypeOK'
  BY DEF Restarting, Go, IInv, TypeOK, At, Points, Carriers, Phases
<1>2. PhaseIsCarried'
  BY CarriedOn DEF Restarting, IInv, Carriers
<1>3. QED BY <1>1, <1>2 DEF IInv

LEMMA ExitKeeps ==
  ASSUME IInv, Exit
  PROVE  IInv'
BY ActorAssumption, RosterAssumption
   DEF Exit, Idle, IInv, TypeOK, PhaseIsCarried, At, Points, Carriers, Names

-----------------------------------------------------------------------------
(* What clients do.                                                        *)

\* Cancelling the timers in the table leaves every other thread where it is, and
\* of a table without entries there is nothing to say.
LEMMA CancelledTimers ==
  ASSUME TypeOK, CancelTimers
  PROVE  /\ timers' \in [Names -> Threads \union {None}]
         /\ \A x \in Threads, n \in Names : timers'[n] # x
         /\ Uncancelled \in [Threads -> Record]
         /\ \A x \in Threads : /\ Uncancelled[x].at \in {"save", "check"} <=> Uncancelled[x].agent # None
                               /\ At(x) \in Points \ {"wait_warn", "wait_stop"} => Uncancelled[x] = thread[x]
<1>1. /\ timers' \in [Names -> Threads \union {None}]
      /\ \A x \in Threads, n \in Names : timers'[n] # x
  BY ActorAssumption, RosterAssumption DEF CancelTimers
<1>2. Idle \in Record /\ Idle.at \notin {"save", "check"} /\ Idle.agent = None
  BY DEF Idle, Record, Points
<1>3. \A x \in Threads : Uncancelled[x] = IF Cancelled(x) THEN Idle ELSE thread[x]
  BY DEF Uncancelled
<1>4. Uncancelled \in [Threads -> Record]
  BY <1>2 DEF Uncancelled, TypeOK, Record
<1>5. ASSUME NEW x \in Threads
      PROVE  /\ Uncancelled[x].at \in {"save", "check"} <=> Uncancelled[x].agent # None
             /\ At(x) \in Points \ {"wait_warn", "wait_stop"} => Uncancelled[x] = thread[x]
  <2>1. Cancelled(x) => At(x) \in {"wait_warn", "wait_stop"}
    BY DEF Cancelled, Names, TypeOK
  <2>2. At(x) \in {"save", "check"} <=> thread[x].agent # None
    BY DEF TypeOK
  <2>3. QED BY <1>2, <1>3, <2>1, <2>2 DEF At
<1>6. QED BY <1>1, <1>4, <1>5

LEMMA CancelKeeps ==
  ASSUME IInv, Cancel
  PROVE  IInv'
<1>1. TypeOK /\ CancelTimers
  BY DEF IInv, Cancel
<1>2. /\ timers' \in [Names -> Threads \union {None}]
      /\ \A x \in Threads, n \in Names : timers'[n] # x
      /\ thread' \in [Threads -> Record]
      /\ \A x \in Threads : thread'[x].at \in {"save", "check"} <=> thread'[x].agent # None
  BY <1>1, CancelledTimers DEF Cancel
<1>3. TypeOK'
  BY <1>2 DEF Cancel, NoPhase, IInv, TypeOK, Record, At, Names
<1>4. PhaseIsCarried'
  BY DEF Cancel, NoPhase, PhaseIsCarried
<1>5. QED BY <1>3, <1>4 DEF IInv

LEMMA ResetKeeps ==
  ASSUME IInv, Reset
  PROVE  IInv'
BY DEF Reset, NoPhase, IInv, TypeOK, PhaseIsCarried, At

\* The thread that has cancelled the timers goes on to the stop phase itself.
LEMMA CancelsAndGoesOn ==
  ASSUME IInv, NEW x \in Threads, CancelTimersAndGo(x, "stop"),
         UNCHANGED <<phase, saved, live>>
  PROVE  IInv'
<1>1. TypeOK /\ CancelTimers
  BY DEF IInv, CancelTimersAndGo
<1>2. /\ timers' \in [Names -> Threads \union {None}]
      /\ \A y \in Threads, n \in Names : timers'[n] # y
      /\ Uncancelled \in [Threads -> Record]
      /\ \A y \in Threads : Uncancelled[y].at \in {"save", "check"} <=> Uncancelled[y].agent # None
  BY <1>1, CancelledTimers
<1> DEFINE new == [at |-> "stop", agent |-> None]
<1>3. new \in Record /\ new.at = "stop" /\ new.agent = None
  BY DEF Record, Points, Carriers
<1>4. thread' = [Uncancelled EXCEPT ![x] = new]
  BY DEF CancelTimersAndGo
<1> HIDE DEF new
<1>5. thread' \in [Threads -> Record]
      /\ \A y \in Threads : thread'[y] = IF y = x THEN new ELSE Uncancelled[y]
  BY <1>2, <1>3, <1>4
<1>6. \A y \in Threads : thread'[y].at \in {"save", "check"} <=> thread'[y].agent # None
  BY <1>2, <1>3, <1>5
<1>7. TypeOK'
  BY <1>2, <1>5, <1>6 DEF IInv, TypeOK, Record, At, Names
<1>8. PhaseIsCarried'
  BY <1>3, <1>5 DEF PhaseIsCarried, At, Carriers
<1>9. QED BY <1>7, <1>8 DEF IInv

LEMMA ForceRestartKeeps ==
  ASSUME IInv, NEW x \in Threads, ForceRestart(x)
  PROVE  IInv'
<1>1. CASE phase = "warn"
  BY <1>1, CancelsAndGoesOn DEF ForceRestart
<1>2. CASE phase # "warn"
  <2>1. TypeOK'
    BY <1>2 DEF ForceRestart, Go, IInv, TypeOK, At, Points, Carriers
  <2>2. PhaseIsCarried'
    BY <1>2, CarriedOn DEF ForceRestart, IInv, Carriers
  <2>3. QED BY <2>1, <2>2 DEF IInv
<1>3. QED BY <1>1, <1>2

\* A thread that carries nothing may go wherever it likes.
LEMMA StillCarried ==
  ASSUME IInv, NEW x \in Threads, At(x) \notin Carriers, UNCHANGED phase,
         \A y \in Threads : y # x => thread'[y] = thread[y]
  PROVE  PhaseIsCarried'
BY DEF IInv, PhaseIsCarried, At

LEMMA CheckpointKeeps ==
  ASSUME IInv, NEW x \in Threads, NEW a \in Agents, Checkpoint(x, a)
  PROVE  IInv'
<1>1. TypeOK'
  BY ActorAssumption, RosterAssumption DEF Checkpoint, IInv, TypeOK, At, Points
<1>2. PhaseIsCarried'
  BY StillCarried DEF Checkpoint, IInv, TypeOK, Carriers
<1>3. QED BY <1>1, <1>2 DEF IInv

LEMMA SaveCheckpointKeeps ==
  ASSUME IInv, NEW x \in Threads, SaveCheckpoint(x)
  PROVE  IInv'
<1>1. thread[x].agent \in Agents
  BY DEF SaveCheckpoint, IInv, TypeOK
<1>2. TypeOK'
  BY <1>1 DEF SaveCheckpoint, IInv, TypeOK, At, Points
<1>3. PhaseIsCarried'
  BY StillCarried DEF SaveCheckpoint, IInv, TypeOK, Carriers
<1>4. QED BY <1>2, <1>3 DEF IInv

LEMMA CheckAllSavedKeeps ==
  ASSUME IInv, NEW x \in Threads, CheckAllSaved(x)
  PROVE  IInv'
<1>1. CASE AllSaved
  BY <1>1, CancelsAndGoesOn DEF CheckAllSaved, GoesOnTo
<1>2. CASE ~AllSaved
  <2>1. TypeOK'
    BY <1>2 DEF CheckAllSaved, Go, IInv, TypeOK, At, Points
  <2>2. PhaseIsCarried'
    BY <1>2, StillCarried DEF CheckAllSaved, Go, IInv, TypeOK, Carriers
  <2>3. QED BY <2>1, <2>2 DEF IInv
<1>3. QED BY <1>1, <1>2

LEMMA ComeOrGoKeeps ==
  ASSUME IInv, NEW a \in Agents, ComeOrGo(a)
  PROVE  IInv'
BY DEF ComeOrGo, IInv, TypeOK, PhaseIsCarried, At

LEMMA StutterKeeps ==
  ASSUME IInv, UNCHANGED vars
  PROVE  IInv'
BY DEF vars, IInv, TypeOK, PhaseIsCarried, At

-----------------------------------------------------------------------------
(* The invariant.                                                          *)

LEMMA StepKeeps ==
  ASSUME IInv, NEW x \in Threads, Step(x)
  PROVE  IInv'
BY WarnPhaseKeeps, ArmKeeps, FireKeeps, StopPhaseKeeps, KillPhaseKeeps, RestartingKeeps,
   SaveCheckpointKeeps, CheckAllSavedKeeps DEF Step

LEMMA NextIInv == IInv /\ [Next]_vars => IInv'
BY StepKeeps, StartKeeps, ForceRestartKeeps, CheckpointKeeps, CancelKeeps, ResetKeeps, ExitKeeps,
   ComeOrGoKeeps, StutterKeeps DEF Next

THEOREM Invariance == Spec => []IInv
BY InitIInv, NextIInv, PTL DEF Spec

\* Every reachable state of the restart protocol is well typed; the table holds
\* timers that still wait and nothing else.
THEOREM TypeCorrect == Spec => []TypeOK
<1>1. IInv => TypeOK
  BY DEF IInv
<1>2. QED BY Invariance, <1>1, PTL

\* A restart is never left without a thread or timer that brings it to its end,
\* for any number of overlapping starts, forces, cancels, resets and checkpoints.
THEOREM PhaseAlwaysCarried == Spec => []PhaseIsCarried
<1>1. IInv => PhaseIsCarried
  BY DEF IInv
<1>2. QED BY Invariance, <1>1, PTL

-----------------------------------------------------------------------------
(* Automations.                                                            *)

AutomationInv == AutomationTypeOK /\ RetriesAreCopies

Automation == [is : {"absent", "on", "off"}, next : Nexts, was : BOOLEAN, bad : BOOLEAN]
Count(a, s) == Cardinality(InSeq(a, s))

-----------------------------------------------------------------------------
(* Copies of an automation in a sequence.                                  *)

LEMMA InSeqFinite ==
  ASSUME NEW a, NEW s \in Seq(Ids)
  PROVE  /\ InSeq(a, s) \subseteq 1 .. Len(s)
         /\ IsFiniteSet(InSeq(a, s)) /\ Count(a, s) \in Nat
<1>1. DOMAIN s = 1 .. Len(s) /\ Len(s) \in Nat
  BY LenProperties
<1>2. IsFiniteSet(1 .. Len(s))
  BY <1>1, FS_Interval
<1>3. InSeq(a, s) \subseteq 1 .. Len(s)
  BY <1>1 DEF InSeq
<1>4. QED BY <1>2, <1>3, FS_Subset, FS_CardinalityType DEF Count

LEMMA CountEmpty == \A a : Count(a, <<>>) = 0
<1>1. \A a : InSeq(a, <<>>) = {}
  BY DEF InSeq
<1>2. QED BY <1>1, FS_EmptySet DEF Count

LEMMA CountAppend ==
  ASSUME NEW a, NEW s \in Seq(Ids), NEW b \in Ids
  PROVE  Count(a, Append(s, b)) = IF a = b THEN Count(a, s) + 1 ELSE Count(a, s)
<1> DEFINE n == Len(s) + 1
           t == Append(s, b)
<1>1. /\ n \in Nat /\ n \notin 1 .. Len(s) /\ 1 .. n = 1 .. Len(s) \union {n}
      /\ t \in Seq(Ids) /\ Len(t) = n /\ t[n] = b
      /\ \A k \in 1 .. Len(s) : t[k] = s[k]
  BY LenProperties, AppendProperties
<1>2. DOMAIN t = 1 .. Len(s) \union {n} /\ DOMAIN s = 1 .. Len(s)
  BY <1>1, LenProperties
<1> HIDE DEF n, t
<1>3. InSeq(a, t) = IF a = b THEN InSeq(a, s) \union {n} ELSE InSeq(a, s)
  BY <1>1, <1>2 DEF InSeq
<1>4. n \notin InSeq(a, s)
  BY <1>1, InSeqFinite
<1>5. QED BY <1>3, <1>4, InSeqFinite, FS_AddElement DEF Count, t

\* The copies behind the first one are those of the tail, each a place further.
LEMMA CountTail ==
  ASSUME NEW a, NEW s \in Seq(Ids), s # <<>>
  PROVE  Count(a, s) = IF a = Head(s) THEN Count(a, Tail(s)) + 1 ELSE Count(a, Tail(s))
<1> DEFINE t == Tail(s)
           S == InSeq(a, s) \ {1}
           T == InSeq(a, t)
           f == [k \in T |-> k + 1]
<1>1. /\ Len(s) \in Nat \ {0} /\ t \in Seq(Ids) /\ Len(t) = Len(s) - 1
      /\ \A k \in 1 .. Len(t) : t[k] = s[k + 1]
      /\ DOMAIN s = 1 .. Len(s) /\ DOMAIN t = 1 .. Len(t)
      /\ s[1] = Head(s)
  BY EmptySeq, HeadTailProperties, LenProperties
<1>2. T \subseteq 1 .. Len(t) /\ IsFiniteSet(T) /\ Count(a, t) \in Nat
  BY <1>1, InSeqFinite
<1>3. \A k \in T : k \in Nat /\ k + 1 \in S
  BY <1>1, <1>2 DEF InSeq
<1>4. \A m \in S : m - 1 \in T /\ (m - 1) + 1 = m
  <2>1. \A m \in S : m \in 2 .. Len(s) /\ s[m] = a
    BY <1>1 DEF InSeq
  <2>2. \A m \in 2 .. Len(s) : m - 1 \in 1 .. Len(t) /\ (m - 1) + 1 = m /\ t[m - 1] = s[m]
    BY <1>1
  <2>3. QED BY <2>1, <2>2, <1>1 DEF InSeq
<1>5. f \in [T -> S]
  BY <1>3
<1>6. \A k, l \in T : f[k] = f[l] => k = l
  BY <1>3
<1>7. \A m \in S : \E k \in T : f[k] = m
  BY <1>4
<1>8. f \in Bijection(T, S)
  BY <1>5, <1>6, <1>7, Fun_IsBij
<1>9. ExistsBijection(T, S)
  BY <1>8 DEF ExistsBijection
<1>10. Cardinality(S) = Count(a, t)
  BY <1>2, <1>9, FS_Bijection DEF Count
<1>11. Cardinality(S) = IF 1 \in InSeq(a, s) THEN Count(a, s) - 1 ELSE Count(a, s)
  BY InSeqFinite, FS_RemoveElement DEF Count
<1>12. 1 \in InSeq(a, s) <=> a = Head(s)
  BY <1>1 DEF InSeq
<1>13. Count(a, s) \in Nat
  BY InSeqFinite
<1>14. QED BY <1>2, <1>10, <1>11, <1>12, <1>13

-----------------------------------------------------------------------------
(* Steps that put nothing off.                                             *)

LEMMA CopiesAre == RetriesAreCopies <=> \A a \in Ids : retries[a] <= Count(a, pending) + Count(a, todo)
BY DEF RetriesAreCopies, Count

\* Retries that are forgotten, or stay, while the copies stay as they are.
LEMMA CopiesStay ==
  ASSUME AutomationInv, UNCHANGED <<pending, todo>>, retries' \in [Ids -> 0 .. MaxRetries],
         \A a \in Ids : retries'[a] \in {0, retries[a]}
  PROVE  RetriesAreCopies'
<1>1. ASSUME NEW a \in Ids
      PROVE  retries'[a] <= Count(a, pending) + Count(a, todo)
  <2>1. Count(a, pending) \in Nat /\ Count(a, todo) \in Nat
    BY InSeqFinite DEF AutomationInv, AutomationTypeOK
  <2>2. retries[a] <= Count(a, pending) + Count(a, todo)
    BY CopiesAre DEF AutomationInv
  <2>3. QED BY <2>1, <2>2
<1>2. QED BY <1>1 DEF RetriesAreCopies, Count

LEMMA ForgetIs ==
  ASSUME AutomationTypeOK, NEW a \in Ids, ForgetRetries(a)
  PROVE  /\ retries' \in [Ids -> 0 .. MaxRetries]
         /\ \A b \in Ids : retries'[b] = IF b = a THEN 0 ELSE retries[b]
BY AutomationAssumption DEF AutomationTypeOK, ForgetRetries

LEMMA RescheduledType ==
  ASSUME AutomationTypeOK, NEW a \in Ids
  PROVE  Rescheduled(a) \in [Ids -> Automation]
BY DEF AutomationTypeOK, Rescheduled, Automation, Nexts

\* The routes, the clock and the catch-ups change the table and the conditions.
LEMMA TableKeeps ==
  ASSUME AutomationInv, UNCHANGED <<tick, waiting, restarts>>,
         auto' \in [Ids -> Automation], holds' \subseteq Conditional, catching' \subseteq Scheduled
  PROVE  AutomationInv'
<1>1. AutomationTypeOK'
  BY DEF AutomationInv, AutomationTypeOK, tick, waiting, Automation
<1>2. RetriesAreCopies'
  BY DEF AutomationInv, RetriesAreCopies, tick, waiting
<1>3. QED BY <1>1, <1>2 DEF AutomationInv

LEMMA RouteKeeps ==
  ASSUME AutomationInv, NEW a \in Ids,
         \/ AddAutomation(a) \/ DeleteAutomation(a) \/ Switch(a)
         \/ BecomeDue(a) \/ CatchUp(a) \/ CaughtUp(a)
  PROVE  AutomationInv'
<1>1. auto \in [Ids -> Automation] /\ holds \subseteq Conditional /\ catching \subseteq Scheduled
  BY DEF AutomationInv, AutomationTypeOK, Automation
<1>2. Absent \in Automation
  BY DEF Absent, Automation, Nexts
<1>3. CASE AddAutomation(a) \/ DeleteAutomation(a) \/ Switch(a) \/ BecomeDue(a)
  <2>1. auto' \in [Ids -> Automation]
    <3>1. \A r \in Automation : \A s \in {"on", "off"} : \A b \in BOOLEAN :
            /\ [r EXCEPT !.is = s] \in Automation /\ [r EXCEPT !.next = "due"] \in Automation
            /\ [r EXCEPT !.is = s, !.bad = b] \in Automation
      BY DEF Automation, Nexts
    <3>2. PICK r \in Automation : auto' = [auto EXCEPT ![a] = r]
      <4>1. auto[a] \in Automation
        BY <1>1
      <4>2. CASE AddAutomation(a)
        <5>1. PICK b \in BOOLEAN : auto' = [auto EXCEPT ![a].is = "on", ![a].bad = b]
          BY <4>2 DEF AddAutomation
        <5>2. auto' = [auto EXCEPT ![a] = [auto[a] EXCEPT !.is = "on", !.bad = b]]
          BY <1>1, <4>1, <5>1 DEF Automation
        <5>3. QED BY <3>1, <4>1, <5>2
      <4>3. CASE DeleteAutomation(a)
        BY <1>2, <4>3 DEF DeleteAutomation
      <4>4. CASE Switch(a)
        BY <3>1, <4>1, <4>4 DEF Switch
      <4>5. CASE BecomeDue(a)
        BY <3>1, <4>1, <4>5 DEF BecomeDue
      <4>6. QED BY <1>3, <4>2, <4>3, <4>4, <4>5
    <3>3. QED BY <1>1, <3>2
  <2>2. UNCHANGED <<holds, tick, waiting, catching, restarts>>
    BY <1>3 DEF AddAutomation, DeleteAutomation, Switch, BecomeDue
  <2>3. QED BY <1>1, <2>1, <2>2, TableKeeps
<1>4. CASE CatchUp(a)
  BY <1>1, <1>4, TableKeeps DEF CatchUp
<1>5. CASE CaughtUp(a)
  <2>1. auto' \in [Ids -> Automation]
    BY <1>5, RescheduledType DEF CaughtUp, AutomationInv
  <2>2. QED BY <1>1, <1>5, <2>1, TableKeeps DEF CaughtUp
<1>6. QED BY <1>3, <1>4, <1>5

LEMMA ConditionKeeps ==
  ASSUME AutomationInv, NEW a \in Conditional, ConditionChanges(a) \/ ChangeThreshold(a)
  PROVE  AutomationInv'
<1>1. CASE ConditionChanges(a)
  BY <1>1, TableKeeps DEF ConditionChanges, AutomationInv, AutomationTypeOK, Automation
<1>2. CASE ChangeThreshold(a)
  <2>1. auto \in [Ids -> Automation] /\ holds \subseteq Conditional /\ catching \subseteq Scheduled
    BY DEF AutomationInv, AutomationTypeOK, Automation
  <2>2. auto[a] \in Automation /\ [auto[a] EXCEPT !.bad = ~@] \in Automation
    BY <2>1 DEF Automation, Ids
  <2>3. auto' \in [Ids -> Automation]
    BY <1>2, <2>1, <2>2 DEF ChangeThreshold
  <2>4. QED BY <1>2, <2>1, <2>3, TableKeeps DEF ChangeThreshold
<1>3. QED BY <1>1, <1>2

-----------------------------------------------------------------------------
(* The scheduler.                                                          *)

LEMMA RunKeeps ==
  ASSUME AutomationInv, Run
  PROVE  AutomationInv'
<1>1. auto' \in [Ids -> Automation]
  BY DEF Run, AutomationInv, AutomationTypeOK, Automation, Nexts
<1>2. AutomationTypeOK'
  BY <1>1 DEF Run, AutomationInv, AutomationTypeOK, Automation, waiting
<1>3. RetriesAreCopies'
  BY DEF Run, AutomationInv, RetriesAreCopies, waiting
<1>4. QED BY <1>2, <1>3 DEF AutomationInv

LEMMA NotedType ==
  ASSUME AutomationTypeOK, NEW S
  PROVE  Noted(S) \in [Ids -> Automation]
<1>1. \A r \in Automation : \A b \in BOOLEAN : [r EXCEPT !.was = b] \in Automation
  BY DEF Automation
<1>2. \A a \in Ids : Holds(a) \in BOOLEAN /\ auto[a] \in Automation
  BY DEF AutomationTypeOK, Automation, Holds
<1>3. QED BY <1>1, <1>2 DEF Noted

LEMMA TickFailsKeeps ==
  ASSUME AutomationInv, TickFails
  PROVE  AutomationInv'
<1>1. auto' \in [Ids -> Automation]
  BY NotedType DEF TickFails, AutomationInv
<1>2. holds \subseteq Conditional /\ catching \subseteq Scheduled
  BY DEF AutomationInv, AutomationTypeOK
<1>3. QED BY <1>1, <1>2, TableKeeps DEF TickFails

LEMMA CollectKeeps ==
  ASSUME AutomationInv, Collect
  PROVE  AutomationInv'
<1>1. auto' \in [Ids -> Automation]
  BY NotedType DEF Collect, AutomationInv
<1>2. AutomationTypeOK'
  BY <1>1 DEF Collect, AutomationInv, AutomationTypeOK, Automation, waiting
<1>3. RetriesAreCopies'
  BY DEF Collect, AutomationInv, RetriesAreCopies, waiting
<1>4. QED BY <1>2, <1>3 DEF AutomationInv

\* What is taken to be run takes the place of nothing.
LEMMA ProcessPendingKeeps ==
  ASSUME AutomationInv, NEW idle \in BOOLEAN, ProcessPending(idle)
  PROVE  AutomationInv'
<1>1. todo = <<>> /\ pending \in Seq(Ids) /\ Len(pending) <= MaxPending
  BY DEF ProcessPending, AutomationInv, AutomationTypeOK
<1>2. <<>> \in Seq(Ids) /\ Len(<<>>) = 0 /\ MaxPending \in Nat
  BY EmptySeq, AutomationAssumption
<1>3. AutomationTypeOK'
  BY <1>1, <1>2 DEF ProcessPending, AutomationInv, AutomationTypeOK
<1>4. \A a \in Ids : Count(a, pending) \in Nat /\ Count(a, todo) = 0
  BY <1>1, InSeqFinite, CountEmpty
<1>5. \A a \in Ids : retries'[a] <= Count(a, pending')  + Count(a, todo')
  <2>1. CASE todo' = pending /\ pending' = <<>>
    BY <2>1, <1>4, CountEmpty, CopiesAre DEF ProcessPending, AutomationInv
  <2>2. CASE UNCHANGED <<todo, pending>>
    BY <2>2, CopiesAre DEF ProcessPending, AutomationInv
  <2>3. QED BY <2>1, <2>2 DEF ProcessPending
<1>6. QED BY <1>3, <1>5 DEF AutomationInv, RetriesAreCopies, Count

\* With the copy that is run its retries are forgotten.
LEMMA RunPendingKeeps ==
  ASSUME AutomationInv, RunPending
  PROVE  AutomationInv'
<1> DEFINE a == Head(todo)
<1>1. /\ todo \in Seq(Ids) /\ todo # <<>> /\ Len(todo) <= MaxPending /\ MaxPending \in Nat
      /\ todo' = Tail(todo) /\ ForgetRetries(a) /\ auto' = Rescheduled(a) /\ at = "drain"
      /\ UNCHANGED <<holds, at, due, pending, catching, restarts>> /\ fired' = fired \union {a}
  BY AutomationAssumption DEF RunPending, AutomationInv, AutomationTypeOK
<1>2. a \in Ids /\ Tail(todo) \in Seq(Ids) /\ Len(Tail(todo)) = Len(todo) - 1 /\ Len(todo) \in Nat
  BY <1>1, HeadTailProperties, LenProperties
<1>3. Len(todo') <= MaxPending
  BY <1>1, <1>2
<1>4. /\ retries' \in [Ids -> 0 .. MaxRetries]
      /\ \A b \in Ids : retries'[b] = IF b = a THEN 0 ELSE retries[b]
  BY <1>1, <1>2, ForgetIs DEF AutomationInv
<1>5. auto' \in [Ids -> Automation]
  BY <1>1, <1>2, RescheduledType DEF AutomationInv
<1>6. AutomationTypeOK'
  BY <1>1, <1>2, <1>3, <1>4, <1>5 DEF AutomationInv, AutomationTypeOK, Automation
<1>7. ASSUME NEW b \in Ids
      PROVE  retries'[b] <= Count(b, pending) + Count(b, todo')
  <2>1. Count(b, pending) \in Nat /\ Count(b, todo') \in Nat
    BY <1>1, <1>2, InSeqFinite DEF AutomationInv, AutomationTypeOK
  <2>2. CASE b = a
    BY <2>1, <2>2, <1>4
  <2>3. CASE b # a
    <3>1. Count(b, todo') = Count(b, todo)
      BY <1>1, <2>3, CountTail
    <3>2. QED BY <3>1, <2>3, <1>4, CopiesAre DEF AutomationInv
  <2>4. QED BY <2>2, <2>3
<1>8. QED BY <1>1, <1>6, <1>7 DEF AutomationInv, RetriesAreCopies, Count

LEMMA PassOnKeeps ==
  ASSUME AutomationInv, PendingDone \/ Sleep \/ \E a \in Ids : AlreadyFired(a)
  PROVE  AutomationInv'
<1>1. /\ at' \in {"due", "sleep"} /\ due' \subseteq due /\ todo = <<>>
      /\ at' = "sleep" => due' = {}
      /\ UNCHANGED <<auto, holds, todo, fired, waiting, catching, restarts>>
  BY DEF PendingDone, Sleep, AlreadyFired, AutomationInv, AutomationTypeOK
<1>2. AutomationTypeOK'
  BY <1>1 DEF AutomationInv, AutomationTypeOK, waiting
<1>3. RetriesAreCopies'
  BY <1>1 DEF AutomationInv, RetriesAreCopies, waiting
<1>4. QED BY <1>2, <1>3 DEF AutomationInv

\* What is run at once, by force or given up: no copy comes or goes.
LEMMA DealtWithKeeps ==
  ASSUME AutomationInv, NEW a \in Ids, RunDue(a) \/ ForceRun(a) \/ Overflow(a)
  PROVE  AutomationInv'
<1>1. auto' \in [Ids -> Automation]
  <2>1. CASE RunDue(a) \/ ForceRun(a)
    BY <2>1, RescheduledType DEF RunDue, ForceRun, AutomationInv
  <2>2. CASE Overflow(a)
    BY <2>2 DEF Overflow, AutomationInv, AutomationTypeOK, Automation, Nexts
  <2>3. QED BY <2>1, <2>2
<1>2. /\ retries' \in [Ids -> 0 .. MaxRetries]
      /\ \A b \in Ids : retries'[b] \in {0, retries[b]}
  <2>1. CASE RunDue(a)
    BY <2>1 DEF RunDue, waiting, AutomationInv, AutomationTypeOK
  <2>2. CASE ForceRun(a) \/ Overflow(a)
    BY <2>2, ForgetIs DEF ForceRun, Overflow, AutomationInv
  <2>3. QED BY <2>1, <2>2
<1>3. /\ at = "due" /\ due' = due \ {a}
      /\ UNCHANGED <<holds, at, todo, fired, pending, catching, restarts>>
  BY DEF RunDue, ForceRun, Overflow, waiting
<1>4. AutomationTypeOK'
  BY <1>1, <1>2, <1>3 DEF AutomationInv, AutomationTypeOK, Automation
<1>5. RetriesAreCopies'
  BY <1>2, <1>3, CopiesStay
<1>6. QED BY <1>4, <1>5 DEF AutomationInv

\* A retry more, and a copy more.
LEMMA PutOffKeeps ==
  ASSUME AutomationInv, NEW a \in Ids, PutOff(a)
  PROVE  AutomationInv'
<1>1. /\ pending \in Seq(Ids) /\ todo \in Seq(Ids) /\ retries \in [Ids -> 0 .. MaxRetries]
      /\ MaxPending \in Nat /\ MaxRetries \in Nat /\ at = "due"
      /\ retries[a] + 1 <= MaxRetries /\ Len(pending) < MaxPending
      /\ pending' = Append(pending, a) /\ retries' = [retries EXCEPT ![a] = @ + 1]
      /\ due' = due \ {a}
      /\ UNCHANGED <<auto, holds, at, todo, fired, catching, restarts>>
  BY AutomationAssumption DEF PutOff, Another, AutomationInv, AutomationTypeOK
<1>2. pending' \in Seq(Ids) /\ Len(pending') <= MaxPending
  BY <1>1, AppendProperties, LenProperties
<1>3. retries' \in [Ids -> 0 .. MaxRetries]
  BY <1>1
<1>4. AutomationTypeOK'
  BY <1>1, <1>2, <1>3 DEF AutomationInv, AutomationTypeOK
<1>5. ASSUME NEW b \in Ids
      PROVE  retries'[b] <= Count(b, pending') + Count(b, todo)
  <2>1. Count(b, pending) \in Nat /\ Count(b, todo) \in Nat /\ retries[b] \in Nat
    BY <1>1, InSeqFinite
  <2>2. Count(b, pending') = IF b = a THEN Count(b, pending) + 1 ELSE Count(b, pending)
    BY <1>1, CountAppend
  <2>3. retries[b] <= Count(b, pending) + Count(b, todo)
    BY CopiesAre DEF AutomationInv
  <2>4. retries'[b] = IF b = a THEN retries[b] + 1 ELSE retries[b]
    BY <1>1
  <2>5. QED BY <2>1, <2>2, <2>3, <2>4
<1>6. QED BY <1>1, <1>4, <1>5 DEF AutomationInv, RetriesAreCopies, Count

LEMMA ServerRestartKeeps ==
  ASSUME AutomationInv, Restart
  PROVE  AutomationInv'
<1>1. auto' \in [Ids -> Automation]
  <2>1. PICK W \in SUBSET Conditional :
          auto' = [a \in Ids |-> [auto[a] EXCEPT !.was = Known(a) /\ a \in W]]
    BY DEF Restart
  <2>2. \A r \in Automation : \A b \in BOOLEAN : [r EXCEPT !.was = b] \in Automation
    BY DEF Automation
  <2>3. \A a \in Ids : (Known(a) /\ a \in W) \in BOOLEAN /\ auto[a] \in Automation
    BY DEF AutomationInv, AutomationTypeOK, Automation
  <2>4. QED BY <2>1, <2>2, <2>3
<1>2. /\ at' = "off" /\ due' = {} /\ fired' = {} /\ catching' = {} /\ holds' = holds
      /\ pending' = <<>> /\ todo' = <<>> /\ retries' = [a \in Ids |-> 0]
      /\ <<>> \in Seq(Ids) /\ Len(<<>>) = 0 /\ MaxPending \in Nat /\ MaxRetries \in Nat
  BY EmptySeq, AutomationAssumption DEF Restart
<1>3. retries' \in [Ids -> 0 .. MaxRetries] /\ restarts' \in 0 .. MaxRestarts
  BY <1>2, AutomationAssumption DEF Restart, AutomationInv, AutomationTypeOK
<1>4. AutomationTypeOK'
  BY <1>1, <1>2, <1>3 DEF AutomationInv, AutomationTypeOK, Automation
<1>5. \A a \in Ids : retries'[a] <= Count(a, pending') + Count(a, todo')
  BY <1>2, CountEmpty
<1>6. QED BY <1>4, <1>5 DEF AutomationInv, RetriesAreCopies, Count

-----------------------------------------------------------------------------

LEMMA InitAutomationInv == AutomationInit => AutomationInv
<1> SUFFICES ASSUME AutomationInit PROVE AutomationInv
  OBVIOUS
<1>1. Absent \in Automation /\ auto \in [Ids -> Automation]
  BY DEF AutomationInit, Absent, Automation, Nexts
<1>2. <<>> \in Seq(Ids) /\ Len(<<>>) = 0
  BY EmptySeq
<1>3. AutomationTypeOK
  BY <1>1, <1>2, AutomationAssumption DEF AutomationInit, AutomationTypeOK, Automation
<1>4. \A a \in Ids : retries[a] <= Count(a, pending) + Count(a, todo)
  BY CountEmpty DEF AutomationInit
<1>5. QED BY <1>3, <1>4, CopiesAre DEF AutomationInv

LEMMA NextAutomationInv == AutomationInv /\ [AutomationNext]_automations => AutomationInv'
<1> SUFFICES ASSUME AutomationInv, [AutomationNext]_automations PROVE AutomationInv'
  OBVIOUS
<1>1. CASE Scheduler
  BY <1>1, CollectKeeps, TickFailsKeeps, ProcessPendingKeeps, RunPendingKeeps, PassOnKeeps, DealtWithKeeps,
     PutOffKeeps DEF Scheduler
<1>2. CASE UNCHANGED automations
  BY <1>2 DEF automations, tick, waiting, AutomationInv, AutomationTypeOK, RetriesAreCopies
<1>3. QED BY <1>1, <1>2, RunKeeps, RouteKeeps, ConditionKeeps, ServerRestartKeeps DEF AutomationNext

LEMMA AutomationInvariance == AutomationSpec => []AutomationInv
BY InitAutomationInv, NextAutomationInv, PTL DEF AutomationSpec

\* What counts as a retry is a copy that is still to be run, for any number of
\* automations and restarts, any limits, and whatever the routes and catch-ups do.
THEOREM RetriesAlwaysCopies == AutomationSpec => []RetriesAreCopies
<1>1. AutomationInv => RetriesAreCopies
  BY DEF AutomationInv
<1>2. QED BY AutomationInvariance, <1>1, PTL

-----------------------------------------------------------------------------
(* Both of them in one run.                                                *)

\* A step of the run is a step of the subject, and leaves the other as it is.
LEMMA ControlStep ==
  ASSUME [ControlNext]_<<subject, vars, automations>>
  PROVE  [Next]_vars /\ [AutomationNext]_automations
<1>1. CASE UNCHANGED <<subject, vars, automations>>
  <2>1. UNCHANGED vars /\ UNCHANGED automations
    BY <1>1
  <2>2. QED BY <2>1
<1>2. CASE Next /\ UNCHANGED automations
  BY <1>2
<1>3. CASE AutomationNext /\ UNCHANGED vars
  BY <1>3
<1>4. QED BY <1>1, <1>2, <1>3 DEF ControlNext

\* Every reachable state of the planned restart and of the automations is well typed.
THEOREM TypesCorrect == ControlSpec => []TypesOK
<1>1. ControlInit => Init /\ AutomationInit
  BY DEF ControlInit
<1>2. [ControlNext]_<<subject, vars, automations>> => [Next]_vars /\ [AutomationNext]_automations
  BY ControlStep
<1>3. ControlSpec => Spec /\ AutomationSpec
  BY <1>1, <1>2, PTL DEF ControlSpec, Spec, AutomationSpec
<1>4. IInv /\ AutomationInv => TypesOK
  BY DEF IInv, AutomationInv, TypesOK
<1>5. QED BY <1>3, <1>4, Invariance, AutomationInvariance, PTL
=============================================================================
