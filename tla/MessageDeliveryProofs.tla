------------------------ MODULE MessageDeliveryProofs ------------------------
(***************************************************************************)
(* Proofs about MessageDelivery, for any agents, senders and requests, any *)
(* modes they come with, any size of the queue and any limit.              *)
(***************************************************************************)
EXTENDS MessageDelivery, TLAPS

\* Everything for a below the id n is settled.
Settled(a, n) == \A m \in sent : a \in m.to /\ m.id < n => m.id \in settled[a]

IdsBelow == \A m \in sent : m.id < next
RemovedIsSettled == \A a \in Agents : Settled(a, base)

\* Every index or id that may become the cursor of a, or did, has only settled
\* messages below it.
CursorIsHonest(a) ==
  cursor[a] # None => base + cursor[a] <= next /\ Settled(a, base + cursor[a])
RecordIsHonest(a) ==
  saved[a] # None => saved[a] < next /\ Settled(a, saved[a] + 1)
LookUpIsHonest(a) ==
  joining[a].pc = "lookup" /\ joining[a].id # None
    => joining[a].id < next /\ Settled(a, joining[a].id + 1)
RestoreIsHonest(a) ==
  joining[a].pc = "restore"
    => base + joining[a].at <= next /\ Settled(a, base + joining[a].at)

\* A request that will move the cursor has in hand what is not settled.
FilterIsHonest(q) ==
  q.pc = "filter" /\ q.mode # "from" =>
    /\ base + q.new <= next
    /\ \A i \in q.ids : i < base + q.new
    /\ \A m \in sent : q.agent \in m.to /\ m.id < base + q.new
                         => m.id \in settled[q.agent] \union q.ids
SaveIsHonest(q) ==
  q.pc = "save" /\ ~q.partial =>
    \A i \in q.ids : i < next /\ Settled(q.agent, i + 1)

Honest(a) ==
  /\ CursorIsHonest(a) /\ RecordIsHonest(a) /\ LookUpIsHonest(a) /\ RestoreIsHonest(a)
  /\ \A r \in Requests : req[r] # Idle /\ req[r].agent = a
       => FilterIsHonest(req[r]) /\ SaveIsHonest(req[r])

IInv ==
  /\ TypeOK /\ IdsBelow /\ RemovedIsSettled
  /\ \A a \in Agents \ exposed : Honest(a)

-----------------------------------------------------------------------------
(* Types.                                                                  *)

LEMMA RequestTypes ==
  ASSUME TypeOK, NEW r \in Requests
  PROVE  /\ req[r].pc = "wait" => req[r] \in Waiting
         /\ req[r].pc = "filter" => req[r] \in Filtering
         /\ req[r].pc = "save" => req[r] \in Saving
         /\ req[r].pc \in {"wait", "filter", "save"} => req[r] # Idle
BY DEF TypeOK, Idle, Waiting, Filtering, Saving

LEMMA JoiningTypes ==
  ASSUME TypeOK, NEW a \in Agents
  PROVE  /\ joining[a].pc = "lookup" => joining[a].id \in Nat \union {None}
         /\ joining[a].pc = "restore" => joining[a].at \in Nat
         /\ joining[a].pc = "start" => joining[a].known \in BOOLEAN
BY DEF TypeOK, Idle, Joining

LEMMA QueueTypes ==
  ASSUME TypeOK
  PROVE  /\ next \in Nat /\ base \in Nat /\ base <= next /\ Length \in Nat
         /\ base + Length = next
         /\ \A a \in Agents : Cursor(a) \in Nat
         /\ \A m \in sent : m.id \in Nat /\ m.to \in SUBSET Agents
BY DeliveryAssumption DEF TypeOK, Length, Cursor, Message

LEMMA RemovedType ==
  ASSUME TypeOK
  PROVE  /\ Removed(Length + 1) \in Nat
         /\ base + Removed(Length + 1) <= next
BY QueueTypes, DeliveryAssumption DEF Removed

LEMMA LookType ==
  ASSUME TypeOK, NEW a \in Agents, NEW m \in Modes, NEW s \in Senders
  PROVE  Look(a, m, s) \in Filtering
<1>1. Ids(Unread(a)) \subseteq Nat
  BY QueueTypes DEF Ids, Unread, UnreadFrom
<1>2. QED BY <1>1, QueueTypes DEF Look, Filtering

LEMMA BatchType == ASSUME NEW q PROVE Batch(q) \subseteq q.ids
BY DEF Batch, Newest

LEMMA TypeStep == TypeOK /\ [Next]_vars => TypeOK'
<1> SUFFICES ASSUME TypeOK, [Next]_vars PROVE TypeOK'
  OBVIOUS
<1> USE DEF TypeOK
<1>1. ASSUME NEW to \in SUBSET Agents, NEW s \in Senders, Send(to, s)
      PROVE  TypeOK'
  <2>1. sent' \subseteq Message /\ next' \in Nat /\ base' \in 0 .. next'
    BY <1>1, QueueTypes, RemovedType DEF Send, Message
  <2>2. cursor' \in [Agents -> Nat \union {None}]
    BY <1>1, RemovedType, DeliveryAssumption DEF Send, Adjusted, Larger
  <2>3. settled' \in [Agents -> SUBSET Nat]
    BY <1>1, QueueTypes DEF Send, Below
  <2>4. exposed' \subseteq Agents
    BY <1>1 DEF Send, Overtaken
  <2>5. QED BY <1>1, <2>1, <2>2, <2>3, <2>4 DEF Send
<1>2. ASSUME NEW r \in Requests, NEW a \in Agents, NEW m \in Modes, NEW s \in Senders,
             Receive(r, a, m, s)
      PROVE  TypeOK'
  BY <1>2, LookType DEF Receive, Waiting
<1>3. ASSUME NEW r \in Requests, WakeUp(r) PROVE TypeOK'
  BY <1>3, LookType, RequestTypes DEF WakeUp, Waiting
<1>4. ASSUME NEW r \in Requests, Advance(r) PROVE TypeOK'
  <2>1. req[r] \in Filtering
    BY <1>4, RequestTypes DEF Advance
  <2>2. Batch(req[r]) \subseteq req[r].ids /\ req[r].ids \subseteq Nat
    BY <2>1, BatchType DEF Filtering
  <2>3. req' \in [Requests -> {Idle} \union Waiting \union Filtering \union Saving]
    <3>1. [pc |-> "save", agent |-> req[r].agent, ids |-> Batch(req[r]),
           partial |-> ~MovesCursor(req[r])] \in Saving
      BY <2>1, <2>2 DEF Saving, Filtering, MovesCursor
    <3>2. QED BY <1>4, <3>1 DEF Advance
  <2>4. cursor' \in [Agents -> Nat \union {None}] /\ settled' \in [Agents -> SUBSET Nat]
    BY <1>4, <2>1, <2>2 DEF Advance, Filtering
  <2>5. QED BY <1>4, <2>3, <2>4 DEF Advance
<1>5. ASSUME NEW r \in Requests, Save(r) PROVE TypeOK'
  BY <1>5, RequestTypes DEF Save, Saving
<1>6. ASSUME NEW a \in Agents, Register(a) PROVE TypeOK'
  BY <1>6 DEF Register, Joining
<1>7. ASSUME NEW a \in Agents, LookUp(a) PROVE TypeOK'
  <2>1. joining[a].id # None => IndexAfter(joining[a].id) \in Nat
    BY <1>7, JoiningTypes, QueueTypes DEF LookUp, IndexAfter, Larger
  <2>2. joining' \in [Agents -> {Idle} \union Joining]
    <3>1. joining[a].id # None
            => [pc |-> "restore", at |-> IndexAfter(joining[a].id)] \in Joining
      BY <2>1 DEF Joining
    <3>2. [pc |-> "start", known |-> joining[a].id # None] \in Joining
      BY Zenon DEF Joining
    <3>3. QED BY <1>7, <3>1, <3>2 DEF LookUp
  <2>3. QED BY <1>7, <2>2 DEF LookUp
<1>8. ASSUME NEW a \in Agents, Restore(a) PROVE TypeOK'
  <2>1. cursor' \in [Agents -> Nat \union {None}]
    BY <1>8, JoiningTypes DEF Restore
  <2>2. joining' \in [Agents -> {Idle} \union Joining]
    BY <1>8 DEF Restore, Joining
  <2>3. QED BY <1>8, <2>1, <2>2 DEF Restore
<1>9. ASSUME NEW a \in Agents, CleanUp(a) PROVE TypeOK'
  BY <1>9 DEF CleanUp
<1>10. CASE Restart
  BY <1>10, DeliveryAssumption DEF Restart
<1>11. ASSUME NEW a \in Agents, StartCursor(a) PROVE TypeOK'
  <2>1. cursor' \in [Agents -> Nat \union {None}]
    BY <1>11, QueueTypes DEF StartCursor
  <2>2. settled' \in [Agents -> SUBSET Nat]
    BY <1>11, QueueTypes DEF StartCursor, Below
  <2>3. QED BY <1>11, <2>1, <2>2 DEF StartCursor
<1>12. ASSUME NEW A \in SUBSET Agents, NEW keep \in BOOLEAN, Configure(A, keep)
       PROVE  TypeOK'
  <2>1. cursor' \in [Agents -> Nat \union {None}]
    BY <1>12, QueueTypes DEF Configure
  <2>2. settled' \in [Agents -> SUBSET Nat]
    BY <1>12, QueueTypes DEF Configure, Below
  <2>3. QED BY <1>12, <2>1, <2>2 DEF Configure
<1>13. CASE UNCHANGED vars
  BY <1>13 DEF vars
<1>14. QED
  BY <1>1, <1>2, <1>3, <1>4, <1>5, <1>6, <1>7, <1>8, <1>9, <1>10, <1>11, <1>12, <1>13 DEF Next

-----------------------------------------------------------------------------
(* What a step leaves alone.                                               *)

Grows(a) ==
  /\ next' >= next /\ next' \in Nat
  /\ \A m \in sent' : m \in sent \/ m.id = next
  /\ settled[a] \subseteq settled'[a]

LEMMA SettledStays ==
  ASSUME TypeOK, NEW a \in Agents, Grows(a), NEW n \in Nat, n <= next, Settled(a, n)
  PROVE  Settled(a, n)'
BY QueueTypes DEF Grows, Settled

LEMMA CursorStays ==
  ASSUME TypeOK, NEW a \in Agents, Grows(a), CursorIsHonest(a),
         base' = base, cursor'[a] = cursor[a]
  PROVE  CursorIsHonest(a)'
<1>1. cursor[a] # None => base + cursor[a] \in Nat
  BY QueueTypes DEF TypeOK
<1>2. QED BY <1>1, SettledStays DEF CursorIsHonest, Grows, TypeOK

LEMMA RecordStays ==
  ASSUME TypeOK, NEW a \in Agents, Grows(a), RecordIsHonest(a), saved'[a] = saved[a]
  PROVE  RecordIsHonest(a)'
<1>1. saved[a] # None => saved[a] \in Nat /\ saved[a] + 1 \in Nat
  BY DEF TypeOK
<1>2. saved[a] # None /\ saved[a] < next => saved[a] + 1 <= next
  BY <1>1, QueueTypes
<1>3. QED BY <1>1, <1>2, SettledStays DEF RecordIsHonest, Grows, TypeOK

LEMMA LookUpStays ==
  ASSUME TypeOK, NEW a \in Agents, Grows(a), LookUpIsHonest(a), joining'[a] = joining[a]
  PROVE  LookUpIsHonest(a)'
<1> SUFFICES ASSUME joining[a].pc = "lookup", joining[a].id # None
             PROVE  joining[a].id < next' /\ Settled(a, joining[a].id + 1)'
  BY DEF LookUpIsHonest
<1>1. joining[a].id \in Nat /\ joining[a].id < next /\ Settled(a, joining[a].id + 1)
  BY JoiningTypes DEF LookUpIsHonest
<1>2. joining[a].id + 1 \in Nat /\ joining[a].id + 1 <= next
  BY <1>1, QueueTypes
<1>3. Settled(a, joining[a].id + 1)'
  BY <1>1, <1>2, SettledStays DEF Settled
<1>4. QED BY <1>1, <1>3, QueueTypes DEF Grows

LEMMA RestoreStays ==
  ASSUME TypeOK, NEW a \in Agents, Grows(a), RestoreIsHonest(a),
         base' = base, joining'[a] = joining[a]
  PROVE  RestoreIsHonest(a)'
<1> SUFFICES ASSUME joining[a].pc = "restore"
             PROVE  base + joining[a].at <= next' /\ Settled(a, base + joining[a].at)'
  BY DEF RestoreIsHonest
<1>1. joining[a].at \in Nat /\ base + joining[a].at <= next /\ Settled(a, base + joining[a].at)
  BY JoiningTypes DEF RestoreIsHonest
<1>2. base + joining[a].at \in Nat
  BY <1>1, QueueTypes
<1>3. Settled(a, base + joining[a].at)'
  BY <1>1, <1>2, SettledStays DEF Settled
<1>4. QED BY <1>1, <1>2, <1>3, QueueTypes DEF Grows

LEMMA RequestStays ==
  ASSUME TypeOK, NEW r \in Requests, req[r] # Idle, Grows(req[r].agent),
         FilterIsHonest(req[r]), SaveIsHonest(req[r]), req'[r] = req[r],
         base' = base \/ req[r].pc # "filter"
  PROVE  FilterIsHonest(req[r])' /\ SaveIsHonest(req[r])'
<1>1. req[r].pc \in {"wait", "filter", "save"} /\ req[r].agent \in Agents
  BY DEF TypeOK, Waiting, Filtering, Saving
<1>2. ASSUME req[r].pc = "filter" PROVE FilterIsHonest(req[r])'
  <2>1. req[r].new \in Nat /\ req[r].ids \subseteq Nat /\ base + req[r].new \in Nat
    BY <1>2, RequestTypes, QueueTypes DEF Filtering
  <2>2. QED BY <1>1, <1>2, <2>1, QueueTypes DEF FilterIsHonest, Grows
<1>3. ASSUME req[r].pc = "save", ~req[r].partial, NEW i \in req[r].ids
      PROVE  i < next' /\ Settled(req[r].agent, i + 1)'
  <2>1. i \in Nat /\ i < next /\ Settled(req[r].agent, i + 1)
    BY <1>3, RequestTypes DEF Saving, SaveIsHonest
  <2>2. i + 1 \in Nat /\ i + 1 <= next
    BY <2>1, QueueTypes
  <2>3. Settled(req[r].agent, i + 1)'
    BY <1>1, <2>1, <2>2, SettledStays DEF Settled
  <2>4. QED BY <2>1, <2>3, QueueTypes DEF Grows
<1>4. QED BY <1>1, <1>2, <1>3 DEF FilterIsHonest, SaveIsHonest

LEMMA LogStays ==
  ASSUME IInv, TypeOK', UNCHANGED <<sent, next, base>>,
         \A a \in Agents : settled[a] \subseteq settled'[a]
  PROVE  /\ \A a \in Agents : Grows(a)
         /\ IdsBelow' /\ RemovedIsSettled'
<1>1. ASSUME NEW a \in Agents PROVE Grows(a)
  BY QueueTypes DEF Grows, IInv
<1>2. IdsBelow'
  BY DEF IdsBelow, IInv
<1>3. RemovedIsSettled'
  BY DEF RemovedIsSettled, Settled, IInv
<1>4. QED BY <1>1, <1>2, <1>3

\* a stays honest if nothing of its own changes but its requests, and those are
\* honest.
LEMMA HonestStays ==
  ASSUME IInv, \A b \in Agents : Grows(b), base' = base, NEW a \in Agents \ exposed,
         cursor'[a] = cursor[a], saved'[a] = saved[a], joining'[a] = joining[a],
         \A r \in Requests : req'[r] # Idle /\ req'[r].agent = a =>
           req'[r] = req[r] \/ (FilterIsHonest(req[r])' /\ SaveIsHonest(req[r])')
  PROVE  Honest(a)'
<1>1. Honest(a) /\ TypeOK
  BY DEF IInv
<1>2. CursorIsHonest(a)' /\ RecordIsHonest(a)' /\ LookUpIsHonest(a)' /\ RestoreIsHonest(a)'
  BY <1>1, CursorStays, RecordStays, LookUpStays, RestoreStays DEF Honest
<1>3. ASSUME NEW r \in Requests, req'[r] # Idle, req'[r].agent = a
      PROVE  FilterIsHonest(req[r])' /\ SaveIsHonest(req[r])'
  <2>1. CASE req'[r] = req[r]
    BY <1>1, <1>3, <2>1, RequestStays DEF Honest
  <2>2. CASE req'[r] # req[r]
    BY <1>3, <2>2
  <2>3. QED BY <2>1, <2>2
<1>4. QED BY <1>2, <1>3 DEF Honest

-----------------------------------------------------------------------------
(* The steps.                                                              *)

LEMMA SendKeeps ==
  ASSUME IInv, NEW to \in SUBSET Agents, NEW s \in Senders, Send(to, s)
  PROVE  IInv'
<1> DEFINE k == Removed(Length + 1)
<1>1. TypeOK /\ TypeOK' /\ k \in Nat /\ base + k <= next
  BY TypeStep, RemovedType DEF IInv, Next
<1>2. ASSUME NEW a \in Agents PROVE Grows(a)
  BY <1>1, QueueTypes DEF Send, Grows
<1>3. IdsBelow'
  BY <1>1, QueueTypes DEF Send, IdsBelow, IInv
<1>4. ASSUME NEW a \in Agents PROVE Settled(a, base)'
  <2>1. CASE k = 0
    <3>1. base' = base
      BY <2>1, <1>1, QueueTypes DEF Send
    <3>2. PICK n \in Nat : n = base
      BY <1>1, QueueTypes
    <3>3. Settled(a, n)'
      BY <3>2, <1>1, <1>2, SettledStays, QueueTypes DEF IInv, RemovedIsSettled
    <3>4. QED BY <3>1, <3>2, <3>3 DEF Settled
  <2>2. CASE k # 0
    <3>1. \A m \in sent : m.id < base + k => m.id \in settled'[a]
      BY <2>2, <1>1 DEF Send, Below
    <3>2. \A m \in sent' : m \in sent \/ m.id = next
      BY <1>2 DEF Grows
    <3>3. QED BY <3>1, <3>2, <1>1, QueueTypes DEF Send, Settled
  <2>3. QED BY <2>1, <2>2
<1>5. ASSUME NEW a \in Agents \ exposed' PROVE Honest(a)'
  <2>1. a \notin exposed /\ Honest(a)
    BY <1>5 DEF Send, IInv
  <2>2. CASE k = 0
    <3>1. base' = base /\ UNCHANGED <<saved, req, joining>>
      BY <2>2, <1>1, QueueTypes DEF Send
    <3>2. cursor'[a] = cursor[a]
      BY <2>2, <1>1, DeliveryAssumption DEF Send, Adjusted, Larger, TypeOK
    <3>3. QED BY <2>1, <3>1, <3>2, <1>2, HonestStays
  <2>3. CASE k # 0
    <3>1. /\ joining[a].pc # "restore"
          /\ \A r \in Requests : req[r].agent = a => req[r].pc # "filter"
      BY <2>3, <1>5 DEF Send, Overtaken
    <3>2. UNCHANGED <<saved, req, joining>> /\ base' = base + k
      BY DEF Send
    <3>3. RecordIsHonest(a)' /\ LookUpIsHonest(a)' /\ RestoreIsHonest(a)'
      BY <1>1, <1>2, <2>1, <3>1, <3>2, RecordStays, LookUpStays DEF Honest, RestoreIsHonest
    <3>4. CursorIsHonest(a)'
      <4> SUFFICES ASSUME cursor'[a] # None
                   PROVE  base' + cursor'[a] <= next' /\ Settled(a, base + cursor[a])'
        BY DEF CursorIsHonest
      <4>1. cursor[a] \in Nat /\ cursor'[a] = Larger(0, cursor[a] - k)
        BY <1>1 DEF Send, Adjusted, TypeOK
      <4>2. base + cursor[a] <= next /\ Settled(a, base + cursor[a])
        BY <2>1, <4>1, DeliveryAssumption DEF Honest, CursorIsHonest
      <4>3. CASE cursor[a] >= k
        <5>1. PICK n \in Nat : n = base + cursor[a]
          BY <4>1, <1>1, QueueTypes
        <5>2. base' + cursor'[a] = n
          BY <5>1, <4>1, <4>3, <3>2, <1>1, QueueTypes DEF Larger
        <5>3. Settled(a, n)'
          BY <5>1, <4>2, <1>1, <1>2, SettledStays
        <5>4. n <= next'
          BY <5>1, <4>2, <1>2, <1>1, QueueTypes DEF Grows
        <5>5. QED BY <5>2, <5>3, <5>4 DEF Settled
      <4>4. CASE ~(cursor[a] >= k)
        <5>1. base' + cursor'[a] = base'
          BY <4>1, <4>4, <3>2, <1>1, QueueTypes DEF Larger
        <5>2. base' <= next'
          BY <1>1 DEF TypeOK
        <5>3. QED BY <5>1, <5>2, <1>4 DEF Settled
      <4>5. QED BY <4>3, <4>4
    <3>5. ASSUME NEW r \in Requests, req[r] # Idle, req[r].agent = a
          PROVE  FilterIsHonest(req[r])' /\ SaveIsHonest(req[r])'
      BY <3>1, <3>2, <3>5, <2>1, <1>1, <1>2, RequestStays DEF Honest
    <3>6. QED BY <3>2, <3>3, <3>4, <3>5 DEF Honest
  <2>4. QED BY <2>2, <2>3
<1>6. RemovedIsSettled'
  BY <1>4 DEF RemovedIsSettled
<1>7. QED BY <1>1, <1>3, <1>5, <1>6 DEF IInv

\* What a request sees and where the queue ends fit together.
LEMMA LookIsHonest ==
  ASSUME IInv, NEW a \in Agents, NEW m \in Modes, NEW s \in Senders, a \notin exposed
  PROVE  FilterIsHonest(Look(a, m, s)) /\ SaveIsHonest(Look(a, m, s))
<1> DEFINE q == Look(a, m, s)
<1>1. /\ q.pc = "filter" /\ q.mode = m /\ q.agent = a
      /\ q.new = Length /\ base + q.new = next
  BY QueueTypes DEF Look, IInv
<1>2. ASSUME NEW i \in q.ids PROVE i < base + q.new
  BY <1>1 DEF Look, Ids, Unread, UnreadFrom, IInv, IdsBelow
<1>3. ASSUME m # "from", NEW x \in sent, a \in x.to, x.id < base + q.new
      PROVE  x.id \in settled[a] \union q.ids
  <2>1. CASE x.id >= base + Cursor(a)
    BY <1>3, <2>1 DEF Look, Ids, Unread, UnreadFrom
  <2>2. CASE ~(x.id >= base + Cursor(a))
    <3>1. x.id < base + Cursor(a)
      BY <2>2, QueueTypes DEF IInv
    <3>2. CASE cursor[a] = None
      BY <3>1, <3>2, <1>3, QueueTypes DEF Cursor, IInv, RemovedIsSettled, Settled
    <3>3. CASE cursor[a] # None
      BY <3>1, <3>3, <1>3 DEF Cursor, IInv, Honest, CursorIsHonest, Settled
    <3>4. QED BY <3>2, <3>3
  <2>3. QED BY <2>1, <2>2
<1>4. FilterIsHonest(q)
  BY <1>1, <1>2, <1>3, QueueTypes DEF FilterIsHonest, IInv
<1>5. SaveIsHonest(q)
  BY <1>1 DEF SaveIsHonest
<1>6. QED BY <1>4, <1>5

LEMMA LookKeeps ==
  ASSUME IInv, NEW r \in Requests,
         \/ \E a \in Agents, m \in Modes, s \in Senders : Receive(r, a, m, s)
         \/ WakeUp(r)
  PROVE  IInv'
<1>1. TypeOK /\ TypeOK' /\ UNCHANGED <<sent, next, base, cursor, saved, joining, settled, exposed>>
  BY TypeStep DEF IInv, Next, Receive, WakeUp
<1>2. (\A a \in Agents : Grows(a)) /\ IdsBelow' /\ RemovedIsSettled'
  BY <1>1, LogStays
<1>3. PICK a \in Agents, m \in Modes, s \in Senders :
        \/ req' = [req EXCEPT ![r] = Look(a, m, s)]
        \/ req' = [req EXCEPT ![r] = [pc |-> "wait", agent |-> a, mode |-> m, from |-> s]]
  BY <1>1, RequestTypes DEF Receive, WakeUp, Waiting
<1>4. ASSUME NEW b \in Agents \ exposed, NEW u \in Requests,
             req'[u] # Idle, req'[u].agent = b, req'[u] # req[u]
      PROVE  FilterIsHonest(req[u])' /\ SaveIsHonest(req[u])'
  <2>1. u = r
    BY <1>3, <1>4, <1>1 DEF TypeOK
  <2>2. CASE req' = [req EXCEPT ![r] = Look(a, m, s)]
    <3>1. req'[u] = Look(a, m, s) /\ a = b
      BY <2>1, <2>2, <1>1, <1>4 DEF TypeOK, Look
    <3>2. FilterIsHonest(Look(a, m, s)) /\ SaveIsHonest(Look(a, m, s))
      BY <3>1, LookIsHonest
    <3>3. QED
      BY <3>1, <3>2, <1>1 DEF FilterIsHonest, SaveIsHonest, Settled
  <2>3. CASE req' = [req EXCEPT ![r] = [pc |-> "wait", agent |-> a, mode |-> m, from |-> s]]
    BY <2>1, <2>3, <1>1 DEF TypeOK, FilterIsHonest, SaveIsHonest
  <2>4. QED BY <1>3, <2>2, <2>3
<1>5. ASSUME NEW b \in Agents \ exposed' PROVE Honest(b)'
  BY <1>1, <1>2, <1>4, HonestStays
<1>6. QED BY <1>1, <1>2, <1>5 DEF IInv

LEMMA AdvanceKeeps ==
  ASSUME IInv, NEW r \in Requests, Advance(r)
  PROVE  IInv'
<1>1. TypeOK /\ TypeOK' /\ UNCHANGED <<sent, next, base, saved, joining, exposed>>
  BY TypeStep DEF IInv, Next, Advance
<1>2. PICK q \in Filtering : q = req[r] /\ q.pc = "filter" /\ q # Idle
  BY <1>1, RequestTypes DEF Advance
<1>3. Batch(q) \subseteq q.ids
  BY BatchType
<1>4. \A a \in Agents : settled[a] \subseteq settled'[a]
  BY <1>1 DEF Advance, TypeOK
<1>5. (\A a \in Agents : Grows(a)) /\ IdsBelow' /\ RemovedIsSettled'
  BY <1>1, <1>4, LogStays
<1>6. ASSUME NEW a \in Agents \ exposed, a # q.agent PROVE Honest(a)'
  <2>1. cursor'[a] = cursor[a]
    BY <1>1, <1>2, <1>6 DEF Advance, TypeOK
  <2>2. ASSUME NEW u \in Requests, req'[u] # Idle, req'[u].agent = a
        PROVE  req'[u] = req[u]
    BY <1>1, <1>2, <1>6, <2>2 DEF Advance, TypeOK
  <2>3. QED BY <1>1, <1>5, <2>1, <2>2, HonestStays
<1>7. ASSUME NEW a \in Agents \ exposed, a = q.agent PROVE Honest(a)'
  <2>1. Honest(a) /\ FilterIsHonest(q)
    BY <1>2, <1>7 DEF IInv, Honest
  <2>2. RecordIsHonest(a)' /\ LookUpIsHonest(a)' /\ RestoreIsHonest(a)'
    BY <1>1, <1>5, <2>1, RecordStays, LookUpStays, RestoreStays DEF Honest
  <2>3. PICK n \in Nat : n = base + q.new
    BY <1>1, <1>2, QueueTypes DEF Filtering
  <2>4. ASSUME MovesCursor(q)
        PROVE  n <= next /\ Settled(a, n)' /\ \A i \in Batch(q) : i < n
    <3>1. q.mode # "from" /\ (q.mode = "fresh" \/ Batch(q) = q.ids)
      BY <2>4 DEF MovesCursor, Batch
    <3>2. q.ids \subseteq settled'[a]
      BY <3>1, <1>1, <1>2, <1>7 DEF Advance, TypeOK
    <3>3. ASSUME NEW m \in sent, a \in m.to, m.id < n
          PROVE  m.id \in settled'[a]
      BY <3>1, <3>2, <3>3, <1>2, <1>4, <1>7, <2>1, <2>3 DEF FilterIsHonest
    <3>4. QED BY <3>1, <3>3, <1>1, <1>2, <1>3, <2>1, <2>3 DEF FilterIsHonest, Settled
  <2>5. CursorIsHonest(a)'
    <3>1. CASE MovesCursor(q)
      <4>1. cursor'[a] = q.new
        BY <3>1, <1>1, <1>2, <1>7 DEF Advance, TypeOK
      <4>2. QED BY <4>1, <3>1, <2>3, <2>4, <1>1 DEF CursorIsHonest, Settled
    <3>2. CASE ~MovesCursor(q)
      <4>1. cursor'[a] = cursor[a]
        BY <3>2, <1>2 DEF Advance
      <4>2. QED BY <4>1, <1>1, <1>5, <2>1, CursorStays DEF Honest
    <3>3. QED BY <3>1, <3>2
  <2>6. ASSUME NEW u \in Requests, req'[u] # Idle, req'[u].agent = a
        PROVE  FilterIsHonest(req[u])' /\ SaveIsHonest(req[u])'
    <3>1. CASE u = r
      <4>1. req'[u] = [pc |-> "save", agent |-> a, ids |-> Batch(q), partial |-> ~MovesCursor(q)]
        BY <3>1, <2>6, <1>1, <1>2, <1>7 DEF Advance, TypeOK
      <4>2. FilterIsHonest(req[u])'
        BY <4>1 DEF FilterIsHonest
      <4>3. ASSUME MovesCursor(q), NEW i \in Batch(q)
            PROVE  i < next' /\ Settled(a, i + 1)'
        <5>1. i \in Nat /\ i < n /\ n <= next /\ Settled(a, n)'
          BY <4>3, <2>4, <1>2, <1>3 DEF Filtering
        <5>2. \A m \in sent' : m.id < i + 1 => m.id < n
          BY <5>1, <1>1, <2>3, QueueTypes
        <5>3. QED BY <5>1, <5>2, <1>1, QueueTypes DEF Settled
      <4>4. SaveIsHonest(req[u])'
        <5>1. req'[u].ids = Batch(q) /\ req'[u].agent = a
          BY <4>1
        <5>2. req'[u].partial = ~MovesCursor(q)
          BY <4>1
        <5>3. ~req'[u].partial => MovesCursor(q)
          BY <5>2, Zenon
        <5>4. QED BY <5>1, <5>3, <4>3 DEF SaveIsHonest, Settled
      <4>5. QED BY <4>2, <4>4
    <3>2. CASE u # r
      <4>1. req'[u] = req[u]
        BY <3>2, <1>1 DEF Advance, TypeOK
      <4>2. QED BY <4>1, <2>6, <1>1, <1>5, <2>1, RequestStays DEF Honest
    <3>3. QED BY <3>1, <3>2
  <2>7. QED BY <2>2, <2>5, <2>6 DEF Honest
<1>8. QED BY <1>1, <1>5, <1>6, <1>7 DEF IInv

LEMMA SaveKeeps ==
  ASSUME IInv, NEW r \in Requests, Save(r)
  PROVE  IInv'
<1>1. TypeOK /\ TypeOK' /\ UNCHANGED <<sent, next, base, cursor, joining, settled>>
  BY TypeStep DEF IInv, Next, Save
<1>2. PICK q \in Saving : q = req[r] /\ q.pc = "save" /\ q # Idle
  BY <1>1, RequestTypes DEF Save
<1>3. (\A a \in Agents : Grows(a)) /\ IdsBelow' /\ RemovedIsSettled'
  BY <1>1, LogStays
<1>4. ASSUME NEW u \in Requests, req'[u] # Idle PROVE req'[u] = req[u]
  BY <1>1, <1>4 DEF Save, TypeOK
<1>5. ASSUME NEW a \in Agents \ exposed' PROVE Honest(a)'
  <2>1. a \notin exposed /\ Honest(a) /\ (q.agent = a => ~q.partial)
    BY <1>2, <1>5 DEF Save, IInv
  <2>2. CASE saved'[a] = saved[a]
    BY <2>1, <2>2, <1>1, <1>3, <1>4, HonestStays
  <2>3. CASE saved'[a] # saved[a]
    <3>1. PICK top \in q.ids : a = q.agent /\ saved'[a] = top
      BY <2>3, <1>1, <1>2 DEF Save, TypeOK
    <3>2. top < next /\ Settled(a, top + 1)
      BY <3>1, <2>1, <1>2 DEF Honest, SaveIsHonest
    <3>3. RecordIsHonest(a)'
      BY <3>1, <3>2, <1>1 DEF RecordIsHonest, Settled
    <3>4. CursorIsHonest(a)' /\ LookUpIsHonest(a)' /\ RestoreIsHonest(a)'
      BY <1>1, <1>3, <2>1, CursorStays, LookUpStays, RestoreStays DEF Honest
    <3>5. ASSUME NEW u \in Requests, req'[u] # Idle, req'[u].agent = a
          PROVE  FilterIsHonest(req[u])' /\ SaveIsHonest(req[u])'
      BY <3>5, <1>1, <1>3, <1>4, <2>1, RequestStays DEF Honest
    <3>6. QED BY <3>3, <3>4, <3>5 DEF Honest
  <2>4. QED BY <2>2, <2>3
<1>6. QED BY <1>1, <1>3, <1>5 DEF IInv

\* A cursor at the end of the queue is honest when all that is in it is settled.
LEMMA EndIsHonest ==
  ASSUME TypeOK, UNCHANGED <<sent, next, base>>, NEW a \in Agents,
         cursor'[a] = Length, settled'[a] = settled[a] \union Below(next)
  PROVE  CursorIsHonest(a)'
<1>1. \A m \in sent : m.id < next => m.id \in settled'[a]
  BY DEF Below
<1>2. base' + cursor'[a] = next
  BY QueueTypes
<1>3. QED BY <1>1, <1>2, QueueTypes DEF CursorIsHonest, Settled

LEMMA JoinKeeps ==
  ASSUME IInv, NEW b \in Agents,
         Register(b) \/ LookUp(b) \/ Restore(b) \/ StartCursor(b) \/ CleanUp(b)
  PROVE  IInv'
<1>1. TypeOK /\ TypeOK' /\ UNCHANGED <<sent, next, base, saved, req>>
      /\ exposed \subseteq exposed'
  BY TypeStep DEF IInv, Next, Register, LookUp, Restore, StartCursor, CleanUp
<1>2. \A a \in Agents : settled[a] \subseteq settled'[a]
  BY <1>1 DEF Register, LookUp, Restore, StartCursor, CleanUp, TypeOK
<1>3. (\A a \in Agents : Grows(a)) /\ IdsBelow' /\ RemovedIsSettled'
  BY <1>1, <1>2, LogStays
<1>4. ASSUME NEW a \in Agents \ exposed', a # b PROVE Honest(a)'
  <2>1. cursor'[a] = cursor[a] /\ joining'[a] = joining[a]
    BY <1>1, <1>4 DEF Register, LookUp, Restore, StartCursor, CleanUp, TypeOK
  <2>2. QED BY <2>1, <1>1, <1>3, <1>4, HonestStays
<1>5. ASSUME NEW a \in Agents \ exposed', a = b PROVE Honest(a)'
  <2>1. Honest(a)
    BY <1>1, <1>5 DEF IInv
  <2>2. RecordIsHonest(a)'
    BY <1>1, <1>3, <2>1, RecordStays DEF Honest
  <2>3. \A u \in Requests : req'[u] # Idle /\ req'[u].agent = a
          => FilterIsHonest(req[u])' /\ SaveIsHonest(req[u])'
    BY <1>1, <1>3, <2>1, RequestStays DEF Honest
  <2>4. LookUpIsHonest(a)'
    <3>1. CASE Register(b)
      BY <3>1, <1>1, <1>5, <2>2 DEF Register, LookUpIsHonest, RecordIsHonest, TypeOK, Settled
    <3>2. CASE LookUp(b) \/ Restore(b) \/ StartCursor(b)
      BY <3>2, <1>1, <1>5 DEF LookUp, Restore, StartCursor, LookUpIsHonest, TypeOK, Idle
    <3>3. CASE CleanUp(b)
      BY <3>3, <1>1, <1>3, <2>1, LookUpStays DEF CleanUp, Honest
    <3>4. QED BY <3>1, <3>2, <3>3
  <2>5. RestoreIsHonest(a)'
    <3>1. CASE Register(b) \/ Restore(b) \/ StartCursor(b)
      BY <3>1, <1>1, <1>5 DEF Register, Restore, StartCursor, RestoreIsHonest, TypeOK, Idle
    <3>2. CASE LookUp(b)
      <4> SUFFICES ASSUME joining'[a].pc = "restore"
                   PROVE  base + joining'[a].at <= next /\ Settled(a, base + joining[a].at)'
        BY <1>1 DEF RestoreIsHonest
      <4>1. PICK i \in Nat : joining[a].id = i /\ i < next /\ Settled(a, i + 1)
        BY <3>2, <1>1, <1>5, <2>1, JoiningTypes
           DEF LookUp, IndexAfter, Honest, LookUpIsHonest, TypeOK
      <4>2. joining'[a].at = Larger(0, i + 1 - base)
        BY <3>2, <4>1, <1>1, <1>5, DeliveryAssumption DEF LookUp, IndexAfter, TypeOK
      <4>3. PICK n \in Nat : n = base + joining'[a].at
        BY <4>1, <4>2, <1>1, QueueTypes DEF Larger
      <4>4. n <= next /\ Settled(a, n)
        <5>1. CASE i + 1 >= base
          <6>1. n = i + 1
            BY <5>1, <4>1, <4>2, <4>3, <1>1, QueueTypes DEF Larger
          <6>2. QED BY <6>1, <4>1, <1>1, QueueTypes
        <5>2. CASE ~(i + 1 >= base)
          <6>1. n = base
            BY <5>2, <4>1, <4>2, <4>3, <1>1, QueueTypes DEF Larger
          <6>2. QED BY <6>1, <1>1, QueueTypes DEF IInv, RemovedIsSettled
        <5>3. QED BY <5>1, <5>2
      <4>5. Settled(a, n)'
        BY <4>4, <1>1, <1>3, SettledStays
      <4>6. QED BY <4>3, <4>4, <4>5, <1>1 DEF Settled
    <3>3. CASE CleanUp(b)
      BY <3>3, <1>1, <1>3, <2>1, RestoreStays DEF CleanUp, Honest
    <3>4. QED BY <3>1, <3>2, <3>3
  <2>6. CursorIsHonest(a)'
    <3>1. CASE Register(b) \/ LookUp(b)
      BY <3>1, <1>1, <1>3, <2>1, CursorStays DEF Register, LookUp, Honest
    <3>2. CASE CleanUp(b)
      BY <3>2, <1>1, <1>5 DEF CleanUp, CursorIsHonest, TypeOK
    <3>3. CASE Restore(b)
      <4>1. CASE cursor'[a] = cursor[a]
        BY <4>1, <1>1, <1>3, <2>1, CursorStays DEF Honest
      <4>2. CASE cursor'[a] = joining[a].at
        <5>1. PICK n \in Nat : n = base + joining[a].at
          BY <4>2, <3>3, <1>1, <1>5, JoiningTypes, QueueTypes DEF Restore
        <5>2. n <= next /\ Settled(a, n)
          BY <5>1, <4>2, <3>3, <1>5, <2>1 DEF Restore, Honest, RestoreIsHonest
        <5>3. Settled(a, n)'
          BY <5>2, <1>1, <1>3, SettledStays
        <5>4. QED BY <5>1, <5>2, <5>3, <4>2, <1>1 DEF CursorIsHonest, Settled
      <4>3. QED BY <4>1, <4>2, <3>3, <1>1, <1>5 DEF Restore, TypeOK
    <3>4. CASE StartCursor(b)
      <4>1. CASE cursor[a] # None
        <5>1. cursor'[a] = cursor[a]
          BY <4>1, <3>4, <1>5 DEF StartCursor
        <5>2. QED BY <5>1, <1>1, <1>3, <2>1, CursorStays DEF Honest
      <4>2. CASE cursor[a] = None
        <5>1. ~joining[a].known
          BY <4>2, <3>4, <1>5 DEF StartCursor
        <5>2. cursor'[a] = Length /\ settled'[a] = settled[a] \union Below(next)
          BY <4>2, <5>1, <3>4, <1>1, <1>5 DEF StartCursor, TypeOK
        <5>3. QED BY <5>2, <1>1, EndIsHonest
      <4>3. QED BY <4>1, <4>2
    <3>5. QED BY <3>1, <3>2, <3>3, <3>4
  <2>7. QED BY <2>2, <2>3, <2>4, <2>5, <2>6 DEF Honest
<1>6. QED BY <1>1, <1>3, <1>4, <1>5 DEF IInv

LEMMA ConfigureKeeps ==
  ASSUME IInv, NEW A \in SUBSET Agents, NEW keep \in BOOLEAN, Configure(A, keep)
  PROVE  IInv'
<1>1. /\ TypeOK /\ TypeOK'
      /\ UNCHANGED <<sent, next, base, saved, req, joining, exposed>>
  <2>1. TypeOK'
    BY TypeStep DEF IInv, TypeOK, Next, Configure
  <2>2. QED BY <2>1 DEF IInv, Configure
<1>2. \A a \in Agents : settled[a] \subseteq settled'[a]
  BY DEF Configure
<1>3. (\A a \in Agents : Grows(a)) /\ IdsBelow' /\ RemovedIsSettled'
  BY <1>1, <1>2, LogStays
<1>4. ASSUME NEW a \in Agents \ exposed, cursor'[a] = cursor[a] PROVE Honest(a)'
  BY <1>1, <1>3, <1>4, HonestStays
<1>5. ASSUME NEW a \in Agents \ exposed, a \in A PROVE Honest(a)'
  <2>1. Honest(a)
    BY DEF IInv
  <2>2. CursorIsHonest(a)'
    <3>1. CASE keep
      BY <3>1, <1>5 DEF Configure, CursorIsHonest
    <3>2. CASE ~keep
      <4>1. cursor'[a] = Length /\ settled'[a] = settled[a] \union Below(next)
        BY <3>2, <1>5 DEF Configure
      <4>2. QED BY <4>1, <1>1, EndIsHonest
    <3>3. QED BY <3>1, <3>2
  <2>3. RecordIsHonest(a)' /\ LookUpIsHonest(a)' /\ RestoreIsHonest(a)'
    BY <1>1, <1>3, <2>1, RecordStays, LookUpStays, RestoreStays DEF Honest
  <2>4. \A u \in Requests : req'[u] # Idle /\ req'[u].agent = a
          => FilterIsHonest(req[u])' /\ SaveIsHonest(req[u])'
    BY <1>1, <1>3, <2>1, RequestStays DEF Honest
  <2>5. QED BY <2>2, <2>3, <2>4 DEF Honest
<1>6. \A a \in Agents : a \notin A => cursor'[a] = cursor[a]
  BY DEF Configure
<1>7. QED BY <1>1, <1>3, <1>4, <1>5, <1>6 DEF IInv

LEMMA RestartKeeps ==
  ASSUME IInv, Restart
  PROVE  IInv'
<1>1. TypeOK /\ TypeOK' /\ UNCHANGED <<sent, next, saved, settled, exposed>> /\ base' = 0
  BY TypeStep DEF IInv, Next, Restart
<1>2. IdsBelow' /\ RemovedIsSettled'
  BY <1>1, QueueTypes DEF IInv, IdsBelow, RemovedIsSettled, Settled
<1>3. ASSUME NEW a \in Agents \ exposed PROVE Honest(a)'
  <2>1. cursor'[a] = None /\ joining'[a] = Idle /\ \A r \in Requests : req'[r] = Idle
    BY DEF Restart
  <2>2. Grows(a) /\ Honest(a)
    BY <1>1, QueueTypes DEF Grows, IInv
  <2>3. RecordIsHonest(a)'
    BY <1>1, <2>2, RecordStays DEF Honest
  <2>4. QED
    BY <2>1, <2>3 DEF Honest, CursorIsHonest, LookUpIsHonest, RestoreIsHonest, Idle
<1>4. QED BY <1>1, <1>2, <1>3 DEF IInv

-----------------------------------------------------------------------------
(* The theorems.                                                           *)

LEMMA InvInit == Init => IInv
<1> SUFFICES ASSUME Init PROVE IInv
  OBVIOUS
<1>1. TypeOK
  BY DeliveryAssumption DEF Init, TypeOK
<1>2. IdsBelow /\ RemovedIsSettled
  BY DEF Init, IdsBelow, RemovedIsSettled, Settled
<1>3. \A a \in Agents : Honest(a)
  BY DEF Init, Honest, CursorIsHonest, RecordIsHonest, LookUpIsHonest, RestoreIsHonest, Idle
<1>4. QED BY <1>1, <1>2, <1>3 DEF IInv

LEMMA InvStep == IInv /\ [Next]_vars => IInv'
<1> SUFFICES ASSUME IInv, [Next]_vars PROVE IInv'
  OBVIOUS
<1>1. CASE UNCHANGED vars
  BY <1>1 DEF vars, IInv, TypeOK, IdsBelow, RemovedIsSettled, Settled, Honest,
     CursorIsHonest, RecordIsHonest, LookUpIsHonest, RestoreIsHonest,
     FilterIsHonest, SaveIsHonest
<1>2. CASE Next
  BY <1>2, SendKeeps, LookKeeps, AdvanceKeeps, SaveKeeps, JoinKeeps, ConfigureKeeps,
     RestartKeeps DEF Next
<1>3. QED BY <1>1, <1>2

THEOREM Invariance == Spec => []IInv
<1>1. QED BY InvInit, InvStep, PTL DEF Spec

\* The queue, the cursors, the requests and registrations are well typed; in
\* particular a cursor is never negative after the cap has removed messages.
THEOREM TypeCorrect == Spec => []TypeOK
<1>1. IInv => TypeOK
  BY DEF IInv
<1>2. QED BY <1>1, Invariance, PTL

\* No message for an agent falls behind its cursor unsettled, whatever requests,
\* registrations, cleanups and restarts overlap, but for the three gaps NoSkip names.
THEOREM NothingIsSkipped == Spec => []NoSkip
<1>1. ASSUME IInv, NEW a \in Agents \ exposed, NEW m \in sent, a \in m.to, m.id >= base
      PROVE  m \in Unread(a) \/ m.id \in settled[a]
  <2>1. CASE m.id >= base + Cursor(a)
    BY <1>1, <2>1 DEF Unread, UnreadFrom
  <2>2. CASE ~(m.id >= base + Cursor(a))
    <3>1. cursor[a] # None /\ m.id < base + cursor[a]
      BY <1>1, <2>2, QueueTypes DEF IInv, Cursor
    <3>2. QED BY <1>1, <3>1 DEF IInv, Honest, CursorIsHonest, Settled
  <2>3. QED BY <2>1, <2>2
<1>2. IInv => NoSkip
  BY <1>1 DEF NoSkip, NothingSkipped
<1>3. QED BY <1>2, Invariance, PTL

-----------------------------------------------------------------------------
(* What a new message changes.                                             *)

\* The first id that a has still to read is where it was, or where the cut has
\* moved the beginning of the queue to.
LEMMA CutMovesFirst ==
  ASSUME IInv, NEW to \in SUBSET Agents, NEW s \in Senders, Send(to, s), NEW a \in Agents
  PROVE  /\ base + Cursor(a) \in Nat /\ base' \in base .. next
         /\ (base + Cursor(a))' = Larger(base', base + Cursor(a))
<1> DEFINE k == Removed(Length + 1)
<1>1. k \in Nat /\ base + k <= next /\ base \in Nat /\ next \in Nat
  BY RemovedType, QueueTypes DEF IInv
<1>2. base' = base + k /\ cursor'[a] = Adjusted(cursor[a], k)
  BY DEF Send, IInv, TypeOK
<1>3. cursor[a] \in Nat \union {None} /\ None \notin Nat
  BY DeliveryAssumption DEF IInv, TypeOK
<1> HIDE DEF k
<1>4. CASE cursor[a] = None
  BY <1>1, <1>2, <1>4 DEF Cursor, Adjusted, Larger
<1>5. CASE cursor[a] \in Nat
  <2>1. cursor'[a] = Larger(0, cursor[a] - k) /\ Larger(0, cursor[a] - k) \in Nat
    BY <1>1, <1>2, <1>3, <1>5 DEF Adjusted, Larger
  <2>2. Cursor(a) = cursor[a] /\ Cursor(a)' = cursor'[a]
    BY <1>3, <1>5, <2>1 DEF Cursor
  <2>3. QED BY <1>1, <1>2, <1>5, <2>1, <2>2 DEF Larger
<1>6. QED BY <1>3, <1>4, <1>5

LEMMA SendKeepsRest ==
  ASSUME IInv, NEW to \in SUBSET Agents, NEW s \in Senders, Send(to, s),
         NEW a \in Agents, Cursor(a) <= Length
  PROVE  Unread(a)' = {m \in Unread(a) : m.id >= base'}
                        \union {m \in sent' : m.id = next /\ a \in m.to}
<1> DEFINE first == base + Cursor(a)
           new == [id |-> next, to |-> to, from |-> s]
<1>1. first \in Nat /\ base' \in base .. next /\ first' = Larger(base', first)
  BY CutMovesFirst
<1>2. next \in Nat /\ base \in Nat /\ first <= next
  BY QueueTypes, <1>1 DEF IInv, Length, Cursor, TypeOK
<1>3. sent' = sent \union {new} /\ \A m \in sent : m.id \in Nat /\ m.id < next
  BY DEF Send, IInv, IdsBelow, TypeOK, Message
<1>4. /\ Unread(a) = {m \in sent : m.id >= first /\ a \in m.to}
      /\ Unread(a)' = {m \in sent' : m.id >= first' /\ a \in m.to}
  BY DEF Unread, UnreadFrom
<1> HIDE DEF first
<1>5. \A m \in sent : m.id >= first' <=> m.id >= first /\ m.id >= base'
  BY <1>1, <1>2, <1>3 DEF Larger
<1>6. next >= first'
  BY <1>1, <1>2 DEF Larger
<1>7. QED BY <1>3, <1>4, <1>5, <1>6

LEMMA OnlySendCounts ==
  ASSUME IInv, [Next]_vars, next' # next
  PROVE  \E to \in SUBSET Agents, s \in Senders : Send(to, s)
BY DEF Next, Receive, WakeUp, Advance, Save, Register, LookUp, Restore, StartCursor, CleanUp,
   Configure, Restart, vars

\* A message, and the cut it may cause, changes what any agent has still to read by
\* that message and by what was cut: the cursors are adjusted rightly, for any cap.
THEOREM SendKeepsUnreadAlways == Spec => SendKeepsUnread
<1>1. IInv /\ [Next]_vars =>
        [next' # next =>
           \A a \in Agents : Cursor(a) <= Length =>
             Unread(a)' = {m \in Unread(a) : m.id >= base'}
                            \union {m \in sent' : m.id = next /\ a \in m.to}]_vars
  BY OnlySendCounts, SendKeepsRest
<1>2. QED BY Invariance, <1>1, PTL DEF Spec, SendKeepsUnread

=============================================================================
