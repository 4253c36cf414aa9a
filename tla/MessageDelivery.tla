--------------------------- MODULE MessageDelivery ---------------------------
(***************************************************************************)
(* The message queue of the bridge server and its delivery by polling:     *)
(* append_message and load_history of handlers/messages.py, GET            *)
(* /receive/{agent} and the cursor parts of POST /register and POST        *)
(* /runtime/configure of server.py.                                        *)
(* A cursor is an index into the queue, which holds the newest messages    *)
(* only; what was received last is also kept on disk, as a message id.     *)
(* A receive request looks at the queue in one critical section under COND *)
(* and moves the cursor in a second one, after it has filtered what it saw.*)
(*                                                                         *)
(* Ids are consecutive, so the queue is all that was sent from the id base *)
(* on, and the message at index i has the id base + i.                     *)
(***************************************************************************)
EXTENDS Integers, FiniteSets

CONSTANTS
  Agents,
  Senders,      \* values of the "from" field
  Requests,     \* concurrent /receive requests
  Modes,        \* the query parameters requests come with, out of AllModes
  Cap,          \* messages the queue may hold (50_000)
  Keep,         \* messages that stay when it is cut (25_000)
  Limit,        \* limit of a request that has one
  None,         \* None
  MaxMessages,  \* bound: messages in a behaviour
  MaxRestarts   \* bound: server restarts in a behaviour

\* plain: no parameter; from: from=<sender>; limit: limit=<n>; fresh: limit=<n>
\* and fresh_only=1, as the MCP client asks.
AllModes == {"plain", "from", "limit", "fresh"}

ASSUME DeliveryAssumption ==
  /\ Modes \subseteq AllModes
  /\ {Cap, Keep, Limit} \subseteq Nat \ {0} /\ Keep <= Cap
  /\ {MaxMessages, MaxRestarts} \subseteq Nat
  /\ None \notin Agents \union Nat

VARIABLES
  sent,       \* the log file: every message
  next,       \* _msg_id_counter
  base,       \* id of the first message in MESSAGES
  cursor,     \* CURSORS
  saved,      \* last_message_id_received in the agent's state file
  req,        \* the receive requests under way
  joining,    \* the registrations under way
  restarts,
  settled,    \* history: ids handed to the agent or given up, see Settle
  exposed     \* history: agents NoSkip does not speak of, see there

vars == <<sent, next, base, cursor, saved, req, joining, restarts,
          settled, exposed>>

Message == [id : Nat, to : SUBSET Agents, from : Senders]

Idle == [pc |-> "idle"]
Waiting == [pc : {"wait"}, agent : Agents, mode : Modes, from : Senders]
Filtering == [pc : {"filter"}, agent : Agents, mode : Modes, ids : SUBSET Nat, new : Nat]
Saving == [pc : {"save"}, agent : Agents, ids : SUBSET Nat, partial : BOOLEAN]

Joining == [pc : {"lookup"}, id : Nat \union {None}]
             \union [pc : {"restore"}, at : Nat]
             \union [pc : {"start"}, known : BOOLEAN]

TypeOK ==
  /\ sent \subseteq Message
  /\ next \in Nat /\ base \in 0 .. next
  /\ cursor \in [Agents -> Nat \union {None}]
  /\ saved \in [Agents -> Nat \union {None}]
  /\ req \in [Requests -> {Idle} \union Waiting \union Filtering \union Saving]
  /\ joining \in [Agents -> {Idle} \union Joining]
  /\ restarts \in 0 .. MaxRestarts
  /\ settled \in [Agents -> SUBSET Nat]
  /\ exposed \subseteq Agents

Init ==
  /\ sent = {} /\ next = 0 /\ base = 0
  /\ cursor = [a \in Agents |-> None]
  /\ saved = [a \in Agents |-> None]
  /\ req = [r \in Requests |-> Idle]
  /\ joining = [a \in Agents |-> Idle]
  /\ restarts = 0
  /\ settled = [a \in Agents |-> {}]
  /\ exposed = {}

-----------------------------------------------------------------------------
(* The queue and the cursors.                                              *)

Larger(m, n) == IF m > n THEN m ELSE n
Length == next - base                        \* len(MESSAGES)
Cursor(a) == IF cursor[a] = None THEN 0 ELSE cursor[a]

\* messages_for_agent_from_snapshot on MESSAGES[i:]
UnreadFrom(a, i) == {m \in sent : m.id >= base + i /\ a \in m.to}
Unread(a) == UnreadFrom(a, Cursor(a))
Ids(M) == {m.id : m \in M}

\* unread[-limit:]
Newest(S) == {i \in S : Cardinality({j \in S : j > i}) < Limit}

\* What the cap removes from a queue of n messages, the new one included.
Removed(n) == IF n > Cap THEN n - Keep ELSE 0

NotAdjusted(c, k) == c                       \* mutant: cursors stay where they are
NoFloor(c, k) == IF c = None THEN None ELSE c - k   \* mutant: below the first one
Adjusted(c, k) == IF c = None THEN None ELSE Larger(0, c - k)

\* A message is settled for an agent when it is in an answer to the agent, or
\* given up: by fresh_only, by a first registration, by a new configuration of the
\* runtime, or by the cap of the queue.
Below(n) == {m.id : m \in {x \in sent : x.id < n}}

\* Agents with a snapshot or an index taken in one critical section and used in a
\* later one: what the cap removes in between is not taken off it.
Overtaken ==
  {a \in Agents : \/ joining[a].pc = "restore"
                  \/ \E r \in Requests : req[r].pc = "filter" /\ req[r].agent = a}

-----------------------------------------------------------------------------
(* append_message, once past the duplicate and echo filters: id, queue,    *)
(* cap, cursors and log in one critical section.                           *)

Send(to, from) ==
  LET k == Removed(Length + 1) IN
  /\ next < MaxMessages
  /\ sent' = sent \union {[id |-> next, to |-> to, from |-> from]}
  /\ next' = next + 1
  /\ base' = base + k
  /\ cursor' = [a \in Agents |-> Adjusted(cursor[a], k)]
  /\ settled' = [a \in Agents |-> settled[a] \union Below(IF k = 0 THEN 0 ELSE base + k)]
  /\ exposed' = IF k = 0 THEN exposed ELSE exposed \union Overtaken
  /\ UNCHANGED <<saved, req, joining, restarts>>

-----------------------------------------------------------------------------
(* GET /receive/{agent}                                                    *)

\* What a request sees: its part of the queue, and where the queue ends.
Look(a, m, s) ==
  [pc |-> "filter", agent |-> a, mode |-> m, new |-> Length,
   ids |-> {i \in Ids(Unread(a)) :
              m = "from" => \E x \in sent : x.id = i /\ x.from = s}]

\* First critical section.  With nothing after the cursor a request may wait.
Receive(r, a, m, s) ==
  /\ req[r] = Idle
  /\ \/ req' = [req EXCEPT ![r] = Look(a, m, s)]
     \/ /\ Cursor(a) >= Length
        /\ req' = [req EXCEPT ![r] = [pc |-> "wait", agent |-> a, mode |-> m, from |-> s]]
  /\ UNCHANGED <<sent, next, base, cursor, saved, joining, restarts, settled, exposed>>

\* COND.wait returns: a message, or the timeout.
WakeUp(r) ==
  /\ req[r].pc = "wait"
  /\ req' = [req EXCEPT ![r] = Look(req[r].agent, req[r].mode, req[r].from)]
  /\ UNCHANGED <<sent, next, base, cursor, saved, joining, restarts, settled, exposed>>

Limited(q) == q.mode \in {"limit", "fresh"} /\ Cardinality(q.ids) > Limit
Batch(q) == IF Limited(q) THEN Newest(q.ids) ELSE q.ids

AlwaysMoves(q) == TRUE                       \* mutant: filtered requests move it too
MovesCursor(q) == q.mode # "from" /\ (Limited(q) => q.mode = "fresh")

\* Second critical section: the cursor moves to the end the request has seen,
\* unless it leaves messages behind; fresh_only gives those up.
Advance(r) ==
  LET q == req[r] IN
  /\ q.pc = "filter"
  /\ cursor' = IF MovesCursor(q) THEN [cursor EXCEPT ![q.agent] = q.new] ELSE cursor
  /\ settled' = [settled EXCEPT ![q.agent] = @ \union (IF q.mode = "fresh" THEN q.ids ELSE Batch(q))]
  /\ req' = [req EXCEPT ![r] = IF Batch(q) = {} THEN Idle
                                ELSE [pc |-> "save", agent |-> q.agent, ids |-> Batch(q),
                                      partial |-> ~MovesCursor(q)]]
  /\ UNCHANGED <<sent, next, base, saved, joining, restarts, exposed>>

\* Then what was received last is saved, unless its id is 0, and the answer sent.
\* That id hides what a filtered or limited request has left behind the cursor.
Save(r) ==
  LET q == req[r] IN
  /\ q.pc = "save"
  /\ \E top \in q.ids :
       /\ \A i \in q.ids : i <= top
       /\ saved' = IF top = 0 THEN saved ELSE [saved EXCEPT ![q.agent] = top]
  /\ req' = [req EXCEPT ![r] = Idle]
  /\ exposed' = IF q.partial THEN exposed \union {q.agent} ELSE exposed
  /\ UNCHANGED <<sent, next, base, cursor, joining, restarts, settled>>

-----------------------------------------------------------------------------
(* POST /register: the state file is read, the saved id looked up in the   *)
(* queue, the cursor restored, and put at the end if there is none: each   *)
(* of the last three in a section of its own under COND.                   *)

Register(a) ==
  /\ joining[a] = Idle
  /\ joining' = [joining EXCEPT ![a] = [pc |-> "lookup", id |-> saved[a]]]
  /\ UNCHANGED <<sent, next, base, cursor, saved, req, restarts, settled, exposed>>

\* cursor_index_after_message_id
IndexAfter(i) == Larger(0, i + 1 - base)

\* _restore_receive_cursor_from_state returns early when there is nothing on
\* record, and when the runtime keeps its history.
LookUp(a) ==
  LET id == joining[a].id IN
  /\ joining[a].pc = "lookup"
  /\ \/ /\ id # None
        /\ joining' = [joining EXCEPT ![a] = [pc |-> "restore", at |-> IndexAfter(id)]]
     \/ joining' = [joining EXCEPT ![a] = [pc |-> "start", known |-> id # None]]
  /\ UNCHANGED <<sent, next, base, cursor, saved, req, restarts, settled, exposed>>

\* The cursor never moves back.
Restore(a) ==
  LET at == joining[a].at IN
  /\ joining[a].pc = "restore"
  /\ cursor' = [cursor EXCEPT ![a] = IF @ = None \/ at > @ THEN at ELSE @]
  /\ joining' = [joining EXCEPT ![a] = [pc |-> "start", known |-> TRUE]]
  /\ UNCHANGED <<sent, next, base, saved, req, restarts, settled, exposed>>

\* An agent without a cursor starts at the end of the queue.  A first registration
\* gives up what is there; one with something on record has lost its cursor since
\* the section before, or the runtime keeps its history.
StartCursor(a) ==
  LET skips == cursor[a] = None IN
  /\ joining[a].pc = "start"
  /\ joining' = [joining EXCEPT ![a] = Idle]
  /\ cursor' = IF skips THEN [cursor EXCEPT ![a] = Length] ELSE cursor
  /\ settled' = IF skips /\ ~joining[a].known
                 THEN [settled EXCEPT ![a] = @ \union Below(next)] ELSE settled
  /\ exposed' = IF skips /\ joining[a].known THEN exposed \union {a} ELSE exposed
  /\ UNCHANGED <<sent, next, base, saved, req, restarts>>

-----------------------------------------------------------------------------
(* Stale agents, new configurations and restarts.                          *)

\* _auto_cleanup_agents forgets the cursor of an agent gone for too long.
CleanUp(a) ==
  /\ cursor[a] # None
  /\ cursor' = [cursor EXCEPT ![a] = None]
  /\ UNCHANGED <<sent, next, base, saved, req, joining, restarts, settled, exposed>>

\* POST /runtime/configure: its agents begin anew, at the end of the queue or, when
\* the history is to be kept, without a cursor.
Configure(A, keep) ==
  /\ cursor' = [a \in Agents |-> IF a \notin A THEN cursor[a]
                                 ELSE IF keep THEN None ELSE Length]
  /\ settled' = [a \in Agents |-> settled[a] \union
                                 (IF a \in A /\ ~keep THEN Below(next) ELSE {})]
  /\ UNCHANGED <<sent, next, base, saved, req, joining, restarts, exposed>>

\* load_history reads the whole log back; cursors and requests are gone.
Restart ==
  /\ restarts < MaxRestarts
  /\ restarts' = restarts + 1
  /\ base' = 0
  /\ cursor' = [a \in Agents |-> None]
  /\ req' = [r \in Requests |-> Idle]
  /\ joining' = [a \in Agents |-> Idle]
  /\ UNCHANGED <<sent, next, saved, settled, exposed>>

-----------------------------------------------------------------------------

Next ==
  \/ \E to \in SUBSET Agents, s \in Senders : Send(to, s)
  \/ \E r \in Requests :
       \/ \E a \in Agents, m \in Modes, s \in Senders : Receive(r, a, m, s)
       \/ WakeUp(r) \/ Advance(r) \/ Save(r)
  \/ \E a \in Agents :
       Register(a) \/ LookUp(a) \/ Restore(a) \/ StartCursor(a) \/ CleanUp(a)
  \/ \E A \in (SUBSET Agents) \ {{}}, keep \in BOOLEAN : Configure(A, keep)
  \/ Restart

Spec == Init /\ [][Next]_vars

-----------------------------------------------------------------------------
(* Safety.                                                                 *)

\* "Only advance cursor if ALL unread messages are delivered": whatever is in the
\* queue for an agent is still ahead of its cursor or settled, with requests that
\* overlap, registrations, cleanups and restarts.  Three gaps apart, after which
\* nothing is said of the agent: a cap that cuts the queue between two critical
\* sections of the agent's request or registration (Send), the id that a request
\* saves although it leaves messages behind (Save), and a registration that finds
\* something on record but no cursor when it comes to start one (StartCursor).
NothingSkipped(a) ==
  \A m \in sent : a \in m.to /\ m.id >= base => m \in Unread(a) \/ m.id \in settled[a]

NoSkip == \A a \in Agents \ exposed : NothingSkipped(a)

\* "Adjust all cursors so they still point to valid indices": a message changes
\* what an agent has still to read by itself and by what the cap removes, and by
\* nothing else.
SendKeepsUnread ==
  [][next' # next =>
       \A a \in Agents : Cursor(a) <= Length =>
         Unread(a)' = {m \in Unread(a) : m.id >= base'}
                        \union {m \in sent' : m.id = next /\ a \in m.to}]_vars

-----------------------------------------------------------------------------
(* What the code's own words say and the code does not keep.               *)

\* "from-Filter: don't advance cursor (other messages must remain)".  Checked
\* where the queue is never cut.
OthersRemain == \A a \in Agents : NothingSkipped(a)

=============================================================================
