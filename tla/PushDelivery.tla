---------------------------- MODULE PushDelivery ----------------------------
(***************************************************************************)
(* How a message comes to an agent: the WebSocket push of the server       *)
(* (ws_broadcast_message and ws_handler of websocket_server.py), the       *)
(* listener and the buffer of the agent's MCP client (bridge_mcp.py), and  *)
(* the tool bridge_receive, which falls back on GET /receive when the      *)
(* buffer is empty.  MessageDelivery has that route in full; here it is    *)
(* the server's cursor and the newest messages beyond it.                  *)
(*                                                                         *)
(* One agent and its client.  Messages are numbered in the order in which  *)
(* they are appended, from 1.  Three parts of the code tell which are for  *)
(* the agent: GET /receive answers those of "mine", the push also takes    *)
(* all_managers for every agent, and the client's own filter does not      *)
(* know the teams: it takes only those of "known".  All are in a history.  *)
(* Messages of the agent itself and those of channels are left out.        *)
(* append_message pushes a message after it has left COND, so two messages *)
(* may be pushed in either order.                                          *)
(* The client runs in one event loop and changes its state between awaits  *)
(* only.  Ids survive a restart of the server, which is here what a lost   *)
(* connection is; registration and tokens are left out, and so is the      *)
(* reset of last_seen by a history whose ids are below half of it, which   *)
(* tells a server that has lost its log.                                   *)
(***************************************************************************)
EXTENDS Integers, FiniteSets, Sequences, SequencesExt

CONSTANTS
  BufferMax,    \* MESSAGE_BUFFER_MAX
  HistoryMax,   \* messages the server answers a subscription with, 500
  Limit,        \* limit of the fallback, 50
  MaxMessages,  \* bound: messages in a behaviour
  MaxDrops      \* bound: lost connections in a behaviour

ASSUME PushAssumption ==
  /\ {BufferMax, HistoryMax, Limit} \subseteq Nat \ {0}
  /\ {MaxMessages, MaxDrops} \subseteq Nat

VARIABLES
  last,       \* id of the message appended last
  mine,       \* ids of the messages for the agent
  known,      \* those of them that the client itself takes for such
  casting,    \* appended, and not yet pushed
  pushing,    \* pushes scheduled for the client's connection
  conn,       \* the connection: none, in WS_CLIENTS, or subscribed
  wire,       \* what the server has sent on it: ids, or sets of ids for a history
  cursor,     \* CURSORS of the agent: the id of the last message it may have had
  seen,       \* _last_seen_msg_id
  buffer,     \* _message_buffer
  call,       \* the tool: idle, or with a fallback under way
  handed,     \* history: ids handed to the agent, in order
  drops

server == <<last, mine, known, casting, pushing, cursor>>
listener == <<seen, buffer, call, handed>>
push == <<server, listener, conn, wire, drops>>

Ids == 1 .. MaxMessages
Sent == 1 .. last

NoCall == [at |-> "idle", ids |-> {}]
Asked == [at |-> "asked", ids |-> {}]

PushTypeOK ==
  /\ last \in 0 .. MaxMessages /\ mine \subseteq Sent /\ known \subseteq mine
  /\ casting \subseteq Sent /\ pushing \subseteq Sent
  /\ conn \in {"off", "none", "joined", "live"}
  /\ \A k \in DOMAIN wire : wire[k].history \in BOOLEAN /\ wire[k].ids \subseteq Sent
  /\ cursor \in 0 .. last /\ seen \in 0 .. last
  /\ buffer \in Seq(mine) /\ Len(buffer) <= BufferMax
  /\ call.at \in {"idle", "asked", "answered"} /\ call.ids \subseteq mine
  /\ handed \in Seq(mine)
  /\ drops \in 0 .. MaxDrops
  /\ conn \in {"off", "none"} => pushing = {} /\ wire = <<>>

PushInit ==
  /\ last = 0 /\ mine = {} /\ known = {} /\ casting = {} /\ pushing = {}
  /\ conn = "off" /\ wire = <<>>
  /\ cursor = 0 /\ seen = 0
  /\ buffer = <<>> /\ call = NoCall /\ handed = <<>>
  /\ drops = 0

Newest(n, S) == {i \in S : Cardinality({j \in S : j > i}) < n}
MaxOf(i, S) == IF \E j \in S : j > i THEN CHOOSE j \in S : \A k \in S : k <= j ELSE i
\* SetToSortSeq, said in a way that proofs can use: k numbers of S are not above the k-th.
InOrder(S) ==
  [k \in 1 .. Cardinality(S) |-> CHOOSE i \in S : Cardinality({j \in S : j <= i}) = k]

-----------------------------------------------------------------------------
(* The server.                                                             *)

\* append_message, of a message to the agent or to all, to a team of the agent, to the
\* managers, of whom the agent is none, or to others.
Kinds == {"agent", "team", "managers", "others"}

AppendMessage(kind) ==
  /\ last < MaxMessages
  /\ last' = last + 1
  /\ mine' = IF kind \in {"agent", "team"} THEN mine \union {last'} ELSE mine
  /\ known' = IF kind = "agent" THEN known \union {last'} ELSE known
  /\ casting' = IF kind # "others" THEN casting \union {last'} ELSE casting
  /\ UNCHANGED <<pushing, cursor, conn, wire, listener, drops>>

\* ws_broadcast_message: the push is scheduled for the connections there are.
Broadcast(i) ==
  /\ i \in casting
  /\ casting' = casting \ {i}
  /\ pushing' = IF conn \in {"off", "none"} THEN pushing ELSE pushing \union {i}
  /\ UNCHANGED <<last, mine, known, cursor, conn, wire, listener, drops>>

Push(i) ==
  /\ i \in pushing
  /\ pushing' = pushing \ {i}
  /\ wire' = Append(wire, [history |-> FALSE, ids |-> {i}])
  /\ UNCHANGED <<last, mine, known, casting, cursor, conn, listener, drops>>

\* bridge_register starts the listener.
StartListener ==
  /\ conn = "off"
  /\ conn' = "none"
  /\ UNCHANGED <<server, wire, listener, drops>>

\* ws_handler: the connection is among the clients before it has subscribed ...
Join ==
  /\ conn = "none"
  /\ conn' = "joined"
  /\ UNCHANGED <<server, wire, listener, drops>>

\* ... and is then sent the newest messages, whoever they are for.
NoHistory == {}                               \* mutant: only what is still to come
History == Newest(HistoryMax, Sent)

Subscribe ==
  /\ conn = "joined"
  /\ conn' = "live"
  /\ wire' = Append(wire, [history |-> TRUE, ids |-> History])
  /\ UNCHANGED <<server, listener, drops>>

\* The connection is lost with what is on it.
Drop ==
  /\ conn \in {"joined", "live"} /\ drops < MaxDrops
  /\ conn' = "none" /\ wire' = <<>> /\ pushing' = {}
  /\ drops' = drops + 1
  /\ UNCHANGED <<last, mine, known, casting, cursor, listener>>

-----------------------------------------------------------------------------
(* The listener, _ws_listener.                                             *)

AlsoOld(i) == TRUE                            \* mutant: no look at last_seen
New(i) == i > seen

\* deque(maxlen): the oldest go.
IntoBuffer(s) == LET b == buffer \o s IN
  SubSeq(b, Len(b) - (IF Len(b) < BufferMax THEN Len(b) ELSE BufferMax) + 1, Len(b))

\* A pushed message, or what a history has beyond the last one seen; last_seen passes
\* what the client does not take for its own as well (_message_targets_agent).
Listen ==
  LET got == Head(wire).ids IN
  /\ wire # <<>>
  /\ buffer' = IntoBuffer(InOrder({i \in got \intersect known : New(i)}))
  /\ seen' = MaxOf(seen, got)
  /\ wire' = Tail(wire)
  /\ UNCHANGED <<server, conn, call, handed, drops>>

-----------------------------------------------------------------------------
(* The tool bridge_receive.                                                *)

Receive ==
  /\ call = NoCall /\ conn # "off"
  /\ handed' = handed \o buffer
  /\ buffer' = <<>>
  /\ call' = IF buffer = <<>> THEN Asked ELSE NoCall
  /\ UNCHANGED <<server, conn, wire, seen, drops>>

\* GET /receive with fresh_only and a limit: the newest ones, and the rest is given up.
AnswerCall ==
  /\ call = Asked
  /\ call' = [at |-> "answered", ids |-> Newest(Limit, {i \in mine : i > cursor})]
  /\ cursor' = last
  /\ UNCHANGED <<last, mine, known, casting, pushing, conn, wire, seen, buffer, handed, drops>>

\* _bridge_receive_server_fallback looks at last_seen when the answer is there.
TakeAnswer ==
  /\ call.at = "answered"
  /\ handed' = handed \o InOrder({i \in call.ids : New(i)})
  /\ seen' = MaxOf(seen, call.ids)
  /\ call' = NoCall
  /\ UNCHANGED <<server, conn, wire, buffer, drops>>

\* No answer arrives, be it that the server has not been reached or has answered.
NoAnswer ==
  /\ call # NoCall
  /\ call' = NoCall
  /\ UNCHANGED <<server, conn, wire, seen, buffer, handed, drops>>

-----------------------------------------------------------------------------

PushNext ==
  \/ \E kind \in Kinds : AppendMessage(kind)
  \/ \E i \in Ids : Broadcast(i) \/ Push(i)
  \/ StartListener \/ Join \/ Subscribe \/ Drop
  \/ Listen
  \/ Receive \/ AnswerCall \/ TakeAnswer \/ NoAnswer

PushSpec == PushInit /\ [][PushNext]_push

\* The server and the listener run, the client connects again, and the agent asks for
\* its messages from time to time.
PushFairness ==
  /\ WF_push(\E i \in Ids : Broadcast(i)) /\ WF_push(\E i \in Ids : Push(i))
  /\ WF_push(Join) /\ WF_push(Subscribe) /\ WF_push(Listen) /\ WF_push(Receive)
  /\ WF_push(AnswerCall \/ TakeAnswer \/ NoAnswer)

-----------------------------------------------------------------------------

Settled == ToSet(handed) \union ToSet(buffer)
Waiting == {i \in mine : i > seen} \union ToSet(buffer)
PassedOver == {i \in mine : i <= seen} \ Settled

\* For the agent this is a Mailbox: however pushes, histories and fallbacks overlap,
\* a message is handed over at most once, and one that the client has passed over
\* never turns up later, out of a history or from the server's cursor.
Inbox == INSTANCE Mailbox WITH
        waiting <- Waiting,
        handed  <- handed,
        lost    <- PassedOver
ImplementsMailbox == Inbox!Spec

\* A message does not wait for ever: the client comes to have it or to pass it over,
\* and what it has it hands over, once the connection no longer breaks.
EveryMessageSettles ==
  \A i \in Ids : i \in mine /\ conn # "off" ~> i <= seen /\ i \notin ToSet(buffer)
=============================================================================
