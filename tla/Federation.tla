----------------------------- MODULE Federation -----------------------------
(***************************************************************************)
(* Messages between instances of the bridge: the relay client of each      *)
(* instance (federation_runtime.py) with its queue, and the relay          *)
(* (federation_relay.py) that hands frames from one to another.            *)
(*                                                                         *)
(* A client has one connection at a time; the relay learns of its end      *)
(* later, and of an old and a new one in either order.  The client's       *)
(* sender waits in a worker thread for the next frame (asyncio.to_thread   *)
(* of queue.get), which cancelling the sender does not end: a thread of an *)
(* earlier connection still takes a frame, for nobody.  Inbound frames are *)
(* handled in the same pool of threads.  Encryption and the checks that a  *)
(* frame of build_outbound_frame passes are left out; any frame may fail   *)
(* to be handled.  stop() only precedes the end of the process.            *)
(***************************************************************************)
EXTENDS Naturals, Sequences, SequencesExt

CONSTANTS
  Instances,
  QueueMax,    \* frames in the queue of a client, 500
  Pool,        \* worker threads of a client's event loop
  MaxFrames,   \* bound: frames in a behaviour
  MaxConns     \* bound: connections of an instance, of which the last one holds

ASSUME FederationAssumption ==
  /\ QueueMax \in Nat \ {0} /\ Pool \in Nat \ {0}
  /\ MaxFrames \in Nat /\ MaxConns \in Nat \ {0}

VARIABLES
  frames,      \* number of frames enqueued so far
  queue,       \* _outbound of each instance
  client,      \* state of the connection, its number, its sender
  stale,       \* threads of earlier connections that wait for a frame
  up,          \* what each connection has sent and the relay not yet read
  down,        \* what the relay has sent on the client's connection
  open,        \* connections with a handler in the relay
  hello,       \* those of them that have not authenticated yet
  reg,         \* ws_by_instance and the hub's callback: a connection, or 0
  handled,     \* history: the frames handled, in order
  dropped      \* history: frames a client has taken and not sent

clients == <<queue, client, stale, dropped>>
relay == <<up, open, hello, reg>>
federation == <<frames, clients, relay, down, handled>>

Conns == 1 .. MaxConns
Frame == [id : 1 .. MaxFrames, from : Instances, to : Instances, conn : 0 .. MaxConns]
NoFrame == [id |-> 0]

ConnAt(i) == client[i].at
Conn(i) == client[i].conn
Goes(i, pc, sender, f) ==
  client' = [client EXCEPT ![i] = [@ EXCEPT !.at = pc, !.sender = sender, !.taken = f]]

FederationTypeOK ==
  /\ frames \in 0 .. MaxFrames
  /\ queue \in [Instances -> Seq(Frame)]
  /\ client \in [Instances -> [at : {"off", "down", "auth", "up"}, conn : 0 .. MaxConns,
                               sender : {"none", "wait", "get", "send"},
                               taken : Frame \union {NoFrame}]]
  /\ stale \in [Instances -> 0 .. MaxConns] /\ dropped \in [Instances -> Nat]
  /\ up \in [Instances -> [Conns -> Seq(Frame)]] /\ down \in [Instances -> Seq(Frame)]
  /\ open \in [Instances -> SUBSET Conns] /\ hello \in [Instances -> SUBSET Conns]
  /\ reg \in [Instances -> 0 .. MaxConns]
  /\ handled \in Seq(Frame)
  /\ \A i \in Instances :
       /\ Len(queue[i]) <= QueueMax
       /\ client[i].sender # "none" <=> ConnAt(i) = "up"
       /\ client[i].taken # NoFrame <=> client[i].sender = "send"
       /\ hello[i] \subseteq open[i]
       /\ reg[i] # 0 => reg[i] \in open[i] \ hello[i]

FederationInit ==
  /\ frames = 0
  /\ queue = [i \in Instances |-> <<>>]
  /\ client = [i \in Instances |-> [at |-> "off", conn |-> 0, sender |-> "none", taken |-> NoFrame]]
  /\ stale = [i \in Instances |-> 0] /\ dropped = [i \in Instances |-> 0]
  /\ up = [i \in Instances |-> [c \in Conns |-> <<>>]]
  /\ down = [i \in Instances |-> <<>>]
  /\ open = [i \in Instances |-> {}] /\ hello = [i \in Instances |-> {}]
  /\ reg = [i \in Instances |-> 0]
  /\ handled = <<>>

-----------------------------------------------------------------------------
(* The client: its connection.                                             *)

Start(i) ==
  /\ ConnAt(i) = "off"
  /\ Goes(i, "down", "none", NoFrame)
  /\ UNCHANGED <<frames, queue, stale, dropped, relay, down, handled>>

Connect(i) ==
  /\ ConnAt(i) = "down"
  /\ client' = [client EXCEPT ![i].at = "auth", ![i].conn = @ + 1]
  /\ open' = [open EXCEPT ![i] = @ \union {Conn(i) + 1}]
  /\ hello' = [hello EXCEPT ![i] = @ \union {Conn(i) + 1}]
  /\ UNCHANGED <<frames, queue, stale, dropped, up, reg, down, handled>>

\* auth_ok has arrived; the sender asks for a thread.
Authenticated(i) ==
  /\ ConnAt(i) = "auth" /\ Conn(i) \in open[i] \ hello[i]
  /\ Goes(i, "up", "wait", NoFrame)
  /\ UNCHANGED <<frames, queue, stale, dropped, relay, down, handled>>

\* Threads in use by a client, and whether one is left.
Busy(i) == stale[i] + IF client[i].sender = "get" THEN 1 ELSE 0
KeepsOne(i) == Busy(i) + 1 < Pool          \* mutant: one thread fewer than there are
Free(i) == Busy(i) < Pool

\* The end of a connection: the sender is cancelled, but not its thread; the frame
\* it was sending is gone, and so is what has not been read.
Disconnect(i) ==
  /\ Goes(i, "down", "none", NoFrame)
  /\ stale' = [stale EXCEPT ![i] = IF client[i].sender = "get" THEN @ + 1 ELSE @]
  /\ dropped' = [dropped EXCEPT ![i] = IF client[i].sender = "send" THEN @ + 1 ELSE @]

\* The connection is lost, or its authentication fails or takes too long.  A reader
\* that waits for a thread to handle a frame does not notice.
Lose(i) ==
  /\ ConnAt(i) \in {"auth", "up"} /\ Conn(i) < MaxConns
  /\ down[i] # <<>> => Free(i)
  /\ Disconnect(i)
  /\ down' = [down EXCEPT ![i] = <<>>]
  /\ UNCHANGED <<frames, queue, relay, handled>>

-----------------------------------------------------------------------------
(* The client: its queue and its sender.                                   *)

\* enqueue_frame; a full queue refuses.
EnqueueFrame(i, j) ==
  /\ ConnAt(i) # "off" /\ i # j /\ frames < MaxFrames /\ Len(queue[i]) < QueueMax
  /\ frames' = frames + 1
  /\ queue' = [queue EXCEPT ![i] = Append(@, [id |-> frames', from |-> i, to |-> j, conn |-> 0])]
  /\ UNCHANGED <<client, stale, dropped, relay, down, handled>>

GetThread(i) ==
  /\ client[i].sender = "wait" /\ Free(i)
  /\ Goes(i, "up", "get", NoFrame)
  /\ UNCHANGED <<frames, queue, stale, dropped, relay, down, handled>>

Get(i) ==
  /\ client[i].sender = "get" /\ queue[i] # <<>>
  /\ Goes(i, "up", "send", Head(queue[i]))
  /\ queue' = [queue EXCEPT ![i] = Tail(@)]
  /\ UNCHANGED <<frames, stale, dropped, relay, down, handled>>

\* A thread of an earlier connection takes the frame instead.
GoesOn(n) == n                             \* mutant: the thread waits for another
Ends(n) == n - 1

StaleGet(i) ==
  /\ stale[i] > 0 /\ queue[i] # <<>>
  /\ queue' = [queue EXCEPT ![i] = Tail(@)]
  /\ stale' = [stale EXCEPT ![i] = Ends(@)]
  /\ dropped' = [dropped EXCEPT ![i] = @ + 1]
  /\ UNCHANGED <<frames, client, relay, down, handled>>

\* What is sent to a handler that has ended is gone.
Send(i) ==
  /\ client[i].sender = "send"
  /\ up' = IF Conn(i) \in open[i]
       THEN [up EXCEPT ![i][Conn(i)] = Append(@, [client[i].taken EXCEPT !.conn = Conn(i)])]
       ELSE up
  /\ Goes(i, "up", "wait", NoFrame)
  /\ UNCHANGED <<frames, queue, stale, dropped, open, hello, reg, down, handled>>

-----------------------------------------------------------------------------
(* The client: inbound frames.                                             *)

\* _handle_ws_message: the frame becomes a message of this instance.
Handle(i) ==
  /\ ConnAt(i) = "up" /\ down[i] # <<>> /\ Free(i)
  /\ handled' = Append(handled, Head(down[i]))
  /\ down' = [down EXCEPT ![i] = Tail(@)]
  /\ UNCHANGED <<frames, clients, relay>>

\* A frame that cannot be handled costs the connection.
HandleFails(i) ==
  /\ ConnAt(i) = "up" /\ down[i] # <<>> /\ Free(i) /\ Conn(i) < MaxConns
  /\ Disconnect(i)
  /\ down' = [down EXCEPT ![i] = <<>>]
  /\ UNCHANGED <<frames, queue, relay, handled>>

-----------------------------------------------------------------------------
(* The relay: one handler per connection.                                  *)

\* The answer to the challenge arrives, however late: the last one counts.
Register(i, c) ==
  /\ c \in hello[i]
  /\ hello' = [hello EXCEPT ![i] = @ \ {c}]
  /\ reg' = [reg EXCEPT ![i] = c]
  /\ UNCHANGED <<frames, clients, up, open, down, handled>>

\* _deliver: a task sends the frame on the connection registered for its target.
InFront(s, f) == <<f>> \o s                \* mutant: the newest frame comes first
InTurn(s, f) == Append(s, f)

Reached(f) == reg[f.to] = Conn(f.to) /\ ConnAt(f.to) \in {"auth", "up"}

LeavesIt(s) == s                           \* mutant: the frame is handed over again
Shift(s) == Tail(s)

HandleFrame(i, c) ==
  LET f == Head(up[i][c]) IN
  /\ c \in open[i] \ hello[i] /\ up[i][c] # <<>> /\ reg[f.to] # 0
  /\ up' = [up EXCEPT ![i][c] = Shift(@)]
  /\ down' = IF Reached(f) THEN [down EXCEPT ![f.to] = InTurn(@, f)] ELSE down
  /\ UNCHANGED <<frames, clients, open, hello, reg, handled>>

\* The target is not connected, or the source has reached its limit.
RefuseFrame(i, c) ==
  /\ c \in open[i] \ hello[i] /\ up[i][c] # <<>>
  /\ up' = [up EXCEPT ![i][c] = Tail(@)]
  /\ UNCHANGED <<frames, clients, open, hello, reg, down, handled>>

\* The mapping goes only if it is still that connection's.
StaysMapped(i, c) == UNCHANGED reg         \* mutant: the mapping stays
Unmap(i, c) == reg' = [reg EXCEPT ![i] = IF @ = c THEN 0 ELSE @]

\* A handler ends, because the client is gone or for a reason of its own (no answer to
\* a ping, an exception), before the client knows; what it has not read is gone.
EndHandler(i, c) ==
  /\ c \in open[i] /\ c < MaxConns
  /\ open' = [open EXCEPT ![i] = @ \ {c}] /\ hello' = [hello EXCEPT ![i] = @ \ {c}]
  /\ up' = [up EXCEPT ![i][c] = <<>>]
  /\ Unmap(i, c)
  /\ UNCHANGED <<frames, clients, down, handled>>

-----------------------------------------------------------------------------

\* Bound: the frames are used up.
Rest == frames = MaxFrames /\ UNCHANGED federation

FederationNext ==
  \/ \E i \in Instances :
       \/ Start(i) \/ Connect(i) \/ Authenticated(i) \/ Lose(i)
       \/ GetThread(i) \/ Get(i) \/ StaleGet(i) \/ Send(i)
       \/ Handle(i) \/ HandleFails(i)
       \/ \E j \in Instances : EnqueueFrame(i, j)
       \/ \E c \in Conns : Register(i, c) \/ HandleFrame(i, c)
                           \/ RefuseFrame(i, c) \/ EndHandler(i, c)
  \/ Rest

FederationSpec == FederationInit /\ [][FederationNext]_federation

\* A client notices in the end that the relay has closed its connection.
Notice(i) == Conn(i) \notin open[i] /\ Lose(i)

\* A client that has been let in goes on, and a thread that is free handles a frame.
\* No connection that both ends hold is ever lost by fairness.
FederationFairness ==
  \A i \in Instances :
    /\ WF_federation(Authenticated(i)) /\ WF_federation(Notice(i))
    /\ WF_federation(Handle(i) \/ HandleFails(i))

-----------------------------------------------------------------------------

\* A frame under way somewhere.
Pieces == UNION {ToSet(queue[i]) \union ToSet(down[i]) \union {client[i].taken}
                   \union UNION {ToSet(up[i][c]) : c \in Conns} : i \in Instances}
Underway == {f.id : f \in Pieces \ {NoFrame}}
HandledIds == [k \in DOMAIN handled |-> handled[k].id]

\* For the agents the federation is a Mailbox: whatever connections break, overlap in
\* the relay or lose their sender, a frame is handled at most once, and one that is
\* lost never turns up again.
FrameBox == INSTANCE Mailbox WITH
        Ids     <- 1 .. MaxFrames,
        waiting <- Underway,
        handed  <- HandledIds,
        lost    <- 1 .. frames \ (Underway \union ToSet(HandledIds))
EachFrameOnce == FrameBox!Spec

\* Frames of one connection of the sender arrive in the order in which they were
\* enqueued, whatever becomes of the receiver's connections in between.
InOrderPerConnection ==
  \A p, q \in DOMAIN handled :
    /\ p < q
    /\ handled[p].from = handled[q].from /\ handled[p].conn = handled[q].conn
    /\ handled[p].to = handled[q].to
    => handled[p].id < handled[q].id

\* Of the frames that a client has taken from its queue and not sent, a connection that
\* ends costs at most one: the one that is being sent or the one its thread takes
\* later.  What has been sent and is not read is lost besides.
Ended(i) == Conn(i) - IF ConnAt(i) \in {"auth", "up"} THEN 1 ELSE 0
OneFramePerConnection == \A i \in Instances : dropped[i] + stale[i] <= Ended(i)

\* A frame that has come to a client is handled, or lost with the connection, unless
\* every thread waits for frames that nobody sends: those of earlier connections are
\* never given back, and then the client hears of nothing, not even of the end of its
\* connection.
FramesAreHandled ==
  \A i \in Instances : down[i] # <<>> ~> down[i] = <<>> \/ Busy(i) = Pool
=============================================================================
