---------------------------- MODULE MailboxProofs ----------------------------
(***************************************************************************)
(* Proofs about what reaches agents: Federation, for any instances, queue  *)
(* limits, pools, frames and connections, and PushDelivery, for any limits *)
(* and any number of messages and lost connections, both of which are      *)
(* shown to be a Mailbox; and what follows for MCServices as a whole.      *)
(***************************************************************************)
EXTENDS MCServices, ApprovalsProofs, FiniteSetTheorems, FunctionTheorems, SequenceTheorems, TLAPS

-----------------------------------------------------------------------------
(* Federation: types, connections and their threads.                       *)

ClientRecord == [at : {"off", "down", "auth", "up"}, conn : 0 .. MaxConns,
                 sender : {"none", "wait", "get", "send"}, taken : Frame \union {NoFrame}]

Ranges ==
  /\ frames \in 0 .. MaxFrames
  /\ queue \in [Instances -> Seq(Frame)]
  /\ client \in [Instances -> ClientRecord]
  /\ stale \in [Instances -> Nat] /\ dropped \in [Instances -> Nat]
  /\ up \in [Instances -> [Conns -> Seq(Frame)]] /\ down \in [Instances -> Seq(Frame)]
  /\ open \in [Instances -> SUBSET Conns] /\ hello \in [Instances -> SUBSET Conns]
  /\ reg \in [Instances -> 0 .. MaxConns]
  /\ handled \in Seq(Frame)

\* Of a connection the client has the last number, and what has ended before it has
\* cost a thread or a frame at most.
InstanceOK(i) ==
  /\ Len(queue[i]) <= QueueMax
  /\ client[i].sender # "none" <=> client[i].at = "up"
  /\ client[i].taken # NoFrame <=> client[i].sender = "send"
  /\ client[i].at \in {"off", "down"} => client[i].conn < MaxConns
  /\ client[i].at \in {"auth", "up"} => client[i].conn >= 1
  /\ \A c \in open[i] : c <= client[i].conn
  /\ hello[i] \subseteq open[i]
  /\ reg[i] # 0 => reg[i] \in open[i] \ hello[i]
  /\ IF client[i].at \in {"auth", "up"} THEN dropped[i] + stale[i] + 1 <= client[i].conn
                                        ELSE dropped[i] + stale[i] <= client[i].conn

FederationOK == Ranges /\ \A i \in Instances : InstanceOK(i)

LEMMA ConnsAre ==
  /\ MaxConns \in Nat \ {0} /\ MaxFrames \in Nat /\ QueueMax \in Nat \ {0}
  /\ Conns = 1 .. MaxConns /\ 0 \notin Conns
  /\ \A f \in Frame : f # NoFrame /\ f.id \in 1 .. MaxFrames
                      /\ f.from \in Instances /\ f.to \in Instances /\ f.conn \in 0 .. MaxConns
  /\ NoFrame \notin Frame
<1>1. NoFrame.id = 0
  BY DEF NoFrame
<1>2. \A f \in Frame : f.id \in 1 .. MaxFrames /\ f.id # 0
  BY FederationAssumption DEF Frame
<1>3. QED BY <1>1, <1>2, FederationAssumption DEF Conns, Frame

LEMMA FederationTypes == FederationOK => FederationTypeOK /\ OneFramePerConnection
<1> SUFFICES ASSUME FederationOK PROVE FederationTypeOK /\ OneFramePerConnection
  OBVIOUS
<1>1. ASSUME NEW i \in Instances
      PROVE  /\ dropped[i] + stale[i] <= Ended(i) /\ stale[i] \in 0 .. MaxConns
             /\ Len(queue[i]) <= QueueMax
             /\ client[i].sender # "none" <=> ConnAt(i) = "up"
             /\ client[i].taken # NoFrame <=> client[i].sender = "send"
             /\ hello[i] \subseteq open[i]
             /\ reg[i] # 0 => reg[i] \in open[i] \ hello[i]
  <2>1. InstanceOK(i) /\ client[i].conn \in 0 .. MaxConns /\ dropped[i] \in Nat /\ stale[i] \in Nat
    BY DEF FederationOK, Ranges, ClientRecord
  <2>2. QED BY <2>1, ConnsAre DEF InstanceOK, Ended, Conn, ConnAt
<1>2. stale \in [Instances -> 0 .. MaxConns]
  BY <1>1 DEF FederationOK, Ranges
<1>3. QED BY <1>1, <1>2 DEF FederationOK, Ranges, ClientRecord, FederationTypeOK, OneFramePerConnection

LEMMA OneInstance ==
  ASSUME FederationOK, NEW i \in Instances
  PROVE  /\ client[i] \in ClientRecord
         /\ client[i].conn \in 0 .. MaxConns /\ client[i].conn \in Nat
         /\ client[i].sender \in {"none", "wait", "get", "send"}
         /\ client[i].taken \in Frame \union {NoFrame}
         /\ dropped[i] \in Nat /\ stale[i] \in Nat
         /\ queue[i] \in Seq(Frame) /\ Len(queue[i]) \in Nat
<1>1. client[i] \in ClientRecord /\ dropped[i] \in Nat /\ stale[i] \in Nat /\ queue[i] \in Seq(Frame)
  BY DEF FederationOK, Ranges
<1>2. Len(queue[i]) \in Nat
  BY <1>1, LenProperties
<1>3. QED BY <1>1, <1>2, ConnsAre DEF ClientRecord

\* A client that goes from one state of its connection to another.
LEMMA GoesIs ==
  ASSUME FederationOK, NEW i \in Instances, NEW pc \in {"off", "down", "auth", "up"},
         NEW s \in {"none", "wait", "get", "send"}, NEW f \in Frame \union {NoFrame},
         Goes(i, pc, s, f)
  PROVE  /\ client' \in [Instances -> ClientRecord]
         /\ client'[i] = [at |-> pc, conn |-> client[i].conn, sender |-> s, taken |-> f]
         /\ \A j \in Instances \ {i} : client'[j] = client[j]
BY DEF FederationOK, Ranges, ClientRecord, Goes

\* What one instance does leaves the others in order.
LEMMA OthersOK ==
  ASSUME FederationOK, NEW i \in Instances,
         \A j \in Instances \ {i} :
           /\ queue'[j] = queue[j] /\ client'[j] = client[j]
           /\ stale'[j] = stale[j] /\ dropped'[j] = dropped[j]
           /\ open'[j] = open[j] /\ hello'[j] = hello[j] /\ reg'[j] = reg[j],
         Ranges', InstanceOK(i)'
  PROVE  FederationOK'
BY DEF FederationOK, InstanceOK

LEMMA StartOK ==
  ASSUME FederationOK, NEW i \in Instances, Start(i)
  PROVE  FederationOK'
<1>1. /\ client' \in [Instances -> ClientRecord]
      /\ client'[i] = [at |-> "down", conn |-> client[i].conn, sender |-> "none", taken |-> NoFrame]
      /\ \A j \in Instances \ {i} : client'[j] = client[j]
  BY GoesIs DEF Start
<1>2. UNCHANGED <<frames, queue, stale, dropped, up, open, hello, reg, down, handled>>
  BY DEF Start, relay
<1>3. InstanceOK(i)'
  BY <1>1, <1>2 DEF Start, ConnAt, FederationOK, InstanceOK
<1>4. Ranges'
  BY <1>1, <1>2 DEF FederationOK, Ranges
<1>5. QED BY <1>1, <1>2, <1>3, <1>4, OthersOK

LEMMA ConnectOK ==
  ASSUME FederationOK, NEW i \in Instances, Connect(i)
  PROVE  FederationOK'
<1> DEFINE c == client[i].conn + 1
<1>1. c \in Conns /\ client[i].conn \in Nat /\ client[i].at = "down" /\ client[i] \in ClientRecord
  BY ConnsAre DEF Connect, ConnAt, FederationOK, InstanceOK, Ranges, ClientRecord
<1>2. /\ client' = [client EXCEPT ![i] = [client[i] EXCEPT !.at = "auth", !.conn = c]]
      /\ open' = [open EXCEPT ![i] = @ \union {c}]
      /\ hello' = [hello EXCEPT ![i] = @ \union {c}]
      /\ UNCHANGED <<frames, queue, stale, dropped, up, reg, down, handled>>
  BY <1>1 DEF Connect, Conn, FederationOK, Ranges, ClientRecord
<1>3. /\ [client[i] EXCEPT !.at = "auth", !.conn = c] \in ClientRecord
      /\ client'[i] = [at |-> "auth", conn |-> c, sender |-> client[i].sender,
                       taken |-> client[i].taken]
  <2>1. client' = [client EXCEPT ![i] = [client[i] EXCEPT !.at = "auth", !.conn = c]]
    BY <1>2
  <2>2. client'[i] = [client[i] EXCEPT !.at = "auth", !.conn = c]
    BY <2>1 DEF FederationOK, Ranges
  <2>3. c \in 0 .. MaxConns
    BY <1>1, ConnsAre
  <2> HIDE DEF c
  <2>4. QED BY <1>1, <2>2, <2>3 DEF ClientRecord
<1>4. client' \in [Instances -> ClientRecord]
  BY <1>2, <1>3 DEF FederationOK, Ranges
<1>5. Ranges'
  BY <1>1, <1>2, <1>4 DEF FederationOK, Ranges
<1>6. InstanceOK(i)
  BY DEF FederationOK
<1>7. /\ \A k \in open[i] : k <= client[i].conn /\ k \in Nat
      /\ dropped[i] + stale[i] <= client[i].conn /\ dropped[i] \in Nat /\ stale[i] \in Nat
      /\ reg[i] # c
  BY <1>1, <1>6, ConnsAre DEF InstanceOK, FederationOK, Ranges
<1>8. InstanceOK(i)'
  <2>1. /\ open'[i] = open[i] \union {c} /\ hello'[i] = hello[i] \union {c}
        /\ UNCHANGED <<queue, stale, dropped, reg>>
    BY <1>2 DEF FederationOK, Ranges
  <2>2. \A k \in open'[i] : k <= c
    BY <1>1, <1>7, <2>1
  <2>3. dropped[i] + stale[i] + 1 <= c
    BY <1>1, <1>7
  <2> HIDE DEF c
  <2>4. QED BY <1>1, <1>3, <1>6, <1>7, <2>1, <2>2, <2>3, ConnsAre DEF InstanceOK
<1>9. \A j \in Instances \ {i} :
        client'[j] = client[j] /\ open'[j] = open[j] /\ hello'[j] = hello[j]
  BY <1>2 DEF FederationOK, Ranges
<1>10. QED BY <1>2, <1>5, <1>8, <1>9, OthersOK

LEMMA AuthenticatedOK ==
  ASSUME FederationOK, NEW i \in Instances, Authenticated(i)
  PROVE  FederationOK'
<1>1. /\ client' \in [Instances -> ClientRecord]
      /\ client'[i] = [at |-> "up", conn |-> client[i].conn, sender |-> "wait", taken |-> NoFrame]
      /\ \A j \in Instances \ {i} : client'[j] = client[j]
  BY GoesIs DEF Authenticated
<1>2. UNCHANGED <<frames, queue, stale, dropped, up, open, hello, reg, down, handled>>
  BY DEF Authenticated, relay
<1>3. InstanceOK(i)'
  BY <1>1, <1>2 DEF Authenticated, ConnAt, FederationOK, InstanceOK
<1>4. Ranges'
  BY <1>1, <1>2 DEF FederationOK, Ranges
<1>5. QED BY <1>1, <1>2, <1>3, <1>4, OthersOK

\* The thread of the connection, or the frame it was sending, is what its end costs.
LEMMA EndOK ==
  ASSUME FederationOK, NEW i \in Instances, ConnAt(i) \in {"auth", "up"}, Conn(i) < MaxConns,
         Disconnect(i), down' = [down EXCEPT ![i] = <<>>],
         UNCHANGED <<frames, queue, relay, handled>>
  PROVE  FederationOK'
<1>1. /\ client' \in [Instances -> ClientRecord]
      /\ client'[i] = [at |-> "down", conn |-> client[i].conn, sender |-> "none", taken |-> NoFrame]
      /\ \A j \in Instances \ {i} : client'[j] = client[j]
  BY GoesIs DEF Disconnect
<1>2. /\ stale' \in [Instances -> Nat] /\ dropped' \in [Instances -> Nat]
      /\ \A j \in Instances \ {i} : stale'[j] = stale[j] /\ dropped'[j] = dropped[j]
      /\ dropped'[i] + stale'[i] <= dropped[i] + stale[i] + 1
  BY DEF Disconnect, FederationOK, Ranges
<1>3. UNCHANGED <<frames, queue, up, open, hello, reg, handled>>
  BY DEF relay
<1>4. <<>> \in Seq(Frame)
  BY EmptySeq
<1>5. Ranges'
  BY <1>1, <1>2, <1>3, <1>4 DEF FederationOK, Ranges
<1>6. InstanceOK(i)'
  <2>1. /\ dropped[i] + stale[i] + 1 <= client[i].conn /\ client[i].conn < MaxConns
        /\ InstanceOK(i)
    BY DEF FederationOK, InstanceOK, ConnAt, Conn
  <2>2. /\ dropped[i] \in Nat /\ stale[i] \in Nat /\ dropped'[i] \in Nat /\ stale'[i] \in Nat
        /\ client[i].conn \in Nat
    BY <1>2, OneInstance
  <2>3. dropped'[i] + stale'[i] <= client[i].conn
    BY <1>2, <2>1, <2>2
  <2>4. QED BY <1>1, <1>3, <2>1, <2>3 DEF InstanceOK
<1>7. QED BY <1>1, <1>2, <1>3, <1>5, <1>6, OthersOK

LEMMA LoseOK ==
  ASSUME FederationOK, NEW i \in Instances, Lose(i) \/ HandleFails(i)
  PROVE  FederationOK'
BY EndOK DEF Lose, HandleFails

LEMMA EnqueueFrameOK ==
  ASSUME FederationOK, NEW i \in Instances, NEW j \in Instances, EnqueueFrame(i, j)
  PROVE  FederationOK'
<1> DEFINE g == [id |-> frames + 1, from |-> i, to |-> j, conn |-> 0]
<1>1. frames' = frames + 1 /\ frames' \in 0 .. MaxFrames /\ g \in Frame
  BY ConnsAre DEF EnqueueFrame, FederationOK, Ranges, Frame
<1>2. /\ queue' = [queue EXCEPT ![i] = Append(@, g)]
      /\ UNCHANGED <<client, stale, dropped, up, open, hello, reg, down, handled>>
  BY <1>1 DEF EnqueueFrame, relay
<1> HIDE DEF g
<1>3. Append(queue[i], g) \in Seq(Frame) /\ Len(Append(queue[i], g)) = Len(queue[i]) + 1
  BY <1>1, AppendProperties DEF FederationOK, Ranges
<1>4. queue' \in [Instances -> Seq(Frame)] /\ Len(queue'[i]) <= QueueMax
  <2>1. queue' \in [Instances -> Seq(Frame)] /\ queue'[i] = Append(queue[i], g)
    BY <1>2, <1>3 DEF FederationOK, Ranges
  <2>2. Len(queue[i]) < QueueMax /\ Len(queue[i]) \in Nat
    BY OneInstance DEF EnqueueFrame
  <2>3. QED BY <1>3, <2>1, <2>2, ConnsAre
<1>5. Ranges'
  BY <1>1, <1>2, <1>4 DEF FederationOK, Ranges
<1>6. InstanceOK(i)'
  BY <1>2, <1>4 DEF FederationOK, InstanceOK
<1>7. \A k \in Instances \ {i} : queue'[k] = queue[k]
  BY <1>2 DEF FederationOK, Ranges
<1>8. QED BY <1>2, <1>5, <1>6, <1>7, OthersOK

LEMMA GetThreadOK ==
  ASSUME FederationOK, NEW i \in Instances, GetThread(i)
  PROVE  FederationOK'
<1>1. /\ client' \in [Instances -> ClientRecord]
      /\ client'[i] = [at |-> "up", conn |-> client[i].conn, sender |-> "get", taken |-> NoFrame]
      /\ \A j \in Instances \ {i} : client'[j] = client[j]
  BY GoesIs DEF GetThread
<1>2. UNCHANGED <<frames, queue, stale, dropped, up, open, hello, reg, down, handled>>
  BY DEF GetThread, relay
<1>3. InstanceOK(i)'
  BY <1>1, <1>2 DEF GetThread, FederationOK, InstanceOK
<1>4. Ranges'
  BY <1>1, <1>2 DEF FederationOK, Ranges
<1>5. QED BY <1>1, <1>2, <1>3, <1>4, OthersOK

\* The first frame of a queue, and what is left of it.
LEMMA HeadOfQueue ==
  ASSUME FederationOK, NEW i \in Instances, queue[i] # <<>>,
         queue' = [queue EXCEPT ![i] = Tail(@)]
  PROVE  /\ Head(queue[i]) \in Frame /\ queue' \in [Instances -> Seq(Frame)]
         /\ Len(queue'[i]) <= QueueMax
         /\ \A j \in Instances \ {i} : queue'[j] = queue[j]
<1>1. queue[i] \in Seq(Frame) /\ Len(queue[i]) <= QueueMax /\ Len(queue[i]) \in Nat
  BY LenProperties DEF FederationOK, Ranges, InstanceOK
<1>2. /\ Head(queue[i]) \in Frame /\ Tail(queue[i]) \in Seq(Frame)
      /\ Len(Tail(queue[i])) = Len(queue[i]) - 1
  BY <1>1, HeadTailProperties
<1>3. queue'[i] = Tail(queue[i]) /\ queue' \in [Instances -> Seq(Frame)]
  BY <1>2 DEF FederationOK, Ranges
<1>4. Len(queue'[i]) <= QueueMax
  BY <1>1, <1>2, <1>3, ConnsAre
<1>5. QED BY <1>2, <1>3, <1>4 DEF FederationOK, Ranges

LEMMA GetOK ==
  ASSUME FederationOK, NEW i \in Instances, Get(i)
  PROVE  FederationOK'
<1>1. /\ Head(queue[i]) \in Frame /\ queue' \in [Instances -> Seq(Frame)]
      /\ Len(queue'[i]) <= QueueMax
      /\ \A j \in Instances \ {i} : queue'[j] = queue[j]
  BY HeadOfQueue DEF Get
<1>2. /\ client' \in [Instances -> ClientRecord]
      /\ client'[i] = [at |-> "up", conn |-> client[i].conn, sender |-> "send",
                       taken |-> Head(queue[i])]
      /\ \A j \in Instances \ {i} : client'[j] = client[j]
  BY <1>1, GoesIs DEF Get
<1>3. UNCHANGED <<frames, stale, dropped, up, open, hello, reg, down, handled>>
  BY DEF Get, relay
<1>4. InstanceOK(i)'
  BY <1>1, <1>2, <1>3, ConnsAre DEF Get, FederationOK, InstanceOK
<1>5. Ranges'
  BY <1>1, <1>2, <1>3 DEF FederationOK, Ranges
<1>6. QED BY <1>1, <1>2, <1>3, <1>4, <1>5, OthersOK

LEMMA StaleGetOK ==
  ASSUME FederationOK, NEW i \in Instances, StaleGet(i)
  PROVE  FederationOK'
<1>1. /\ queue' \in [Instances -> Seq(Frame)] /\ Len(queue'[i]) <= QueueMax
      /\ \A j \in Instances \ {i} : queue'[j] = queue[j]
  BY HeadOfQueue DEF StaleGet
<1>2. stale[i] \in Nat /\ stale[i] > 0 /\ dropped[i] \in Nat
  BY DEF StaleGet, FederationOK, Ranges
<1>3. /\ stale' = [stale EXCEPT ![i] = stale[i] - 1]
      /\ dropped' = [dropped EXCEPT ![i] = dropped[i] + 1]
      /\ UNCHANGED <<frames, client, up, open, hello, reg, down, handled>>
  BY DEF StaleGet, Ends, relay, FederationOK, Ranges
<1>4. /\ stale' \in [Instances -> Nat] /\ dropped' \in [Instances -> Nat]
      /\ \A j \in Instances \ {i} : stale'[j] = stale[j] /\ dropped'[j] = dropped[j]
      /\ stale'[i] = stale[i] - 1 /\ dropped'[i] = dropped[i] + 1
  BY <1>2, <1>3 DEF FederationOK, Ranges
<1>5. Ranges'
  BY <1>1, <1>3, <1>4 DEF FederationOK, Ranges
<1>6. dropped'[i] + stale'[i] = dropped[i] + stale[i]
  BY <1>2, <1>4
<1>7. InstanceOK(i)'
  BY <1>1, <1>3, <1>6 DEF FederationOK, InstanceOK
<1>8. QED BY <1>1, <1>3, <1>4, <1>5, <1>7, OthersOK

LEMMA SentIs ==
  ASSUME FederationOK, NEW i \in Instances, Send(i)
  PROVE  /\ client[i].taken \in Frame /\ client[i].conn \in Conns
         /\ [client[i].taken EXCEPT !.conn = client[i].conn] \in Frame
<1>1. client[i].sender = "send" /\ client[i].taken \in Frame
  BY DEF Send, FederationOK, InstanceOK, Ranges, ClientRecord
<1>2. client[i].conn \in Conns
  BY <1>1, ConnsAre DEF FederationOK, InstanceOK, Ranges, ClientRecord
<1>3. QED BY <1>1, <1>2, ConnsAre DEF Frame

LEMMA SendOK ==
  ASSUME FederationOK, NEW i \in Instances, Send(i)
  PROVE  FederationOK'
<1>1. /\ client' \in [Instances -> ClientRecord]
      /\ client'[i] = [at |-> "up", conn |-> client[i].conn, sender |-> "wait", taken |-> NoFrame]
      /\ \A j \in Instances \ {i} : client'[j] = client[j]
  BY GoesIs DEF Send
<1> DEFINE c == client[i].conn
           g == [client[i].taken EXCEPT !.conn = c]
<1>2. /\ up' = [up EXCEPT ![i][c] = Append(@, g)] \/ up' = up
      /\ UNCHANGED <<frames, queue, stale, dropped, open, hello, reg, down, handled>>
  BY DEF Send, Conn
<1>3. up' \in [Instances -> [Conns -> Seq(Frame)]]
  <2>1. c \in Conns /\ g \in Frame
    BY SentIs
  <2> HIDE DEF c, g
  <2>2. Append(up[i][c], g) \in Seq(Frame)
    BY <2>1, AppendProperties DEF FederationOK, Ranges
  <2>3. CASE up' = [up EXCEPT ![i][c] = Append(@, g)]
    BY <2>1, <2>2, <2>3 DEF FederationOK, Ranges
  <2>4. CASE up' = up
    BY <2>4 DEF FederationOK, Ranges
  <2>5. QED BY <1>2, <2>3, <2>4
<1>4. Ranges'
  BY <1>1, <1>2, <1>3 DEF FederationOK, Ranges
<1>5. InstanceOK(i)'
  BY <1>1, <1>2 DEF Send, FederationOK, InstanceOK
<1>6. QED BY <1>1, <1>2, <1>4, <1>5, OthersOK

LEMMA HandleOK ==
  ASSUME FederationOK, NEW i \in Instances, Handle(i)
  PROVE  FederationOK'
<1>1. /\ UNCHANGED <<frames, queue, client, stale, dropped, up, open, hello, reg>>
      /\ down[i] \in Seq(Frame) /\ down[i] # <<>>
      /\ handled' = Append(handled, Head(down[i])) /\ down' = [down EXCEPT ![i] = Tail(@)]
  BY DEF Handle, clients, relay, FederationOK, Ranges
<1>2. Head(down[i]) \in Frame /\ Tail(down[i]) \in Seq(Frame)
  BY <1>1, HeadTailProperties
<1>3. handled' \in Seq(Frame)
  BY <1>1, <1>2, AppendProperties DEF FederationOK, Ranges
<1>4. Ranges'
  BY <1>1, <1>2, <1>3 DEF FederationOK, Ranges
<1>5. QED BY <1>1, <1>4 DEF FederationOK, InstanceOK

LEMMA RegisterOK ==
  ASSUME FederationOK, NEW i \in Instances, NEW c \in Conns, Register(i, c)
  PROVE  FederationOK'
<1>1. /\ c \in hello[i] /\ UNCHANGED <<frames, queue, client, stale, dropped, up, open, down, handled>>
      /\ hello' = [hello EXCEPT ![i] = @ \ {c}] /\ reg' = [reg EXCEPT ![i] = c]
  BY DEF Register, clients
<1>2. c \in 0 .. MaxConns
  BY ConnsAre
<1>3. Ranges'
  BY <1>1, <1>2 DEF FederationOK, Ranges
<1>4. InstanceOK(i)'
  <2>1. hello'[i] = hello[i] \ {c} /\ reg'[i] = c /\ InstanceOK(i)
    BY <1>1 DEF FederationOK, Ranges
  <2>2. QED BY <1>1, <2>1 DEF InstanceOK
<1>5. \A j \in Instances \ {i} : hello'[j] = hello[j] /\ reg'[j] = reg[j]
  BY <1>1 DEF FederationOK, Ranges
<1>6. QED BY <1>1, <1>3, <1>4, <1>5, OthersOK

\* The relay reads a frame: only what is under way changes.
LEMMA ReadIs ==
  ASSUME FederationOK, NEW i \in Instances, NEW c \in Conns, up[i][c] # <<>>,
         up' = [up EXCEPT ![i][c] = Tail(@)]
  PROVE  /\ up' \in [Instances -> [Conns -> Seq(Frame)]] /\ Head(up[i][c]) \in Frame
         /\ up'[i][c] = Tail(up[i][c])
         /\ \A j \in Instances, k \in Conns : <<j, k>> # <<i, c>> => up'[j][k] = up[j][k]
<1>1. up[i][c] \in Seq(Frame)
  BY DEF FederationOK, Ranges
<1>2. Head(up[i][c]) \in Frame /\ Tail(up[i][c]) \in Seq(Frame)
  BY <1>1, HeadTailProperties
<1>3. QED BY <1>2 DEF FederationOK, Ranges

LEMMA HandleFrameOK ==
  ASSUME FederationOK, NEW i \in Instances, NEW c \in Conns,
         HandleFrame(i, c) \/ RefuseFrame(i, c)
  PROVE  FederationOK'
<1> DEFINE f == Head(up[i][c])
<1>1. /\ up[i][c] # <<>> /\ up' = [up EXCEPT ![i][c] = Tail(@)]
      /\ UNCHANGED <<frames, queue, client, stale, dropped, open, hello, reg, handled>>
      /\ down' = down \/ down' = [down EXCEPT ![f.to] = Append(@, f)]
  BY DEF HandleFrame, RefuseFrame, Shift, InTurn, clients
<1>2. up' \in [Instances -> [Conns -> Seq(Frame)]] /\ f \in Frame
  BY <1>1, ReadIs
<1> HIDE DEF f
<1>3. f.to \in Instances /\ down \in [Instances -> Seq(Frame)]
  BY <1>2, ConnsAre DEF FederationOK, Ranges
<1>4. down' \in [Instances -> Seq(Frame)]
  <2>1. Append(down[f.to], f) \in Seq(Frame)
    BY <1>2, <1>3, AppendProperties
  <2>2. QED BY <1>1, <1>3, <2>1
<1>5. Ranges'
  BY <1>1, <1>2, <1>4 DEF FederationOK, Ranges
<1>6. QED BY <1>1, <1>5 DEF FederationOK, InstanceOK

LEMMA EndHandlerOK ==
  ASSUME FederationOK, NEW i \in Instances, NEW c \in Conns, EndHandler(i, c)
  PROVE  FederationOK'
<1>1. /\ open' = [open EXCEPT ![i] = @ \ {c}] /\ hello' = [hello EXCEPT ![i] = @ \ {c}]
      /\ up' = [up EXCEPT ![i][c] = <<>>]
      /\ reg' = [reg EXCEPT ![i] = IF reg[i] = c THEN 0 ELSE reg[i]]
      /\ UNCHANGED <<frames, queue, client, stale, dropped, down, handled>>
  BY DEF EndHandler, Unmap, clients, FederationOK, Ranges
<1>2. <<>> \in Seq(Frame) /\ 0 \in 0 .. MaxConns
  BY EmptySeq, ConnsAre
<1>3. up' \in [Instances -> [Conns -> Seq(Frame)]]
  BY <1>1, <1>2 DEF FederationOK, Ranges
<1>4. reg' \in [Instances -> 0 .. MaxConns]
  BY <1>1, <1>2 DEF FederationOK, Ranges
<1>5. Ranges'
  BY <1>1, <1>3, <1>4 DEF FederationOK, Ranges
<1>6. InstanceOK(i)'
  <2>1. /\ open'[i] = open[i] \ {c} /\ hello'[i] = hello[i] \ {c}
        /\ reg'[i] = IF reg[i] = c THEN 0 ELSE reg[i]
        /\ InstanceOK(i)
    BY <1>1 DEF FederationOK, Ranges
  <2>2. QED BY <1>1, <2>1 DEF InstanceOK
<1>7. \A j \in Instances \ {i} :
        open'[j] = open[j] /\ hello'[j] = hello[j] /\ reg'[j] = reg[j]
  BY <1>1 DEF FederationOK, Ranges
<1>8. QED BY <1>1, <1>5, <1>6, <1>7, OthersOK

LEMMA FederationStutterOK ==
  ASSUME FederationOK, UNCHANGED federation
  PROVE  FederationOK'
BY DEF federation, clients, relay, FederationOK, Ranges, InstanceOK

LEMMA FederationNextOK ==
  ASSUME FederationOK, [FederationNext]_federation
  PROVE  FederationOK'
<1>1. CASE UNCHANGED federation
  BY <1>1, FederationStutterOK
<1>2. CASE FederationNext
  <2>1. CASE Rest
    BY <2>1, FederationStutterOK DEF Rest
  <2>2. QED
    BY <1>2, <2>1, StartOK, ConnectOK, AuthenticatedOK, LoseOK, EnqueueFrameOK, GetThreadOK, GetOK,
       StaleGetOK, SendOK, HandleOK, RegisterOK, HandleFrameOK, EndHandlerOK DEF FederationNext
<1>3. QED BY <1>1, <1>2

LEMMA FederationInitOK == FederationInit => FederationOK
<1> SUFFICES ASSUME FederationInit PROVE FederationOK
  OBVIOUS
<1>1. <<>> \in Seq(Frame) /\ Len(<<>>) = 0
  BY EmptySeq
<1>2. Ranges
  BY <1>1, ConnsAre DEF FederationInit, Ranges, ClientRecord
<1>3. QED BY <1>1, <1>2, ConnsAre DEF FederationInit, FederationOK, InstanceOK

-----------------------------------------------------------------------------
(* Stores of frames.  All the places where a frame may be, the nearer the  *)
(* end of its way the lower their rank; at each is a sequence of frames.   *)

Place(s, i, c) == [stage |-> s, who |-> i, conn |-> c]
Queued(i) == Place("queue", i, 0)
Taken(i) == Place("taken", i, 0)
OnWire(i, c) == Place("up", i, c)
Passed(i) == Place("down", i, 0)
AtEnd == [stage |-> "handled"]

OnTheWay ==
  {Queued(i) : i \in Instances} \union {Taken(i) : i \in Instances}
    \union {Passed(i) : i \in Instances}
    \union UNION {{OnWire(i, c) : c \in Conns} : i \in Instances}
Places == OnTheWay \union {AtEnd}

Rank(p) == CASE p.stage = "queue" -> 4 [] p.stage = "taken" -> 3 [] p.stage = "up" -> 2
             [] p.stage = "down" -> 1 [] p.stage = "handled" -> 0
             [] OTHER -> 5

\* A frame is where it can be: with its sender, on its connection, with its receiver.
Home(f, p) ==
  /\ p.stage \in {"queue", "taken"} => f.conn = 0 /\ f.from = p.who
  /\ p.stage = "up" => f.conn = p.conn /\ f.from = p.who
  /\ p.stage = "down" => f.to = p.who
  /\ p.stage \in {"up", "down", "handled"} => f.conn # 0

\* Frames that must not overtake each other: g has the sender and receiver of f, and
\* the same connection or, still to be sent, none.
SameLane(f, g) == f.from = g.from /\ f.to = g.to /\ (f.conn = g.conn \/ g.conn = 0)

Stores == [Places -> Seq(Frame)]
Homes(S) == \A p \in Places : \A k \in 1 .. Len(S[p]) : Home(S[p][k], p)
Once(S) ==
  \A p, q \in Places : \A k \in 1 .. Len(S[p]), l \in 1 .. Len(S[q]) :
    S[p][k].id = S[q][l].id => p = q /\ k = l
Ordered(S) ==
  \A p, q \in Places : \A k \in 1 .. Len(S[p]), l \in 1 .. Len(S[q]) :
    /\ Rank(p) < Rank(q) \/ (p = q /\ k < l)
    /\ SameLane(S[p][k], S[q][l])
    => S[p][k].id < S[q][l].id
UpTo(S, n) == \A p \in Places : \A k \in 1 .. Len(S[p]) : S[p][k].id <= n

Good(S, n) == S \in Stores /\ Homes(S) /\ Once(S) /\ Ordered(S) /\ UpTo(S, n)

LEMMA StageRanks ==
  /\ \A i \in Instances : /\ Queued(i) \in OnTheWay /\ Taken(i) \in OnTheWay /\ Passed(i) \in OnTheWay
                          /\ Queued(i).stage = "queue" /\ Taken(i).stage = "taken"
                          /\ Passed(i).stage = "down"
                          /\ Queued(i).who = i /\ Taken(i).who = i /\ Passed(i).who = i
                          /\ Rank(Queued(i)) = 4 /\ Rank(Taken(i)) = 3 /\ Rank(Passed(i)) = 1
  /\ \A i \in Instances, c \in Conns :
       /\ OnWire(i, c) \in OnTheWay /\ OnWire(i, c).stage = "up"
       /\ OnWire(i, c).who = i /\ OnWire(i, c).conn = c /\ Rank(OnWire(i, c)) = 2
  /\ AtEnd \in Places /\ AtEnd.stage = "handled" /\ Rank(AtEnd) = 0
<1>1. ASSUME NEW i \in Instances
      PROVE  /\ Queued(i) \in OnTheWay /\ Taken(i) \in OnTheWay /\ Passed(i) \in OnTheWay
             /\ Queued(i).stage = "queue" /\ Taken(i).stage = "taken" /\ Passed(i).stage = "down"
             /\ Queued(i).who = i /\ Taken(i).who = i /\ Passed(i).who = i
  BY DEF OnTheWay, Queued, Taken, Passed, Place
<1>2. ASSUME NEW i \in Instances, NEW c \in Conns
      PROVE  /\ OnWire(i, c) \in OnTheWay /\ OnWire(i, c).stage = "up"
             /\ OnWire(i, c).who = i /\ OnWire(i, c).conn = c
  BY DEF OnTheWay, OnWire, Place
<1>3. AtEnd \in Places /\ AtEnd.stage = "handled"
  BY DEF Places, AtEnd
<1>4. ASSUME NEW i \in Instances
      PROVE  Rank(Queued(i)) = 4 /\ Rank(Taken(i)) = 3 /\ Rank(Passed(i)) = 1
  BY <1>1 DEF Rank
<1>5. ASSUME NEW i \in Instances, NEW c \in Conns
      PROVE  Rank(OnWire(i, c)) = 2
  BY <1>2 DEF Rank
<1>6. Rank(AtEnd) = 0
  BY <1>3 DEF Rank
<1>7. QED BY <1>1, <1>2, <1>3, <1>4, <1>5, <1>6

LEMMA PlacesAre ==
  ASSUME NEW p \in Places
  PROVE  /\ Rank(p) \in Nat
         /\ \/ \E i \in Instances : p = Queued(i) \/ p = Taken(i) \/ p = Passed(i)
            \/ \E i \in Instances, c \in Conns : p = OnWire(i, c)
            \/ p = AtEnd
<1>1. \/ \E i \in Instances : p = Queued(i) \/ p = Taken(i) \/ p = Passed(i)
      \/ \E i \in Instances, c \in Conns : p = OnWire(i, c)
      \/ p = AtEnd
  BY DEF Places, OnTheWay
<1>2. QED BY <1>1, StageRanks

\* What is at a place at all is there at one rank only for one lane.
LEMMA SameRank ==
  ASSUME NEW p \in Places, NEW q \in Places, Rank(p) = Rank(q), Rank(p) # 0,
         NEW f, NEW g, Home(f, p), Home(g, q), SameLane(f, g)
  PROVE  p = q
<1>1. CASE p.stage = "up"
  <2>1. PICK i \in Instances, c \in Conns : p = OnWire(i, c)
    BY <1>1, PlacesAre, StageRanks
  <2>2. PICK j \in Instances, k \in Conns : q = OnWire(j, k)
    BY <2>1, PlacesAre, StageRanks
  <2>3. f.from = i /\ f.conn = c /\ g.from = j /\ g.conn = k /\ k # 0
    BY <2>1, <2>2, StageRanks, ConnsAre DEF Home
  <2>4. QED BY <2>1, <2>2, <2>3 DEF SameLane
<1>2. CASE p.stage # "up"
  <2>1. PICK i \in Instances : p = Queued(i) \/ p = Taken(i) \/ p = Passed(i)
    BY <1>2, PlacesAre, StageRanks
  <2>2. PICK j \in Instances : q = Queued(j) \/ q = Taken(j) \/ q = Passed(j)
    BY <2>1, PlacesAre, StageRanks
  <2>3. CASE p = Queued(i)
    <3>1. q = Queued(j)
      BY <2>2, <2>3, StageRanks
    <3>2. QED BY <2>3, <3>1, StageRanks DEF Home, SameLane
  <2>4. CASE p = Taken(i)
    <3>1. q = Taken(j)
      BY <2>2, <2>4, StageRanks
    <3>2. QED BY <2>4, <3>1, StageRanks DEF Home, SameLane
  <2>5. CASE p = Passed(i)
    <3>1. q = Passed(j)
      BY <2>2, <2>5, StageRanks
    <3>2. QED BY <2>5, <3>1, StageRanks DEF Home, SameLane
  <2>6. QED BY <2>1, <2>3, <2>4, <2>5
<1>3. QED BY <1>1, <1>2

\* At each place T has the end of what S has there.
RestAt(T, S, p, n) == \A k \in 1 .. Len(T[p]) : k + n \in 1 .. Len(S[p]) /\ T[p][k] = S[p][k + n]
Within(T, S) == \A p \in Places : \E n \in Nat : RestAt(T, S, p, n)

LEMMA RestOf ==
  ASSUME NEW S \in Stores, NEW T \in Stores, NEW p \in Places,
         \/ T[p] = S[p] \/ T[p] = <<>>
         \/ S[p] # <<>> /\ T[p] = Tail(S[p])
  PROVE  \E n \in Nat : RestAt(T, S, p, n)
<1>1. S[p] \in Seq(Frame) /\ T[p] \in Seq(Frame)
  BY DEF Stores
<1>2. Len(S[p]) \in Nat /\ Len(T[p]) \in Nat
  BY <1>1, LenProperties
<1>3. CASE T[p] = S[p]
  BY <1>2, <1>3 DEF RestAt
<1>4. CASE T[p] = <<>>
  <2>1. Len(T[p]) = 0
    BY <1>4, EmptySeq
  <2>2. RestAt(T, S, p, 0)
    BY <2>1 DEF RestAt
  <2>3. QED BY <2>2
<1>5. CASE S[p] # <<>> /\ T[p] = Tail(S[p])
  <2>1. Len(T[p]) = Len(S[p]) - 1 /\ \A k \in 1 .. Len(T[p]) : T[p][k] = S[p][k + 1]
    BY <1>1, <1>5, HeadTailProperties
  <2>2. RestAt(T, S, p, 1)
    BY <1>2, <2>1 DEF RestAt
  <2>3. QED BY <2>2
<1>6. QED BY <1>3, <1>4, <1>5

LEMMA WithinIs ==
  ASSUME NEW S \in Stores, NEW T \in Stores, Within(T, S), NEW p \in Places
  PROVE  \E n \in Nat : /\ \A k \in 1 .. Len(T[p]) : /\ k \in Nat /\ k + n \in 1 .. Len(S[p])
                                                     /\ T[p][k] = S[p][k + n]
                        /\ Len(T[p]) \in Nat
<1>1. PICK n \in Nat : RestAt(T, S, p, n)
  BY DEF Within
<1>2. Len(T[p]) \in Nat
  <2>1. T[p] \in Seq(Frame)
    BY DEF Stores
  <2>2. QED BY <2>1, LenProperties
<1>3. \A k \in 1 .. Len(T[p]) : k \in Nat /\ k + n \in 1 .. Len(S[p]) /\ T[p][k] = S[p][k + n]
  BY <1>1, <1>2 DEF RestAt
<1>4. QED BY <1>2, <1>3

LEMMA WithinGood ==
  ASSUME NEW S, NEW T \in Stores, NEW n, Good(S, n), Within(T, S)
  PROVE  Good(T, n)
<1>1. S \in Stores
  BY DEF Good
<1>2. Homes(T)
  <2> SUFFICES ASSUME NEW p \in Places, NEW k \in 1 .. Len(T[p])
               PROVE  Home(T[p][k], p)
    BY DEF Homes
  <2>1. PICK m \in Nat : \A x \in 1 .. Len(T[p]) : x + m \in 1 .. Len(S[p]) /\ T[p][x] = S[p][x + m]
    BY <1>1, WithinIs
  <2>2. QED BY <2>1 DEF Good, Homes
<1>3. ASSUME NEW p \in Places, NEW q \in Places,
             NEW k \in 1 .. Len(T[p]), NEW l \in 1 .. Len(T[q])
      PROVE  /\ T[p][k].id = T[q][l].id => p = q /\ k = l
             /\ /\ Rank(p) < Rank(q) \/ (p = q /\ k < l)
                /\ SameLane(T[p][k], T[q][l])
                => T[p][k].id < T[q][l].id
             /\ T[p][k].id <= n
  <2>1. PICK m \in Nat : /\ \A x \in 1 .. Len(T[p]) : /\ x \in Nat /\ x + m \in 1 .. Len(S[p])
                                                      /\ T[p][x] = S[p][x + m]
                         /\ Len(T[p]) \in Nat
    BY <1>1, WithinIs
  <2>2. PICK m2 \in Nat : /\ \A x \in 1 .. Len(T[q]) : /\ x \in Nat /\ x + m2 \in 1 .. Len(S[q])
                                                       /\ T[q][x] = S[q][x + m2]
                          /\ (p = q => m2 = m)
    <3>1. CASE p = q
      BY <2>1, <3>1
    <3>2. CASE p # q
      BY <1>1, <3>2, WithinIs
    <3>3. QED BY <3>1, <3>2
  <2>3. /\ k \in Nat /\ l \in Nat /\ k + m \in 1 .. Len(S[p]) /\ l + m2 \in 1 .. Len(S[q])
        /\ T[p][k] = S[p][k + m] /\ T[q][l] = S[q][l + m2]
    BY <2>1, <2>2
  <2>4. T[p][k].id = T[q][l].id => p = q /\ k = l
    <3>1. T[p][k].id = T[q][l].id => p = q /\ k + m = l + m2
      BY <2>3 DEF Good, Once
    <3>2. QED BY <3>1, <2>1, <2>2, <2>3
  <2>5. /\ Rank(p) < Rank(q) \/ (p = q /\ k < l)
        /\ SameLane(T[p][k], T[q][l])
        => T[p][k].id < T[q][l].id
    <3>1. p = q /\ k < l => k + m < l + m2
      BY <2>1, <2>2, <2>3
    <3>2. QED BY <3>1, <2>3 DEF Good, Ordered
  <2>6. T[p][k].id <= n
    BY <2>3 DEF Good, UpTo
  <2>7. QED BY <2>4, <2>5, <2>6
<1>4. Once(T)
  BY <1>3 DEF Once
<1>5. Ordered(T)
  BY <1>3 DEF Ordered
<1>6. UpTo(T, n)
  BY <1>3 DEF UpTo
<1>7. QED BY <1>2, <1>4, <1>5, <1>6 DEF Good

\* A frame is added behind the others of a place.
LEMMA AppendGood ==
  ASSUME NEW R, NEW n \in Nat, Good(R, n), NEW q \in Places, NEW g \in Frame, Home(g, q), g.id <= n,
         NEW T \in Stores, T[q] = Append(R[q], g), \A p \in Places \ {q} : T[p] = R[p],
         \A p \in Places : \A k \in 1 .. Len(R[p]) :
           /\ R[p][k].id # g.id
           /\ (Rank(p) < Rank(q) \/ p = q) /\ SameLane(R[p][k], g) => R[p][k].id < g.id
           /\ Rank(q) < Rank(p) /\ SameLane(g, R[p][k]) => g.id < R[p][k].id
  PROVE  Good(T, n)
<1> DEFINE z == Len(R[q]) + 1
<1>1. R \in Stores /\ R[q] \in Seq(Frame) /\ Len(R[q]) \in Nat
  BY LenProperties DEF Good, Stores
<1>2. /\ T[q] \in Seq(Frame) /\ Len(T[q]) = z /\ T[q][z] = g
      /\ \A k \in 1 .. Len(R[q]) : T[q][k] = R[q][k]
  BY <1>1, AppendProperties
<1>3. z \in Nat /\ 1 .. z = 1 .. Len(R[q]) \union {z} /\ \A k \in 1 .. Len(R[q]) : k < z
  BY <1>1
<1> HIDE DEF z
<1>4. \A p \in Places : \A k \in 1 .. Len(T[p]) :
        \/ k \in 1 .. Len(R[p]) /\ T[p][k] = R[p][k] /\ (p = q => k < z)
        \/ p = q /\ k = z /\ T[p][k] = g
  BY <1>2, <1>3
<1>5. Homes(T)
  BY <1>4 DEF Good, Homes
<1>6. UpTo(T, n)
  BY <1>4 DEF Good, UpTo
<1>7. Once(T)
  <2> SUFFICES ASSUME NEW p \in Places, NEW r \in Places, NEW k \in 1 .. Len(T[p]),
                      NEW l \in 1 .. Len(T[r]), T[p][k].id = T[r][l].id
               PROVE  p = r /\ k = l
    BY DEF Once
  <2>1. CASE k \in 1 .. Len(R[p]) /\ T[p][k] = R[p][k] /\ l \in 1 .. Len(R[r]) /\ T[r][l] = R[r][l]
    BY <2>1 DEF Good, Once
  <2>2. CASE k \in 1 .. Len(R[p]) /\ T[p][k] = R[p][k] /\ r = q /\ l = z /\ T[r][l] = g
    BY <2>2
  <2>3. CASE p = q /\ k = z /\ T[p][k] = g /\ l \in 1 .. Len(R[r]) /\ T[r][l] = R[r][l]
    BY <2>3
  <2>4. CASE p = q /\ k = z /\ r = q /\ l = z
    BY <2>4
  <2>5. QED BY <2>1, <2>2, <2>3, <2>4, <1>4
<1>8. Ordered(T)
  <2> SUFFICES ASSUME NEW p \in Places, NEW r \in Places, NEW k \in 1 .. Len(T[p]),
                      NEW l \in 1 .. Len(T[r]), Rank(p) < Rank(r) \/ (p = r /\ k < l),
                      SameLane(T[p][k], T[r][l])
               PROVE  T[p][k].id < T[r][l].id
    BY DEF Ordered
  <2>1. CASE k \in 1 .. Len(R[p]) /\ T[p][k] = R[p][k] /\ l \in 1 .. Len(R[r]) /\ T[r][l] = R[r][l]
    BY <2>1 DEF Good, Ordered
  <2>2. CASE k \in 1 .. Len(R[p]) /\ T[p][k] = R[p][k] /\ r = q /\ l = z /\ T[r][l] = g
    BY <2>2
  <2>3. CASE p = q /\ k = z /\ T[p][k] = g /\ l \in 1 .. Len(R[r]) /\ T[r][l] = R[r][l]
              /\ (r = q => l < z)
    <3>1. ~(p = r /\ k < l)
      <4>1. SUFFICES ASSUME p = r, k < l PROVE FALSE
        OBVIOUS
      <4>2. l < z /\ k = z /\ l \in Nat
        BY <4>1, <2>3, <1>1
      <4>3. QED BY <4>1, <4>2, <1>3
    <3>2. QED BY <2>3, <3>1
  <2>4. CASE p = q /\ k = z /\ r = q /\ l = z
    <3>1. Rank(q) \in Nat
      BY PlacesAre
    <3>2. QED BY <2>4, <3>1, <1>3
  <2>5. QED BY <2>1, <2>2, <2>3, <2>4, <1>4
<1>9. QED BY <1>5, <1>6, <1>7, <1>8 DEF Good

\* The first frame of a place goes to a place of the next rank; it may get the number
\* of its connection on the way.
LEMMA MoveGood ==
  ASSUME NEW S, NEW n \in Nat, Good(S, n), NEW p \in Places, NEW q \in Places,
         Rank(p) = Rank(q) + 1, S[p] # <<>>, NEW g \in Frame, Home(g, q),
         g.id = Head(S[p]).id, g.from = Head(S[p]).from, g.to = Head(S[p]).to,
         g.conn = Head(S[p]).conn \/ p.stage = "taken",
         NEW T \in Stores, T[p] = Tail(S[p]), T[q] = Append(S[q], g),
         \A r \in Places \ {p, q} : T[r] = S[r]
  PROVE  Good(T, n)
<1> DEFINE R == [S EXCEPT ![p] = Tail(@)]
           f == Head(S[p])
<1>1. /\ S \in Stores /\ S[p] \in Seq(Frame) /\ Len(S[p]) \in Nat \ {0}
      /\ Rank(p) \in Nat /\ Rank(q) \in Nat
  BY LenProperties, EmptySeq, PlacesAre DEF Good, Stores
<1>2. /\ f \in Frame /\ Tail(S[p]) \in Seq(Frame) /\ f = S[p][1] /\ 1 \in 1 .. Len(S[p])
      /\ Len(Tail(S[p])) = Len(S[p]) - 1
      /\ \A k \in 1 .. Len(Tail(S[p])) : Tail(S[p])[k] = S[p][k + 1]
  BY <1>1, HeadTailProperties
<1>3. R \in Stores /\ R[p] = Tail(S[p]) /\ \A r \in Places \ {p} : R[r] = S[r]
  BY <1>1, <1>2 DEF Stores
<1>4. T[q] = Append(R[q], g) /\ \A r \in Places \ {q} : T[r] = R[r]
  BY <1>1, <1>3
<1>5. f.id = g.id /\ f.from = g.from /\ f.to = g.to /\ (f.conn = g.conn \/ p.stage = "taken")
  OBVIOUS
<1>6. Home(f, p) /\ g.id <= n
  BY <1>2, <1>5 DEF Good, Homes, UpTo
<1> HIDE DEF R, f
<1>7. Within(R, S)
  BY <1>1, <1>2, <1>3, RestOf DEF Within
<1>8. Good(R, n)
  BY <1>3, <1>7, WithinGood
<1>9. \A r \in Places : \A k \in 1 .. Len(R[r]) :
        \E l \in 1 .. Len(S[r]) : R[r][k] = S[r][l] /\ (r = p => l > 1)
  <2> SUFFICES ASSUME NEW r \in Places, NEW k \in 1 .. Len(R[r])
               PROVE  \E l \in 1 .. Len(S[r]) : R[r][k] = S[r][l] /\ (r = p => l > 1)
    OBVIOUS
  <2>1. CASE r = p
    <3>1. k + 1 \in 1 .. Len(S[p]) /\ R[p][k] = S[p][k + 1] /\ k + 1 > 1
      BY <2>1, <1>1, <1>2, <1>3
    <3>2. QED BY <2>1, <3>1
  <2>2. CASE r # p
    BY <2>2, <1>3
  <2>3. QED BY <2>1, <2>2
<1>10. ASSUME NEW r \in Places, NEW k \in 1 .. Len(R[r])
       PROVE  /\ R[r][k].id # g.id
              /\ (Rank(r) < Rank(q) \/ r = q) /\ SameLane(R[r][k], g) => R[r][k].id < g.id
              /\ Rank(q) < Rank(r) /\ SameLane(g, R[r][k]) => g.id < R[r][k].id
  <2>1. PICK l \in 1 .. Len(S[r]) : R[r][k] = S[r][l] /\ (r = p => l > 1)
    BY <1>9
  <2> DEFINE x == S[r][l]
  <2>2. R[r][k] = x /\ Home(x, r) /\ Rank(r) \in Nat
    BY <2>1, PlacesAre DEF Good, Homes
  <2>3. x.id # g.id
    BY <2>1, <1>2, <1>5 DEF Good, Once
  <2>4. ASSUME Rank(r) < Rank(q) \/ r = q, SameLane(x, g)
        PROVE  x.id < g.id
    <3>1. Rank(r) < Rank(p)
      BY <2>2, <2>4, <1>1
    <3>2. SameLane(x, f)
      BY <2>4, <1>5, <1>6 DEF SameLane, Home
    <3>3. QED BY <3>1, <3>2, <1>2, <1>5, <2>1 DEF Good, Ordered
  <2>5. ASSUME Rank(q) < Rank(r), SameLane(g, x)
        PROVE  g.id < x.id
    <3>1. Rank(p) <= Rank(r) /\ Rank(r) # 0 /\ Rank(p) # 0
      BY <2>2, <2>5, <1>1
    <3>2. SameLane(f, x)
      <4>1. CASE f.conn = g.conn
        BY <4>1, <2>5, <1>5 DEF SameLane
      <4>2. CASE p.stage = "taken"
        <5>1. Rank(p) = 3
          BY <4>2, StageRanks, PlacesAre
        <5>2. r.stage \in {"queue", "taken"}
          BY <3>1, <5>1, StageRanks, PlacesAre
        <5>3. x.conn = 0
          BY <5>2, <2>2 DEF Home
        <5>4. QED BY <5>3, <2>5, <1>5 DEF SameLane
      <4>3. QED BY <4>1, <4>2, <1>5
    <3>3. Rank(p) < Rank(r) \/ (p = r /\ 1 < l)
      <4>1. CASE Rank(p) < Rank(r)
        BY <4>1
      <4>2. CASE Rank(p) = Rank(r)
        <5>1. p = r
          BY <4>2, <3>1, <3>2, <1>6, <2>2, SameRank
        <5>2. QED BY <5>1, <2>1
      <4>3. QED BY <4>1, <4>2, <3>1, <2>2, <1>1
    <3>4. f.id < x.id
      BY <3>2, <3>3, <1>2, <2>1 DEF Good, Ordered
    <3>5. QED BY <3>4, <1>5
  <2>6. QED BY <2>2, <2>3, <2>4, <2>5
<1>11. QED BY <1>4, <1>6, <1>8, <1>10, AppendGood

-----------------------------------------------------------------------------
(* The store of the federation.                                            *)

TakenBy(f) == IF f = NoFrame THEN <<>> ELSE <<f>>

FramesAt(p, qs, cs, us, ds, h) ==
  CASE p.stage = "queue" -> qs[p.who]
    [] p.stage = "taken" -> TakenBy(cs[p.who].taken)
    [] p.stage = "up" -> us[p.who][p.conn]
    [] p.stage = "down" -> ds[p.who]
    [] p.stage = "handled" -> h

StoreOf(qs, cs, us, ds, h) == [p \in Places |-> FramesAt(p, qs, cs, us, ds, h)]

Store == StoreOf(queue, client, up, down, handled)

\* What is where in a store S of these queues, clients and connections.
Holds(S, qs, cs, us, ds, h) ==
  /\ S \in Stores
  /\ \A i \in Instances :
       /\ S[Queued(i)] = qs[i] /\ S[Passed(i)] = ds[i]
       /\ S[Taken(i)] = TakenBy(cs[i].taken)
       /\ \A c \in Conns : S[OnWire(i, c)] = us[i][c]
  /\ S[AtEnd] = h

LEMMA StoreHolds ==
  ASSUME NEW qs \in [Instances -> Seq(Frame)], NEW cs \in [Instances -> ClientRecord],
         NEW us \in [Instances -> [Conns -> Seq(Frame)]], NEW ds \in [Instances -> Seq(Frame)],
         NEW h \in Seq(Frame)
  PROVE  Holds(StoreOf(qs, cs, us, ds, h), qs, cs, us, ds, h)
<1> DEFINE S == StoreOf(qs, cs, us, ds, h)
<1>1. ASSUME NEW i \in Instances
      PROVE  /\ S[Queued(i)] = qs[i] /\ S[Passed(i)] = ds[i]
             /\ S[Taken(i)] = TakenBy(cs[i].taken)
  <2>1. Queued(i) \in Places /\ Taken(i) \in Places /\ Passed(i) \in Places
    BY StageRanks DEF Places
  <2>2. S[Queued(i)] = qs[i]
    BY <2>1, StageRanks DEF StoreOf, FramesAt
  <2>3. S[Passed(i)] = ds[i]
    BY <2>1, StageRanks DEF StoreOf, FramesAt
  <2>4. S[Taken(i)] = TakenBy(cs[i].taken)
    BY <2>1, StageRanks DEF StoreOf, FramesAt
  <2>5. QED BY <2>2, <2>3, <2>4
<1>2. ASSUME NEW i \in Instances, NEW c \in Conns
      PROVE  S[OnWire(i, c)] = us[i][c]
  BY StageRanks DEF StoreOf, FramesAt, Places
<1>3. S[AtEnd] = h
  BY StageRanks DEF StoreOf, FramesAt
<1>4. S \in Stores
  <2>1. ASSUME NEW p \in Places
        PROVE  S[p] \in Seq(Frame)
    <3>1. ASSUME NEW i \in Instances, p = Queued(i) \/ p = Passed(i)
          PROVE  S[p] \in Seq(Frame)
      BY <1>1, <3>1
    <3>2. ASSUME NEW i \in Instances, p = Taken(i)
          PROVE  S[p] \in Seq(Frame)
      <4>1. cs[i].taken \in Frame \union {NoFrame}
        BY DEF ClientRecord
      <4>2. CASE cs[i].taken = NoFrame
        BY <1>1, <3>2, <4>2, EmptySeq DEF TakenBy
      <4>3. CASE cs[i].taken # NoFrame
        <5>1. <<cs[i].taken>> \in Seq(Frame)
          BY <4>1, <4>3
        <5>2. QED BY <1>1, <3>2, <4>3, <5>1 DEF TakenBy
      <4>4. QED BY <4>2, <4>3
    <3>3. ASSUME NEW i \in Instances, NEW c \in Conns, p = OnWire(i, c)
          PROVE  S[p] \in Seq(Frame)
      BY <1>2, <3>3
    <3>4. CASE p = AtEnd
      BY <1>3, <3>4
    <3>5. QED BY <3>1, <3>2, <3>3, <3>4, PlacesAre
  <2>2. QED BY <2>1 DEF StoreOf, Stores
<1> HIDE DEF S
<1>5. QED BY <1>1, <1>2, <1>3, <1>4 DEF Holds, S

LEMMA StoreIs ==
  ASSUME FederationOK
  PROVE  Holds(Store, queue, client, up, down, handled)
BY StoreHolds DEF FederationOK, Ranges, Store

LEMMA StoreNext ==
  ASSUME FederationOK'
  PROVE  Holds(Store', queue', client', up', down', handled')
BY StoreHolds DEF FederationOK, Ranges, Store

\* What is at a place stays there if the part of the state it stands for does.
LEMMA SameStore ==
  ASSUME FederationOK, FederationOK', NEW r \in Places,
         \A j \in Instances :
           /\ r = Queued(j) => queue'[j] = queue[j]
           /\ r = Taken(j) => client'[j].taken = client[j].taken
           /\ r = Passed(j) => down'[j] = down[j]
           /\ \A k \in Conns : r = OnWire(j, k) => up'[j][k] = up[j][k],
         r = AtEnd => handled' = handled
  PROVE  Store'[r] = Store[r]
<1>1. Holds(Store, queue, client, up, down, handled)
  BY StoreIs
<1>2. Holds(Store', queue', client', up', down', handled')
  BY StoreNext
<1>3. ASSUME NEW j \in Instances, r = Queued(j)
      PROVE  Store'[r] = Store[r]
  BY <1>1, <1>2, <1>3 DEF Holds
<1>4. ASSUME NEW j \in Instances, r = Taken(j)
      PROVE  Store'[r] = Store[r]
  BY <1>1, <1>2, <1>4 DEF Holds
<1>5. ASSUME NEW j \in Instances, r = Passed(j)
      PROVE  Store'[r] = Store[r]
  BY <1>1, <1>2, <1>5 DEF Holds
<1>6. ASSUME NEW j \in Instances, NEW k \in Conns, r = OnWire(j, k)
      PROVE  Store'[r] = Store[r]
  BY <1>1, <1>2, <1>6 DEF Holds
<1>7. CASE r = AtEnd
  BY <1>1, <1>2, <1>7 DEF Holds
<1>8. QED BY <1>3, <1>4, <1>5, <1>6, <1>7, PlacesAre

FederationInv == FederationOK /\ Good(Store, frames)

\* What a step may do to a store: lose frames, move one, or add one.
Loses(T, S) == Within(T, S) /\ T[AtEnd] = S[AtEnd]

Moves(T, S, p, q, g) ==
  /\ Rank(p) = Rank(q) + 1 /\ S[p] # <<>> /\ Home(g, q)
  /\ g.id = Head(S[p]).id /\ g.from = Head(S[p]).from /\ g.to = Head(S[p]).to
  /\ g.conn = Head(S[p]).conn \/ p.stage = "taken"
  /\ T[p] = Tail(S[p]) /\ T[q] = Append(S[q], g)
  /\ \A r \in Places \ {p, q} : T[r] = S[r]

Adds(T, S, q, g) ==
  /\ q.stage = "queue" /\ q \in OnTheWay /\ Home(g, q)
  /\ T[q] = Append(S[q], g)
  /\ \A r \in Places \ {q} : T[r] = S[r]

StoreStep ==
  \/ Loses(Store', Store) /\ frames' = frames
  \/ \E p, q \in Places, g \in Frame : Moves(Store', Store, p, q, g) /\ frames' = frames
  \/ \E q \in Places, g \in Frame :
       Adds(Store', Store, q, g) /\ frames' = frames + 1 /\ g.id = frames'

-----------------------------------------------------------------------------
(* What each step does to the store.                                       *)

Shorter(t, s) == t = s \/ t = <<>> \/ (s # <<>> /\ t = Tail(s))

LEMMA LosesIs ==
  ASSUME FederationOK, FederationOK',
         \A i \in Instances :
           /\ Shorter(queue'[i], queue[i]) /\ Shorter(down'[i], down[i])
           /\ client'[i].taken \in {client[i].taken, NoFrame}
           /\ \A c \in Conns : Shorter(up'[i][c], up[i][c]),
         handled' = handled
  PROVE  Loses(Store', Store)
<1>1. /\ Holds(Store, queue, client, up, down, handled)
      /\ Holds(Store', queue', client', up', down', handled')
  BY StoreIs, StoreNext
<1>2. Store \in Stores /\ Store' \in Stores /\ Store'[AtEnd] = Store[AtEnd]
  BY <1>1 DEF Holds
<1>3. ASSUME NEW p \in Places
      PROVE  Shorter(Store'[p], Store[p])
  <2>0. ASSUME NEW i \in Instances, p = Queued(i)
        PROVE  Shorter(Store'[p], Store[p])
    BY <1>1, <2>0 DEF Holds
  <2>1. ASSUME NEW i \in Instances, p = Passed(i)
        PROVE  Shorter(Store'[p], Store[p])
    BY <1>1, <2>1 DEF Holds
  <2>2. ASSUME NEW i \in Instances, p = Taken(i)
        PROVE  Shorter(Store'[p], Store[p])
    <3>1. Store[p] = TakenBy(client[i].taken) /\ Store'[p] = TakenBy(client'[i].taken)
      BY <1>1, <2>2 DEF Holds
    <3>2. TakenBy(NoFrame) = <<>>
      BY DEF TakenBy
    <3>3. QED BY <3>1, <3>2 DEF Shorter
  <2>3. ASSUME NEW i \in Instances, NEW c \in Conns, p = OnWire(i, c)
        PROVE  Shorter(Store'[p], Store[p])
    BY <1>1, <2>3 DEF Holds
  <2>4. CASE p = AtEnd
    BY <1>2, <2>4 DEF Shorter
  <2>5. QED BY <2>0, <2>1, <2>2, <2>3, <2>4, PlacesAre
<1>4. Within(Store', Store)
  BY <1>2, <1>3, RestOf DEF Within, Shorter
<1>5. QED BY <1>2, <1>4 DEF Loses

\* Steps of the connections, with what they lose.
LEMMA QuietLoses ==
  ASSUME FederationOK, FederationOK', NEW i \in Instances,
         \/ Start(i) \/ Connect(i) \/ Authenticated(i) \/ GetThread(i)
         \/ \E c \in Conns : Register(i, c)
  PROVE  Loses(Store', Store)
<1>1. UNCHANGED <<queue, up, down, handled>>
  BY DEF Start, Connect, Authenticated, GetThread, Register, relay, clients
<1>2. \A j \in Instances : client'[j].taken \in {client[j].taken, NoFrame}
  <2> SUFFICES ASSUME NEW j \in Instances
               PROVE  client'[j].taken \in {client[j].taken, NoFrame}
    OBVIOUS
  <2>1. CASE Start(i) \/ Authenticated(i) \/ GetThread(i)
    <3>1. PICK pc \in {"down", "up"}, s \in {"none", "wait", "get"} : Goes(i, pc, s, NoFrame)
      BY <2>1 DEF Start, Authenticated, GetThread
    <3>2. /\ client'[i] = [at |-> pc, conn |-> client[i].conn, sender |-> s, taken |-> NoFrame]
          /\ \A k \in Instances \ {i} : client'[k] = client[k]
      BY <3>1, GoesIs
    <3>3. QED BY <3>2
  <2>2. CASE Connect(i)
    <3>1. client' = [client EXCEPT ![i].at = "auth", ![i].conn = client[i].conn + 1]
          /\ client \in [Instances -> ClientRecord]
      BY <2>2 DEF Connect, FederationOK, Ranges, ClientRecord
    <3>2. client'[j].taken = client[j].taken
      BY <3>1 DEF ClientRecord
    <3>3. QED BY <3>2
  <2>3. CASE \E c \in Conns : Register(i, c)
    BY <2>3 DEF Register, clients
  <2>4. QED BY <2>1, <2>2, <2>3
<1>3. QED BY <1>1, <1>2, LosesIs DEF Shorter

LEMMA EndLoses ==
  ASSUME FederationOK, FederationOK', NEW i \in Instances, Lose(i) \/ HandleFails(i)
  PROVE  Loses(Store', Store)
<1>1. /\ Disconnect(i) /\ down' = [down EXCEPT ![i] = <<>>]
      /\ UNCHANGED <<queue, up, handled>>
  BY DEF Lose, HandleFails, relay
<1>2. client'[i].taken = NoFrame /\ \A k \in Instances \ {i} : client'[k] = client[k]
  <2>1. /\ client'[i] = [at |-> "down", conn |-> client[i].conn, sender |-> "none",
                         taken |-> NoFrame]
        /\ \A k \in Instances \ {i} : client'[k] = client[k]
    BY <1>1, GoesIs DEF Disconnect
  <2>2. QED BY <2>1
<1>3. \A k \in Instances : Shorter(down'[k], down[k])
  BY <1>1 DEF Shorter, FederationOK, Ranges
<1>4. QED BY <1>1, <1>2, <1>3, LosesIs DEF Shorter

LEMMA StaleGetLoses ==
  ASSUME FederationOK, FederationOK', NEW i \in Instances, StaleGet(i)
  PROVE  Loses(Store', Store)
<1>1. /\ UNCHANGED <<client, up, down, handled>>
      /\ queue[i] # <<>> /\ queue' = [queue EXCEPT ![i] = Tail(@)]
  BY DEF StaleGet, relay
<1>2. \A k \in Instances : Shorter(queue'[k], queue[k])
  BY <1>1 DEF Shorter, FederationOK, Ranges
<1>3. QED BY <1>1, <1>2, LosesIs DEF Shorter

LEMMA ReadLoses ==
  ASSUME FederationOK, FederationOK', NEW i \in Instances, NEW c \in Conns,
         \/ RefuseFrame(i, c) \/ EndHandler(i, c)
         \/ HandleFrame(i, c) /\ UNCHANGED down
  PROVE  Loses(Store', Store)
<1>1. UNCHANGED <<queue, client, down, handled>>
  BY DEF RefuseFrame, EndHandler, HandleFrame, clients
<1>2. \/ up[i][c] # <<>> /\ up' = [up EXCEPT ![i][c] = Tail(@)]
      \/ up' = [up EXCEPT ![i][c] = <<>>]
  BY DEF RefuseFrame, EndHandler, HandleFrame, Shift
<1>3. ASSUME NEW j \in Instances, NEW k \in Conns
      PROVE  Shorter(up'[j][k], up[j][k])
  <2>1. up \in [Instances -> [Conns -> Seq(Frame)]]
    BY DEF FederationOK, Ranges
  <2>2. CASE up[i][c] # <<>> /\ up' = [up EXCEPT ![i][c] = Tail(@)]
    <3>1. <<j, k>> # <<i, c>> => up'[j][k] = up[j][k]
      BY <2>1, <2>2
    <3>2. up'[i][c] = Tail(up[i][c])
      BY <2>1, <2>2
    <3>3. QED BY <2>2, <3>1, <3>2 DEF Shorter
  <2>3. CASE up' = [up EXCEPT ![i][c] = <<>>]
    <3>1. <<j, k>> # <<i, c>> => up'[j][k] = up[j][k]
      BY <2>1, <2>3
    <3>2. up'[i][c] = <<>>
      BY <2>1, <2>3
    <3>3. QED BY <3>1, <3>2 DEF Shorter
  <2>4. QED BY <1>2, <2>2, <2>3
<1>4. QED BY <1>1, <1>3, LosesIs DEF Shorter

LEMMA GetMoves ==
  ASSUME FederationInv, FederationOK', NEW i \in Instances, Get(i)
  PROVE  \E g \in Frame : Moves(Store', Store, Queued(i), Taken(i), g)
<1> DEFINE g == Head(queue[i])
           p == Queued(i)
           q == Taken(i)
<1>1. /\ Holds(Store, queue, client, up, down, handled)
      /\ Holds(Store', queue', client', up', down', handled')
  BY StoreIs, StoreNext DEF FederationInv
<1>2. /\ client[i].sender = "get" /\ queue[i] # <<>> /\ Goes(i, "up", "send", g)
      /\ queue' = [queue EXCEPT ![i] = Tail(@)] /\ UNCHANGED <<up, down, handled>>
      /\ queue[i] \in Seq(Frame)
  BY DEF Get, relay, FederationInv, FederationOK, Ranges
<1>3. g \in Frame /\ g = queue[i][1] /\ 1 \in 1 .. Len(queue[i])
  BY <1>2, HeadTailProperties, EmptySeq, LenProperties
<1>4. /\ client'[i].taken = g /\ client[i].taken = NoFrame
      /\ \A k \in Instances \ {i} : client'[k] = client[k]
      /\ g # NoFrame
  <2>1. /\ client'[i] = [at |-> "up", conn |-> client[i].conn, sender |-> "send", taken |-> g]
        /\ \A k \in Instances \ {i} : client'[k] = client[k]
    BY <1>2, <1>3, GoesIs DEF FederationInv
  <2>2. client[i].taken = NoFrame
    BY <1>2 DEF FederationInv, FederationOK, InstanceOK
  <2>3. QED BY <1>3, <2>1, <2>2, ConnsAre
<1>5. /\ queue'[i] = Tail(queue[i]) /\ \A k \in Instances \ {i} : queue'[k] = queue[k]
  BY <1>2 DEF FederationInv, FederationOK, Ranges
<1>6. p \in Places /\ q \in Places /\ Rank(p) = Rank(q) + 1
  BY StageRanks DEF Places
<1>7. Store[p] = queue[i] /\ Store'[p] = Tail(queue[i])
  BY <1>1, <1>5 DEF Holds
<1>8. Store[q] = <<>> /\ Store'[q] = <<g>>
  BY <1>1, <1>4 DEF Holds, TakenBy
<1>9. Home(g, p)
  BY <1>3, <1>6, <1>7 DEF FederationInv, Good, Homes
<1>10. Home(g, q)
  BY <1>9, StageRanks DEF Home
<1>11. ASSUME NEW r \in Places, r # p, r # q
       PROVE  Store'[r] = Store[r]
  <2>1. ASSUME NEW j \in Instances
        PROVE  /\ r = Queued(j) => queue'[j] = queue[j]
               /\ r = Taken(j) => client'[j].taken = client[j].taken
               /\ r = Passed(j) => down'[j] = down[j]
    BY <1>2, <1>4, <1>5, <1>11
  <2>2. ASSUME NEW j \in Instances, NEW k \in Conns, r = OnWire(j, k)
        PROVE  up'[j][k] = up[j][k]
    BY <1>2
  <2>3. QED BY <1>2, <2>1, <2>2, SameStore DEF FederationInv
<1>12. <<g>> = Append(<<>>, g)
  OBVIOUS
<1> HIDE DEF g, p, q
<1>13. Moves(Store', Store, p, q, g)
  BY <1>2, <1>6, <1>7, <1>8, <1>10, <1>11, <1>12 DEF Moves, g
<1>14. QED BY <1>3, <1>13 DEF p, q

LEMMA SendGone ==
  ASSUME FederationOK, FederationOK', NEW i \in Instances, Send(i), Conn(i) \notin open[i]
  PROVE  Loses(Store', Store)
<1>1. UNCHANGED <<queue, up, down, handled>> /\ Goes(i, "up", "wait", NoFrame)
  BY DEF Send
<1>2. \A j \in Instances : client'[j].taken \in {client[j].taken, NoFrame}
  <2>1. /\ client'[i] = [at |-> "up", conn |-> client[i].conn, sender |-> "wait",
                         taken |-> NoFrame]
        /\ \A k \in Instances \ {i} : client'[k] = client[k]
    BY <1>1, GoesIs
  <2>2. client'[i].taken = NoFrame
    BY <2>1
  <2>3. QED BY <2>1, <2>2
<1>3. QED BY <1>1, <1>2, LosesIs DEF Shorter

LEMMA SendMoves ==
  ASSUME FederationInv, FederationOK', NEW i \in Instances, Send(i), Conn(i) \in open[i]
  PROVE  \E g \in Frame : Moves(Store', Store, Taken(i), OnWire(i, client[i].conn), g)
<1> DEFINE f == client[i].taken
           c == client[i].conn
           g == [f EXCEPT !.conn = c]
           p == Taken(i)
           q == OnWire(i, c)
<1>1. /\ Holds(Store, queue, client, up, down, handled)
      /\ Holds(Store', queue', client', up', down', handled')
  BY StoreIs, StoreNext DEF FederationInv
<1>2. f \in Frame /\ c \in Conns /\ g \in Frame
  BY SentIs DEF FederationInv
<1>3. /\ Goes(i, "up", "wait", NoFrame)
      /\ up' = [up EXCEPT ![i][c] = Append(@, g)] /\ UNCHANGED <<queue, down, handled>>
  BY DEF Send, Conn
<1>4. g.id = f.id /\ g.from = f.from /\ g.to = f.to /\ g.conn = c
  BY <1>2 DEF Frame
<1>5. f # NoFrame /\ c # 0
  BY <1>2, ConnsAre
<1>6. client'[i].taken = NoFrame /\ \A k \in Instances \ {i} : client'[k] = client[k]
  <2>1. /\ client'[i] = [at |-> "up", conn |-> client[i].conn, sender |-> "wait",
                         taken |-> NoFrame]
        /\ \A k \in Instances \ {i} : client'[k] = client[k]
    BY <1>3, GoesIs DEF FederationInv
  <2>2. QED BY <2>1
<1> HIDE DEF g
<1>7. /\ up'[i][c] = Append(up[i][c], g)
      /\ \A j \in Instances, k \in Conns : <<j, k>> # <<i, c>> => up'[j][k] = up[j][k]
  BY <1>2, <1>3 DEF FederationInv, FederationOK, Ranges
<1>8. p \in Places /\ q \in Places /\ Rank(p) = Rank(q) + 1
  BY <1>2, StageRanks DEF Places
<1>9. Store[p] = <<f>> /\ Store'[p] = <<>>
  BY <1>1, <1>5, <1>6 DEF Holds, TakenBy
<1>10. Store[q] = up[i][c] /\ Store'[q] = Append(up[i][c], g)
  BY <1>1, <1>2, <1>7 DEF Holds
<1>11. Len(Store[p]) = 1 /\ Store[p][1] = f /\ Head(Store[p]) = f /\ Store[p] # <<>>
       /\ Tail(Store[p]) = <<>>
  BY <1>9
<1>12. Home(f, p)
  BY <1>8, <1>11 DEF FederationInv, Good, Homes
<1>13. Home(g, q)
  BY <1>2, <1>4, <1>5, <1>12, StageRanks DEF Home
<1>14. ASSUME NEW r \in Places, r # p, r # q
       PROVE  Store'[r] = Store[r]
  <2>1. ASSUME NEW j \in Instances
        PROVE  /\ r = Queued(j) => queue'[j] = queue[j]
               /\ r = Taken(j) => client'[j].taken = client[j].taken
               /\ r = Passed(j) => down'[j] = down[j]
    BY <1>3, <1>6, <1>14
  <2>2. ASSUME NEW j \in Instances, NEW k \in Conns, r = OnWire(j, k)
        PROVE  up'[j][k] = up[j][k]
    BY <1>7, <1>14, <2>2
  <2>3. QED BY <1>3, <2>1, <2>2, SameStore DEF FederationInv
<1>15. p.stage = "taken"
  BY StageRanks
<1> HIDE DEF p, q, f, c
<1>16. Moves(Store', Store, p, q, g)
  BY <1>4, <1>8, <1>9, <1>10, <1>11, <1>13, <1>14, <1>15 DEF Moves
<1>17. QED BY <1>2, <1>16 DEF p, q, c

LEMMA HandleFrameMoves ==
  ASSUME FederationInv, FederationOK', NEW i \in Instances, NEW c \in Conns, HandleFrame(i, c),
         down' # down
  PROVE  \E j \in Instances, g \in Frame :
           Moves(Store', Store, OnWire(i, c), Passed(j), g)
<1> DEFINE g == Head(up[i][c])
           t == g.to
           p == OnWire(i, c)
           q == Passed(t)
<1>1. /\ Holds(Store, queue, client, up, down, handled)
      /\ Holds(Store', queue', client', up', down', handled')
  BY StoreIs, StoreNext DEF FederationInv
<1>2. /\ up[i][c] # <<>> /\ up' = [up EXCEPT ![i][c] = Tail(@)]
      /\ down' = [down EXCEPT ![t] = Append(@, g)]
      /\ UNCHANGED <<queue, client, handled>> /\ up[i][c] \in Seq(Frame)
  BY DEF HandleFrame, Shift, InTurn, clients, FederationInv, FederationOK, Ranges
<1>3. g \in Frame /\ g = up[i][c][1] /\ 1 \in 1 .. Len(up[i][c])
  <2> DEFINE w == up[i][c]
  <2>1. w \in Seq(Frame) /\ w # <<>>
    BY <1>2
  <2> HIDE DEF w
  <2>2. Head(w) \in Frame /\ Head(w) = w[1] /\ 1 \in 1 .. Len(w)
    BY <2>1, HeadTailProperties, EmptySeq, LenProperties
  <2>3. QED BY <2>2 DEF w
<1>4. t \in Instances
  BY <1>3, ConnsAre
<1> HIDE DEF t
<1>5. /\ down'[t] = Append(down[t], g) /\ \A k \in Instances \ {t} : down'[k] = down[k]
  BY <1>2, <1>4 DEF FederationInv, FederationOK, Ranges
<1>6. /\ up'[i][c] = Tail(up[i][c])
      /\ \A j \in Instances, k \in Conns : <<j, k>> # <<i, c>> => up'[j][k] = up[j][k]
  BY <1>2, ReadIs DEF FederationInv
<1>7. p \in Places /\ q \in Places /\ Rank(p) = Rank(q) + 1
  BY <1>4, StageRanks DEF Places
<1>8. Store[p] = up[i][c] /\ Store'[p] = Tail(up[i][c])
  BY <1>1, <1>6 DEF Holds
<1>9. Store[q] = down[t] /\ Store'[q] = Append(down[t], g)
  BY <1>1, <1>4, <1>5 DEF Holds
<1>10. Home(g, p)
  BY <1>3, <1>7, <1>8 DEF FederationInv, Good, Homes
<1>11. Home(g, q)
  BY <1>4, <1>10, StageRanks DEF Home, t
<1>12. ASSUME NEW r \in Places, r # p, r # q
       PROVE  Store'[r] = Store[r]
  <2>1. ASSUME NEW j \in Instances
        PROVE  /\ r = Queued(j) => queue'[j] = queue[j]
               /\ r = Taken(j) => client'[j].taken = client[j].taken
               /\ r = Passed(j) => down'[j] = down[j]
    BY <1>2, <1>5, <1>12
  <2>2. ASSUME NEW j \in Instances, NEW k \in Conns, r = OnWire(j, k)
        PROVE  up'[j][k] = up[j][k]
    BY <1>6, <1>12, <2>2
  <2>3. QED BY <1>2, <2>1, <2>2, SameStore DEF FederationInv
<1> HIDE DEF p, q, g
<1>13. g = Head(Store[p]) /\ Store[p] # <<>> /\ Store'[p] = Tail(Store[p])
       /\ Store'[q] = Append(Store[q], g)
  BY <1>2, <1>8, <1>9 DEF g
<1>14. Moves(Store', Store, p, q, g)
  BY <1>7, <1>11, <1>12, <1>13 DEF Moves
<1>15. QED BY <1>3, <1>4, <1>14 DEF p, q

LEMMA HandleMoves ==
  ASSUME FederationInv, FederationOK', NEW i \in Instances, Handle(i)
  PROVE  \E g \in Frame : Moves(Store', Store, Passed(i), AtEnd, g)
<1> DEFINE g == Head(down[i])
           p == Passed(i)
           q == AtEnd
<1>1. /\ Holds(Store, queue, client, up, down, handled)
      /\ Holds(Store', queue', client', up', down', handled')
  BY StoreIs, StoreNext DEF FederationInv
<1>2. /\ down[i] # <<>> /\ down' = [down EXCEPT ![i] = Tail(@)] /\ handled' = Append(handled, g)
      /\ UNCHANGED <<queue, client, up>> /\ down[i] \in Seq(Frame)
  BY DEF Handle, clients, relay, FederationInv, FederationOK, Ranges
<1>3. g \in Frame /\ g = down[i][1] /\ 1 \in 1 .. Len(down[i])
  BY <1>2, HeadTailProperties, EmptySeq, LenProperties
<1>4. /\ down'[i] = Tail(down[i]) /\ \A k \in Instances \ {i} : down'[k] = down[k]
  BY <1>2 DEF FederationInv, FederationOK, Ranges
<1>5. p \in Places /\ q \in Places /\ Rank(p) = Rank(q) + 1
  BY StageRanks DEF Places
<1>6. Store[p] = down[i] /\ Store'[p] = Tail(down[i])
  BY <1>1, <1>4 DEF Holds
<1>7. Store[q] = handled /\ Store'[q] = Append(handled, g)
  BY <1>1, <1>2 DEF Holds
<1>8. Home(g, p)
  BY <1>3, <1>5, <1>6 DEF FederationInv, Good, Homes
<1>9. Home(g, q)
  BY <1>8, StageRanks DEF Home
<1>10. ASSUME NEW r \in Places, r # p, r # q
       PROVE  Store'[r] = Store[r]
  <2>1. ASSUME NEW j \in Instances
        PROVE  /\ r = Queued(j) => queue'[j] = queue[j]
               /\ r = Taken(j) => client'[j].taken = client[j].taken
               /\ r = Passed(j) => down'[j] = down[j]
    BY <1>2, <1>4, <1>10
  <2>2. ASSUME NEW j \in Instances, NEW k \in Conns, r = OnWire(j, k)
        PROVE  up'[j][k] = up[j][k]
    BY <1>2
  <2>3. QED BY <1>10, <2>1, <2>2, SameStore DEF FederationInv
<1> HIDE DEF p, q, g
<1>11. g = Head(Store[p]) /\ Store[p] # <<>> /\ Store'[p] = Tail(Store[p])
       /\ Store'[q] = Append(Store[q], g)
  BY <1>2, <1>6, <1>7 DEF g
<1>12. Moves(Store', Store, p, q, g)
  BY <1>5, <1>9, <1>10, <1>11 DEF Moves
<1>13. QED BY <1>3, <1>12 DEF p, q

LEMMA EnqueueFrameAdds ==
  ASSUME FederationInv, FederationOK', NEW i \in Instances, NEW j \in Instances,
         EnqueueFrame(i, j)
  PROVE  \E g \in Frame : Adds(Store', Store, Queued(i), g) /\ g.id = frames'
<1> DEFINE g == [id |-> frames + 1, from |-> i, to |-> j, conn |-> 0]
           q == Queued(i)
<1>1. /\ Holds(Store, queue, client, up, down, handled)
      /\ Holds(Store', queue', client', up', down', handled')
  BY StoreIs, StoreNext DEF FederationInv
<1>2. frames' = frames + 1 /\ g \in Frame
  BY ConnsAre DEF EnqueueFrame, FederationInv, FederationOK, Ranges, Frame
<1>3. /\ queue' = [queue EXCEPT ![i] = Append(@, g)]
      /\ UNCHANGED <<client, up, down, handled>>
  BY <1>2 DEF EnqueueFrame, relay
<1>4. g.from = i /\ g.conn = 0 /\ g.id = frames'
  BY <1>2
<1> HIDE DEF g
<1>5. /\ queue'[i] = Append(queue[i], g) /\ \A k \in Instances \ {i} : queue'[k] = queue[k]
  BY <1>3 DEF FederationInv, FederationOK, Ranges
<1>6. q \in OnTheWay /\ q \in Places /\ q.stage = "queue" /\ Home(g, q)
  BY <1>4, StageRanks DEF Places, Home
<1>7. Store'[q] = Append(Store[q], g)
  BY <1>1, <1>5 DEF Holds
<1>8. ASSUME NEW r \in Places, r # q
      PROVE  Store'[r] = Store[r]
  <2>1. ASSUME NEW e \in Instances
        PROVE  /\ r = Queued(e) => queue'[e] = queue[e]
               /\ r = Taken(e) => client'[e].taken = client[e].taken
               /\ r = Passed(e) => down'[e] = down[e]
    BY <1>3, <1>5, <1>8
  <2>2. ASSUME NEW e \in Instances, NEW k \in Conns, r = OnWire(e, k)
        PROVE  up'[e][k] = up[e][k]
    BY <1>3
  <2>3. QED BY <1>3, <2>1, <2>2, SameStore DEF FederationInv
<1> HIDE DEF q
<1>9. Adds(Store', Store, q, g)
  BY <1>6, <1>7, <1>8 DEF Adds
<1>10. QED BY <1>2, <1>4, <1>9 DEF q

LEMMA StutterLoses ==
  ASSUME FederationOK, UNCHANGED federation
  PROVE  Loses(Store', Store) /\ frames' = frames
<1>1. FederationOK'
  BY FederationStutterOK
<1>2. UNCHANGED <<frames, queue, client, up, down, handled>>
  BY DEF federation, clients, relay
<1>3. QED BY <1>1, <1>2, LosesIs DEF Shorter

LEMMA EveryStoreStep ==
  ASSUME FederationInv, [FederationNext]_federation
  PROVE  FederationOK' /\ StoreStep
<1>1. FederationOK /\ FederationOK'
  BY FederationNextOK DEF FederationInv
<1>2. CASE UNCHANGED federation \/ Rest
  BY <1>1, <1>2, StutterLoses DEF StoreStep, Rest
<1>3. ASSUME NEW i \in Instances,
             \/ Start(i) \/ Connect(i) \/ Authenticated(i) \/ GetThread(i)
             \/ Lose(i) \/ HandleFails(i) \/ StaleGet(i)
             \/ \E c \in Conns : Register(i, c) \/ RefuseFrame(i, c) \/ EndHandler(i, c)
      PROVE  StoreStep
  <2>1. frames' = frames
    BY <1>3 DEF Start, Connect, Authenticated, GetThread, Lose, HandleFails, StaleGet, Register,
                RefuseFrame, EndHandler
  <2>2. QED BY <1>1, <1>3, <2>1, QuietLoses, EndLoses, StaleGetLoses, ReadLoses DEF StoreStep
<1>4. ASSUME NEW i \in Instances, Get(i) \/ Send(i) \/ Handle(i)
      PROVE  StoreStep
  <2>1. frames' = frames
    BY <1>4 DEF Get, Send, Handle
  <2>2. Queued(i) \in Places /\ Taken(i) \in Places /\ Passed(i) \in Places /\ AtEnd \in Places
    BY StageRanks DEF Places
  <2>3. CASE Get(i)
    BY <1>1, <2>1, <2>2, <2>3, GetMoves DEF StoreStep
  <2>4. CASE Send(i)
    <3>1. client[i].conn \in Conns
      BY <1>1, <2>4, SentIs
    <3>2. OnWire(i, client[i].conn) \in Places
      BY <3>1, StageRanks DEF Places
    <3>3. CASE Conn(i) \in open[i]
      BY <1>1, <2>1, <2>2, <2>4, <3>2, <3>3, SendMoves DEF StoreStep
    <3>4. CASE Conn(i) \notin open[i]
      BY <1>1, <2>1, <2>4, <3>4, SendGone DEF StoreStep
    <3>5. QED BY <3>3, <3>4
  <2>5. CASE Handle(i)
    BY <1>1, <2>1, <2>2, <2>5, HandleMoves DEF StoreStep
  <2>6. QED BY <1>4, <2>3, <2>4, <2>5
<1>5. ASSUME NEW i \in Instances, NEW c \in Conns, HandleFrame(i, c)
      PROVE  StoreStep
  <2>1. frames' = frames
    BY <1>5 DEF HandleFrame
  <2>2. CASE down' = down
    BY <1>1, <1>5, <2>1, <2>2, ReadLoses DEF StoreStep
  <2>3. CASE down' # down
    <3>1. PICK j \in Instances, g \in Frame : Moves(Store', Store, OnWire(i, c), Passed(j), g)
      BY <1>1, <1>5, <2>3, HandleFrameMoves
    <3>2. OnWire(i, c) \in Places /\ Passed(j) \in Places
      BY StageRanks DEF Places
    <3>3. QED BY <2>1, <3>1, <3>2 DEF StoreStep
  <2>4. QED BY <2>2, <2>3
<1>6. ASSUME NEW i \in Instances, NEW j \in Instances, EnqueueFrame(i, j)
      PROVE  StoreStep
  <2>1. PICK g \in Frame : Adds(Store', Store, Queued(i), g) /\ g.id = frames'
    BY <1>1, <1>6, EnqueueFrameAdds
  <2>2. frames' = frames + 1 /\ Queued(i) \in Places
    BY <1>6, StageRanks DEF EnqueueFrame, Places
  <2>3. QED BY <2>1, <2>2 DEF StoreStep
<1>7. QED BY <1>1, <1>2, <1>3, <1>4, <1>5, <1>6 DEF FederationNext

-----------------------------------------------------------------------------
(* The invariant of the federation.                                        *)

LEMMA AddsGood ==
  ASSUME FederationInv, FederationOK', NEW q \in Places, NEW g \in Frame,
         Adds(Store', Store, q, g), frames' = frames + 1, g.id = frames'
  PROVE  Good(Store', frames')
<1>1. frames \in Nat /\ frames' \in Nat /\ frames < frames'
  BY DEF FederationInv, FederationOK, Ranges
<1>2. Store \in Stores /\ Store' \in Stores
  BY StoreIs, StoreNext DEF Holds, FederationInv
<1>3. \A p \in Places : \A k \in 1 .. Len(Store[p]) : Store[p][k].id <= frames
  BY DEF FederationInv, Good, UpTo
<1>4. \A p \in Places : \A k \in 1 .. Len(Store[p]) : Store[p][k].id \in Nat
  BY <1>2, ConnsAre, LenProperties, ElementOfSeq DEF Stores
<1>5. Good(Store, frames')
  BY <1>1, <1>3, <1>4 DEF FederationInv, Good, UpTo
<1>6. \A p \in Places : ~(Rank(q) < Rank(p))
  <2>1. Rank(q) = 4
    BY StageRanks, PlacesAre DEF Adds
  <2>2. \A p \in Places : Rank(p) \in Nat /\ Rank(p) <= 4
    BY StageRanks, PlacesAre
  <2>3. QED BY <2>1, <2>2
<1>7. \A p \in Places : \A k \in 1 .. Len(Store[p]) :
        Store[p][k].id # g.id /\ Store[p][k].id < g.id
  BY <1>1, <1>3, <1>4
<1>8. g.id <= frames'
  BY <1>1
<1>9. QED BY <1>1, <1>2, <1>5, <1>6, <1>7, <1>8, AppendGood DEF Adds

LEMMA NextFederationInv == FederationInv /\ [FederationNext]_federation => FederationInv'
<1> SUFFICES ASSUME FederationInv, [FederationNext]_federation PROVE FederationInv'
  OBVIOUS
<1>1. FederationOK' /\ StoreStep
  BY EveryStoreStep
<1>2. Store' \in Stores /\ frames \in Nat
  BY <1>1, StoreNext DEF Holds, FederationInv, FederationOK, Ranges
<1>3. CASE Loses(Store', Store) /\ frames' = frames
  BY <1>1, <1>2, <1>3, WithinGood DEF FederationInv, Loses
<1>4. ASSUME NEW p \in Places, NEW q \in Places, NEW g \in Frame,
             Moves(Store', Store, p, q, g), frames' = frames
      PROVE  Good(Store', frames')
  BY <1>2, <1>4, MoveGood DEF FederationInv, Moves
<1>5. QED BY <1>1, <1>3, <1>4, AddsGood DEF StoreStep, FederationInv

LEMMA InitFederationInv == FederationInit => FederationInv
<1> SUFFICES ASSUME FederationInit PROVE FederationInv
  OBVIOUS
<1>1. FederationOK
  BY FederationInitOK
<1>2. Holds(Store, queue, client, up, down, handled)
  BY <1>1, StoreIs
<1>3. ASSUME NEW p \in Places
      PROVE  Store[p] = <<>>
  <2>1. ASSUME NEW i \in Instances, p = Queued(i) \/ p = Taken(i) \/ p = Passed(i)
        PROVE  Store[p] = <<>>
    <3>1. queue[i] = <<>> /\ down[i] = <<>> /\ client[i].taken = NoFrame
      BY DEF FederationInit
    <3>2. Store[Queued(i)] = <<>> /\ Store[Passed(i)] = <<>>
      BY <1>2, <3>1 DEF Holds
    <3>3. Store[Taken(i)] = <<>>
      BY <1>2, <3>1 DEF Holds, TakenBy
    <3>4. QED BY <2>1, <3>2, <3>3
  <2>2. ASSUME NEW i \in Instances, NEW c \in Conns, p = OnWire(i, c)
        PROVE  Store[p] = <<>>
    BY <1>2, <2>2 DEF Holds, FederationInit
  <2>3. CASE p = AtEnd
    BY <1>2, <2>3 DEF Holds, FederationInit
  <2>4. QED BY <2>1, <2>2, <2>3, PlacesAre
<1>4. \A p \in Places : 1 .. Len(Store[p]) = {}
  BY <1>3
<1>5. Store \in Stores
  BY <1>2 DEF Holds
<1>6. QED BY <1>1, <1>4, <1>5 DEF FederationInv, Good, Homes, Once, Ordered, UpTo

LEMMA FederationInvariance == FederationSpec => []FederationInv
BY InitFederationInv, NextFederationInv, PTL DEF FederationSpec

\* Every reachable state of the federation is well typed: no queue outgrows its limit,
\* and the relay maps an instance only to a connection that has authenticated.
THEOREM FederationTypeCorrect == FederationSpec => []FederationTypeOK
<1>1. FederationInv => FederationTypeOK
  BY FederationTypes DEF FederationInv
<1>2. QED BY FederationInvariance, <1>1, PTL

\* However many connections break, the end of each costs the client at most one of the
\* frames it has taken from its queue and not sent.
THEOREM AtMostOneFrameLost == FederationSpec => []OneFramePerConnection
<1>1. FederationInv => OneFramePerConnection
  BY FederationTypes DEF FederationInv
<1>2. QED BY FederationInvariance, <1>1, PTL

\* Frames of one connection do not overtake each other on their way to an instance, for
\* any number of instances and connections and any size of the queues and pools.
THEOREM AlwaysInOrder == FederationSpec => []InOrderPerConnection
<1>1. ASSUME FederationInv
      PROVE  InOrderPerConnection
  <2>1. Store[AtEnd] = handled /\ AtEnd \in Places /\ DOMAIN handled = 1 .. Len(handled)
    BY <1>1, StoreIs, StageRanks, LenProperties DEF Holds, FederationInv, FederationOK, Ranges
  <2>2. QED BY <1>1, <2>1 DEF InOrderPerConnection, FederationInv, Good, Ordered, SameLane
<1>2. QED BY FederationInvariance, <1>1, PTL

-----------------------------------------------------------------------------
(* The federation is a Mailbox.                                            *)

HasId(s, x) == \E k \in 1 .. Len(s) : s[k].id = x
IdsOn(S) == {x \in 1 .. MaxFrames : \E p \in OnTheWay : HasId(S[p], x)}
IdsEnd(S) == {x \in 1 .. MaxFrames : HasId(S[AtEnd], x)}

\* The identifiers of a state, of its variables or of their next values.
FramesOf(qs, cs, us, ds) ==
  UNION {ToSet(qs[i]) \union ToSet(ds[i]) \union {cs[i].taken}
           \union UNION {ToSet(us[i][c]) : c \in Conns} : i \in Instances}
IdsOf(qs, cs, us, ds) == {f.id : f \in FramesOf(qs, cs, us, ds) \ {NoFrame}}
IdSeq(h) == [k \in DOMAIN h |-> h[k].id]

LEMMA HasIdIs ==
  ASSUME NEW s \in Seq(Frame), NEW x
  PROVE  /\ HasId(s, x) => x \in 1 .. MaxFrames
         /\ HasId(s, x) <=> \E f \in ToSet(s) : f.id = x
         /\ ToSet(s) \subseteq Frame
<1>1. DOMAIN s = 1 .. Len(s) /\ \A k \in 1 .. Len(s) : s[k] \in Frame
  BY LenProperties, ElementOfSeq
<1>2. QED BY <1>1, ConnsAre DEF HasId, ToSet

LEMMA HasIdTail ==
  ASSUME NEW s \in Seq(Frame), s # <<>>, NEW x
  PROVE  HasId(s, x) <=> Head(s).id = x \/ HasId(Tail(s), x)
<1>1. /\ Len(s) \in Nat \ {0} /\ Head(s) = s[1] /\ Len(Tail(s)) = Len(s) - 1
      /\ \A k \in 1 .. Len(Tail(s)) : Tail(s)[k] = s[k + 1]
  BY HeadTailProperties, LenProperties, EmptySeq
<1>2. ASSUME HasId(s, x)
      PROVE  Head(s).id = x \/ HasId(Tail(s), x)
  <2>1. PICK k \in 1 .. Len(s) : s[k].id = x
    BY <1>2 DEF HasId
  <2>2. CASE k = 1
    BY <1>1, <2>1, <2>2
  <2>3. CASE k # 1
    <3>1. k - 1 \in 1 .. Len(Tail(s)) /\ (k - 1) + 1 = k
      BY <1>1, <2>3
    <3>2. Tail(s)[k - 1].id = x
      BY <1>1, <2>1, <3>1
    <3>3. QED BY <3>1, <3>2 DEF HasId
  <2>4. QED BY <2>2, <2>3
<1>3. ASSUME Head(s).id = x PROVE HasId(s, x)
  BY <1>1, <1>3 DEF HasId
<1>4. ASSUME HasId(Tail(s), x) PROVE HasId(s, x)
  <2>1. PICK k \in 1 .. Len(Tail(s)) : Tail(s)[k].id = x
    BY <1>4 DEF HasId
  <2>2. k + 1 \in 1 .. Len(s) /\ s[k + 1].id = x
    BY <1>1, <2>1
  <2>3. QED BY <2>2 DEF HasId
<1>5. QED BY <1>2, <1>3, <1>4

LEMMA HasIdAppend ==
  ASSUME NEW s \in Seq(Frame), NEW f \in Frame, NEW x
  PROVE  HasId(Append(s, f), x) <=> f.id = x \/ HasId(s, x)
<1> DEFINE z == Len(s) + 1
<1>1. /\ Len(s) \in Nat /\ Len(Append(s, f)) = z /\ Append(s, f)[z] = f
      /\ \A k \in 1 .. Len(s) : Append(s, f)[k] = s[k]
  BY AppendProperties, LenProperties
<1>2. 1 .. z = 1 .. Len(s) \union {z}
  BY <1>1
<1> HIDE DEF z
<1>3. QED BY <1>1, <1>2 DEF HasId

LEMMA IdSeqAppend ==
  ASSUME NEW s \in Seq(Frame), NEW f \in Frame
  PROVE  IdSeq(Append(s, f)) = IdSeq(s) \o <<f.id>>
<1> DEFINE z == Len(s) + 1
<1>1. /\ Len(s) \in Nat /\ DOMAIN s = 1 .. Len(s) /\ DOMAIN Append(s, f) = 1 .. z
      /\ Append(s, f)[z] = f /\ \A k \in 1 .. Len(s) : Append(s, f)[k] = s[k]
  BY AppendProperties, LenProperties
<1>2. \A k \in 1 .. Len(s) : s[k] \in Frame
  BY ElementOfSeq
<1>3. IdSeq(s) = [k \in 1 .. Len(s) |-> s[k].id] /\ \A k \in 1 .. Len(s) : s[k].id \in 1 .. MaxFrames
  BY <1>1, <1>2, ConnsAre DEF IdSeq
<1>4. IdSeq(s) \in Seq(1 .. MaxFrames) /\ Len(IdSeq(s)) = Len(s)
  BY <1>1, <1>3, IsASeq, LenProperties
<1>5. IdSeq(s) \o <<f.id>> = Append(IdSeq(s), f.id) /\ f.id \in 1 .. MaxFrames
  BY <1>4, ConnsAre, AppendIsConcat
<1>6. /\ DOMAIN Append(IdSeq(s), f.id) = 1 .. z /\ Append(IdSeq(s), f.id)[z] = f.id
      /\ \A k \in 1 .. Len(s) : Append(IdSeq(s), f.id)[k] = s[k].id
      /\ Append(IdSeq(s), f.id) \in Seq(1 .. MaxFrames)
  BY <1>3, <1>4, <1>5, AppendProperties, LenProperties
<1>7. 1 .. z = 1 .. Len(s) \union {z}
  BY <1>1
<1>8. IdSeq(Append(s, f)) = [k \in 1 .. z |-> Append(s, f)[k].id]
  BY <1>1 DEF IdSeq
<1>9. Append(IdSeq(s), f.id) = [k \in 1 .. z |-> Append(s, f)[k].id]
  <2>1. \A k \in 1 .. z : Append(IdSeq(s), f.id)[k] = Append(s, f)[k].id
    BY <1>1, <1>6, <1>7
  <2>2. Append(IdSeq(s), f.id) = [k \in 1 .. z |-> Append(IdSeq(s), f.id)[k]]
    BY <1>6
  <2>3. QED BY <2>1, <2>2
<1>10. QED BY <1>5, <1>8, <1>9

LEMMA HasIdWithin ==
  ASSUME NEW S \in Stores, NEW T \in Stores, Within(T, S), NEW p \in Places, NEW x, HasId(T[p], x)
  PROVE  HasId(S[p], x)
<1>1. PICK n \in Nat : /\ \A k \in 1 .. Len(T[p]) : /\ k \in Nat /\ k + n \in 1 .. Len(S[p])
                                                    /\ T[p][k] = S[p][k + n]
                       /\ Len(T[p]) \in Nat
  BY WithinIs
<1>2. QED BY <1>1 DEF HasId

\* A frame is at one place only.
LEMMA OnePlace ==
  ASSUME NEW S, NEW n, Good(S, n), NEW p \in Places, NEW q \in Places, NEW x,
         HasId(S[p], x), HasId(S[q], x)
  PROVE  p = q /\ x \in 1 .. MaxFrames /\ x <= n
<1>1. PICK k \in 1 .. Len(S[p]) : S[p][k].id = x
  BY DEF HasId
<1>2. PICK l \in 1 .. Len(S[q]) : S[q][l].id = x
  BY DEF HasId
<1>3. p = q /\ x <= n
  BY <1>1, <1>2 DEF Good, Once, UpTo
<1>4. S[p] \in Seq(Frame)
  BY DEF Good, Stores
<1>5. QED BY <1>3, <1>4, HasIdIs

LEMMA OneTaken ==
  ASSUME NEW f \in Frame \union {NoFrame}, NEW x
  PROVE  HasId(TakenBy(f), x) <=> f # NoFrame /\ f.id = x
<1>1. CASE f = NoFrame
  <2>1. TakenBy(f) = <<>> /\ Len(<<>>) = 0
    BY <1>1, EmptySeq DEF TakenBy
  <2>2. QED BY <1>1, <2>1 DEF HasId
<1>2. CASE f # NoFrame
  <2>1. TakenBy(f) = <<f>>
    BY <1>2 DEF TakenBy
  <2>2. Len(<<f>>) = 1 /\ <<f>>[1] = f
    OBVIOUS
  <2>3. QED BY <1>2, <2>1, <2>2 DEF HasId
<1>3. QED BY <1>1, <1>2

\* What is on the way in the state is what is in the store.
LEMMA IdsAre ==
  ASSUME NEW qs \in [Instances -> Seq(Frame)], NEW cs \in [Instances -> ClientRecord],
         NEW us \in [Instances -> [Conns -> Seq(Frame)]], NEW ds \in [Instances -> Seq(Frame)],
         NEW h \in Seq(Frame)
  PROVE  /\ IdsOf(qs, cs, us, ds) = IdsOn(StoreOf(qs, cs, us, ds, h))
         /\ ToSet(IdSeq(h)) = IdsEnd(StoreOf(qs, cs, us, ds, h))
         /\ IdSeq(h) \in Seq(1 .. MaxFrames)
<1> DEFINE S == StoreOf(qs, cs, us, ds, h)
<1>1. Holds(S, qs, cs, us, ds, h)
  BY StoreHolds
<1> HIDE DEF S
<1>2. ASSUME NEW i \in Instances
      PROVE  /\ S[Queued(i)] = qs[i] /\ S[Passed(i)] = ds[i] /\ S[Taken(i)] = TakenBy(cs[i].taken)
             /\ \A c \in Conns : S[OnWire(i, c)] = us[i][c]
             /\ cs[i].taken \in Frame \union {NoFrame}
  BY <1>1 DEF Holds, ClientRecord
<1>3. ASSUME NEW x
      PROVE  x \in IdsOf(qs, cs, us, ds) <=> \E p \in OnTheWay : HasId(S[p], x)
  <2>1. x \in IdsOf(qs, cs, us, ds) <=>
          \E i \in Instances :
            \/ HasId(qs[i], x) \/ HasId(ds[i], x)
            \/ cs[i].taken # NoFrame /\ cs[i].taken.id = x
            \/ \E c \in Conns : HasId(us[i][c], x)
    <3>1. x \in IdsOf(qs, cs, us, ds) <=>
            \E f \in FramesOf(qs, cs, us, ds) : f # NoFrame /\ f.id = x
      BY DEF IdsOf
    <3>2. ASSUME NEW f
          PROVE  f \in FramesOf(qs, cs, us, ds) <=>
                   \E i \in Instances :
                     \/ f \in ToSet(qs[i]) \/ f \in ToSet(ds[i]) \/ f = cs[i].taken
                     \/ \E c \in Conns : f \in ToSet(us[i][c])
      BY DEF FramesOf
    <3>3. ASSUME NEW i \in Instances
          PROVE  /\ HasId(qs[i], x) <=> \E f \in ToSet(qs[i]) : f.id = x
                 /\ HasId(ds[i], x) <=> \E f \in ToSet(ds[i]) : f.id = x
                 /\ NoFrame \notin ToSet(qs[i]) /\ NoFrame \notin ToSet(ds[i])
      <4>1. qs[i] \in Seq(Frame) /\ ds[i] \in Seq(Frame)
        OBVIOUS
      <4>2. QED BY <4>1, HasIdIs, ConnsAre
    <3>4. ASSUME NEW i \in Instances, NEW c \in Conns
          PROVE  /\ HasId(us[i][c], x) <=> \E f \in ToSet(us[i][c]) : f.id = x
                 /\ NoFrame \notin ToSet(us[i][c])
      <4>1. us[i][c] \in Seq(Frame)
        OBVIOUS
      <4>2. QED BY <4>1, HasIdIs, ConnsAre
    <3>5. ASSUME NEW f, f \in FramesOf(qs, cs, us, ds), f # NoFrame, f.id = x
          PROVE  \E i \in Instances :
                   \/ HasId(qs[i], x) \/ HasId(ds[i], x)
                   \/ cs[i].taken # NoFrame /\ cs[i].taken.id = x
                   \/ \E c \in Conns : HasId(us[i][c], x)
      <4>1. PICK i \in Instances :
              \/ f \in ToSet(qs[i]) \/ f \in ToSet(ds[i]) \/ f = cs[i].taken
              \/ \E c \in Conns : f \in ToSet(us[i][c])
        BY <3>2, <3>5
      <4>2. CASE f \in ToSet(qs[i]) \/ f \in ToSet(ds[i])
        BY <3>3, <3>5, <4>2
      <4>3. CASE f = cs[i].taken
        BY <3>5, <4>3
      <4>4. CASE \E c \in Conns : f \in ToSet(us[i][c])
        BY <3>4, <3>5, <4>4
      <4>5. QED BY <4>1, <4>2, <4>3, <4>4
    <3>6. ASSUME NEW i \in Instances,
                 \/ HasId(qs[i], x) \/ HasId(ds[i], x)
                 \/ cs[i].taken # NoFrame /\ cs[i].taken.id = x
                 \/ \E c \in Conns : HasId(us[i][c], x)
          PROVE  \E f \in FramesOf(qs, cs, us, ds) : f # NoFrame /\ f.id = x
      <4>1. CASE HasId(qs[i], x)
        <5>1. PICK f \in ToSet(qs[i]) : f.id = x
          BY <3>3, <4>1
        <5>2. QED BY <3>2, <3>3, <5>1
      <4>2. CASE HasId(ds[i], x)
        <5>1. PICK f \in ToSet(ds[i]) : f.id = x
          BY <3>3, <4>2
        <5>2. QED BY <3>2, <3>3, <5>1
      <4>3. CASE cs[i].taken # NoFrame /\ cs[i].taken.id = x
        BY <3>2, <4>3
      <4>4. CASE \E c \in Conns : HasId(us[i][c], x)
        <5>1. PICK c \in Conns : HasId(us[i][c], x)
          BY <4>4
        <5>2. PICK f \in ToSet(us[i][c]) : f.id = x
          BY <3>4, <5>1
        <5>3. f \in FramesOf(qs, cs, us, ds)
          BY <3>2, <5>2
        <5>4. QED BY <3>4, <5>2, <5>3
      <4>5. QED BY <3>6, <4>1, <4>2, <4>3, <4>4
    <3>7. QED BY <3>1, <3>5, <3>6
  <2>2. ASSUME NEW i \in Instances
        PROVE  HasId(S[Taken(i)], x) <=> cs[i].taken # NoFrame /\ cs[i].taken.id = x
    BY <1>2, OneTaken
  <2>3. (\E p \in OnTheWay : HasId(S[p], x)) <=>
          \E i \in Instances :
            \/ HasId(S[Queued(i)], x) \/ HasId(S[Passed(i)], x) \/ HasId(S[Taken(i)], x)
            \/ \E c \in Conns : HasId(S[OnWire(i, c)], x)
    <3>1. ASSUME NEW p \in OnTheWay
          PROVE  \E i \in Instances :
                   \/ p = Queued(i) \/ p = Passed(i) \/ p = Taken(i)
                   \/ \E c \in Conns : p = OnWire(i, c)
      BY DEF OnTheWay
    <3>2. ASSUME NEW p \in OnTheWay, HasId(S[p], x)
          PROVE  \E i \in Instances :
                   \/ HasId(S[Queued(i)], x) \/ HasId(S[Passed(i)], x) \/ HasId(S[Taken(i)], x)
                   \/ \E c \in Conns : HasId(S[OnWire(i, c)], x)
      BY <3>1, <3>2
    <3>3. ASSUME NEW i \in Instances,
                 \/ HasId(S[Queued(i)], x) \/ HasId(S[Passed(i)], x) \/ HasId(S[Taken(i)], x)
                 \/ \E c \in Conns : HasId(S[OnWire(i, c)], x)
          PROVE  \E p \in OnTheWay : HasId(S[p], x)
      BY <3>3, StageRanks
    <3>4. QED BY <3>2, <3>3
  <2>4. (\E i \in Instances :
           \/ HasId(qs[i], x) \/ HasId(ds[i], x)
           \/ cs[i].taken # NoFrame /\ cs[i].taken.id = x
           \/ \E c \in Conns : HasId(us[i][c], x)) <=>
        (\E i \in Instances :
           \/ HasId(S[Queued(i)], x) \/ HasId(S[Passed(i)], x) \/ HasId(S[Taken(i)], x)
           \/ \E c \in Conns : HasId(S[OnWire(i, c)], x))
    BY <1>2, <2>2
  <2>5. QED BY <2>1, <2>3, <2>4
<1>4. ASSUME NEW x, NEW p \in Places, HasId(S[p], x)
      PROVE  x \in 1 .. MaxFrames
  <2>1. S[p] \in Seq(Frame)
    BY <1>1 DEF Holds, Stores
  <2>2. QED BY <1>4, <2>1, HasIdIs
<1>5. IdsOf(qs, cs, us, ds) = IdsOn(S)
  BY <1>3, <1>4 DEF IdsOn, Places
<1>6. S[AtEnd] = h /\ DOMAIN h = 1 .. Len(h) /\ Len(h) \in Nat /\ \A k \in 1 .. Len(h) : h[k] \in Frame
  BY <1>1, LenProperties, ElementOfSeq DEF Holds
<1>7. ToSet(IdSeq(h)) = IdsEnd(S)
  BY <1>6, ConnsAre DEF ToSet, IdSeq, IdsEnd, HasId
<1>8. IdSeq(h) \in Seq(1 .. MaxFrames)
  <2>1. IdSeq(h) = [k \in 1 .. Len(h) |-> h[k].id] /\ \A k \in 1 .. Len(h) : h[k].id \in 1 .. MaxFrames
    BY <1>6, ConnsAre DEF IdSeq
  <2>2. QED BY <1>6, <2>1, IsASeq
<1>9. QED BY <1>5, <1>7, <1>8 DEF S

LEMMA BoxIs ==
  ASSUME FederationOK
  PROVE  Underway = IdsOn(Store) /\ ToSet(HandledIds) = IdsEnd(Store)
         /\ HandledIds \in Seq(1 .. MaxFrames) /\ HandledIds = IdSeq(handled)
<1>1. Underway = IdsOf(queue, client, up, down)
  BY DEF Underway, Pieces, IdsOf, FramesOf
<1>2. HandledIds = IdSeq(handled)
  BY DEF HandledIds, IdSeq
<1>3. QED BY <1>1, <1>2, IdsAre DEF FederationOK, Ranges, Store

LEMMA BoxNext ==
  ASSUME FederationOK'
  PROVE  Underway' = IdsOn(Store') /\ ToSet(HandledIds') = IdsEnd(Store')
         /\ HandledIds' \in Seq(1 .. MaxFrames) /\ HandledIds' = IdSeq(handled')
<1>1. Underway' = IdsOf(queue', client', up', down')
  BY DEF Underway, Pieces, IdsOf, FramesOf
<1>2. HandledIds' = IdSeq(handled')
  BY DEF HandledIds, IdSeq
<1>3. QED BY <1>1, <1>2, IdsAre DEF FederationOK, Ranges, Store

\* What a step of the store does to the Mailbox.
LEMMA NothingSettles ==
  /\ <<>> \in FrameBox!SetToSeqs({}) /\ FrameBox!IsInjective(<<>>) /\ FrameBox!ToSet(<<>>) = {}
  /\ \A x : /\ <<x>> \in FrameBox!SetToSeqs({x}) /\ FrameBox!IsInjective(<<x>>)
            /\ FrameBox!ToSet(<<x>>) = {x}
<1>1. FrameBox!Cardinality({}) = 0 /\ \A x : FrameBox!Cardinality({x}) = 1
  <2>1. Cardinality({}) = 0 /\ \A x : Cardinality({x}) = 1
    BY FS_EmptySet, FS_Singleton
  <2>2. \A X : FrameBox!Cardinality(X) = Cardinality(X)
    BY DEF FrameBox!Cardinality, Cardinality
  <2>3. QED BY <2>1, <2>2
<1>2. DOMAIN <<>> = {} /\ 1 .. 0 = {} /\ <<>> \in [1 .. 0 -> {}]
  BY EmptySeq
<1>3. <<>> \in FrameBox!SetToSeqs({}) /\ FrameBox!IsInjective(<<>>) /\ FrameBox!ToSet(<<>>) = {}
  BY <1>1, <1>2 DEF FrameBox!SetToSeqs, FrameBox!IsInjective, FrameBox!ToSet
<1>4. ASSUME NEW x
      PROVE  /\ <<x>> \in FrameBox!SetToSeqs({x}) /\ FrameBox!IsInjective(<<x>>)
             /\ FrameBox!ToSet(<<x>>) = {x}
  <2> DEFINE s == <<x>>
  <2>1. DOMAIN s = 1 .. 1 /\ 1 .. 1 = {1} /\ s[1] = x /\ s \in [1 .. 1 -> {x}]
    OBVIOUS
  <2> HIDE DEF s
  <2>2. FrameBox!ToSet(s) = {x}
    BY <2>1 DEF FrameBox!ToSet
  <2>3. FrameBox!IsInjective(s)
    BY <2>1 DEF FrameBox!IsInjective
  <2>4. s \in FrameBox!SetToSeqs({x})
    BY <1>1, <2>1 DEF FrameBox!SetToSeqs
  <2>5. QED BY <2>2, <2>3, <2>4 DEF s
<1>5. QED BY <1>3, <1>4

\* Of a good store: what has been sent, what is on the way, and what has arrived.
LEMMA GoodIds ==
  ASSUME NEW S, NEW n \in Nat, Good(S, n)
  PROVE  /\ IdsOn(S) \subseteq 1 .. n /\ IdsEnd(S) \subseteq 1 .. n
         /\ IdsOn(S) \intersect IdsEnd(S) = {}
         /\ IdsOn(S) \subseteq 1 .. MaxFrames /\ IdsEnd(S) \subseteq 1 .. MaxFrames
<1>1. AtEnd \in Places /\ AtEnd \notin OnTheWay /\ OnTheWay \subseteq Places
  <2>1. \A p \in OnTheWay : p.stage # "handled"
    BY DEF OnTheWay, Queued, Taken, Passed, OnWire, Place
  <2>2. QED BY <2>1, StageRanks DEF Places
<1>2. \A p, q \in Places : \A x : HasId(S[p], x) /\ HasId(S[q], x)
                                => p = q /\ x \in 1 .. MaxFrames /\ x <= n
  BY OnePlace
<1>3. \A x \in 1 .. MaxFrames : x <= n => x \in 1 .. n
  BY ConnsAre
<1>4. QED BY <1>1, <1>2, <1>3 DEF IdsOn, IdsEnd

LEMMA LosesIds ==
  ASSUME NEW S \in Stores, NEW T \in Stores, Loses(T, S)
  PROVE  IdsOn(T) \subseteq IdsOn(S)
BY HasIdWithin DEF IdsOn, Loses, Places

\* A frame that moves is on the way still, or has arrived.
LEMMA MovesIds ==
  ASSUME NEW S, NEW n \in Nat, Good(S, n), NEW T \in Stores, NEW p \in Places, NEW q \in Places,
         NEW g \in Frame, Moves(T, S, p, q, g)
  PROVE  /\ q # AtEnd => IdsOn(T) = IdsOn(S) /\ T[AtEnd] = S[AtEnd]
         /\ q = AtEnd => /\ g.id \in IdsOn(S) /\ IdsOn(T) = IdsOn(S) \ {g.id}
                         /\ T[AtEnd] = Append(S[AtEnd], g)
<1>1. /\ AtEnd \in Places /\ AtEnd \notin OnTheWay /\ Places = OnTheWay \union {AtEnd}
      /\ Rank(AtEnd) = 0 /\ Rank(p) \in Nat /\ Rank(q) \in Nat
  <2>1. \A r \in OnTheWay : r.stage # "handled"
    BY DEF OnTheWay, Queued, Taken, Passed, OnWire, Place
  <2>2. QED BY <2>1, StageRanks, PlacesAre DEF Places
<1>2. p # q /\ p # AtEnd /\ p \in OnTheWay
  BY <1>1 DEF Moves
<1>3. /\ S[p] \in Seq(Frame) /\ S[q] \in Seq(Frame) /\ S[p] # <<>>
      /\ T[p] = Tail(S[p]) /\ T[q] = Append(S[q], g) /\ Head(S[p]).id = g.id
      /\ \A r \in Places \ {p, q} : T[r] = S[r]
  BY DEF Good, Stores, Moves
<1>4. ASSUME NEW x
      PROVE  /\ HasId(S[p], x) <=> x = g.id \/ HasId(T[p], x)
             /\ HasId(T[q], x) <=> x = g.id \/ HasId(S[q], x)
  BY <1>3, HasIdTail, HasIdAppend
<1>5. HasId(S[p], g.id) /\ g.id \in 1 .. MaxFrames /\ ~HasId(T[p], g.id)
  <2>1. HasId(S[p], g.id) /\ g.id \in 1 .. MaxFrames
    BY <1>4, ConnsAre
  <2>2. SUFFICES ASSUME HasId(T[p], g.id) PROVE FALSE
    BY <2>1
  <2>3. PICK k \in 1 .. Len(T[p]) : T[p][k].id = g.id
    BY <2>2 DEF HasId
  <2>4. /\ Len(S[p]) \in Nat \ {0} /\ Head(S[p]) = S[p][1] /\ Len(T[p]) = Len(S[p]) - 1
        /\ T[p][k] = S[p][k + 1]
    BY <1>3, <2>3, HeadTailProperties, LenProperties, EmptySeq
  <2>5. k + 1 \in 1 .. Len(S[p]) /\ 1 \in 1 .. Len(S[p]) /\ k + 1 # 1
    BY <2>3, <2>4
  <2>6. S[p][k + 1].id = S[p][1].id
    BY <1>3, <2>3, <2>4
  <2>7. QED BY <2>5, <2>6 DEF Good, Once
<1>6. ASSUME NEW r \in Places, r # p, HasId(S[r], g.id)
      PROVE  FALSE
  BY <1>5, <1>6, OnePlace
<1>7. CASE q # AtEnd
  <2>1. q \in OnTheWay /\ T[AtEnd] = S[AtEnd]
    BY <1>1, <1>2, <1>3, <1>7
  <2>2. ASSUME NEW x
        PROVE  (\E r \in OnTheWay : HasId(T[r], x)) <=> (\E r \in OnTheWay : HasId(S[r], x))
    <3>1. ASSUME NEW r \in OnTheWay, HasId(T[r], x)
          PROVE  \E r2 \in OnTheWay : HasId(S[r2], x)
      <4>1. CASE x = g.id
        BY <1>2, <1>5, <4>1
      <4>2. CASE x # g.id
        BY <1>1, <1>3, <1>4, <3>1, <4>2
      <4>3. QED BY <4>1, <4>2
    <3>2. ASSUME NEW r \in OnTheWay, HasId(S[r], x)
          PROVE  \E r2 \in OnTheWay : HasId(T[r2], x)
      <4>1. CASE x = g.id
        BY <1>4, <2>1, <4>1
      <4>2. CASE x # g.id
        BY <1>1, <1>3, <1>4, <3>2, <4>2
      <4>3. QED BY <4>1, <4>2
    <3>3. QED BY <3>1, <3>2
  <2>3. QED BY <1>7, <2>1, <2>2 DEF IdsOn
<1>8. CASE q = AtEnd
  <2>1. ASSUME NEW x
        PROVE  (\E r \in OnTheWay : HasId(T[r], x)) <=>
                 x # g.id /\ \E r \in OnTheWay : HasId(S[r], x)
    <3>1. ASSUME NEW r \in OnTheWay, HasId(T[r], x)
          PROVE  x # g.id /\ HasId(S[r], x)
      <4>1. CASE r = p
        BY <1>4, <1>5, <3>1, <4>1
      <4>2. CASE r # p
        BY <1>1, <1>3, <1>6, <1>8, <3>1, <4>2
      <4>3. QED BY <4>1, <4>2
    <3>2. ASSUME NEW r \in OnTheWay, HasId(S[r], x), x # g.id
          PROVE  HasId(T[r], x)
      BY <1>1, <1>3, <1>4, <1>8, <3>2
    <3>3. QED BY <3>1, <3>2
  <2>2. g.id \in IdsOn(S)
    BY <1>2, <1>5 DEF IdsOn
  <2>3. QED BY <1>3, <1>8, <2>1, <2>2 DEF IdsOn
<1>9. QED BY <1>7, <1>8

LEMMA AddsIds ==
  ASSUME NEW S \in Stores, NEW T \in Stores, NEW q \in Places, NEW g \in Frame, Adds(T, S, q, g)
  PROVE  IdsOn(T) = IdsOn(S) \union {g.id} /\ T[AtEnd] = S[AtEnd]
<1>1. AtEnd \in Places /\ AtEnd \notin OnTheWay /\ Places = OnTheWay \union {AtEnd}
  <2>1. \A r \in OnTheWay : r.stage # "handled"
    BY DEF OnTheWay, Queued, Taken, Passed, OnWire, Place
  <2>2. QED BY <2>1, StageRanks DEF Places
<1>2. /\ q \in OnTheWay /\ S[q] \in Seq(Frame) /\ T[q] = Append(S[q], g)
      /\ \A r \in Places \ {q} : T[r] = S[r]
  BY DEF Adds, Stores
<1>3. \A x : HasId(T[q], x) <=> g.id = x \/ HasId(S[q], x)
  BY <1>2, HasIdAppend
<1>4. g.id \in 1 .. MaxFrames
  BY ConnsAre
<1>5. ASSUME NEW x
      PROVE  (\E r \in OnTheWay : HasId(T[r], x)) <=>
               x = g.id \/ \E r \in OnTheWay : HasId(S[r], x)
  BY <1>1, <1>2, <1>3
<1>6. QED BY <1>1, <1>2, <1>4, <1>5 DEF IdsOn

\* Every step of the federation is one of the Mailbox, or none.
LEMMA BoxStep ==
  ASSUME FederationInv, [FederationNext]_federation
  PROVE  [FrameBox!Next]_(FrameBox!mailbox)
<1> DEFINE W == IdsOn(Store)
           V == IdsOn(Store')
           H == IdsEnd(Store)
<1>1. FederationOK /\ FederationOK' /\ StoreStep /\ Good(Store, frames) /\ frames \in Nat
  BY EveryStoreStep DEF FederationInv, FederationOK, Ranges
<1>2. /\ Underway = W /\ FrameBox!ToSet(HandledIds) = H /\ ToSet(HandledIds) = H
      /\ HandledIds \in Seq(1 .. MaxFrames) /\ HandledIds = IdSeq(handled)
      /\ Store \in Stores /\ Store[AtEnd] = handled /\ handled \in Seq(Frame)
  BY <1>1, BoxIs, StoreIs DEF Holds, ToSet, FrameBox!ToSet, FederationOK, Ranges
<1>3. /\ Underway' = V /\ ToSet(HandledIds)' = IdsEnd(Store') /\ HandledIds' = IdSeq(handled')
      /\ Store' \in Stores /\ Store'[AtEnd] = handled'
  <2>1. /\ Underway' = V /\ ToSet(HandledIds') = IdsEnd(Store') /\ HandledIds' = IdSeq(handled')
    BY <1>1, BoxNext
  <2>2. Store' \in Stores /\ Store'[AtEnd] = handled'
    BY <1>1, StoreNext DEF Holds
  <2>3. QED BY <2>1, <2>2 DEF ToSet
<1>4. /\ W \subseteq 1 .. frames /\ H \subseteq 1 .. frames /\ W \intersect H = {}
      /\ W \subseteq 1 .. MaxFrames /\ H \subseteq 1 .. MaxFrames
  BY <1>1, GoodIds
<1> DEFINE lost0 == 1 .. frames \ (W \union H)
           lost1 == 1 .. frames' \ (V \union IdsEnd(Store'))
<1>5. SUFFICES \/ UNCHANGED HandledIds /\ V = W /\ lost1 = lost0
               \/ \E x \in (1 .. MaxFrames) \ (W \union H \union lost0) :
                    V = W \union {x} /\ UNCHANGED HandledIds /\ lost1 = lost0
               \/ \E taken, gone \in SUBSET W :
                    /\ taken \intersect gone = {}
                    /\ \E s \in FrameBox!SetToSeqs(taken) :
                         /\ FrameBox!IsInjective(s) /\ HandledIds' = HandledIds \o s
                         /\ lost1 = lost0 \union gone
                         /\ V = W \ (FrameBox!ToSet(s) \union gone)
  BY <1>2, <1>3 DEF FrameBox!Next, FrameBox!mailbox, FrameBox!Arrive, FrameBox!Known, FrameBox!Settle
<1>6. CASE Loses(Store', Store) /\ frames' = frames
  <2>1. V \subseteq W
    BY <1>2, <1>3, <1>6, LosesIds
  <2>2. handled' = handled /\ IdsEnd(Store') = H
    BY <1>2, <1>3, <1>6 DEF Loses, IdsEnd
  <2> HIDE DEF W, V, H
  <2>3. HandledIds' = HandledIds /\ HandledIds \o <<>> = HandledIds
    BY <1>2, <1>3, <2>2, ConcatEmptySeq
  <2>4. lost1 = lost0 \union (W \ V)
    BY <1>4, <1>6, <2>1, <2>2
  <2>5. V = W \ ({} \union (W \ V))
    BY <2>1
  <2> HIDE DEF lost0, lost1
  <2>6. {} \in SUBSET W /\ W \ V \in SUBSET W /\ {} \intersect (W \ V) = {}
    OBVIOUS
  <2>7. QED BY <2>3, <2>4, <2>5, <2>6, NothingSettles
<1>7. ASSUME NEW p \in Places, NEW q \in Places, NEW g \in Frame, Moves(Store', Store, p, q, g),
             frames' = frames, q # AtEnd
      PROVE  UNCHANGED HandledIds /\ V = W /\ lost1 = lost0
  <2>1. V = W /\ handled' = handled /\ IdsEnd(Store') = H
    BY <1>1, <1>2, <1>3, <1>7, MovesIds DEF IdsEnd
  <2>2. QED BY <1>2, <1>3, <1>7, <2>1
<1>8. ASSUME NEW p \in Places, NEW g \in Frame, Moves(Store', Store, p, AtEnd, g),
             frames' = frames
      PROVE  /\ g.id \in W /\ V = W \ {g.id} /\ HandledIds' = HandledIds \o <<g.id>>
             /\ lost1 = lost0
  <2>1. AtEnd \in Places
    BY StageRanks
  <2>2. g.id \in W /\ V = W \ {g.id} /\ handled' = Append(handled, g)
    BY <1>1, <1>2, <1>3, <1>8, <2>1, MovesIds
  <2>3. \A x : HasId(Append(handled, g), x) <=> g.id = x \/ HasId(handled, x)
    BY <1>2, HasIdAppend
  <2>4. IdsEnd(Store') = H \union {g.id}
    BY <1>2, <1>3, <2>2, <2>3, ConnsAre DEF IdsEnd
  <2>5. HandledIds' = HandledIds \o <<g.id>>
    BY <1>2, <1>3, <2>2, IdSeqAppend
  <2>6. QED BY <1>8, <2>2, <2>4, <2>5
<1>9. ASSUME NEW q \in Places, NEW g \in Frame, Adds(Store', Store, q, g),
             frames' = frames + 1, g.id = frames'
      PROVE  /\ g.id \in (1 .. MaxFrames) \ (W \union H \union lost0)
             /\ V = W \union {g.id} /\ UNCHANGED HandledIds /\ lost1 = lost0
  <2>1. V = W \union {g.id} /\ handled' = handled /\ IdsEnd(Store') = H
    BY <1>2, <1>3, <1>9, AddsIds DEF IdsEnd
  <2>2. g.id \in 1 .. MaxFrames
    BY ConnsAre
  <2> HIDE DEF W, V, H
  <2>3. g.id \notin 1 .. frames /\ 1 .. frames' = 1 .. frames \union {g.id}
    BY <1>1, <1>9
  <2>4. HandledIds' = HandledIds
    BY <1>2, <1>3, <2>1
  <2>5. lost1 = lost0
    BY <1>4, <2>1, <2>3
  <2>6. QED BY <1>4, <2>1, <2>2, <2>3, <2>4, <2>5
<1> HIDE DEF W, V, H, lost0, lost1
<1>10. ASSUME NEW p \in Places, NEW q \in Places, NEW g \in Frame, Moves(Store', Store, p, q, g),
              frames' = frames
       PROVE  \/ UNCHANGED HandledIds /\ V = W /\ lost1 = lost0
              \/ \E taken, gone \in SUBSET W :
                   /\ taken \intersect gone = {}
                   /\ \E s \in FrameBox!SetToSeqs(taken) :
                        /\ FrameBox!IsInjective(s) /\ HandledIds' = HandledIds \o s
                        /\ lost1 = lost0 \union gone
                        /\ V = W \ (FrameBox!ToSet(s) \union gone)
  <2>1. CASE q # AtEnd
    BY <1>7, <1>10, <2>1
  <2>2. CASE q = AtEnd
    <3>1. /\ g.id \in W /\ V = W \ {g.id} /\ HandledIds' = HandledIds \o <<g.id>> /\ lost1 = lost0
      BY <1>8, <1>10, <2>2
    <3>2. {g.id} \in SUBSET W /\ {} \in SUBSET W /\ {g.id} \intersect {} = {}
      BY <3>1
    <3>3. /\ <<g.id>> \in FrameBox!SetToSeqs({g.id}) /\ FrameBox!IsInjective(<<g.id>>)
          /\ V = W \ (FrameBox!ToSet(<<g.id>>) \union {}) /\ lost1 = lost0 \union {}
      BY <3>1, NothingSettles
    <3>4. QED BY <3>1, <3>2, <3>3
  <2>3. QED BY <2>1, <2>2
<1>11. QED BY <1>1, <1>6, <1>9, <1>10 DEF StoreStep

LEMMA BoxInit == FederationInit => FrameBox!Init
<1> SUFFICES ASSUME FederationInit PROVE FrameBox!Init
  OBVIOUS
<1>1. FederationOK /\ Good(Store, frames) /\ frames = 0
  BY InitFederationInv DEF FederationInv, FederationInit
<1>2. IdsOn(Store) = {} /\ IdsEnd(Store) = {} /\ 1 .. 0 = {}
  BY <1>1, GoodIds
<1>3. Underway = {} /\ ToSet(HandledIds) = {}
  BY <1>1, <1>2, BoxIs
<1>4. HandledIds = <<>>
  BY EmptySeq DEF FederationInit, HandledIds
<1>5. FrameBox!ToSet(HandledIds) = {}
  BY <1>3 DEF ToSet, FrameBox!ToSet
<1>6. QED BY <1>1, <1>2, <1>3, <1>4, <1>5 DEF FrameBox!Init

\* For any instances, connections and limits the federation implements a Mailbox: a frame
\* is handled at most once, and one that is lost never turns up again.
THEOREM FramesOnce == FederationSpec => EachFrameOnce
BY FederationInvariance, BoxInit, BoxStep, PTL DEF FederationSpec, EachFrameOnce, FrameBox!Spec
-----------------------------------------------------------------------------
(* Sequences without repetitions.                                          *)

Distinct(s) == \A k, l \in 1 .. Len(s) : s[k] = s[l] => k = l

LEMMA ToSetIs ==
  ASSUME NEW X, NEW s \in Seq(X)
  PROVE  /\ ToSet(s) = {s[k] : k \in 1 .. Len(s)} /\ ToSet(s) \subseteq X
         /\ Len(s) \in Nat /\ DOMAIN s = 1 .. Len(s)
         /\ \A Y : ToSet(s) \subseteq Y => s \in Seq(Y)
<1>1. Len(s) \in Nat /\ DOMAIN s = 1 .. Len(s) /\ \A k \in 1 .. Len(s) : s[k] \in X
  BY LenProperties, ElementOfSeq
<1>2. ToSet(s) = {s[k] : k \in 1 .. Len(s)}
  BY <1>1 DEF ToSet
<1>3. ASSUME NEW Y, ToSet(s) \subseteq Y
      PROVE  s \in Seq(Y)
  <2>1. \A k \in 1 .. Len(s) : s[k] \in Y
    BY <1>2, <1>3
  <2>2. s = [k \in 1 .. Len(s) |-> s[k]]
    BY <1>1
  <2>3. [k \in 1 .. Len(s) |-> s[k]] \in Seq(Y)
    BY <1>1, <2>1, IsASeq
  <2>4. QED BY <2>2, <2>3
<1>4. QED BY <1>1, <1>2, <1>3

LEMMA DistinctConcat ==
  ASSUME NEW X, NEW s \in Seq(X), NEW t \in Seq(X), Distinct(s), Distinct(t),
         ToSet(s) \intersect ToSet(t) = {}
  PROVE  /\ s \o t \in Seq(X) /\ Distinct(s \o t) /\ ToSet(s \o t) = ToSet(s) \union ToSet(t)
         /\ Len(s \o t) = Len(s) + Len(t)
<1> DEFINE u == s \o t
<1>1. /\ Len(s) \in Nat /\ Len(t) \in Nat
      /\ ToSet(s) = {s[k] : k \in 1 .. Len(s)} /\ ToSet(t) = {t[k] : k \in 1 .. Len(t)}
  BY ToSetIs
<1>2. /\ u \in Seq(X) /\ Len(u) = Len(s) + Len(t)
      /\ \A k \in 1 .. Len(u) : u[k] = IF k <= Len(s) THEN s[k] ELSE t[k - Len(s)]
  BY ConcatProperties
<1> HIDE DEF u
<1>3. ToSet(u) = {u[k] : k \in 1 .. Len(u)}
  BY <1>2, ToSetIs
<1>4. ASSUME NEW k \in 1 .. Len(u)
      PROVE  \/ k \in 1 .. Len(s) /\ u[k] = s[k] /\ u[k] \in ToSet(s)
             \/ k - Len(s) \in 1 .. Len(t) /\ u[k] = t[k - Len(s)] /\ u[k] \in ToSet(t)
  BY <1>1, <1>2
<1>5. Distinct(u)
  <2> SUFFICES ASSUME NEW k \in 1 .. Len(u), NEW l \in 1 .. Len(u), u[k] = u[l]
               PROVE  k = l
    BY DEF Distinct
  <2>1. CASE k \in 1 .. Len(s) /\ u[k] = s[k] /\ u[k] \in ToSet(s)
    <3>1. l \in 1 .. Len(s) /\ u[l] = s[l]
      BY <1>4, <2>1
    <3>2. QED BY <2>1, <3>1 DEF Distinct
  <2>2. CASE k - Len(s) \in 1 .. Len(t) /\ u[k] = t[k - Len(s)] /\ u[k] \in ToSet(t)
    <3>1. l - Len(s) \in 1 .. Len(t) /\ u[l] = t[l - Len(s)]
      BY <1>4, <2>2
    <3>2. k - Len(s) = l - Len(s)
      BY <2>2, <3>1 DEF Distinct
    <3>3. QED BY <1>1, <1>2, <3>2
  <2>3. QED BY <1>4, <2>1, <2>2
<1>6. ASSUME NEW x \in ToSet(s)
      PROVE  x \in ToSet(u)
  <2>1. PICK k \in 1 .. Len(s) : x = s[k]
    BY <1>1
  <2>2. k \in 1 .. Len(u) /\ u[k] = s[k]
    BY <1>1, <1>2
  <2>3. QED BY <1>3, <2>1, <2>2
<1>7. ASSUME NEW x \in ToSet(t)
      PROVE  x \in ToSet(u)
  <2>1. PICK k \in 1 .. Len(t) : x = t[k]
    BY <1>1
  <2>2. k + Len(s) \in 1 .. Len(u) /\ ~(k + Len(s) <= Len(s)) /\ (k + Len(s)) - Len(s) = k
    BY <1>1, <1>2
  <2>3. u[k + Len(s)] = t[k]
    BY <1>2, <2>2
  <2>4. QED BY <1>3, <2>1, <2>2, <2>3
<1>8. ToSet(u) = ToSet(s) \union ToSet(t)
  BY <1>3, <1>4, <1>6, <1>7
<1>9. QED BY <1>2, <1>5, <1>8 DEF u

\* The last ones of a sequence.
LEMMA DistinctEnd ==
  ASSUME NEW X, NEW s \in Seq(X), Distinct(s), NEW n \in Nat
  PROVE  LET t == SubSeq(s, Len(s) - (IF Len(s) < n THEN Len(s) ELSE n) + 1, Len(s)) IN
         t \in Seq(X) /\ Distinct(t) /\ ToSet(t) \subseteq ToSet(s) /\ Len(t) <= n
<1> DEFINE m == IF Len(s) < n THEN 0 ELSE Len(s) - n
           t == SubSeq(s, m + 1, Len(s))
<1>1. /\ Len(s) \in Nat /\ ToSet(s) = {s[k] : k \in 1 .. Len(s)}
      /\ \A k \in 1 .. Len(s) : s[k] \in X
  BY ToSetIs
<1>2. /\ m \in Nat /\ m <= Len(s) /\ Len(s) - m <= n
      /\ Len(s) - (IF Len(s) < n THEN Len(s) ELSE n) + 1 = m + 1
  BY <1>1
<1> HIDE DEF m
<1>3. \A k \in m + 1 .. Len(s) : s[k] \in X
  BY <1>1, <1>2
<1>4. /\ t \in Seq(X) /\ Len(t) = IF m + 1 <= Len(s) THEN Len(s) - (m + 1) + 1 ELSE 0
      /\ \A k \in 1 .. Len(s) - (m + 1) + 1 : t[k] = s[(m + 1) + k - 1]
  <2>1. m + 1 \in Int /\ Len(s) \in Int
    BY <1>1, <1>2
  <2>2. QED BY <1>3, <2>1, SubSeqProperties
<1> HIDE DEF t
<1>5. Len(t) = Len(s) - m /\ Len(t) <= n
  BY <1>1, <1>2, <1>4
<1>6. ASSUME NEW k \in 1 .. Len(t)
      PROVE  k \in Nat /\ k + m \in 1 .. Len(s) /\ t[k] = s[k + m]
  <2>1. k \in 1 .. Len(s) - (m + 1) + 1 /\ (m + 1) + k - 1 = k + m
    BY <1>1, <1>2, <1>5
  <2>2. QED BY <1>1, <1>2, <1>4, <1>5, <2>1
<1>7. Distinct(t)
  <2> SUFFICES ASSUME NEW k \in 1 .. Len(t), NEW l \in 1 .. Len(t), t[k] = t[l]
               PROVE  k = l
    BY DEF Distinct
  <2>1. k + m = l + m
    BY <1>6 DEF Distinct
  <2>2. QED BY <1>2, <1>6, <2>1
<1>8. ToSet(t) \subseteq ToSet(s)
  <2>1. ToSet(t) = {t[k] : k \in 1 .. Len(t)}
    BY <1>4, ToSetIs
  <2>2. QED BY <1>1, <1>6, <2>1
<1>9. QED BY <1>2, <1>4, <1>5, <1>7, <1>8 DEF t

\* How many numbers of a finite set are not above one of them.
LEMMA RankIs ==
  ASSUME NEW S, IsFiniteSet(S), S \subseteq Nat
  PROVE  /\ \A i \in S : Cardinality({j \in S : j <= i}) \in 1 .. Cardinality(S)
         /\ \A i, k \in S : Cardinality({j \in S : j <= i}) = Cardinality({j \in S : j <= k}) => i = k
         /\ \A n \in 1 .. Cardinality(S) : \E i \in S : Cardinality({j \in S : j <= i}) = n
         /\ Cardinality(S) \in Nat
<1> DEFINE Below(i) == {j \in S : j <= i}
           r == [i \in S |-> Cardinality(Below(i))]
<1>1. Cardinality(S) \in Nat
  BY FS_CardinalityType
<1>2. ASSUME NEW i \in S
      PROVE  /\ IsFiniteSet(Below(i)) /\ Cardinality(Below(i)) \in 1 .. Cardinality(S)
             /\ i \in Below(i)
  <2>1. i \in Below(i) /\ Below(i) \subseteq S
    OBVIOUS
  <2> HIDE DEF Below
  <2>2. IsFiniteSet(Below(i)) /\ Cardinality(Below(i)) <= Cardinality(S)
    BY <2>1, FS_Subset
  <2>3. Cardinality(Below(i)) \in Nat /\ Cardinality(Below(i)) # 0
    BY <2>1, <2>2, FS_CardinalityType, FS_EmptySet
  <2>4. QED BY <1>1, <2>1, <2>2, <2>3
<1>3. ASSUME NEW i \in S, NEW k \in S, Cardinality(Below(i)) = Cardinality(Below(k)), i < k
      PROVE  FALSE
  <2>1. Below(i) \subseteq Below(k) /\ k \in Below(k) /\ k \notin Below(i)
    <3>1. i \in Nat /\ k \in Nat /\ i < k /\ \A j \in S : j \in Nat
      BY <1>3
    <3>2. \A j \in S : j <= i => j <= k
      BY <3>1
    <3>3. k <= k /\ ~(k <= i)
      BY <3>1
    <3>4. QED BY <3>2, <3>3
  <2> HIDE DEF Below
  <2>2. IsFiniteSet(Below(k))
    BY <1>2
  <2>3. Below(i) = Below(k)
    BY <1>3, <2>1, <2>2, FS_Subset
  <2>4. QED BY <2>1, <2>3
<1>4. \A i, k \in S : Cardinality(Below(i)) = Cardinality(Below(k)) => i = k
  <2> SUFFICES ASSUME NEW i \in S, NEW k \in S, Cardinality(Below(i)) = Cardinality(Below(k))
               PROVE  i = k
    OBVIOUS
  <2>1. i < k \/ k < i \/ i = k
    OBVIOUS
  <2> HIDE DEF Below
  <2>2. QED BY <1>3, <2>1
<1> HIDE DEF Below
<1>5. r \in Injection(S, 1 .. Cardinality(S))
  BY <1>2, <1>4 DEF Injection, IsInjective
<1>6. IsFiniteSet(1 .. Cardinality(S)) /\ Cardinality(1 .. Cardinality(S)) = Cardinality(S)
  BY <1>1, FS_Interval
<1>7. r \in Surjection(S, 1 .. Cardinality(S))
  BY <1>5, <1>6, FS_Injection
<1>8. \A n \in 1 .. Cardinality(S) : \E i \in S : Cardinality(Below(i)) = n
  BY <1>7 DEF Surjection
<1>9. QED BY <1>1, <1>2, <1>4, <1>8 DEF Below

LEMMA InOrderIs ==
  ASSUME NEW S, IsFiniteSet(S), S \subseteq Nat
  PROVE  InOrder(S) \in Seq(S) /\ Distinct(InOrder(S)) /\ ToSet(InOrder(S)) = S
<1> DEFINE Rk(i) == Cardinality({j \in S : j <= i})
           n == Cardinality(S)
           s == InOrder(S)
<1>1. /\ \A i \in S : Rk(i) \in 1 .. n
      /\ \A i, k \in S : Rk(i) = Rk(k) => i = k
      /\ \A k \in 1 .. n : \E i \in S : Rk(i) = k
      /\ n \in Nat
  BY RankIs
<1>2. s = [k \in 1 .. n |-> CHOOSE i \in S : Rk(i) = k]
  BY DEF InOrder
<1> HIDE DEF Rk, n, s
<1>3. \A k \in 1 .. n : s[k] \in S /\ Rk(s[k]) = k
  BY <1>1, <1>2
<1>4. s \in Seq(S) /\ Len(s) = n
  <2>1. s = [k \in 1 .. n |-> s[k]]
    BY <1>2
  <2>2. [k \in 1 .. n |-> s[k]] \in Seq(S)
    BY <1>1, <1>3, IsASeq
  <2>3. s \in Seq(S) /\ DOMAIN s = 1 .. n
    BY <2>1, <2>2
  <2>4. Len(s) \in Nat /\ DOMAIN s = 1 .. Len(s)
    BY <2>3, LenProperties
  <2>5. Len(s) = n
    BY <1>1, <2>3, <2>4
  <2>6. QED BY <2>3, <2>5
<1>5. Distinct(s)
  BY <1>3, <1>4 DEF Distinct
<1>6. ToSet(s) = S
  <2>1. ToSet(s) = {s[k] : k \in 1 .. n}
    BY <1>4, ToSetIs
  <2>2. \A i \in S : Rk(i) \in 1 .. n /\ s[Rk(i)] = i
    BY <1>1, <1>3
  <2>3. QED BY <1>3, <2>1, <2>2
<1>7. QED BY <1>4, <1>5, <1>6 DEF s

\* The greatest of a number and of some others.
LEMMA MaxOfIs ==
  ASSUME NEW i \in Nat, NEW S, IsFiniteSet(S), S \subseteq Nat
  PROVE  /\ MaxOf(i, S) \in {i} \union S /\ i <= MaxOf(i, S)
         /\ \A j \in S : j <= MaxOf(i, S)
<1>1. CASE \E j \in S : j > i
  <2>1. PICK j0 \in S : j0 > i
    BY <1>1
  <2>2. Cardinality(S) \in Nat /\ Cardinality(S) # 0
    BY <2>1, FS_CardinalityType, FS_EmptySet
  <2>3. PICK m \in S : Cardinality({j \in S : j <= m}) = Cardinality(S)
    <3>1. Cardinality(S) \in 1 .. Cardinality(S)
      BY <2>2
    <3>2. \A n \in 1 .. Cardinality(S) : \E m \in S : Cardinality({j \in S : j <= m}) = n
      BY RankIs
    <3>3. QED BY <3>1, <3>2
  <2>4. {j \in S : j <= m} = S
    BY <2>3, FS_Subset
  <2>5. \A k \in S : k <= m
    BY <2>4
  <2>6. MaxOf(i, S) \in S /\ \A k \in S : k <= MaxOf(i, S)
    <3>1. MaxOf(i, S) = CHOOSE j \in S : \A k \in S : k <= j
      BY <1>1 DEF MaxOf
    <3>2. QED BY <2>5, <3>1
  <2>7. MaxOf(i, S) \in Nat /\ j0 \in Nat /\ j0 <= MaxOf(i, S) /\ j0 > i
    BY <2>1, <2>6
  <2> HIDE DEF MaxOf
  <2>8. i <= MaxOf(i, S)
    BY <2>7
  <2>9. QED BY <2>6, <2>8
<1>2. CASE ~ \E j \in S : j > i
  BY <1>2 DEF MaxOf
<1>3. QED BY <1>1, <1>2
-----------------------------------------------------------------------------
(* PushDelivery: types, and what the client has had.                       *)

Item == [history : BOOLEAN, ids : SUBSET Ids]
CallRecord == [at : {"idle", "asked", "answered"}, ids : SUBSET Ids]

\* The server: what it has appended, and what it has scheduled or sent.
ServerOK ==
  /\ last \in 0 .. MaxMessages /\ mine \subseteq Sent /\ known \subseteq mine
  /\ casting \subseteq Sent /\ pushing \subseteq Sent
  /\ conn \in {"off", "none", "joined", "live"}
  /\ wire \in Seq(Item) /\ \A k \in 1 .. Len(wire) : wire[k].ids \subseteq Sent
  /\ cursor \in 0 .. last
  /\ drops \in 0 .. MaxDrops
  /\ conn \in {"off", "none"} => pushing = {} /\ wire = <<>>
  /\ call \in CallRecord /\ call.ids \subseteq mine

\* The client: of the messages up to the last one seen it has some in its buffer and has
\* handed over others, none twice.
ClientOK ==
  /\ seen \in 0 .. last
  /\ buffer \in Seq(Ids) /\ Len(buffer) <= BufferMax /\ Distinct(buffer)
  /\ handed \in Seq(Ids) /\ Distinct(handed)
  /\ ToSet(buffer) \intersect ToSet(handed) = {}
  /\ Settled \subseteq mine /\ \A i \in Settled : i <= seen

PushInv == ServerOK /\ ClientOK

LEMMA LimitsAre ==
  /\ BufferMax \in Nat \ {0} /\ HistoryMax \in Nat \ {0} /\ Limit \in Nat \ {0}
  /\ MaxMessages \in Nat /\ MaxDrops \in Nat
BY PushAssumption

LEMMA PushTypes == PushInv => PushTypeOK
<1> SUFFICES ASSUME PushInv PROVE PushTypeOK
  OBVIOUS
<1>1. \A k \in DOMAIN wire : wire[k].history \in BOOLEAN /\ wire[k].ids \subseteq Sent
  <2>1. \A k \in 1 .. Len(wire) : wire[k] \in Item /\ wire[k].ids \subseteq Sent
    BY ElementOfSeq DEF PushInv, ServerOK
  <2>2. DOMAIN wire = 1 .. Len(wire)
    BY LenProperties DEF PushInv, ServerOK
  <2>3. QED BY <2>1, <2>2 DEF Item
<1>2. buffer \in Seq(mine) /\ handed \in Seq(mine)
  BY ToSetIs DEF PushInv, ClientOK, Settled
<1>3. call.at \in {"idle", "asked", "answered"} /\ call.ids \subseteq mine
  BY DEF PushInv, ServerOK, CallRecord
<1>4. QED BY <1>1, <1>2, <1>3 DEF PushInv, ServerOK, ClientOK, PushTypeOK

\* Sets of messages are finite sets of numbers.
LEMMA SomeSent ==
  ASSUME ServerOK, NEW X, X \subseteq Sent
  PROVE  IsFiniteSet(X) /\ X \subseteq Nat /\ X \subseteq Ids
<1>1. last \in Nat /\ MaxMessages \in Nat /\ last <= MaxMessages
  BY LimitsAre DEF ServerOK
<1>2. IsFiniteSet(1 .. last)
  BY <1>1, FS_Interval
<1>3. IsFiniteSet(X)
  BY <1>2, FS_Subset DEF Sent
<1>4. QED BY <1>1, <1>3 DEF Sent, Ids

-----------------------------------------------------------------------------
(* What each step does to the state of the server.                         *)

LEMMA AppendMessageOK ==
  ASSUME PushInv, NEW kind \in Kinds, AppendMessage(kind)
  PROVE  PushInv'
<1>1. /\ last' = last + 1 /\ last \in Nat /\ last < MaxMessages /\ MaxMessages \in Nat
      /\ mine \subseteq mine' /\ mine' \subseteq mine \union {last'}
      /\ known' \subseteq mine' /\ casting' \subseteq Sent \union {last'}
      /\ last' \in 0 .. MaxMessages
      /\ UNCHANGED <<pushing, cursor, conn, wire, seen, buffer, call, handed, drops>>
  BY LimitsAre DEF AppendMessage, listener, PushInv, ServerOK
<1>2. Sent \subseteq Sent' /\ last' \in Sent' /\ 0 .. last \subseteq 0 .. last'
  BY <1>1 DEF Sent
<1>3. ServerOK'
  BY <1>1, <1>2 DEF PushInv, ServerOK
<1>4. ClientOK'
  BY <1>1, <1>2 DEF PushInv, ClientOK, Settled
<1>5. QED BY <1>3, <1>4 DEF PushInv

\* Steps that leave the client and the messages alone.
LEMMA ServerStepOK ==
  ASSUME PushInv, UNCHANGED <<last, mine, seen, buffer, handed>>, ServerOK'
  PROVE  PushInv'
BY DEF PushInv, ClientOK, Settled, Sent

LEMMA OnTheWire ==
  ASSUME PushInv, NEW x \in Item, x.ids \subseteq Sent
  PROVE  /\ Append(wire, x) \in Seq(Item)
         /\ \A k \in 1 .. Len(Append(wire, x)) : Append(wire, x)[k].ids \subseteq Sent
<1>1. /\ Append(wire, x) \in Seq(Item) /\ Len(wire) \in Nat
      /\ Len(Append(wire, x)) = Len(wire) + 1 /\ Append(wire, x)[Len(wire) + 1] = x
      /\ \A k \in 1 .. Len(wire) : Append(wire, x)[k] = wire[k]
  BY AppendProperties, LenProperties DEF PushInv, ServerOK
<1>2. ASSUME NEW k \in 1 .. Len(Append(wire, x))
      PROVE  Append(wire, x)[k].ids \subseteq Sent
  <2>1. CASE k \in 1 .. Len(wire)
    BY <1>1, <2>1 DEF PushInv, ServerOK
  <2>2. CASE k = Len(wire) + 1
    BY <1>1, <2>2
  <2>3. QED BY <1>1, <2>1, <2>2
<1>3. QED BY <1>1, <1>2

LEMMA BroadcastOK ==
  ASSUME PushInv, NEW i \in Ids, Broadcast(i)
  PROVE  PushInv'
<1>1. UNCHANGED <<last, mine, known, cursor, conn, wire, seen, buffer, call, handed, drops>>
  BY DEF Broadcast, listener
<1>2. casting' \subseteq Sent /\ pushing' \subseteq Sent
  BY <1>1 DEF Broadcast, PushInv, ServerOK
<1>3. conn' \in {"off", "none"} => pushing' = {}
  BY <1>1 DEF Broadcast, PushInv, ServerOK
<1>4. ServerOK'
  BY <1>1, <1>2, <1>3 DEF PushInv, ServerOK, Sent
<1>5. QED BY <1>1, <1>4, ServerStepOK

LEMMA PushStepOK ==
  ASSUME PushInv, NEW i \in Ids, Push(i)
  PROVE  PushInv'
<1> DEFINE x == [history |-> FALSE, ids |-> {i}]
<1>1. /\ UNCHANGED <<last, mine, known, casting, cursor, conn, seen, buffer, call, handed, drops>>
      /\ wire' = Append(wire, x) /\ pushing' \subseteq pushing /\ i \in pushing
  BY DEF Push, listener
<1>2. x \in Item /\ x.ids \subseteq Sent
  BY <1>1 DEF Item, PushInv, ServerOK
<1> HIDE DEF x
<1>3. wire' \in Seq(Item) /\ \A k \in 1 .. Len(wire') : wire'[k].ids \subseteq Sent
  BY <1>1, <1>2, OnTheWire
<1>4. conn \notin {"off", "none"}
  BY <1>1 DEF PushInv, ServerOK
<1>5. ServerOK'
  BY <1>1, <1>3, <1>4 DEF PushInv, ServerOK, Sent
<1>6. QED BY <1>1, <1>5, ServerStepOK

LEMMA SubscribeOK ==
  ASSUME PushInv, Subscribe
  PROVE  PushInv'
<1> DEFINE x == [history |-> TRUE, ids |-> History]
<1>1. /\ UNCHANGED <<last, mine, known, casting, pushing, cursor, seen, buffer, call, handed, drops>>
      /\ wire' = Append(wire, x) /\ conn' = "live"
  BY DEF Subscribe, server, listener
<1>2. History \subseteq Sent
  BY DEF History, Newest
<1>3. x \in Item /\ x.ids \subseteq Sent
  BY <1>2, SomeSent DEF Item, PushInv
<1> HIDE DEF x
<1>4. wire' \in Seq(Item) /\ \A k \in 1 .. Len(wire') : wire'[k].ids \subseteq Sent
  BY <1>1, <1>3, OnTheWire
<1>5. ServerOK'
  BY <1>1, <1>4 DEF PushInv, ServerOK, Sent
<1>6. QED BY <1>1, <1>5, ServerStepOK

LEMMA ConnectionOK ==
  ASSUME PushInv, StartListener \/ Join \/ Drop
  PROVE  PushInv'
<1>1. /\ UNCHANGED <<last, mine, known, casting, cursor, seen, buffer, call, handed>>
      /\ conn' \in {"none", "joined"}
      /\ pushing' \subseteq pushing /\ wire' \in {wire, <<>>}
      /\ conn' = "none" => pushing' = {} /\ wire' = <<>>
  BY DEF StartListener, Join, Drop, server, listener, PushInv, ServerOK
<1>2. drops' \in 0 .. MaxDrops
  BY LimitsAre DEF StartListener, Join, Drop, PushInv, ServerOK
<1>3. wire' \in Seq(Item) /\ \A k \in 1 .. Len(wire') : wire'[k].ids \subseteq Sent
  <2>1. <<>> \in Seq(Item) /\ Len(<<>>) = 0
    BY EmptySeq
  <2>2. CASE wire' = wire
    BY <2>2 DEF PushInv, ServerOK
  <2>3. CASE wire' = <<>>
    BY <2>1, <2>3
  <2>4. QED BY <1>1, <2>2, <2>3
<1>4. ServerOK'
  BY <1>1, <1>2, <1>3 DEF PushInv, ServerOK, Sent
<1>5. QED BY <1>1, <1>4, ServerStepOK

LEMMA CallOK ==
  ASSUME PushInv, AnswerCall \/ NoAnswer
  PROVE  PushInv'
<1>1. UNCHANGED <<last, mine, known, casting, pushing, conn, wire, seen, buffer, handed, drops>>
  BY DEF AnswerCall, NoAnswer, server
<1>2. call' \in CallRecord /\ call'.ids \subseteq mine
  <2>1. CASE AnswerCall
    <3>1. call' = [at |-> "answered", ids |-> Newest(Limit, {i \in mine : i > cursor})]
      BY <2>1 DEF AnswerCall
    <3>2. Newest(Limit, {i \in mine : i > cursor}) \subseteq mine
      BY DEF Newest
    <3>3. mine \subseteq Ids
      BY SomeSent DEF PushInv, ServerOK
    <3>4. QED BY <3>1, <3>2, <3>3 DEF CallRecord
  <2>2. CASE NoAnswer
    BY <2>2 DEF NoAnswer, NoCall, CallRecord
  <2>3. QED BY <2>1, <2>2
<1>3. cursor' \in 0 .. last
  BY DEF AnswerCall, NoAnswer, server, PushInv, ServerOK
<1>4. ServerOK'
  BY <1>1, <1>2, <1>3 DEF PushInv, ServerOK, Sent
<1>5. QED BY <1>1, <1>4, ServerStepOK
-----------------------------------------------------------------------------
(* What each step does to the client.                                      *)

LEMMA ListenIs ==
  ASSUME PushInv, Listen
  PROVE  /\ buffer' \in Seq(Ids) /\ Len(buffer') <= BufferMax /\ Distinct(buffer')
         /\ ToSet(buffer') \subseteq ToSet(buffer) \union {i \in mine : i > seen /\ i <= seen'}
         /\ seen' \in 0 .. last /\ seen <= seen'
         /\ wire' \in Seq(Item) /\ \A k \in 1 .. Len(wire') : wire'[k].ids \subseteq Sent
         /\ conn \notin {"off", "none"}
         /\ UNCHANGED <<last, mine, known, casting, pushing, cursor, conn, call, handed, drops>>
<1> DEFINE got == Head(wire).ids
           X == {i \in got \intersect known : New(i)}
           new == InOrder(X)
<1>1. /\ wire # <<>> /\ wire \in Seq(Item) /\ wire' = Tail(wire) /\ buffer' = IntoBuffer(new)
      /\ seen' = MaxOf(seen, got)
      /\ UNCHANGED <<last, mine, known, casting, pushing, cursor, conn, call, handed, drops>>
  BY DEF Listen, server, PushInv, ServerOK
<1>2. /\ Head(wire) = wire[1] /\ Len(wire) \in Nat \ {0} /\ Tail(wire) \in Seq(Item)
      /\ Len(Tail(wire)) = Len(wire) - 1
      /\ \A k \in 1 .. Len(Tail(wire)) : Tail(wire)[k] = wire[k + 1]
  BY <1>1, HeadTailProperties, LenProperties, EmptySeq
<1>3. got \subseteq Sent /\ known \subseteq mine
  BY <1>2 DEF PushInv, ServerOK
<1>4. \A k \in 1 .. Len(wire') : wire'[k].ids \subseteq Sent
  <2> SUFFICES ASSUME NEW k \in 1 .. Len(wire')
               PROVE  wire'[k].ids \subseteq Sent
    OBVIOUS
  <2>1. k + 1 \in 1 .. Len(wire) /\ wire'[k] = wire[k + 1]
    BY <1>1, <1>2
  <2>2. QED BY <2>1 DEF PushInv, ServerOK
<1> HIDE DEF got
<1>5. /\ X \subseteq mine /\ X \subseteq got /\ X \subseteq Sent
      /\ \A i \in X : i > seen
  BY <1>3 DEF New
<1> HIDE DEF X
<1>6. /\ IsFiniteSet(X) /\ X \subseteq Nat /\ X \subseteq Ids
      /\ IsFiniteSet(got) /\ got \subseteq Nat
  BY <1>3, <1>5, SomeSent DEF PushInv
<1>7. new \in Seq(X) /\ Distinct(new) /\ ToSet(new) = X
  BY <1>6, InOrderIs
<1> HIDE DEF new
<1>8. seen \in Nat /\ last \in Nat /\ seen <= last
  BY LimitsAre DEF PushInv, ServerOK, ClientOK
<1>9. seen' \in {seen} \union got /\ seen <= seen' /\ \A j \in got : j <= seen'
  BY <1>1, <1>6, <1>8, MaxOfIs
<1>10. seen' \in 0 .. last
  BY <1>3, <1>8, <1>9 DEF Sent
<1>11. /\ buffer \in Seq(Ids) /\ new \in Seq(Ids) /\ Distinct(buffer)
       /\ ToSet(buffer) \intersect ToSet(new) = {}
  <2>1. \A i \in ToSet(buffer) : i \in Nat /\ i <= seen
    <3>1. buffer \in Seq(Ids) /\ \A i \in ToSet(buffer) : i <= seen
      BY DEF PushInv, ClientOK, Settled
    <3>2. ToSet(buffer) \subseteq Ids
      BY <3>1, ToSetIs
    <3>3. QED BY <3>1, <3>2 DEF Ids
  <2>2. \A i \in X : i \in Nat /\ ~(i <= seen)
    BY <1>5, <1>6, <1>8
  <2>3. new \in Seq(Ids)
    BY <1>6, <1>7, ToSetIs
  <2>4. QED BY <1>7, <2>1, <2>2, <2>3 DEF PushInv, ClientOK
<1> DEFINE b == buffer \o new
<1>12. b \in Seq(Ids) /\ Distinct(b) /\ ToSet(b) = ToSet(buffer) \union X
  BY <1>7, <1>11, DistinctConcat
<1>13. buffer' = SubSeq(b, Len(b) - (IF Len(b) < BufferMax THEN Len(b) ELSE BufferMax) + 1, Len(b))
  BY <1>1 DEF IntoBuffer
<1> HIDE DEF b
<1>14. /\ buffer' \in Seq(Ids) /\ Distinct(buffer') /\ ToSet(buffer') \subseteq ToSet(b)
       /\ Len(buffer') <= BufferMax
  BY <1>12, <1>13, LimitsAre, DistinctEnd
<1>15. X \subseteq {i \in mine : i > seen /\ i <= seen'}
  BY <1>5, <1>9
<1>16. conn \notin {"off", "none"}
  BY <1>1 DEF PushInv, ServerOK
<1>17. QED BY <1>1, <1>2, <1>4, <1>9, <1>10, <1>12, <1>14, <1>15, <1>16

LEMMA ListenOK ==
  ASSUME PushInv, Listen
  PROVE  PushInv'
<1>1. /\ buffer' \in Seq(Ids) /\ Len(buffer') <= BufferMax /\ Distinct(buffer')
      /\ ToSet(buffer') \subseteq ToSet(buffer) \union {i \in mine : i > seen /\ i <= seen'}
      /\ seen' \in 0 .. last /\ seen <= seen'
      /\ wire' \in Seq(Item) /\ \A k \in 1 .. Len(wire') : wire'[k].ids \subseteq Sent
      /\ conn \notin {"off", "none"}
      /\ UNCHANGED <<last, mine, known, casting, pushing, cursor, conn, call, handed, drops>>
  BY ListenIs
<1>2. ServerOK'
  BY <1>1 DEF PushInv, ServerOK, Sent
<1>3. \A i \in mine : i \in Nat
  BY SomeSent DEF PushInv, ServerOK
<1>4. seen \in Nat /\ seen' \in Nat /\ \A i \in ToSet(buffer) \union ToSet(handed) : i \in mine /\ i <= seen
  BY <1>1 DEF PushInv, ClientOK, Settled
<1>5. /\ ToSet(buffer') \intersect ToSet(handed) = {} /\ ToSet(buffer') \union ToSet(handed) \subseteq mine
      /\ \A i \in ToSet(buffer') \union ToSet(handed) : i <= seen'
  <2>1. ASSUME NEW i \in ToSet(buffer') \union ToSet(handed)
        PROVE  i \in mine /\ i <= seen'
    BY <1>1, <1>3, <1>4
  <2>2. ASSUME NEW i \in ToSet(buffer'), i \in ToSet(handed)
        PROVE  FALSE
    <3>1. i \in Nat /\ i <= seen
      BY <1>3, <1>4, <2>2
    <3>2. i \in ToSet(buffer)
      BY <1>1, <1>4, <3>1
    <3>3. QED BY <2>2, <3>2 DEF PushInv, ClientOK
  <2>3. QED BY <2>1, <2>2
<1>6. ClientOK'
  <2>1. handed \in Seq(Ids) /\ Distinct(handed)
    BY DEF PushInv, ClientOK
  <2>2. Settled' = ToSet(buffer') \union ToSet(handed)
    BY <1>1 DEF Settled, ToSet
  <2>3. ToSet(buffer)' = ToSet(buffer') /\ ToSet(handed)' = ToSet(handed)
    BY <1>1 DEF ToSet
  <2>4. QED BY <1>1, <1>5, <2>1, <2>2, <2>3 DEF ClientOK
<1>7. QED BY <1>2, <1>6 DEF PushInv

LEMMA ReceiveOK ==
  ASSUME PushInv, Receive
  PROVE  /\ PushInv' /\ ToSet(buffer') = {}
         /\ UNCHANGED <<last, mine, seen>> /\ handed' = handed \o buffer
<1>1. /\ handed' = handed \o buffer /\ buffer' = <<>> /\ call' \in {Asked, NoCall}
      /\ UNCHANGED <<last, mine, known, casting, pushing, cursor, conn, wire, seen, drops>>
  BY DEF Receive, server
<1>2. call' \in CallRecord /\ call'.ids \subseteq mine
  BY <1>1 DEF Asked, NoCall, CallRecord
<1>3. ServerOK'
  BY <1>1, <1>2 DEF PushInv, ServerOK, Sent
<1>4. /\ handed \in Seq(Ids) /\ buffer \in Seq(Ids) /\ Distinct(handed) /\ Distinct(buffer)
      /\ ToSet(handed) \intersect ToSet(buffer) = {}
      /\ ToSet(handed) \union ToSet(buffer) = Settled /\ Settled \subseteq mine
      /\ \A i \in Settled : i <= seen
      /\ seen \in 0 .. last
  BY DEF PushInv, ClientOK, Settled
<1>5. /\ handed' \in Seq(Ids) /\ Distinct(handed')
      /\ ToSet(handed') = ToSet(handed) \union ToSet(buffer)
  BY <1>1, <1>4, DistinctConcat
<1>6. <<>> \in Seq(Ids) /\ Len(<<>>) = 0 /\ ToSet(<<>>) = {}
  <2>1. <<>> \in Seq(Ids) /\ Len(<<>>) = 0
    BY EmptySeq
  <2>2. QED BY <2>1 DEF ToSet
<1>7. Distinct(<<>>)
  BY <1>6 DEF Distinct
<1>8. Settled' = Settled
  <2>1. Settled' = ToSet(handed') \union ToSet(buffer')
    BY DEF Settled, ToSet
  <2>2. QED BY <1>1, <1>4, <1>5, <1>6, <2>1
<1>9. ClientOK'
  <2>1. ToSet(buffer)' = ToSet(buffer')
    BY DEF ToSet
  <2>2. QED BY <1>1, <1>4, <1>5, <1>6, <1>7, <1>8, <2>1, LimitsAre DEF ClientOK
<1>10. QED BY <1>1, <1>3, <1>6, <1>9 DEF PushInv

LEMMA TakeAnswerIs ==
  ASSUME PushInv, TakeAnswer
  PROVE  LET X == {i \in call.ids : New(i)} IN
         /\ InOrder(X) \in Seq(Ids) /\ Distinct(InOrder(X)) /\ ToSet(InOrder(X)) = X
         /\ handed' = handed \o InOrder(X) /\ X \subseteq mine
         /\ \A i \in X : i \in Nat /\ i > seen /\ i <= seen'
         /\ seen' \in 0 .. last /\ seen <= seen'
         /\ UNCHANGED <<last, mine, known, casting, pushing, cursor, conn, wire, buffer, drops>>
         /\ call' = NoCall
<1> DEFINE X == {i \in call.ids : New(i)}
<1>1. /\ handed' = handed \o InOrder(X) /\ seen' = MaxOf(seen, call.ids) /\ call' = NoCall
      /\ UNCHANGED <<last, mine, known, casting, pushing, cursor, conn, wire, buffer, drops>>
  BY DEF TakeAnswer, server
<1>2. call.ids \subseteq mine /\ call.ids \subseteq Sent
  BY DEF PushInv, ServerOK
<1>3. X \subseteq call.ids /\ \A i \in X : i > seen
  BY DEF New
<1> HIDE DEF X
<1>4. /\ IsFiniteSet(X) /\ X \subseteq Nat /\ X \subseteq Ids
      /\ IsFiniteSet(call.ids) /\ call.ids \subseteq Nat
  <2>1. X \subseteq Sent
    BY <1>2, <1>3
  <2>2. QED BY <1>2, <2>1, SomeSent DEF PushInv
<1>5. InOrder(X) \in Seq(X) /\ Distinct(InOrder(X)) /\ ToSet(InOrder(X)) = X
  BY <1>4, InOrderIs
<1>6. InOrder(X) \in Seq(Ids)
  BY <1>4, <1>5, ToSetIs
<1>7. seen \in Nat /\ last \in Nat /\ seen <= last
  BY LimitsAre DEF PushInv, ServerOK, ClientOK
<1>8. seen' \in {seen} \union call.ids /\ seen <= seen' /\ \A j \in call.ids : j <= seen'
  BY <1>1, <1>4, <1>7, MaxOfIs
<1>9. seen' \in 0 .. last
  BY <1>2, <1>7, <1>8 DEF Sent
<1>10. QED BY <1>1, <1>2, <1>3, <1>4, <1>5, <1>6, <1>8, <1>9 DEF X

LEMMA TakeAnswerOK ==
  ASSUME PushInv, TakeAnswer
  PROVE  PushInv'
<1> DEFINE X == {i \in call.ids : New(i)}
           s == InOrder(X)
<1>1. /\ s \in Seq(Ids) /\ Distinct(s) /\ ToSet(s) = X
      /\ handed' = handed \o s /\ X \subseteq mine
      /\ \A i \in X : i \in Nat /\ i > seen /\ i <= seen'
      /\ seen' \in 0 .. last /\ seen <= seen'
      /\ UNCHANGED <<last, mine, known, casting, pushing, cursor, conn, wire, buffer, drops>>
      /\ call' = NoCall
  BY TakeAnswerIs
<1> HIDE DEF X, s
<1>2. ServerOK'
  BY <1>1 DEF NoCall, CallRecord, PushInv, ServerOK, Sent
<1>3. /\ handed \in Seq(Ids) /\ buffer \in Seq(Ids) /\ Distinct(handed) /\ Distinct(buffer)
      /\ ToSet(handed) \intersect ToSet(buffer) = {} /\ Len(buffer) <= BufferMax
      /\ ToSet(handed) \union ToSet(buffer) = Settled /\ Settled \subseteq mine
      /\ \A i \in Settled : i <= seen
      /\ seen \in 0 .. last
  BY DEF PushInv, ClientOK, Settled
<1>4. last \in Nat /\ seen \in Nat /\ seen' \in Nat /\ \A i \in mine : i \in Nat
  <2>1. mine \subseteq Nat
    BY SomeSent DEF PushInv, ServerOK
  <2>2. last \in Nat
    BY LimitsAre DEF PushInv, ServerOK
  <2>3. QED BY <1>1, <1>3, <2>1, <2>2
<1>5. X \intersect Settled = {}
  <2> SUFFICES ASSUME NEW i \in X, i \in Settled PROVE FALSE
    OBVIOUS
  <2>1. i \in Nat /\ i > seen /\ i <= seen
    BY <1>1, <1>3
  <2>2. QED BY <1>4, <2>1
<1>6. /\ handed' \in Seq(Ids) /\ Distinct(handed')
      /\ ToSet(handed') = ToSet(handed) \union X
  BY <1>1, <1>3, <1>5, DistinctConcat
<1>7. Settled' = Settled \union X /\ ToSet(buffer)' = ToSet(buffer) /\ ToSet(handed)' = ToSet(handed')
  <2>1. Settled' = ToSet(handed') \union ToSet(buffer')
    BY DEF Settled, ToSet
  <2>2. QED BY <1>1, <1>3, <1>6, <2>1 DEF ToSet
<1>8. \A i \in Settled' : i \in mine /\ i <= seen'
  <2> SUFFICES ASSUME NEW i \in Settled'
               PROVE  i \in mine /\ i <= seen'
    OBVIOUS
  <2>1. CASE i \in X
    BY <1>1, <2>1
  <2>2. CASE i \in Settled
    <3>1. i \in mine /\ i \in Nat /\ i <= seen
      BY <1>3, <1>4, <2>2
    <3>2. QED BY <1>1, <1>4, <3>1
  <2>3. QED BY <1>7, <2>1, <2>2
<1>9. ClientOK'
  BY <1>1, <1>3, <1>5, <1>6, <1>7, <1>8 DEF ClientOK
<1>10. QED BY <1>2, <1>9 DEF PushInv

LEMMA PushInitOK == PushInit => PushInv
<1> SUFFICES ASSUME PushInit PROVE PushInv
  OBVIOUS
<1>1. <<>> \in Seq(Ids) /\ <<>> \in Seq(Item) /\ Len(<<>>) = 0 /\ ToSet(<<>>) = {}
  <2>1. <<>> \in Seq(Ids) /\ <<>> \in Seq(Item) /\ Len(<<>>) = 0
    BY EmptySeq
  <2>2. QED BY <2>1 DEF ToSet
<1>2. Distinct(<<>>)
  BY <1>1 DEF Distinct
<1>3. ServerOK
  BY <1>1, LimitsAre DEF PushInit, ServerOK, NoCall, CallRecord
<1>4. ClientOK
  BY <1>1, <1>2, LimitsAre DEF PushInit, ClientOK, Settled
<1>5. QED BY <1>3, <1>4 DEF PushInv

LEMMA PushNextOK == PushInv /\ [PushNext]_push => PushInv'
<1> SUFFICES ASSUME PushInv, [PushNext]_push PROVE PushInv'
  OBVIOUS
<1>1. CASE UNCHANGED push
  BY <1>1 DEF push, server, listener, PushInv, ServerOK, ClientOK, Settled, Sent
<1>2. CASE PushNext
  BY <1>2, AppendMessageOK, BroadcastOK, PushStepOK, SubscribeOK, ConnectionOK, CallOK, ListenOK,
     ReceiveOK, TakeAnswerOK DEF PushNext
<1>3. QED BY <1>1, <1>2

LEMMA PushInvariance == PushSpec => []PushInv
BY PushInitOK, PushNextOK, PTL DEF PushSpec

\* Every reachable state of the push is well typed: the buffer never outgrows its limit,
\* and nothing is pushed to a client that is not connected.
THEOREM PushTypeCorrect == PushSpec => []PushTypeOK
<1>1. PushInv => PushTypeOK
  BY PushTypes
<1>2. QED BY PushInvariance, <1>1, PTL

-----------------------------------------------------------------------------
(* The push is a Mailbox.                                                  *)

LEMMA Numbers ==
  ASSUME PushInv
  PROVE  last \in Nat /\ seen \in Nat /\ mine \subseteq Nat /\ mine \subseteq Ids /\ mine \subseteq 1 .. last
<1>1. mine \subseteq Nat /\ mine \subseteq Ids
  BY SomeSent DEF PushInv, ServerOK
<1>2. last \in Nat
  BY LimitsAre DEF PushInv, ServerOK
<1>3. seen \in 0 .. last /\ mine \subseteq 1 .. last
  BY DEF PushInv, ServerOK, ClientOK, Sent
<1>4. QED BY <1>1, <1>2, <1>3

LEMMA Partition ==
  ASSUME PushInv
  PROVE  /\ Waiting \subseteq mine /\ ToSet(handed) \subseteq mine /\ mine \subseteq Ids
         /\ Waiting \intersect ToSet(handed) = {}
         /\ PassedOver = mine \ (Waiting \union ToSet(handed))
<1>1. /\ ToSet(buffer) \subseteq mine /\ ToSet(handed) \subseteq mine
      /\ \A i \in ToSet(buffer) \union ToSet(handed) : i <= seen
      /\ ToSet(buffer) \intersect ToSet(handed) = {} /\ seen \in 0 .. last
  BY DEF PushInv, ClientOK, Settled
<1>2. mine \subseteq Nat /\ mine \subseteq Ids
  BY SomeSent DEF PushInv, ServerOK
<1>3. seen \in Nat
  <2>1. last \in Nat
    BY LimitsAre DEF PushInv, ServerOK
  <2>2. QED BY <1>1, <2>1
<1>4. \A i \in mine : i <= seen <=> ~(i > seen)
  BY <1>2, <1>3
<1>5. QED BY <1>1, <1>2, <1>4 DEF Waiting, PassedOver, Settled

LEMMA PartitionNext ==
  ASSUME PushInv'
  PROVE  /\ Waiting' \subseteq mine' /\ ToSet(handed') \subseteq mine'
         /\ Waiting' \intersect ToSet(handed') = {}
         /\ PassedOver' = mine' \ (Waiting' \union ToSet(handed'))
<1>1. /\ ToSet(buffer') \subseteq mine' /\ ToSet(handed') \subseteq mine'
      /\ \A i \in ToSet(buffer') \union ToSet(handed') : i <= seen'
      /\ ToSet(buffer') \intersect ToSet(handed') = {} /\ seen' \in 0 .. last'
  BY DEF PushInv, ClientOK, Settled, ToSet
<1>2. last' \in Nat /\ mine' \subseteq 1 .. last'
  BY LimitsAre DEF PushInv, ServerOK, Sent
<1>3. mine' \subseteq Nat /\ seen' \in Nat
  BY <1>1, <1>2
<1>4. \A i \in mine' : i <= seen' <=> ~(i > seen')
  BY <1>3
<1>5. /\ Waiting' = {i \in mine' : i > seen'} \union ToSet(buffer')
      /\ PassedOver' = {i \in mine' : i <= seen'} \ (ToSet(handed') \union ToSet(buffer'))
  BY DEF Waiting, PassedOver, Settled, ToSet
<1>6. QED BY <1>1, <1>4, <1>5

\* A sequence without repetitions is one of those of its set.
LEMMA OneOfSeqs ==
  ASSUME NEW s \in Seq(Ids), Distinct(s)
  PROVE  /\ s \in Inbox!SetToSeqs(ToSet(s)) /\ Inbox!IsInjective(s)
         /\ Inbox!ToSet(s) = ToSet(s)
<1> DEFINE X == ToSet(s)
<1>1. Len(s) \in Nat /\ DOMAIN s = 1 .. Len(s) /\ X = {s[k] : k \in 1 .. Len(s)}
  BY ToSetIs
<1>2. s \in Seq(X)
  BY ToSetIs
<1> HIDE DEF X
<1>3. s \in [1 .. Len(s) -> X]
  BY <1>1, <1>2
<1>4. s \in Bijection(1 .. Len(s), X)
  <2>1. s \in Injection(1 .. Len(s), X)
    BY <1>1, <1>3 DEF Distinct, Injection, IsInjective
  <2>2. s \in Surjection(1 .. Len(s), X)
    BY <1>1, <1>3 DEF Surjection
  <2>3. QED BY <2>1, <2>2 DEF Bijection
<1>5. Cardinality(X) = Len(s)
  <2>1. IsFiniteSet(1 .. Len(s)) /\ Cardinality(1 .. Len(s)) = Len(s)
    BY <1>1, FS_Interval
  <2>2. ExistsBijection(1 .. Len(s), X)
    BY <1>4 DEF ExistsBijection
  <2>3. QED BY <2>1, <2>2, FS_Bijection
<1>6. Inbox!Cardinality(X) = Len(s)
  <2>1. Inbox!Cardinality(X) = Cardinality(X)
    BY DEF Inbox!Cardinality, Cardinality
  <2>2. QED BY <1>5, <2>1
<1>7. s \in Inbox!SetToSeqs(X)
  BY <1>1, <1>3, <1>6 DEF Inbox!SetToSeqs, Distinct
<1>8. Inbox!IsInjective(s)
  BY <1>1 DEF Inbox!IsInjective, Distinct
<1>9. Inbox!ToSet(s) = X
  BY <1>1 DEF Inbox!ToSet
<1>10. QED BY <1>7, <1>8, <1>9 DEF X

\* A step that hands over some messages and gives up others.
LEMMA InboxSettles ==
  ASSUME PushInv, PushInv', mine' = mine, Waiting' \subseteq Waiting,
         NEW s \in Seq(Ids), Distinct(s), ToSet(s) \subseteq Waiting \ Waiting',
         handed' = handed \o s, ToSet(handed') = ToSet(handed) \union ToSet(s)
  PROVE  Inbox!Next
<1> DEFINE gone == (Waiting \ Waiting') \ ToSet(s)
<1>1. /\ ToSet(s) \in SUBSET Waiting /\ gone \in SUBSET Waiting /\ ToSet(s) \intersect gone = {}
      /\ Waiting' = Waiting \ (ToSet(s) \union gone)
  OBVIOUS
<1>2. PassedOver' = PassedOver \union gone
  <2>1. /\ Waiting \subseteq mine /\ Waiting \intersect ToSet(handed) = {}
        /\ PassedOver = mine \ (Waiting \union ToSet(handed))
    BY Partition
  <2>2. PassedOver' = mine \ (Waiting' \union ToSet(handed'))
    BY PartitionNext
  <2>3. QED BY <2>1, <2>2
<1> HIDE DEF gone
<1>3. /\ s \in Inbox!SetToSeqs(ToSet(s)) /\ Inbox!IsInjective(s)
      /\ Inbox!ToSet(s) = ToSet(s)
  BY OneOfSeqs
<1>4. Inbox!Settle(s, gone)
  BY <1>1, <1>2, <1>3 DEF Inbox!Settle
<1>5. QED BY <1>1, <1>3, <1>4 DEF Inbox!Next

\* Every step of the push is one of the Mailbox, or none.
LEMMA InboxStep ==
  ASSUME PushInv, [PushNext]_push
  PROVE  [Inbox!Next]_(Inbox!mailbox)
<1>1. PushInv'
  BY PushNextOK
<1>2. ASSUME UNCHANGED <<mine, seen, buffer, handed>>
      PROVE  [Inbox!Next]_(Inbox!mailbox)
  BY <1>2 DEF Inbox!mailbox, Waiting, PassedOver, Settled
<1>3. CASE UNCHANGED push
  BY <1>2, <1>3 DEF push, server, listener
<1>4. ASSUME NEW kind \in Kinds, AppendMessage(kind)
      PROVE  [Inbox!Next]_(Inbox!mailbox)
  <2>1. /\ UNCHANGED <<seen, buffer, handed>> /\ last' = last + 1 /\ last \in Nat
        /\ mine \subseteq 1 .. last /\ seen \in 0 .. last /\ last < MaxMessages
        /\ MaxMessages \in Nat
    BY <1>4, LimitsAre DEF AppendMessage, listener, PushInv, ServerOK, ClientOK, Sent
  <2>2. CASE kind \notin {"agent", "team"}
    <3>1. mine' = mine
      BY <1>4, <2>2 DEF AppendMessage
    <3>2. QED BY <1>2, <2>1, <3>1
  <2>3. CASE kind \in {"agent", "team"}
    <3>1. mine' = mine \union {last'} /\ last' \notin mine /\ last' \in Ids
      BY <1>4, <2>1, <2>3 DEF AppendMessage, Ids
    <3>2. Waiting' = Waiting \union {last'} /\ PassedOver' = PassedOver
      <4>1. last' > seen /\ ~(last' <= seen)
        BY <2>1
      <4>2. Waiting' = {i \in mine' : i > seen} \union ToSet(buffer)
        BY <2>1 DEF Waiting, ToSet
      <4>3. PassedOver' = {i \in mine' : i <= seen} \ Settled
        BY <2>1 DEF PassedOver, Settled, ToSet
      <4>4. QED BY <3>1, <4>1, <4>2, <4>3 DEF Waiting, PassedOver
    <3>3. last' \notin Waiting \union ToSet(handed) \union PassedOver
      BY <3>1, Partition
    <3>4. Inbox!ToSet(handed) = ToSet(handed)
      BY DEF Inbox!ToSet, ToSet
    <3>5. Inbox!Arrive(last') /\ last' \in Ids \ Inbox!Known
      BY <2>1, <3>1, <3>2, <3>3, <3>4 DEF Inbox!Arrive, Inbox!Known
    <3>6. QED BY <3>5 DEF Inbox!Next
  <2>4. QED BY <2>2, <2>3
<1>5. CASE Listen
  <2>1. /\ ToSet(buffer') \subseteq ToSet(buffer) \union {i \in mine : i > seen /\ i <= seen'}
        /\ seen' \in 0 .. last /\ seen <= seen' /\ UNCHANGED <<last, mine, handed>>
    BY <1>5, ListenIs
  <2>2. last \in Nat /\ seen \in Nat /\ seen' \in Nat /\ \A i \in mine : i \in Nat
    BY <2>1, Numbers
  <2>3. Waiting' \subseteq Waiting
    <3>1. Waiting' = {i \in mine : i > seen'} \union ToSet(buffer')
      BY <2>1 DEF Waiting, ToSet
    <3>2. \A i \in mine : i > seen' => i > seen
      BY <2>1, <2>2
    <3>3. QED BY <2>1, <3>1, <3>2 DEF Waiting
  <2>4. /\ <<>> \in Seq(Ids) /\ Len(<<>>) = 0 /\ ToSet(<<>>) = {}
        /\ handed \o <<>> = handed
    <3>1. <<>> \in Seq(Ids) /\ Len(<<>>) = 0
      BY EmptySeq
    <3>2. handed \in Seq(Ids)
      BY DEF PushInv, ClientOK
    <3>3. QED BY <3>1, <3>2, ConcatEmptySeq DEF ToSet
  <2>5. Distinct(<<>>)
    BY <2>4 DEF Distinct
  <2>6. QED BY <1>1, <2>1, <2>3, <2>4, <2>5, InboxSettles
<1>6. CASE Receive
  <2>1. /\ ToSet(buffer') = {} /\ UNCHANGED <<last, mine, seen>> /\ handed' = handed \o buffer
    BY <1>6, ReceiveOK
  <2>2. /\ buffer \in Seq(Ids) /\ Distinct(buffer) /\ handed \in Seq(Ids) /\ Distinct(handed)
        /\ ToSet(handed) \intersect ToSet(buffer) = {} /\ \A i \in ToSet(buffer) : i \in mine /\ i <= seen
        /\ seen \in 0 .. last
    BY DEF PushInv, ClientOK, Settled
  <2>3. ToSet(handed') = ToSet(handed) \union ToSet(buffer)
    BY <2>1, <2>2, DistinctConcat
  <2>4. Waiting' = {i \in mine : i > seen}
    BY <2>1 DEF Waiting, ToSet
  <2>5. \A i \in ToSet(buffer) : ~(i > seen)
    <3> SUFFICES ASSUME NEW i \in ToSet(buffer)
                 PROVE  ~(i > seen)
      OBVIOUS
    <3>1. i \in Nat /\ seen \in Nat /\ i <= seen
      BY <2>2, Numbers
    <3>2. QED BY <3>1
  <2>6. Waiting' \subseteq Waiting /\ ToSet(buffer) \subseteq Waiting \ Waiting'
    BY <2>4, <2>5 DEF Waiting
  <2>7. QED BY <1>1, <2>1, <2>2, <2>3, <2>6, InboxSettles
<1>7. CASE TakeAnswer
  <2> DEFINE X == {i \in call.ids : New(i)}
             s == InOrder(X)
  <2>1. /\ s \in Seq(Ids) /\ Distinct(s) /\ ToSet(s) = X
        /\ handed' = handed \o s /\ X \subseteq mine
        /\ \A i \in X : i \in Nat /\ i > seen /\ i <= seen'
        /\ seen' \in 0 .. last /\ seen <= seen'
        /\ UNCHANGED <<last, mine, buffer>>
    BY <1>7, TakeAnswerIs
  <2> HIDE DEF X, s
  <2>2. /\ handed \in Seq(Ids) /\ Distinct(handed) /\ Settled = ToSet(handed) \union ToSet(buffer)
        /\ \A i \in Settled : i <= seen
    BY DEF PushInv, ClientOK, Settled
  <2>3. last \in Nat /\ seen \in Nat /\ seen' \in Nat /\ \A i \in mine : i \in Nat
    BY <2>1, Numbers
  <2>4. X \intersect Settled = {}
    <3> SUFFICES ASSUME NEW i \in X, i \in Settled PROVE FALSE
      OBVIOUS
    <3>1. i \in Nat /\ i > seen /\ i <= seen
      BY <2>1, <2>2
    <3>2. QED BY <2>3, <3>1
  <2>5. ToSet(handed') = ToSet(handed) \union ToSet(s)
    BY <2>1, <2>2, <2>4, DistinctConcat
  <2>6. Waiting' = {i \in mine : i > seen'} \union ToSet(buffer)
    BY <2>1 DEF Waiting, ToSet
  <2>7. (\A i \in mine : i > seen' => i > seen) /\ \A i \in X : ~(i > seen')
    BY <2>1, <2>3
  <2>8. Waiting' \subseteq Waiting /\ ToSet(s) \subseteq Waiting \ Waiting'
    BY <2>1, <2>2, <2>4, <2>6, <2>7 DEF Waiting
  <2>9. QED BY <1>1, <2>1, <2>5, <2>8, InboxSettles
<1>8. ASSUME NEW i \in Ids, Broadcast(i) \/ Push(i)
      PROVE  UNCHANGED <<mine, seen, buffer, handed>>
  BY <1>8 DEF Broadcast, Push, listener
<1>9. CASE StartListener \/ Join \/ Subscribe \/ Drop \/ AnswerCall \/ NoAnswer
  <2>1. UNCHANGED <<mine, seen, buffer, handed>>
    BY <1>9 DEF StartListener, Join, Subscribe, Drop, AnswerCall, NoAnswer, server, listener
  <2>2. QED BY <1>2, <2>1
<1>10. QED BY <1>2, <1>3, <1>4, <1>5, <1>6, <1>7, <1>8, <1>9 DEF PushNext

LEMMA InboxInit == PushInit => Inbox!Init
<1> SUFFICES ASSUME PushInit PROVE Inbox!Init
  OBVIOUS
<1>1. DOMAIN <<>> = {} /\ ToSet(<<>>) = {}
  <2>1. DOMAIN <<>> = {}
    BY EmptySeq
  <2>2. QED BY <2>1 DEF ToSet
<1>2. QED BY <1>1 DEF PushInit, Inbox!Init, Waiting, PassedOver, Settled

\* For any limits, messages and lost connections the push implements a Mailbox: a message
\* is handed over at most once, and one the client has passed over never turns up later.
THEOREM PushIsMailbox == PushSpec => ImplementsMailbox
BY PushInvariance, InboxInit, InboxStep, PTL DEF PushSpec, ImplementsMailbox, Inbox!Spec

-----------------------------------------------------------------------------
(* All of them in one run.                                                 *)

\* A step of the run is a step of the subject, and leaves the others as they are.
LEMMA ServicesStep ==
  ASSUME [ServicesNext]_<<subject, vars, push, federation, scope>>
  PROVE  [Next]_vars /\ [PushNext]_push /\ [FederationNext]_federation
<1>1. CASE UNCHANGED <<subject, vars, push, federation, scope>>
  <2>1. UNCHANGED vars /\ UNCHANGED push /\ UNCHANGED federation
    BY <1>1
  <2>2. QED BY <2>1
<1>2. CASE Next /\ UNCHANGED <<push, federation, scope>>
  BY <1>2
<1>3. CASE PushNext /\ UNCHANGED <<vars, federation, scope>>
  BY <1>3
<1>4. CASE FederationNext /\ UNCHANGED <<vars, push, scope>>
  BY <1>4
<1>5. CASE UNCHANGED <<vars, push, federation>>
  BY <1>5
<1>6. QED BY <1>1, <1>2, <1>3, <1>4, <1>5 DEF ServicesNext

\* A behaviour of the run is a behaviour of each of the components.
LEMMA ServicesAre == ServicesSpec => Spec /\ PushSpec /\ FederationSpec
<1>1. ServicesInit => Init /\ PushInit /\ FederationInit
  BY DEF ServicesInit
<1>2. [ServicesNext]_<<subject, vars, push, federation, scope>>
        => [Next]_vars /\ [PushNext]_push /\ [FederationNext]_federation
  BY ServicesStep
<1>3. QED BY <1>1, <1>2, PTL DEF ServicesSpec, Spec, PushSpec, FederationSpec

\* Every reachable state of the services is well typed: the approvals of the server, the
\* push to an agent's client and the queues of the federation.
THEOREM ServicesTypesCorrect == ServicesSpec => []TypesOK
<1>1. TypeOK /\ PushTypeOK /\ FederationTypeOK => TypesOK
  BY DEF TypesOK
<1>2. QED BY <1>1, ServicesAre, TypeCorrect, PushTypeCorrect, FederationTypeCorrect, PTL
=============================================================================
