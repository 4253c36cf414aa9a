------------------------------ MODULE Mailbox ------------------------------
(***************************************************************************)
(* What an agent may rely on when it asks its MCP client for messages: a   *)
(* message waits until it is handed over or lost, in whatever order; it is *)
(* handed over at most once, and one that is lost stays lost.              *)
(***************************************************************************)
EXTENDS Sequences, SequencesExt

CONSTANT Ids

VARIABLES waiting, handed, lost

mailbox == <<waiting, handed, lost>>

TypeOK ==
  /\ waiting \subseteq Ids /\ lost \subseteq Ids
  /\ handed \in Seq(Ids)

Init == waiting = {} /\ handed = <<>> /\ lost = {}

Known == waiting \union ToSet(handed) \union lost

Arrive(i) ==
  /\ waiting' = waiting \union {i}
  /\ UNCHANGED <<handed, lost>>

\* Some of the messages that wait are handed over, one after the other, and some
\* are given up.
Settle(s, gone) ==
  /\ IsInjective(s)
  /\ handed' = handed \o s
  /\ lost' = lost \union gone
  /\ waiting' = waiting \ (ToSet(s) \union gone)

Next ==
  \/ \E i \in Ids \ Known : Arrive(i)
  \/ \E taken, gone \in SUBSET waiting :
       /\ taken \intersect gone = {}
       /\ \E s \in SetToSeqs(taken) : Settle(s, gone)

Spec == Init /\ [][Next]_mailbox
=============================================================================
