-------------------------- MODULE MCMessageDelivery --------------------------
(* TLC instances of MessageDelivery.  Requests and senders are               *)
(* interchangeable, so safety runs take their permutations as symmetry.      *)
EXTENDS MessageDelivery, TLC

Symmetry == Permutations(Requests) \union Permutations(Senders)

=============================================================================
