--------------------------- MODULE MCTaskProtocol ---------------------------
(* TLC instances of TaskProtocol.  Tasks and agents are interchangeable, so  *)
(* safety runs take the permutations of both as symmetry.                    *)
EXTENDS TaskProtocol, TLC

Symmetry == Permutations(Tasks) \union Permutations(Agents)
AgentSymmetry == Permutations(Agents)

=============================================================================
