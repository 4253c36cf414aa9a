---------------------------- MODULE MCScopeLocks ----------------------------
(* TLC instances of ScopeLocks: a directory d and a file f in it.             *)
EXTENDS ScopeLocks, TLC

CONSTANTS d, f

TwoPaths == {d, f}
FileInDir == {<<f, d>>}

Symmetry == Permutations(Tasks)

=============================================================================
