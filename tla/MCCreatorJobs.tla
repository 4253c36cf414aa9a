---------------------------- MODULE MCCreatorJobs ----------------------------
(* TLC instances of CreatorJobs.  The runs check liveness, or end in a short  *)
(* counterexample, so they take no symmetry.                                  *)
EXTENDS CreatorJobs, TLC

=============================================================================
