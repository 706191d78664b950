---------------------------- MODULE MCEnrollment ----------------------------
(* Small instances of Enrollment for TLC. *)
EXTENDS Enrollment, TLC

Symmetric == Permutations(Req) \union Permutations(Id) \union Permutations(Agent) \union Permutations(Token)
=============================================================================
