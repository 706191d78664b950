--------------------------- MODULE MCPollSchedule ---------------------------
(* Small instances of PollSchedule for TLC. *)
EXTENDS PollSchedule, TLC

Symmetric == Permutations(Editor) \union Permutations(Poll)
=============================================================================
