------------------------------ MODULE MCTunnel ------------------------------
(* Small instances of Tunnel for TLC. *)
EXTENDS Tunnel, TLC

Symmetric == Permutations(Cmd) \union Permutations(Table)
=============================================================================
