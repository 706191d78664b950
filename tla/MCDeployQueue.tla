---------------------------- MODULE MCDeployQueue ----------------------------
(* Small instances of DeployQueue for TLC. *)
EXTENDS DeployQueue, TLC

Symmetric == Permutations(Req) \union Permutations(Slot)
=============================================================================
