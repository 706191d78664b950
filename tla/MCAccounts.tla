----------------------------- MODULE MCAccounts -----------------------------
(* A small instance of Accounts for TLC. *)
EXTENDS Accounts, TLC

CONSTANTS u1, u2, i1

(* The provider lets the name of the identity change. *)
ChangedName == (i1 :> {u1, u2})

Symmetric == Permutations(Req)
=============================================================================
