--------------------------- MODULE MCConnections ---------------------------
(***************************************************************************)
(* The three kinds of connection for TLC.  They share no state, so a        *)
(* behaviour follows one of them and leaves the others at rest.             *)
(***************************************************************************)
EXTENDS SecretConnections, GitConnections, BackupDestinations, TLC

VARIABLE focus

Init == /\ SecretInit /\ GitInit /\ DestInit
        /\ focus \in {"secret", "git", "backup"}

Next ==
    /\ UNCHANGED focus
    /\ \/ focus = "secret" /\ SecretNext /\ UNCHANGED <<gitVars, destVars>>
       \/ focus = "git" /\ GitNext /\ UNCHANGED <<secretVars, destVars>>
       \/ focus = "backup" /\ DestNext /\ UNCHANGED <<secretVars, gitVars>>

Spec == Init /\ [][Next]_<<secretVars, gitVars, destVars, focus>>

Symmetric ==
    Permutations(SecretConn) \union Permutations(SecretStack) \union Permutations(SecretReq)
=============================================================================
