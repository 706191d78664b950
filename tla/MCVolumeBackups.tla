--------------------------- MODULE MCVolumeBackups ---------------------------
(* Small instances of VolumeBackups for TLC. *)
EXTENDS VolumeBackups, TLC

CONSTANTS v1, web

(* v1 is a volume of the stack web.                                         *)
Labels == v1 :> {web}

(* Jobs: the stack's volumes; the volume itself.                            *)
Definitions == {[volumes |-> {}, groups |-> {web}, excluded |-> {}],
                [volumes |-> {v1}, groups |-> {}, excluded |-> {}]}

(* ... or the stack's volumes without it.                                   *)
Exclusions == Definitions \union {[volumes |-> {}, groups |-> {web}, excluded |-> {v1}]}

Symmetric == Permutations(Job) \union Permutations(Starter)
=============================================================================
