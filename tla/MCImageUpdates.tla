--------------------------- MODULE MCImageUpdates ---------------------------
(* Small instances of ImageUpdates for TLC. *)
EXTENDS ImageUpdates, TLC

CONSTANTS web, r1, r2

(* One service, of either image, or none.                                   *)
Tagged == {web :> r1, web :> r2, web :> NoRef}

(* ... or of an image pinned by digest.                                     *)
TaggedOrPinned == Tagged \union {web :> Pin}

(* One service whose image never changes.                                   *)
Steady == {web :> r1}

Symmetric == Permutations(Sync)
=============================================================================
