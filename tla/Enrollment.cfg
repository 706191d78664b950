SPECIFICATION Spec
CONSTANTS
    Agent = {a1, a2}
    Id = {i1, i2}
    Token = {t1}
    NoToken = none
    Req = {r1, r2}
    MaxPending = 1
    RequireToken = FALSE
    MaxRotations = 1
    MaxAstray = 2
SYMMETRY Symmetric
INVARIANT TokenApprovesOnce
INVARIANT RotationNeverLocksOut
INVARIANT OneHostPerCert
