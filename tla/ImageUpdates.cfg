SPECIFICATION Spec
CONSTANTS
    web = web
    r1 = r1
    r2 = r2
    Service = {web}
    Ref = {r1, r2}
    Pin = pin
    NoRef = none
    Compose <- TaggedOrPinned
    Sync = {g1, g2}
    MaxPush = 1
    MaxCrashes = 1
    MoveAnytime = TRUE
    Polled = FALSE
SYMMETRY Symmetric
INVARIANT AppliedDescribesRef
INVARIANT RowsMatchDisk
