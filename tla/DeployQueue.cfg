SPECIFICATION FairSpec
CONSTANTS
    Stack = {s1}
    Host = {h1}
    None = none
    Req = {r1}
    Slot = {i1, i2}
    MaxDeps = 2
    MaxCrashes = 1
INVARIANT TypeOK
INVARIANT ExclusiveClaim
PROPERTY ImplementsLedger
PROPERTY QueuedIsClaimed
\* A refused request changes nothing, so the tables may come to rest.
CHECK_DEADLOCK FALSE
