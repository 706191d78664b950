SPECIFICATION FairSpec
CONSTANTS
    MaxConn = 2
    Cmd = {k1}
    Table = {containers, images}
    MaxState = 1
    MaxWire = 1
INVARIANT NewestIsRegistered
PROPERTY ReaderGoesOn
PROPERTY StateIsStored
\* A host that has used up its connections is never heard of again.
CHECK_DEADLOCK FALSE
