SPECIFICATION Spec
CONSTANTS
    Stack = {s1}
    Host = {h1}
    None = none
    Req = {r1}
    Slot = {i1}
    MaxDeps = 2
    MaxCrashes = 0
PROPERTY DeletedStackIsDown
CHECK_DEADLOCK FALSE
