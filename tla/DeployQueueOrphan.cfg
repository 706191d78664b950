SPECIFICATION Spec
CONSTANTS
    Stack = {s1}
    Host = {h1}
    None = none
    Req = {r1, r2}
    Slot = {i1}
    MaxDeps = 1
    MaxCrashes = 0
INVARIANT DeploymentHasStack
CHECK_DEADLOCK FALSE
