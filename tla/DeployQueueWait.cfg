SPECIFICATION HonestAgentSpec
CONSTANTS
    Stack = {s1}
    Host = {h1}
    None = none
    Req = {r1}
    Slot = {i1}
    MaxDeps = 1
    MaxCrashes = 0
PROPERTY WaitingHelps
CHECK_DEADLOCK FALSE
