SPECIFICATION FairSpec
CONSTANTS
    web = web
    r1 = r1
    r2 = r2
    Service = {web}
    Ref = {r1}
    Pin = pin
    NoRef = none
    Compose <- Steady
    Sync = {g1}
    MaxPush = 2
    MaxCrashes = 0
    MoveAnytime = TRUE
    Polled = TRUE
PROPERTY AutoFollowsRegistry
