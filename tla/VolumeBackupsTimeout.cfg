SPECIFICATION Spec
CONSTANTS
    v1 = v1
    web = web
    Volume = {v1}
    Group = {web}
    Matches <- Labels
    Def <- Definitions
    Job = {j1, j2}
    Starter = {s1, s2}
    MaxRuns = 2
    MaxEdits = 0
    MayDelete = FALSE
    MayVanish = FALSE
    MayTimeOut = TRUE
SYMMETRY Symmetric
INVARIANT OneRunPerVolume
CHECK_DEADLOCK FALSE
