SPECIFICATION Spec
CONSTANTS
    v1 = v1
    web = web
    Volume = {v1}
    Group = {web}
    Matches <- Labels
    Def <- Exclusions
    Job = {j1, j2}
    Starter = {s1, s2}
    MaxRuns = 2
    MaxEdits = 1
    MayDelete = FALSE
    MayVanish = FALSE
    MayTimeOut = FALSE
SYMMETRY Symmetric
INVARIANT OneRunPerVolume
CHECK_DEADLOCK FALSE
