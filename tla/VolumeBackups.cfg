SPECIFICATION FairSpec
CONSTANTS
    v1 = v1
    web = web
    Volume = {v1}
    Group = {web}
    Matches <- Labels
    Def <- Definitions
    Job = {j1}
    Starter = {s1, s2}
    MaxRuns = 2
    MaxEdits = 1
    MayDelete = TRUE
    MayVanish = FALSE
    MayTimeOut = TRUE
INVARIANT RunningVolumesApart
PROPERTY VerdictIsFinal
PROPERTY EveryRunEnds
\* Once every run the bound allows is over, only an administrator could act.
CHECK_DEADLOCK FALSE
