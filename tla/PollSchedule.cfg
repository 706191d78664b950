SPECIFICATION PollFairSpec
CONSTANTS
    Editor = {r1}
    Poll = {p1}
    Sched = {hourly, daily}
    Default = hourly
    NoSched = none
    MaxStackEdits = 4
    MaxCommits = 2
    MaxRestarts = 1
INVARIANT PollingIsScheduled
PROPERTY MovedHeadIsNoticed
\* At the bound on edits a deleted stack leaves nothing to do.
CHECK_DEADLOCK FALSE
