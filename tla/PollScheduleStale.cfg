SPECIFICATION PollSpec
CONSTANTS
    Editor = {r1}
    Poll = {p1}
    Sched = {hourly}
    Default = hourly
    NoSched = none
    MaxStackEdits = 3
    MaxCommits = 2
    MaxRestarts = 0
INVARIANT NoStaleSchedule
CHECK_DEADLOCK FALSE
