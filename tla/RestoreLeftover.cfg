SPECIFICATION RestoreSpec
CONSTANTS
    Backup = {b1}
    Upload = {u1}
    MaxStarts = 3
    MaxUploads = 1
    Faults = {"unclean"}
INVARIANT LeftoverIsHarmless
CHECK_DEADLOCK FALSE
