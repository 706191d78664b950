SPECIFICATION LimiterSpec
CONSTANTS
    LoginReq = {l1}
    MaxFailures = 40
INVARIANT GuessingIsSlow
CHECK_DEADLOCK FALSE
