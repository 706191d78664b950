SPECIFICATION VulnSpec
CONSTANTS
    Scanner = {trivy}
    Image = {i1}
    VulnReq = {v1, v2}
    VulnJob = {b1}
    NoScanner = noscanner
    MaxBuild = 1
    MaxSaves = 2
INVARIANT PurgeDeletesAll
CHECK_DEADLOCK FALSE
