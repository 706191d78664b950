SPECIFICATION Spec
CONSTANTS
    Scanner = {trivy, grype}
    Image = {i1}
    VulnReq = {q1, q2}
    VulnJob = {m1, m2}
    NoScanner = noscanner
    MaxBuild = 2
    MaxSaves = 2
    Backup = {m1, m2}
    Upload = {q1, q2}
    MaxStarts = 3
    MaxUploads = 2
    Faults = {"crash", "unclean", "uncleared"}
    Person = {ann}
    Token = {m1, m2}
    Web = {q1, q2}
    NoPerson = nobodyin
    MaxMade = 2
    MaxPasswords = 4
    Agent = {h1}
    Check = {q1, q2}
    MaxRelease = 3
    MaxDrops = 3
    LoginReq = {q1, q2}
    MaxFailures = 40
    StackId <- Ids
    RuleInput <- Rules
    PathInput <- Paths
    ResolveJob = {j1}
    SecretPath = {m1, m2}
    MaxEdits = 1
    MaxWrites = 1
    MaxLogins = 2
SYMMETRY Symmetric
INVARIANT ResultsOfTheChoice
INVARIANT PurgeLasts
PROPERTY GoodResultStays
INVARIANT PreviousDataKept
INVARIANT RunsFromOneOrigin
INVARIANT SessionsHaveAccounts
INVARIANT NextRequestSeesIt
PROPERTY DuePasswordIsShown
INVARIANT NoRepeatedMessages
INVARIANT OneGuessPerLockout
INVARIANT RulesKeepStacksApart
INVARIANT OneAnswerPerJob
\* The bounds end every part.
CHECK_DEADLOCK FALSE
