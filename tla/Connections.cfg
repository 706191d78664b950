SPECIFICATION Spec
CONSTANTS
    SecretConn = {c1, c2, c3}
    SecretStack = {s1, s2}
    SecretReq = {r1, r2}
    NoConn = noconn
    Nobody = nobody
    MaxCuts = 1
    AfterRace = FALSE
    GitConn = {g1}
    GitStack = {t1}
    GitReq = {q1, q2}
    NoGitConn = nogit
    MaxGitCuts = 1
    Dest = {d1, d2}
    Share = {sh1, sh2}
    DestJob = {j1}
    DestReq = {p1, p2}
    NoDest = nodest
    NoShare = noshare
    MaxEdits = 2
SYMMETRY Symmetric
INVARIANT OwnOrShared
INVARIANT BindingsAreWhole
INVARIANT GitConnectionsAreWhole
INVARIANT RepoPasswordStays
INVARIANT RepoStateIsCurrent
INVARIANT JobsHaveDestinations
PROPERTY SharedOutlivesStacks
PROPERTY UsedAuthStays
\* A refused request changes nothing, so the tables may come to rest.
CHECK_DEADLOCK FALSE
