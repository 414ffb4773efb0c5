\* Two credentials, two requests, three attempts of a start, one signal or crash.
SPECIFICATION FairSpec
CONSTANTS
    Cred = {k1, k2}
    Request = {r1, r2}
    None = None
    Attempts = 3
    MaxSess = 3
    MaxEnds = 1
INVARIANTS OneSession NoneLost
PROPERTIES Recovers StopEnds
CHECK_DEADLOCK FALSE
