SPECIFICATION FairSpec
CONSTANTS
    Proc = {p1}
    Ids = {i1, i2}
    Foreign = {}
    Caller = {c1}
    None = None
    TTL = 1
    MaxTime = 3
    MaxStops = 2
    FsFaults = FALSE
INVARIANTS TypeOK RefusedWasDead NoOrphans
PROPERTIES ImplementsLinks ExpiredFilesGo
CHECK_DEADLOCK FALSE
