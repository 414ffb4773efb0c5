\* One process and a restart, failing file operations; a tool at a time that saves up to
\* two files; a report is waited for over three ticks.
SPECIFICATION SpecE
CONSTANTS
    Proc = {p1}
    Ids = {i1, i2}
    Foreign = {}
    Caller = {c1}
    None = None
    TTL = 1
    MaxTime = 6
    MaxStops = 1
    FsFaults = TRUE
    Tool = {t1}
    Report = {r1}
    Deadline = 3
    Poll = 1
    Slow = 1
    LastCall = 3
SYMMETRY Symmetry
INVARIANTS ExportsTypeOK ServedWasLive ToldLinksWork GivenUpLate EndsInTime
CHECK_DEADLOCK FALSE
