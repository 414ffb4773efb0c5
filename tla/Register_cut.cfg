\* The smallest list that is cut.
SPECIFICATION Spec
CONSTANTS
    Docs = {1, 2, 3, 4}
    Seeds = {1, 3, 4}
    Reader = {r1}
    Queries = {"all"}
    PageSize = 2
    DefaultPage = 3
    MaxPageSize = 3
    MaxPages = 2
    SyncRows = 8
    SyncPages = 1
    AskRows = {0, 1}
    AskPages = {0, 3}
    Minute = 1
    Delay = 1
    Overlap = 1
    Edited = {}
    Handled = {}
    MaxTime = 1
INVARIANTS ContinuesWhereStopped
CHECK_DEADLOCK FALSE
