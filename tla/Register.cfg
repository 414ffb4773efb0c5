\* Three documents on pages of two, one of them uploaded in between and one of them
\* changed; lists that are cut, marked documents, two windows one after the other.
SPECIFICATION Spec
CONSTANTS
    Docs = {1, 2, 3}
    Seeds = {1, 3}
    Reader = {r1}
    Queries = {"unprocessed", "flagged", "window"}
    PageSize = 2
    DefaultPage = 3
    MaxPageSize = 3
    MaxPages = 2
    SyncRows = 8
    SyncPages = 1
    AskRows = {0, 1}
    AskPages = {0, 3}
    Minute = 2
    Delay = 1
    Overlap = 1
    Edited = {1}
    Handled = {1}
    MaxTime = 4
INVARIANTS TypeOK NoneMissed NoneTwice MarkKept SyncCovers
CHECK_DEADLOCK FALSE
