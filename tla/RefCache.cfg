\* Two sessions of a company; a reader and a writer that use either.
SPECIFICATION CacheSpec
CONSTANTS
    Session = {s1, s2}
    Kind = {categories, tags}
    Merged = {categories}
    Deferred = {tags}
    Reader = {r1}
    Writer = {w1}
    Builtin = Builtin
    Failure = Failure
    None = None
    TTL = 1
    Latency = 1
    MaxTime = 2
    MaxVer = 1
SYMMETRY Symmetry
INVARIANTS StaleOnlyByRace BoundedStaleness OpenedAfresh
CHECK_DEADLOCK FALSE
