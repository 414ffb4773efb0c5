\* Two documents, one of which supports versions, and two calls in any order, each request
\* tried up to three times.
SPECIFICATION Spec
CONSTANTS
    Doc = {d1, d2}
    Versioned = {d1}
    Call = {c1, c2}
    Retries = 3
    MaxIds = 6
SYMMETRY Symmetry
INVARIANTS CountedOnce Stands
CHECK_DEADLOCK FALSE
