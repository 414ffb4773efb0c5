\* One document, of the seeds or made by a tool; two calls at a time, each
\* request tried twice.
SPECIFICATION Spec
CONSTANTS
    Doc = {1}
    Caller = {c1, c2}
    Retries = 2
    MaxEdits = 1
    MaxSigs = 1
SYMMETRY Symmetry
INVARIANTS SignedAsIs SendOnce ToldTrue
CHECK_DEADLOCK FALSE
