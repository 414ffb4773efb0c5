\* Two sessions, two calls, two names, one label in an answer.
SPECIFICATION Spec
CONSTANTS
    Name = {n1, n2}
    Sess = {s1, s2}
    Call = {c1, c2}
    Doc = Doc
    None = None
    Seed <- SeedDef
    Given = {3, 4}
    TagPage = 1
    Retries = 2
    MaxIds = 7
SYMMETRY Symmetry
INVARIANTS TypeOK HeardOf TakenOff Namesakes
CHECK_DEADLOCK FALSE
