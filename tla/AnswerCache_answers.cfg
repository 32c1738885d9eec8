CONSTANTS
    doc = doc
    other = other
    r1 = r1
    r2 = r2
    a1 = a1
    a2 = a2
    all = all
    folder = folder
    q1 = q1
    blank = blank
    short = short
    long = long
    Path = {doc, other}
    QAPath = {other}
    Body = {blank, short, long}
    Request = {r1, r2}
    Faults = {"provider", "store", "delete", "crash"}
    MaxClock = 1
    Keep = 1
    Asker = {a1, a2}
    Option = {all, folder}
    Question = {q1}
    Pieces <- MCPieces
    Sources <- MCSources
SPECIFICATION MCSpec
SYMMETRY MCSymmetry
CHECK_DEADLOCK FALSE
INVARIANTS
    CacheIsBounded
    TypeOK
    SavedIsIndexed
    RefusedWroteNothing
PROPERTIES
    ServedIsDue
    MoveDropsLast
    ImplementsShelf
