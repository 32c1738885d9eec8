CONSTANTS
    doc = doc
    r1 = r1
    r2 = r2
    long = long
    Path = {doc}
    QAPath = {}
    Body = {long}
    Request = {r1, r2}
    Faults = {}
    MaxClock = 0
    Pieces <- MCPieces
SPECIFICATION Spec
SYMMETRY MCSymmetry
CHECK_DEADLOCK FALSE
INVARIANT SettledHasOneText
