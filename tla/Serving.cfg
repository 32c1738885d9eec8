SPECIFICATION MCSpec
CONSTANTS
    server = server
    ingest = ingest
    d1 = d1
    Process = {server, ingest}
    Doc = {d1}
    MaxFaults = 2
    RECALL_TURNS = 1
    MAX_TURNS = 1
    MaxSeq = 3
    MaxResets = 1
INVARIANTS
    ServingTypeOK
    VersionTellsTheShape
    ReadyIsCurrent
    OneStream
    ResetForgets
    HalfIsMarked
PROPERTIES
    SavedTextsAreKept
    EveryoneOpens
    HideKeepsTheThread
    BusyEnds
