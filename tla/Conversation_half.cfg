CONSTANTS
    RECALL_TURNS = 1
    MAX_TURNS = 2
    MaxSeq = 3
    MaxResets = 1
SPECIFICATION ConvSpec
INVARIANT HistoryIsWhole
