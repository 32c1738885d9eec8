CONSTANTS
    doc = doc
    qa1 = qa1
    qa2 = qa2
    t1 = t1
    t2 = t2
    r1 = r1
    r2 = r2
    r3 = r3
    q1 = q1
    blank = blank
    short = short
    other = other
    long = long
    Path = {qa1, qa2}
    QAPath = {qa1, qa2}
    Ticket = {t1, t2}
    Question = {q1}
    Body = {blank, short}
    Request = {r1, r2, r3}
    Faults = {"provider", "store", "crash"}
    MaxClock = 0
    Pieces <- MCPieces
    TicketPath <- MCTicketPath
SPECIFICATION MCSpec
CHECK_DEADLOCK FALSE
INVARIANTS
    QATypeOK
    DocIffConfirmed
    VectorsMatchChunks
PROPERTIES
    TicketClosesLast
    UnpublishedFirst
    ImplementsDesk
    LoopProgress
