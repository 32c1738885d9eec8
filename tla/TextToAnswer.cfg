\* Every text of up to three paragraphs and three headings, with the limits of
\* the code; one question at a time, a change of the library beside it; and two
\* tickets, two moves in flight at most and one thing that happens elsewhere; two
\* requests for two documents, and somebody else beside them.
SPECIFICATION MCSpec
CONSTANTS
    maxChars = 2400
    minChars = 600
    overlap = 250
    subHeadingSize = 12
    Paragraph <- MCParagraph
    Name = {"a", "b"}
    Level = {1, 2}
    MaxParagraphs = 3
    MaxHeadings = 3
    guide = guide
    note = note
    qa = qa
    Document = {guide, note, qa}
    Approved = {qa}
    Pieces <- MCPieces
    Size <- MCSize
    CandidatePool = 3
    maxPerDoc = 2
    topK = 2
    contextShare = 0
    threadShare = 0
    Asks <- MCAsks
    Models <- MCModels
    CanSearch = TRUE
    maxHistoryTurns = 3
    recentLimit = 1
    ByPath <- MCByPath
    Named = {guide}
    Libraries <- MCLibraries
    Earlier <- MCEarlier
    MaxTokens = 2
    t1 = t1
    t2 = t2
    words = words
    d1 = d1
    d2 = d2
    Ticket = {t1, t2}
    Text = {words}
    MaxPresses = 2
    MaxEvents = 1
    MaxReads = 1
    Path = {d1, d2}
    MaxRequests = 2
    MaxLists = 1
CHECK_DEADLOCK FALSE
INVARIANTS
    TextTypeOK
    NothingIsLost
    ChunksAreNamed
    SizeIsBounded
    UsageIsCarried
    SourcesAreTheUsed
    CountIsReal
    ThreadFits
    BothBeatOne
PROPERTIES
    ThreadStaysOut
    ReplayIsTheSame
    OnlyTheWorseAreDropped
    NumbersKeepTheirText
    ContextFits
    TypedIsKept
    FailuresStayTicked
