\* A ticket is confirmed twice at a time: the BA presses three buttons.
SPECIFICATION MCSpec
CONSTANTS
    maxChars = 2400
    minChars = 600
    overlap = 250
    subHeadingSize = 12
    Paragraph <- MCParagraph
    Name = {"a", "b"}
    Level = {1, 2}
    MaxParagraphs = 0
    MaxHeadings = 0
    guide = guide
    note = note
    qa = qa
    Document = {guide, note, qa}
    Approved = {qa}
    Pieces <- MCPieces
    Size <- MCSize
    CandidatePool = 3
    maxPerDoc = 2
    topK = 2
    contextShare = 0
    threadShare = 0
    Asks <- MCOne
    Models <- MCModels
    CanSearch = TRUE
    maxHistoryTurns = 3
    recentLimit = 1
    ByPath <- MCByPath
    Named = {guide}
    Libraries <- MCLibraries
    Earlier <- MCEarlier
    MaxTokens = 2
    t1 = t1
    t2 = t2
    words = words
    d1 = d1
    d2 = d2
    Ticket = {t1, t2}
    Text = {words}
    MaxPresses = 3
    MaxEvents = 0
    MaxReads = 1
    Path = {d1, d2}
    MaxRequests = 0
    MaxLists = 0
CHECK_DEADLOCK FALSE
INVARIANTS
    ConfirmedOnce
