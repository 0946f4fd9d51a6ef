\* Five kinds of session: see MCSessions.
SPECIFICATION FairSpec
CONSTANTS
    Tree <- MCTree
    Root = 1
    SortModes <- MCSortModes
    Gram = 2
    MaxResults = 3
    Page = 2
    MaxLevels = 2
    AllNodes = AllNodes
    Idle = Idle
    Sessions <- MCSessions
INVARIANTS
    CursorsInRange
PROPERTIES
    CancelRestoresView
    BackLandsOnFolder
    MatchIsUnderCursor
    AnswersFit
    AnswerArrives
CHECK_DEADLOCK FALSE
