\* The same sessions, and no cut of an answer's length.
SPECIFICATION Spec
CONSTANTS
    Tree <- MCTree
    Root = 1
    SortModes <- MCSortModes
    Gram = 2
    MaxResults = 10
    Page = 2
    MaxLevels = 2
    AllNodes = AllNodes
    Idle = Idle
    Sessions <- MCSessions
PROPERTY AnswersComplete
CHECK_DEADLOCK FALSE
