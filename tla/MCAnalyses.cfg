\* Two passes over growing evidence, either of which may be cut off; and a host
\* of three boots and five events, whose log is cut in two files.
SPECIFICATION MCSpec
CONSTANTS
    Day = 5
    Hour = 3
    HalfHour = 2
    NoHost = NoHost
    BurstThreshold = 2
    BurstWindow = 1
    CloudIps = {"cloud"}
    MinBeacons = 3
    ShortLife = 1
    NoValue = NoValue
    Moment = 1
    MinGap = 1
    AnySource = AnySource
    Scenarios <- MCScenarios
    Second = 2
    U64 = 100
    MaxPasses = 2
    Pids = {1, 2}
    Logons <- MCLogons
    MaxEvents = 5
    MaxBoots = 3
INVARIANTS
    NearestIsFound
    BurstBehindBruteforce
    TiedPairsAreReported
    RowsArePrefix
    SessionsAreReal
    CyclesAreReal
    AncestorsAreReal
PROPERTIES
    MoreEvidenceKeepsPairs
    NarrativeIsMonotone
CHECK_DEADLOCK FALSE
