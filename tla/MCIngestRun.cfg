\* Several folders ingested together, with crashes, failures and --refresh.
SPECIFICATION Spec
CONSTANTS
    p1 = p1
    p2 = p2
    folder = folder
    image = image
    evtx = evtx
    mirror = mirror
    tmp1 = tmp1
    tmp2 = tmp2
    Absent = Absent
    Procs = {p1, p2}
    Sources = {folder, image}
    Units = {evtx, mirror}
    Archives = {}
    TempDirs = {}
    SyntheticUnits = {mirror}
    FixedPlace = FixedPlace
    DefaultKey = DefaultKey
    NoHolder = NoHolder
    NoTxn = NoTxn
    NoSource = NoSource
    Places <- AllPlaces
    Keys <- AllKeys
    InputLists <- TwoSources
    Refreshes = {TRUE, FALSE}
    Reported = {"Complete", "Incomplete"}
    MaxVersion = 1
    MaxFaults = 2
SYMMETRY ProcSymmetry
INVARIANTS
    TypeOK
    MarkerMatchesRows
    OneSession
    SkipListSound
    EventsOnce
    Attributed
PROPERTIES
    NoDowngrade
    EvidenceKept
    ImplementsLedger
