\* An archive ingested a second time.
SPECIFICATION Spec
CONSTANTS
    p1 = p1
    p2 = p2
    folder = folder
    image = image
    evtx = evtx
    mirror = mirror
    tmp1 = tmp1
    tmp2 = tmp2
    Absent = Absent
    Procs = {p1}
    Sources = {folder, image}
    Units = {evtx, mirror}
    Archives = {image}
    TempDirs = {tmp1, tmp2}
    SyntheticUnits = {mirror}
    FixedPlace = FixedPlace
    DefaultKey = DefaultKey
    NoHolder = NoHolder
    NoTxn = NoTxn
    NoSource = NoSource
    Places <- AllPlaces
    Keys <- AllKeys
    InputLists <- ImageOnly
    Refreshes = {TRUE, FALSE}
    Reported = {"Complete", "Incomplete"}
    MaxVersion = 1
    MaxFaults = 1
INVARIANT EventsOnce
\* The instance has two temporary names: when both are used it stops.
CHECK_DEADLOCK FALSE
