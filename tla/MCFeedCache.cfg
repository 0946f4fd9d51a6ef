\* One process, interrupted updates, a server that goes on publishing.
SPECIFICATION FairSpec
CONSTANTS
    Procs = {p1}
    NoFile = NoFile
    Torn = Torn
    NoTag = NoTag
    MaxVersion = 3
    MaxFaults = 3
INVARIANT TagVouches
PROPERTY KeepsUpToDate
