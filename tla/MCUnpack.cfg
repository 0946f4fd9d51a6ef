\* Two threads on three sources, two archives opened at once, two members of one
\* .tar.bz2 read at once, and every DEFLATE stream of up to MaxLen symbols.
SPECIFICATION FairSpec
CONSTANTS
    Workers = {w1, w2}
    Evidence = {e1, e2, e3}
    Artifacts = {f1, f2}
    Bars = 1
    NoFile = NoFile
    Sources = {s1, s2}
    Archives <- MCArchives
    Volume = 6
    TempReserve = 1
    Ram = 8
    Floor = 1
    Ceiling = 4
    r1 = r1
    r2 = r2
    Readers = {r1, r2}
    Files <- MCFiles
    FileOf <- MCFileOf
    BlockLens <- MCBlockLens
    CacheCap = 2
    MaxRead = 3
    Window = 2
    Segment = 1
    Intervals = {1, 2}
    MaxLen = 5
INVARIANTS
    SlotsAgree
    WholeOrError
    SpoolKeepsReserve
    AnswersAreData
PROPERTIES
    PoolEnds
    OpensEnd
    ReadsLikePlainFile
CHECK_DEADLOCK FALSE
