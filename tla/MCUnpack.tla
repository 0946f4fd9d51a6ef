------------------------------- MODULE MCUnpack -------------------------------
(***************************************************************************)
(* Small instances of what the threads of an ingest share while they read  *)
(* evidence: the pool they run on, the volume an archive's image is spooled*)
(* to, and the two readers that seek in compressed bytes.  The four share  *)
(* no state: a behaviour is of one of them, and the others stand still.    *)
(***************************************************************************)
EXTENDS SourcePool, SpillVolume, BzSeek, DeflateSeek

VARIABLE part

vars == <<part, poolVars, spillVars, bzVars, defVars>>

Init ==
    /\ part \in {"pool", "spill", "bzip2", "deflate"}
    /\ PoolInit
    /\ SpillInit
    /\ BzInit
    /\ DefInit
    /\ part # "pool" => queue = {}
    /\ part # "deflate" => Len(coded.dists) = 0 /\ \A i \in Intervals : interval <= i

PoolPart == PoolNext /\ UNCHANGED <<spillVars, bzVars, defVars>>
SpillPart == SpillNext /\ UNCHANGED <<poolVars, bzVars, defVars>>
BzPart == BzNext /\ UNCHANGED <<poolVars, spillVars, defVars>>
DeflatePart == DefNext /\ UNCHANGED <<poolVars, spillVars, bzVars>>

Next ==
    /\ UNCHANGED part
    /\ \/ part = "pool" /\ PoolPart
       \/ part = "spill" /\ SpillPart
       \/ part = "bzip2" /\ BzPart
       \/ part = "deflate" /\ DeflatePart

Spec == Init /\ [][Next]_vars

\* An open that has begun is a thread that waits for nobody, and every thread
\* of the pool keeps running.
FairSpec ==
    /\ Spec
    /\ \A s \in Sources :
           WF_vars(part = "spill" /\ Opening(s) /\ UNCHANGED <<part, poolVars, bzVars, defVars>>)
    /\ \A w \in Workers :
           WF_vars(part = "pool" /\ WorkerStep(w) /\ UNCHANGED <<part, spillVars, bzVars, defVars>>)

-------------------------------------------------------------------------------
\* The archives, and a tar of three files, the second of them a long name.
Image(declared, actual) ==
    [declared |-> declared, actual |-> actual, image |-> TRUE, stored |-> FALSE]
Other(declared, actual) == [Image(declared, actual) EXCEPT !.image = FALSE]

Archive(kind, entries) == [kind |-> kind, entries |-> entries]

MCArchives ==
    {Archive("zip", <<Image(3, 3)>>),
     Archive("zip", <<Image(2, 5), Image(9, 9)>>),
     Archive("zip", <<[Image(6, 6) EXCEPT !.stored = TRUE]>>),
     Archive("zip", <<Other(1, 1), Other(4, 4)>>),
     Archive("stream", <<Image(0, 5)>>),
     Archive("stream", <<Image(1, 1), Other(3, 3), Image(2, 2)>>),
     Archive("stream", <<>>),
     Archive("bzip2", <<Image(4, 4)>>)}

CONSTANTS r1, r2

MCFiles == <<[regular |-> TRUE, size |-> 3], [regular |-> FALSE, size |-> 1],
             [regular |-> TRUE, size |-> 3]>>
MCFileOf == r1 :> 1 @@ r2 :> 3
MCBlockLens == <<3, 2, 4, 2>>
===============================================================================
