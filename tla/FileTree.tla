------------------------------- MODULE FileTree -------------------------------
(***************************************************************************)
(* The tree of files that the navigator shows, and what its search finds   *)
(* in it.  A node's index is its place in the arena; its name is a         *)
(* sequence of letters, already in lower case.                             *)
(***************************************************************************)
EXTENDS Slices

CONSTANTS
    Tree,        \* the nodes: [name, parent, is_dir, flagged, rank]
    Root,        \* MFT entry 5
    SortModes,   \* the sort modes, in the order that `s' cycles through them
    Gram,        \* letters to an n-gram of the search index (3)
    MaxResults   \* 10 000

\* Parents refer to entries, which an orphan's need not be one of; orphans may
\* also be one another's.  The ranks of a node are its place by name, size, times.
ASSUME TreeAssumption ==
    /\ Root \in DOMAIN Tree /\ Tree[Root].is_dir /\ Tree[Root].parent = Root
    /\ IsFiniteSet(DOMAIN Tree) /\ DOMAIN Tree \subseteq Nat
    /\ \A n \in DOMAIN Tree : Tree[n].is_dir \in BOOLEAN
    /\ SortModes \in Seq(STRING) \ {<<>>}
    /\ Gram \in Nat \ {0} /\ MaxResults \in Nat \ {0}
    /\ \A n \in DOMAIN Tree : Tree[n].rank \in [ToSet(SortModes) \cup {"Name"} -> Nat]

Nodes == DOMAIN Tree
Dirs == {n \in Nodes : Tree[n].is_dir}

\* Siblings: directories first, then by the sort mode, and by name where it
\* does not tell (both sorts are stable).
Precedes(mode, a, b) ==
    LET x == Tree[a]
        y == Tree[b]
    IN  IF x.is_dir # y.is_dir THEN x.is_dir
        ELSE IF x.rank[mode] # y.rank[mode] THEN x.rank[mode] < y.rank[mode]
        ELSE IF x.rank["Name"] # y.rank["Name"] THEN x.rank["Name"] < y.rank["Name"]
        ELSE a < b

\* The children of a node that the filter lets through, in their order.
Passes(n, filtered) == n \in Dirs \/ ~filtered \/ Tree[n].flagged
Children ==
    [n \in Nodes |-> [mode \in ToSet(SortModes) |-> [filtered \in BOOLEAN |->
        Sorted({c \in Nodes : c # n /\ Tree[c].parent = n /\ Passes(c, filtered)},
               LAMBDA a, b : Precedes(mode, a, b))]]]

\* A node, its parent, and so on until one is unknown or met before.
Lineage ==
    [n \in Nodes |->
        LET line[k \in 0 .. Cardinality(Nodes)] ==
                IF k = 0 THEN <<n>>
                ELSE LET l == line[k - 1]
                         p == Tree[Last(l)].parent
                     IN  IF p \in Nodes \ ToSet(l) THEN Append(l, p) ELSE l
        IN  line[Cardinality(Nodes)]]

-------------------------------------------------------------------------------
\* Search.

Has(name, query) == \E i \in 0 .. Len(name) - Len(query) :
                        SubSeq(name, i + 1, i + Len(query)) = query

\* Slashes in the node's path, which has the names from below the root, or from
\* the first lost ancestor of an orphan, down to the node's.
Depth ==
    [n \in Nodes |->
        LET named == {m \in Nodes : m # Root /\ m \in ToSet(Lineage[n])}
        IN  IF named = {} THEN 1 ELSE Cardinality(named)]

\* TrigramIndex::candidates: the nodes that have every n-gram of the query, or
\* all nodes when it is too short for one.
Grams(word) == {SubSeq(word, i, i + Gram - 1) : i \in 1 .. (Len(word) + 1) - Gram}
Candidates(query) ==
    IF Len(query) < Gram THEN Nodes
    ELSE {n \in Nodes : Grams(query) \subseteq Grams(Tree[n].name)}

Cut(hits) == SubSeq(hits, 1, IF Len(hits) > MaxResults THEN MaxResults ELSE Len(hits))

\* A whole name first, then the shallower path; otherwise the order stays.
BestFirst(query, hits) ==
    LET whole(i) == Tree[hits[i]].name = query
        better(i, j) == IF whole(i) # whole(j) THEN whole(i)
                        ELSE IF Depth[hits[i]] # Depth[hits[j]]
                             THEN Depth[hits[i]] < Depth[hits[j]] ELSE i < j
        order == Sorted(DOMAIN hits, better)
    IN  [k \in DOMAIN hits |-> hits[order[k]]]

\* SearchData::search and SearchData::narrow.
Searched(query) ==
    BestFirst(query,
        Cut(Sorted({n \in Candidates(query) : n # Root /\ Has(Tree[n].name, query)}, <)))

Narrowed(query, hits) ==
    BestFirst(query, Cut(Where(hits, LAMBDA n : Has(Tree[n].name, query))))
===============================================================================
