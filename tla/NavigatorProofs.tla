---------------------------- MODULE NavigatorProofs ----------------------------
(***************************************************************************)
(* The navigator's cursors stay on their lists, Esc gives back the view    *)
(* that the search bar was opened on, the matches on show are those of the *)
(* query, a jump lands on its match, and backing out of a folder lands on  *)
(* the folder: for every tree, session and order of the answers.           *)
(***************************************************************************)
EXTENDS Navigator, SliceProofs

-------------------------------------------------------------------------------
\* The rows of a directory (FileTree, FileList).

\* The first element of lists put together is that of the first of them.
LEMMA FlattenFirst ==
  ASSUME NEW X, NEW n \in Nat \ {0}, NEW s \in [1 .. n -> Seq(X)], s[1] # <<>>
  PROVE  FlattenSeq(s)[1] = s[1][1]
<1>1. PICK f : IsFlattening(X, n, s, f)
  BY FlattenRuns
<1> USE DEF IsFlattening
<1> DEFINE T == {i \in 0 .. n : i = 0 \/ (Len(f[i]) > 0 /\ f[i][1] = s[1][1])}
<1>2. 0 \in T
  OBVIOUS
<1>3. ASSUME NEW i \in 1 .. n, i - 1 \in T PROVE i \in T
  <2>1. f[i] = f[i - 1] \o s[i] /\ f[i - 1] \in Seq(X) /\ s[i] \in Seq(X)
    <3>1. i - 1 \in 0 .. n
      OBVIOUS
    <3>. QED
      BY <1>1, <3>1
  <2>2. CASE i = 1
    <3>1. f[1] = <<>> \o s[1]
      <4>1. i - 1 = 0 /\ f[0] = <<>>
        BY <1>1, <2>2
      <4>. QED
        BY <2>1, <2>2, <4>1
    <3>2. <<>> \o s[1] = s[1] /\ Len(s[1]) > 0
      BY <2>1, <2>2
    <3>. QED
      BY <2>2, <3>1, <3>2
  <2>3. CASE i # 1
    <3>1. Len(f[i - 1]) > 0 /\ f[i - 1][1] = s[1][1]
      BY <1>3, <2>3
    <3>2. Len(f[i]) > 0 /\ f[i][1] = f[i - 1][1]
      BY <2>1, <3>1
    <3>. QED
      BY <3>1, <3>2
  <2>. QED
    BY <2>2, <2>3
<1>4. n \in T
  <2>1. n \in 0 .. n
    OBVIOUS
  <2> HIDE DEF T
  <2>. QED
    BY <1>2, <1>3, <2>1, GoingUp
<1>. QED
  BY <1>1, <1>4

\* The tree is finite, and so not everything can be in it.
LEMMA TreeIsFinite ==
  /\ IsFiniteSet(Nodes) /\ Cardinality(Nodes) \in Nat \ {0}
  /\ Root \in Dirs /\ Root \in Nodes /\ Nodes \subseteq Nat
<1>1. IsFiniteSet(Nodes) /\ Root \in Nodes /\ Root \in Dirs /\ Nodes \subseteq Nat
  BY TreeAssumption DEF Nodes, Dirs
<1>. QED
  BY <1>1, FS_CardinalityType, FS_EmptySet

\* The children of a node, in some order: each comes once it passes.
Kids(n, filtered) == {c \in Nodes : c # n /\ Tree[c].parent = n /\ Passes(c, filtered)}
LEMMA ChildrenAreKids ==
  ASSUME NEW n \in Nodes, NEW mode \in ToSet(SortModes), NEW filtered \in BOOLEAN
  PROVE  LET kids == Children[n][mode][filtered]
         IN  /\ kids \in Seq(Nodes) /\ ToSet(kids) = Kids(n, filtered)
             /\ Len(kids) \in Nat /\ DOMAIN kids = 1 .. Len(kids)
<1> DEFINE S == Kids(n, filtered)
           dir(a) == Tree[a].is_dir
           rank(a) == Tree[a].rank[mode]
           name(a) == Tree[a].rank["Name"]
           before(a, b) == IF dir(a) # dir(b) THEN dir(a)
                           ELSE IF rank(a) # rank(b) THEN rank(a) < rank(b)
                           ELSE IF name(a) # name(b) THEN name(a) < name(b) ELSE a < b
           R == {p \in S \X S : before(p[1], p[2])}
           m == Cardinality(S)
           kth(k) == CHOOSE x \in S : Cardinality({y \in S : before(y, x)}) = k - 1
           all == [k \in 1 .. m |-> kth(k)]
           kids == Children[n][mode][filtered]
<1>1. S \subseteq Nodes /\ IsFiniteSet(S)
  <2>1. S \in SUBSET Nodes
    BY DEF Kids
  <2> HIDE DEF S
  <2>. QED
    BY <2>1, TreeIsFinite, FS_Subset
<1>2. kids = SubSeq(all, 1, m)
  <2>1. kids = Sorted({c \in Nodes : c # n /\ Tree[c].parent = n /\ Passes(c, filtered)},
                      LAMBDA a, b : Precedes(mode, a, b))
    BY DEF Children
  <2>2. kids = SubSeq([k \in 1 .. m |-> kth(k)], 1, m)
    BY <2>1, Zenon DEF Sorted, Kids, Precedes
  <2>. QED
    BY <2>2
<1>3. \A a, b \in S : <<a, b>> \in R <=> before(a, b)
  <2> HIDE DEF S, before
  <2>. QED
    OBVIOUS
<1>4. Orders(R, S)
  <2>1. \A a \in S : dir(a) \in BOOLEAN /\ rank(a) \in Nat /\ name(a) \in Nat /\ a \in Nat
    <3> SUFFICES ASSUME NEW a \in Nodes
                 PROVE  dir(a) \in BOOLEAN /\ rank(a) \in Nat /\ name(a) \in Nat /\ a \in Nat
      BY <1>1
    <3>1. Tree[a].rank \in [ToSet(SortModes) \cup {"Name"} -> Nat]
      BY TreeAssumption DEF Nodes
    <3>2. dir(a) \in BOOLEAN /\ a \in Nat
      BY TreeAssumption DEF Nodes
    <3>. QED
      BY <3>1, <3>2
  <2> HIDE DEF S, dir, rank, name, R
  <2>3. ASSUME NEW a \in S PROVE ~ before(a, a)
    BY <2>1
  <2>4. ASSUME NEW a \in S, NEW b \in S, a # b PROVE before(a, b) \/ before(b, a)
    BY <2>1, <2>4
  <2>5. ASSUME NEW a \in S, NEW b \in S, NEW c \in S, before(a, b), before(b, c)
        PROVE  before(a, c)
    BY <2>1, <2>5
  <2> HIDE DEF before
  <2>. QED
    BY <1>3, <2>3, <2>4, <2>5 DEF Orders
<1>5. all = Ranked(R, S)
  <2>1. \A x \in S : {y \in S : before(y, x)} = Before(R, S, x)
    <3> HIDE DEF S, R, before
    <3>. QED
      BY <1>3 DEF Before
  <2>2. \A k \in 1 .. m : kth(k) = CHOOSE x \in S : Cardinality(Before(R, S, x)) = k - 1
    <3> HIDE DEF S, R, before, m
    <3>. QED
      BY <2>1
  <2> HIDE DEF S, R, kth
  <2>. QED
    BY <2>2 DEF Ranked
<1> HIDE DEF S, R, all, m, kids
<1>6. SubSeq(all, 1, m) = all /\ all \in Seq(S) /\ ToSet(all) = S
  BY <1>1, <1>4, <1>5, RankedIsSlice DEF m
<1>7. kids \in Seq(S) /\ ToSet(kids) = S
  BY <1>2, <1>6, Zenon
<1>8. kids \in Seq(Nodes) /\ Len(kids) \in Nat /\ DOMAIN kids = 1 .. Len(kids)
  BY <1>1, <1>7
<1>. QED
  BY <1>7, <1>8 DEF kids, S

\* The rows under a node at some level, made of those a level below.
Branch(kid, level, lower, collapsed) ==
    <<[node |-> kid, depth |-> Cardinality(Nodes) - level]>> \o
    (IF kid \in Dirs \ collapsed THEN lower[kid] ELSE <<>>)
RowsUnder(n, level, lower, collapsed, mode, filtered) ==
    LET kids == Children[n][mode][filtered]
    IN  FlattenSeq([i \in DOMAIN kids |-> Branch(kids[i], level, lower, collapsed)])

\* They are rows, the first a level's depth down, and every child has one; so has
\* what the level below has rows for under a child that is an open folder.
NodesOf(rows) == {row.node : row \in ToSet(rows)}
AreUnder(rows, n, level, lower, collapsed, filtered) ==
    /\ rows \in Seq(Rows)
    /\ rows # <<>> => rows[1].depth = Cardinality(Nodes) - level
    /\ NodesOf(rows) =
          Kids(n, filtered) \cup
          UNION {NodesOf(lower[kid]) : kid \in Kids(n, filtered) \cap (Dirs \ collapsed)}
LEMMA RowsUnderOne ==
  ASSUME NEW n \in Nodes, NEW level \in 1 .. Cardinality(Nodes),
         NEW lower \in [Nodes -> Seq(Rows)],
         NEW collapsed, NEW mode \in ToSet(SortModes), NEW filtered \in BOOLEAN
  PROVE  AreUnder(RowsUnder(n, level, lower, collapsed, mode, filtered),
                  n, level, lower, collapsed, filtered)
<1> DEFINE kids == Children[n][mode][filtered]
           m == Len(kids)
           branch(kid) == Branch(kid, level, lower, collapsed)
           s == [i \in 1 .. m |-> branch(kids[i])]
           rows == RowsUnder(n, level, lower, collapsed, mode, filtered)
           top(kid) == [node |-> kid, depth |-> Cardinality(Nodes) - level]
           rest(kid) == IF kid \in Dirs \ collapsed THEN lower[kid] ELSE <<>>
<1>1. /\ kids \in Seq(Nodes) /\ ToSet(kids) = Kids(n, filtered)
      /\ m \in Nat /\ DOMAIN kids = 1 .. m
  BY ChildrenAreKids
<1>2. rows = FlattenSeq(s)
  BY <1>1 DEF RowsUnder
<1>3. ASSUME NEW kid \in Nodes
      PROVE  /\ branch(kid) = <<top(kid)>> \o rest(kid)
             /\ branch(kid) \in Seq(Rows) /\ branch(kid) # <<>>
             /\ branch(kid)[1].depth = Cardinality(Nodes) - level
             /\ NodesOf(branch(kid)) = {kid} \cup NodesOf(rest(kid))
  <2>1. top(kid) \in Rows /\ rest(kid) \in Seq(Rows)
    <3>1. Cardinality(Nodes) - level \in Nat
      BY TreeIsFinite
    <3>2. <<>> \in Seq(Rows) /\ lower[kid] \in Seq(Rows)
      OBVIOUS
    <3>. QED
      BY <3>1, <3>2 DEF Rows
  <2>2. branch(kid) = <<top(kid)>> \o rest(kid)
    BY DEF Branch
  <2> DEFINE t == top(kid)
             r == rest(kid)
  <2>3. t.node = kid /\ t.depth = Cardinality(Nodes) - level
    OBVIOUS
  <2>10. t \in Rows /\ r \in Seq(Rows)
    BY <2>1
  <2> HIDE DEF t, r, branch, top, rest
  <2>4. <<t>> \in Seq(Rows) /\ ToSet(<<t>>) = {t}
    BY <2>10, Single
  <2>5. <<t>> \o r \in Seq(Rows) /\ ToSet(<<t>> \o r) = {t} \cup ToSet(r)
    <3> DEFINE one == <<t>>
    <3>1. one \in Seq(Rows) /\ ToSet(one) = {t}
      BY <2>4
    <3> HIDE DEF one
    <3>2. one \o r \in Seq(Rows) /\ ToSet(one \o r) = {t} \cup ToSet(r)
      BY <2>10, <3>1, ConcatIsBoth
    <3>. QED
      BY <3>2 DEF one
  <2>6. <<t>> \o r # <<>> /\ (<<t>> \o r)[1] = t
    BY <2>4, <2>10
  <2>7. branch(kid) = <<t>> \o r
    BY <2>2 DEF t, r
  <2>8. NodesOf(branch(kid)) = {kid} \cup NodesOf(r)
    BY <2>3, <2>5, <2>7 DEF NodesOf
  <2>9. branch(kid) \in Seq(Rows) /\ branch(kid) # <<>>
        /\ branch(kid)[1].depth = Cardinality(Nodes) - level
    BY <2>3, <2>5, <2>6, <2>7
  <2>. QED
    BY <2>2, <2>8, <2>9 DEF r
<1> HIDE DEF branch, rows, top, rest, kids
<1>4. \A i \in 1 .. m : kids[i] \in Nodes
  BY <1>1
<1>5. s \in [1 .. m -> Seq(Rows)] /\ \A i \in 1 .. m : s[i] = branch(kids[i])
  BY <1>3, <1>4
<1>6. rows \in Seq(Rows) /\ ToSet(rows) = UNION {ToSet(s[i]) : i \in 1 .. m}
  <2> HIDE DEF s, m
  <2>. QED
    BY <1>1, <1>2, <1>5, FlattenIsSequence
<1>7. ASSUME rows # <<>> PROVE rows[1].depth = Cardinality(Nodes) - level
  <2>1. m # 0
    <3> SUFFICES ASSUME m = 0 PROVE FALSE
      OBVIOUS
    <3>1. ToSet(rows) = {}
      BY <1>6
    <3>2. 1 \in DOMAIN rows
      BY <1>6, <1>7, EmptySeq
    <3>3. rows[1] \in ToSet(rows)
      BY <3>2 DEF ToSet
    <3>. QED
      BY <3>1, <3>3
  <2>2. 1 \in 1 .. m /\ m \in Nat \ {0}
    BY <1>1, <2>1
  <2>3. s[1] = branch(kids[1]) /\ s[1] # <<>> /\ s[1][1].depth = Cardinality(Nodes) - level
    BY <1>3, <1>4, <1>5, <2>2
  <2> HIDE DEF s, m
  <2>4. rows[1] = s[1][1]
    BY <1>2, <1>5, <2>2, <2>3, FlattenFirst
  <2>. QED
    BY <2>3, <2>4
<1>8. NodesOf(rows) = UNION {NodesOf(branch(kids[i])) : i \in 1 .. m}
  <2>1. NodesOf(rows) = UNION {NodesOf(s[i]) : i \in 1 .. m}
    <3> HIDE DEF s, m
    <3>. QED
      BY <1>6 DEF NodesOf
  <2>. QED
    BY <1>5, <2>1
<1>9. NodesOf(rows) = UNION {NodesOf(branch(kid)) : kid \in Kids(n, filtered)}
  <2>1. Kids(n, filtered) = {kids[i] : i \in 1 .. m}
    BY <1>1 DEF ToSet
  <2>. QED
    BY <1>8, <2>1
<1>10. \A kid \in Kids(n, filtered) : NodesOf(branch(kid)) =
          {kid} \cup (IF kid \in Dirs \ collapsed THEN NodesOf(lower[kid]) ELSE {})
  <2> SUFFICES ASSUME NEW kid \in Kids(n, filtered)
               PROVE  NodesOf(branch(kid)) =
                        {kid} \cup (IF kid \in Dirs \ collapsed THEN NodesOf(lower[kid]) ELSE {})
    OBVIOUS
  <2>1. NodesOf(branch(kid)) = {kid} \cup NodesOf(rest(kid))
    BY <1>3 DEF Kids
  <2>2. NodesOf(<<>>) = {}
    BY DEF NodesOf, ToSet
  <2>. QED
    BY <2>1, <2>2 DEF rest
<1>11. NodesOf(rows) = Kids(n, filtered) \cup
         UNION {NodesOf(lower[kid]) : kid \in Kids(n, filtered) \cap (Dirs \ collapsed)}
  BY <1>9, <1>10
<1>. QED
  BY <1>6, <1>7, <1>11 DEF rows, AreUnder

\* The levels of a listing: no rows below the last, and each made of the next.
IsListing(f, collapsed, mode, filtered) ==
    /\ f \in [0 .. Cardinality(Nodes) -> [Nodes -> Seq(Rows)]]
    /\ f[0] = [n \in Nodes |-> <<>>]
    /\ \A i \in 1 .. Cardinality(Nodes) : \A n \in Nodes :
          f[i][n] = RowsUnder(n, i, f[i - 1], collapsed, mode, filtered)
LEMMA ListingRuns ==
  ASSUME NEW collapsed, NEW mode \in ToSet(SortModes), NEW filtered \in BOOLEAN
  PROVE  \E f : /\ IsListing(f, collapsed, mode, filtered)
                /\ \A dir : Listing(dir, collapsed, mode, filtered) =
                               f[Cardinality(Nodes)][dir]
<1> DEFINE N == Cardinality(Nodes)
           X == [Nodes -> Seq(Rows)]
           none == [n \in Nodes |-> <<>>]
           Level(i, lower) ==
              [n \in Nodes |-> RowsUnder(n, i, lower, collapsed, mode, filtered)]
           step == [i \in 1 .. N |-> [lower \in X |-> Level(i, lower)]]
           Next1(g) == [i \in 0 .. N |-> [n \in Nodes |->
              IF i = 0 THEN <<>>
              ELSE RowsUnder(n, i, g[i - 1], collapsed, mode, filtered)]]
           under == CHOOSE g : g = Next1(g)
<1>1. N \in Nat
  BY TreeIsFinite
<1>2. ASSUME NEW i \in 1 .. N, NEW lower \in X PROVE Level(i, lower) \in X
  <2>1. \A n \in Nodes : RowsUnder(n, i, lower, collapsed, mode, filtered) \in Seq(Rows)
    BY RowsUnderOne DEF AreUnder
  <2>. QED
    BY <2>1
<1>3. none \in X
  <2>1. <<>> \in Seq(Rows)
    BY EmptySeq
  <2>. QED
    BY <2>1
<1>4. \E f : IsRun(X, N, none, step, f)
  <2> HIDE DEF N, X, none, Level
  <2>1. step \in Steps(X, N)
    BY <1>2 DEF Steps
  <2> HIDE DEF step
  <2>. QED
    BY <1>1, <1>3, <2>1, LoopRuns
<1>5. PICK f : IsRun(X, N, none, step, f)
  BY <1>4
<1>6. /\ f \in [0 .. N -> X] /\ f[0] = none
      /\ \A i \in 1 .. N : f[i] = Level(i, f[i - 1])
  <2> HIDE DEF N, X, none, Level
  <2>1. f \in [0 .. N -> X] /\ f[0] = none /\ \A i \in 1 .. N : f[i] = step[i][f[i - 1]]
    BY <1>5 DEF IsRun
  <2>2. ASSUME NEW i \in 1 .. N PROVE f[i] = Level(i, f[i - 1])
    <3>1. i - 1 \in 0 .. N
      BY <1>1
    <3>2. f[i - 1] \in X
      BY <2>1, <3>1
    <3>. QED
      BY <2>1, <3>2
  <2>. QED
    BY <2>1, <2>2
<1>7. f = Next1(f)
  <2>1. ASSUME NEW i \in 0 .. N
        PROVE  f[i] = [n \in Nodes |->
                         IF i = 0 THEN <<>>
                         ELSE RowsUnder(n, i, f[i - 1], collapsed, mode, filtered)]
    <3>1. CASE i = 0
      BY <1>6, <3>1
    <3>2. CASE i # 0
      <4>1. i \in 1 .. N
        BY <1>1, <3>2
      <4>. QED
        BY <1>6, <3>2, <4>1
    <3>. QED
      BY <3>1, <3>2
  <2>2. f = [i \in 0 .. N |-> f[i]]
    BY <1>6
  <2>. QED
    BY <2>1, <2>2
<1>8. under = Next1(under)
  <2> HIDE DEF Next1
  <2>. QED
    BY <1>7
<1>9. \A dir : Listing(dir, collapsed, mode, filtered) = under[N][dir]
  BY DEF Listing, RowsUnder, Branch
<1> HIDE DEF under, Level
<1>10. /\ DOMAIN under = 0 .. N
       /\ under[0] = none
       /\ \A i \in 1 .. N : under[i] = Level(i, under[i - 1])
  <2>1. \A i \in 0 .. N :
           under[i] = [n \in Nodes |->
                         IF i = 0 THEN <<>>
                         ELSE RowsUnder(n, i, under[i - 1], collapsed, mode, filtered)]
    BY <1>8
  <2>2. \A i \in 1 .. N : i \in 0 .. N /\ i # 0
    BY <1>1
  <2>3. 0 \in 0 .. N
    BY <1>1
  <2>4. DOMAIN under = 0 .. N
    BY <1>8
  <2> HIDE DEF N, Next1
  <2>5. under[0] = none
    BY <2>1, <2>3
  <2>6. ASSUME NEW i \in 1 .. N PROVE under[i] = Level(i, under[i - 1])
    BY <2>1, <2>2 DEF Level
  <2>. QED
    BY <2>4, <2>5, <2>6
<1> DEFINE T == {i \in 0 .. N : under[i] \in X}
<1>11. \A i \in 0 .. N : i \in T
  <2>1. 0 \in T
    <3>1. 0 \in 0 .. N
      BY <1>1
    <3>2. under[0] \in X
      <4> HIDE DEF X, none
      <4>. QED
        BY <1>3, <1>10
    <3>. QED
      BY <3>1, <3>2
  <2>2. ASSUME NEW i \in 1 .. N, i - 1 \in T PROVE i \in T
    <3>1. Level(i, under[i - 1]) \in X /\ i \in 0 .. N
      <4> HIDE DEF X
      <4>. QED
        BY <1>1, <1>2, <2>2
    <3>. QED
      BY <1>10, <3>1
  <2> HIDE DEF T, N
  <2>. QED
    BY <1>1, <2>1, <2>2, GoingUp
<1>12. under \in [0 .. N -> X]
  <2>1. under = [i \in 0 .. N |-> under[i]]
    BY <1>8
  <2>. QED
    BY <1>11, <2>1
<1>13. IsListing(under, collapsed, mode, filtered)
  <2>1. ASSUME NEW i \in 1 .. N, NEW n \in Nodes
        PROVE  under[i][n] = RowsUnder(n, i, under[i - 1], collapsed, mode, filtered)
    <3> HIDE DEF N, X
    <3>1. under[i] = Level(i, under[i - 1])
      BY <1>10
    <3>. QED
      BY <3>1 DEF Level
  <2> HIDE DEF Next1
  <2>. QED
    BY <1>10, <1>12, <2>1 DEF IsListing
<1>. QED
  BY <1>9, <1>13

\* What a view's list is made of: rows of nodes, the first in the directory.
LEMMA ListingRows ==
  ASSUME NEW v \in ViewType
  PROVE  /\ Flattened(v) \in Seq(Rows)
         /\ Flattened(v) # <<>> => Flattened(v)[1].depth = 0
<1> DEFINE N == Cardinality(Nodes)
<1>1. /\ v.current_dir \in Nodes /\ v.sort_mode \in ToSet(SortModes)
      /\ v.flagged_filter \in BOOLEAN
  BY DEF ViewType
<1>2. PICK f : /\ IsListing(f, v.collapsed, v.sort_mode, v.flagged_filter)
               /\ Flattened(v) = f[N][v.current_dir]
  BY <1>1, ListingRuns DEF Flattened
<1>3. N \in 1 .. N /\ N - 1 \in 0 .. N /\ N - N = 0
  BY TreeIsFinite
<1>4. /\ f[N - 1] \in [Nodes -> Seq(Rows)]
      /\ Flattened(v) = RowsUnder(v.current_dir, N, f[N - 1], v.collapsed, v.sort_mode,
                                  v.flagged_filter)
  <2> HIDE DEF N
  <2>. QED
    BY <1>1, <1>2, <1>3 DEF IsListing, N
<1> DEFINE rows == RowsUnder(v.current_dir, N, f[N - 1], v.collapsed, v.sort_mode,
                             v.flagged_filter)
<1>5. AreUnder(rows, v.current_dir, N, f[N - 1], v.collapsed, v.flagged_filter)
  BY <1>1, <1>3, <1>4, RowsUnderOne
<1> HIDE DEF rows
<1>6. Flattened(v) = rows
  BY <1>4 DEF rows
<1>. QED
  BY <1>3, <1>5, <1>6 DEF AreUnder

-------------------------------------------------------------------------------
\* Ways down the tree, and the nodes that a list has rows for.

\* A way of j steps from a node down to another, each from a parent to its child;
\* and one on which nothing between its ends is closed or a file.
Way(f, j, a, b) ==
    /\ j \in Nat /\ f \in [0 .. j -> Nodes] /\ f[0] = a /\ f[j] = b
    /\ \A i \in 1 .. j : f[i] # f[i - 1] /\ Tree[f[i]].parent = f[i - 1]
Open(f, j, collapsed) == \A i \in 1 .. j - 1 : f[i] \in Dirs \ collapsed
OpenWay(a, b, most, collapsed) ==
    \E f, j : j \in 1 .. most /\ Way(f, j, a, b) /\ Open(f, j, collapsed)

\* A step before a way, and what is left of a way after its first step.
LEMMA WayFromAbove ==
  ASSUME NEW f, NEW j \in Nat, NEW a \in Nodes, NEW c, NEW b, Way(f, j, c, b),
         c # a, Tree[c].parent = a
  PROVE  \E g : /\ Way(g, j + 1, a, b) /\ g[1] = c
                /\ \A k \in 0 .. j : g[k + 1] = f[k]
<1> DEFINE g == [k \in 0 .. j + 1 |-> IF k = 0 THEN a ELSE f[k - 1]]
<1>1. /\ j \in Nat /\ f \in [0 .. j -> Nodes] /\ f[0] = c /\ f[j] = b
      /\ \A i \in 1 .. j : f[i] # f[i - 1] /\ Tree[f[i]].parent = f[i - 1]
  BY DEF Way
<1>2. \A k \in 1 .. j + 1 : k - 1 \in 0 .. j
  BY <1>1
<1>3. /\ g \in [0 .. j + 1 -> Nodes] /\ g[0] = a
      /\ \A k \in 1 .. j + 1 : g[k] = f[k - 1]
  <2>1. \A k \in 1 .. j + 1 : f[k - 1] \in Nodes
    BY <1>1, <1>2
  <2>. QED
    BY <1>1, <2>1
<1> HIDE DEF g
<1>4. \A k \in 0 .. j : g[k + 1] = f[k]
  BY <1>1, <1>3
<1>5. ASSUME NEW i \in 1 .. j + 1
      PROVE  g[i] # g[i - 1] /\ Tree[g[i]].parent = g[i - 1]
  <2>1. CASE i = 1
    <3>1. 1 \in 1 .. j + 1 /\ 1 - 1 = 0
      BY <1>1
    <3>2. g[1] = f[0] /\ g[1 - 1] = a
      BY <1>3, <3>1
    <3>. QED
      BY <1>1, <2>1, <3>2
  <2>2. CASE i # 1
    <3>1. i - 1 \in 1 .. j /\ i - 1 \in 1 .. j + 1
      BY <1>1, <2>2
    <3>2. g[i] = f[i - 1] /\ g[i - 1] = f[(i - 1) - 1]
      BY <1>3, <3>1
    <3>. QED
      BY <1>1, <3>1, <3>2
  <2>. QED
    BY <2>1, <2>2
<1>6. 0 \in 0 .. j /\ j \in 0 .. j /\ j + 1 \in Nat /\ 0 + 1 = 1
  BY <1>1
<1>7. g[1] = c /\ g[j + 1] = b
  BY <1>1, <1>4, <1>6
<1>. QED
  BY <1>3, <1>4, <1>5, <1>6, <1>7 DEF Way

LEMMA WayFromBelow ==
  ASSUME NEW f, NEW j, NEW a, NEW b, Way(f, j, a, b), j # 0
  PROVE  LET g == [k \in 0 .. j - 1 |-> f[k + 1]]
         IN  /\ Way(g, j - 1, f[1], b)
             /\ f[1] \in Nodes /\ f[1] # a /\ Tree[f[1]].parent = a
<1> DEFINE g == [k \in 0 .. j - 1 |-> f[k + 1]]
<1>1. /\ j \in Nat /\ f \in [0 .. j -> Nodes] /\ f[0] = a /\ f[j] = b
      /\ \A i \in 1 .. j : f[i] # f[i - 1] /\ Tree[f[i]].parent = f[i - 1]
  BY DEF Way
<1>2. \A k \in 0 .. j - 1 : k + 1 \in 0 .. j /\ k + 1 \in 1 .. j
  BY <1>1
<1>3. g \in [0 .. j - 1 -> Nodes] /\ \A k \in 0 .. j - 1 : g[k] = f[k + 1]
  BY <1>1, <1>2
<1> HIDE DEF g
<1>4. 0 \in 0 .. j - 1 /\ j - 1 \in 0 .. j - 1 /\ j - 1 \in Nat /\ (j - 1) + 1 = j /\ 0 + 1 = 1
  BY <1>1
<1>5. g[0] = f[1] /\ g[j - 1] = b
  BY <1>1, <1>3, <1>4
<1>6. ASSUME NEW i \in 1 .. j - 1
      PROVE  g[i] # g[i - 1] /\ Tree[g[i]].parent = g[i - 1]
  <2>1. i \in 0 .. j - 1 /\ i - 1 \in 0 .. j - 1 /\ i + 1 \in 1 .. j
        /\ (i - 1) + 1 = i /\ (i + 1) - 1 = i
    BY <1>1
  <2>2. g[i] = f[i + 1] /\ g[i - 1] = f[i]
    BY <1>3, <2>1
  <2>. QED
    BY <1>1, <2>1, <2>2
<1>7. Way(g, j - 1, f[1], b)
  BY <1>3, <1>4, <1>5, <1>6 DEF Way
<1>8. f[1] \in Nodes /\ f[1] # a /\ Tree[f[1]].parent = a
  <2>1. 1 \in 1 .. j /\ 1 \in 0 .. j /\ 1 - 1 = 0
    BY <1>1
  <2>. QED
    BY <1>1, <2>1
<1>. QED
  BY <1>7, <1>8 DEF g

\* An open way, by its first step: to a child, or on from a child that is open.
LEMMA OpenWayByStep ==
  ASSUME NEW a \in Nodes, NEW b \in Nodes, NEW most \in Nat \ {0}, NEW collapsed
  PROVE  OpenWay(a, b, most, collapsed) <=>
           \E c \in Nodes : /\ c # a /\ Tree[c].parent = a
                            /\ \/ c = b
                               \/ c \in Dirs \ collapsed /\ OpenWay(c, b, most - 1, collapsed)
<1>1. ASSUME OpenWay(a, b, most, collapsed)
      PROVE  \E c \in Nodes : /\ c # a /\ Tree[c].parent = a
                              /\ \/ c = b
                                 \/ c \in Dirs \ collapsed /\ OpenWay(c, b, most - 1, collapsed)
  <2>1. PICK f, j : j \in 1 .. most /\ Way(f, j, a, b) /\ Open(f, j, collapsed)
    BY <1>1 DEF OpenWay
  <2> DEFINE g == [k \in 0 .. j - 1 |-> f[k + 1]]
  <2>2. /\ Way(g, j - 1, f[1], b)
        /\ f[1] \in Nodes /\ f[1] # a /\ Tree[f[1]].parent = a
    BY <2>1, WayFromBelow
  <2>3. CASE j = 1
    BY <2>1, <2>2, <2>3 DEF Way
  <2>4. CASE j # 1
    <3>1. j - 1 \in 1 .. most - 1 /\ 1 \in 1 .. j - 1
      BY <2>1, <2>4
    <3>2. f[1] \in Dirs \ collapsed
      BY <2>1, <3>1 DEF Open
    <3>3. Open(g, j - 1, collapsed)
      <4>1. \A i \in 1 .. (j - 1) - 1 : i \in 0 .. j - 1 /\ i + 1 \in 1 .. j - 1
        BY <2>1
      <4>. QED
        BY <2>1, <4>1 DEF Open
    <3> HIDE DEF g
    <3>4. OpenWay(f[1], b, most - 1, collapsed)
      BY <2>2, <3>1, <3>3 DEF OpenWay
    <3>. QED
      BY <2>2, <3>2, <3>4
  <2>. QED
    BY <2>3, <2>4
<1>2. ASSUME NEW c \in Nodes, c # a, Tree[c].parent = a, c = b
      PROVE  OpenWay(a, b, most, collapsed)
  <2> DEFINE f == [k \in 0 .. 1 |-> IF k = 0 THEN a ELSE b]
  <2>1. Way(f, 1, a, b)
    <3>1. f \in [0 .. 1 -> Nodes] /\ f[0] = a /\ f[1] = b
      OBVIOUS
    <3>2. \A i \in 1 .. 1 : i = 1 /\ i - 1 = 0
      OBVIOUS
    <3> HIDE DEF f
    <3>. QED
      BY <1>2, <3>1, <3>2 DEF Way
  <2> HIDE DEF f
  <2>2. Open(f, 1, collapsed) /\ 1 \in 1 .. most
    BY DEF Open
  <2>. QED
    BY <2>1, <2>2 DEF OpenWay
<1>3. ASSUME NEW c \in Nodes, c # a, Tree[c].parent = a, c \in Dirs \ collapsed,
             OpenWay(c, b, most - 1, collapsed)
      PROVE  OpenWay(a, b, most, collapsed)
  <2>1. PICK f, j : j \in 1 .. most - 1 /\ Way(f, j, c, b) /\ Open(f, j, collapsed)
    BY <1>3 DEF OpenWay
  <2>2. PICK g : /\ Way(g, j + 1, a, b) /\ g[1] = c
                 /\ \A k \in 0 .. j : g[k + 1] = f[k]
    <3>1. j \in Nat
      BY <2>1
    <3>. QED
      BY <1>3, <2>1, <3>1, WayFromAbove
  <2>3. ASSUME NEW i \in 1 .. (j + 1) - 1 PROVE g[i] \in Dirs \ collapsed
    <3>1. CASE i = 1
      BY <1>3, <2>2, <3>1
    <3>2. CASE i # 1
      <4>1. i - 1 \in 0 .. j /\ i - 1 \in 1 .. j - 1 /\ (i - 1) + 1 = i
        BY <2>1, <3>2
      <4>. QED
        BY <2>1, <2>2, <4>1 DEF Open
    <3>. QED
      BY <3>1, <3>2
  <2>4. Open(g, j + 1, collapsed) /\ j + 1 \in 1 .. most
    BY <2>1, <2>3 DEF Open
  <2>. QED
    BY <2>2, <2>4 DEF OpenWay
<1>. QED
  BY <1>1, <1>2, <1>3

\* A level has rows for the nodes that pass and have an open way to them.
LEMMA ListedByWays ==
  ASSUME NEW f, NEW collapsed, NEW mode \in ToSet(SortModes),
         NEW filtered \in BOOLEAN,
         IsListing(f, collapsed, mode, filtered)
  PROVE  \A i \in 0 .. Cardinality(Nodes) : \A a, b \in Nodes :
            b \in NodesOf(f[i][a]) <=> Passes(b, filtered) /\ OpenWay(a, b, i, collapsed)
<1> DEFINE N == Cardinality(Nodes)
           Told(i) == \A a, b \in Nodes :
              b \in NodesOf(f[i][a]) <=> Passes(b, filtered) /\ OpenWay(a, b, i, collapsed)
           T == {i \in 0 .. N : Told(i)}
<1>1. N \in Nat
  BY TreeIsFinite
<1>2. Told(0)
  <2>1. \A a \in Nodes : NodesOf(f[0][a]) = {}
    <3>1. \A a \in Nodes : f[0][a] = <<>>
      BY DEF IsListing
    <3>2. NodesOf(<<>>) = {}
      BY DEF NodesOf, ToSet
    <3>. QED
      BY <3>1, <3>2
  <2>2. \A a, b : ~ OpenWay(a, b, 0, collapsed)
    BY DEF OpenWay
  <2>. QED
    BY <2>1, <2>2
<1>3. ASSUME NEW i \in 1 .. N, Told(i - 1) PROVE Told(i)
  <2> SUFFICES ASSUME NEW a \in Nodes, NEW b \in Nodes
               PROVE  b \in NodesOf(f[i][a]) <=>
                        Passes(b, filtered) /\ OpenWay(a, b, i, collapsed)
    OBVIOUS
  <2> DEFINE lower == f[i - 1]
             rows == f[i][a]
  <2>1. rows = RowsUnder(a, i, lower, collapsed, mode, filtered) /\ lower \in [Nodes -> Seq(Rows)]
    <3>1. i - 1 \in 0 .. N
      BY <1>1
    <3>. QED
      BY <3>1 DEF IsListing
  <2>2. \A c, d \in Nodes :
           d \in NodesOf(lower[c]) <=> Passes(d, filtered) /\ OpenWay(c, d, i - 1, collapsed)
    BY <1>3
  <2> HIDE DEF rows, lower
  <2>3. AreUnder(rows, a, i, lower, collapsed, filtered)
    BY <2>1, RowsUnderOne
  <2>4. b \in NodesOf(rows) <=>
           \/ b \in Kids(a, filtered)
           \/ \E c \in Kids(a, filtered) \cap (Dirs \ collapsed) : b \in NodesOf(lower[c])
    BY <2>3 DEF AreUnder
  <2>5. \A c \in Nodes : c \in Kids(a, filtered) <=>
           c # a /\ Tree[c].parent = a /\ Passes(c, filtered)
    BY DEF Kids
  <2>6. \A c \in Dirs : c \in Nodes /\ Passes(c, filtered)
    BY DEF Passes, Dirs
  <2>7. b \in NodesOf(rows) <=>
           /\ Passes(b, filtered)
           /\ \E c \in Nodes : /\ c # a /\ Tree[c].parent = a
                               /\ \/ c = b
                                  \/ c \in Dirs \ collapsed /\ OpenWay(c, b, i - 1, collapsed)
    <3>1. ASSUME b \in NodesOf(rows)
          PROVE  /\ Passes(b, filtered)
                 /\ \E c \in Nodes : /\ c # a /\ Tree[c].parent = a
                                     /\ \/ c = b
                                        \/ c \in Dirs \ collapsed
                                           /\ OpenWay(c, b, i - 1, collapsed)
      <4>1. CASE b \in Kids(a, filtered)
        BY <2>5, <4>1
      <4>2. ASSUME NEW c \in Kids(a, filtered) \cap (Dirs \ collapsed), b \in NodesOf(lower[c])
            PROVE  /\ Passes(b, filtered) /\ c \in Nodes /\ c # a /\ Tree[c].parent = a
                   /\ c \in Dirs \ collapsed /\ OpenWay(c, b, i - 1, collapsed)
        BY <2>2, <2>5, <2>6, <4>2
      <4>. QED
        BY <2>4, <3>1, <4>1, <4>2
    <3>2. ASSUME Passes(b, filtered), NEW c \in Nodes, c # a, Tree[c].parent = a, c = b
          PROVE  b \in NodesOf(rows)
      BY <2>4, <2>5, <3>2
    <3>3. ASSUME Passes(b, filtered), NEW c \in Nodes, c # a, Tree[c].parent = a,
                 c \in Dirs \ collapsed, OpenWay(c, b, i - 1, collapsed)
          PROVE  b \in NodesOf(rows)
      BY <2>2, <2>4, <2>5, <2>6, <3>3
    <3>. QED
      BY <3>1, <3>2, <3>3
  <2>8. i \in Nat \ {0}
    BY <1>1
  <2>. QED
    BY <2>7, <2>8, OpenWayByStep DEF rows
<1>4. \A i \in 0 .. N : i \in T
  <2>1. 0 \in T
    BY <1>1, <1>2
  <2>2. ASSUME NEW i \in 1 .. N, i - 1 \in T PROVE i \in T
    <3>1. Told(i - 1) /\ i \in 0 .. N
      BY <1>1, <2>2
    <3> HIDE DEF Told
    <3>. QED
      BY <1>3, <3>1
  <2> HIDE DEF T, N
  <2>. QED
    BY <1>1, <2>1, <2>2, GoingUp
<1>. QED
  BY <1>4

\* A list has rows for the nodes that pass and have an open way from its directory.
LEMMA RowsByWays ==
  ASSUME NEW v \in ListedViews, NEW n \in Nodes
  PROVE  n \in NodesOf(v.entries) <=>
           /\ Passes(n, v.flagged_filter)
           /\ OpenWay(v.current_dir, n, Cardinality(Nodes), v.collapsed)
<1> DEFINE N == Cardinality(Nodes)
<1>1. /\ v.current_dir \in Nodes /\ v.sort_mode \in ToSet(SortModes)
      /\ v.flagged_filter \in BOOLEAN /\ v.entries = Flattened(v)
  BY DEF ListedViews, ViewType
<1>2. PICK f : /\ IsListing(f, v.collapsed, v.sort_mode, v.flagged_filter)
               /\ Flattened(v) = f[N][v.current_dir]
  BY <1>1, ListingRuns DEF Flattened
<1>3. N \in 0 .. N
  BY TreeIsFinite
<1>. QED
  BY <1>1, <1>2, <1>3, ListedByWays

\* A jump to a match (jump_to_search_result).

\* A node's lineage: it, its parent and so on, each once, no more than there are.
Climbs(n) ==
    {l \in Seq(Nodes) :
        /\ l # <<>> /\ l[1] = n
        /\ \A i \in 1 .. Len(l) - 1 : l[i + 1] = Tree[l[i]].parent
        /\ \A i, j \in 1 .. Len(l) : l[i] = l[j] => i = j}
LEMMA ClimbsOn ==
  ASSUME NEW n \in Nodes, NEW l \in Climbs(n)
  PROVE  LET p == Tree[Last(l)].parent
             next == IF p \in Nodes \ ToSet(l) THEN Append(l, p) ELSE l
         IN  next \in Climbs(n) /\ Len(next) \in {Len(l), Len(l) + 1}
<1> DEFINE p == Tree[Last(l)].parent
           m == Len(l)
           next == IF p \in Nodes \ ToSet(l) THEN Append(l, p) ELSE l
<1>1. /\ l \in Seq(Nodes) /\ l # <<>> /\ l[1] = n
      /\ \A i \in 1 .. m - 1 : l[i + 1] = Tree[l[i]].parent
      /\ \A i, j \in 1 .. m : l[i] = l[j] => i = j
  BY DEF Climbs
<1>2. /\ m \in Nat \ {0} /\ DOMAIN l = 1 .. m /\ Last(l) = l[m]
  BY <1>1, EmptySeq DEF Last
<1>3. CASE p \notin Nodes \ ToSet(l)
  BY <1>3
<1>4. CASE p \in Nodes \ ToSet(l)
  <2> DEFINE g == Append(l, p)
  <2>1. /\ g \in Seq(Nodes) /\ Len(g) = m + 1 /\ g[m + 1] = p
        /\ \A i \in 1 .. m : g[i] = l[i]
    <3> HIDE DEF p
    <3>. QED
      BY <1>1, <1>4, LastAndAppend
  <2>2. p = Tree[l[m]].parent /\ \A i \in 1 .. m : l[i] # p
    BY <1>2, <1>4 DEF ToSet
  <2> HIDE DEF g, p, m
  <2>3. g # <<>> /\ g[1] = n
    BY <1>1, <1>2, <2>1
  <2>4. ASSUME NEW i \in 1 .. Len(g) - 1 PROVE g[i + 1] = Tree[g[i]].parent
    <3>1. CASE i = m
      BY <1>2, <2>1, <2>2, <3>1
    <3>2. CASE i # m
      <4>1. i \in 1 .. m - 1 /\ i \in 1 .. m /\ i + 1 \in 1 .. m
        BY <1>2, <2>1, <3>2
      <4>. QED
        BY <1>1, <2>1, <4>1
    <3>. QED
      BY <3>1, <3>2
  <2>5. ASSUME NEW i \in 1 .. Len(g), NEW j \in 1 .. Len(g), g[i] = g[j] PROVE i = j
    <3>1. (i = m + 1 \/ i \in 1 .. m) /\ (j = m + 1 \/ j \in 1 .. m)
      BY <1>2, <2>1
    <3>. QED
      BY <1>1, <2>1, <2>2, <2>5, <3>1
  <2>6. g \in Climbs(n)
    BY <2>1, <2>3, <2>4, <2>5 DEF Climbs
  <2>. QED
    BY <1>4, <2>1, <2>6 DEF g, m, p
<1>. QED
  BY <1>3, <1>4

LEMMA LineageClimbs ==
  ASSUME NEW n \in Nodes
  PROVE  Lineage[n] \in Climbs(n) /\ Len(Lineage[n]) \in 1 .. Cardinality(Nodes) + 1
<1> DEFINE N == Cardinality(Nodes)
           X == Climbs(n)
           one == <<n>>
           On(l) == LET p == Tree[Last(l)].parent
                    IN  IF p \in Nodes \ ToSet(l) THEN Append(l, p) ELSE l
           step == [k \in 1 .. N |-> [l \in X |-> On(l)]]
           Next1(g) == [k \in 0 .. N |-> IF k = 0 THEN one ELSE On(g[k - 1])]
           line == CHOOSE g : g = Next1(g)
<1>1. N \in Nat
  BY TreeIsFinite
<1>2. \A l \in X : On(l) \in X /\ Len(On(l)) \in {Len(l), Len(l) + 1}
  BY ClimbsOn
<1>3. one \in X /\ Len(one) = 1
  <2>1. one \in Seq(Nodes) /\ one # <<>> /\ one[1] = n /\ Len(one) = 1
    OBVIOUS
  <2> HIDE DEF one
  <2>2. /\ \A i \in 1 .. Len(one) - 1 : one[i + 1] = Tree[one[i]].parent
        /\ \A i, j \in 1 .. Len(one) : one[i] = one[j] => i = j
    BY <2>1
  <2>3. one \in Climbs(n)
    BY <2>1, <2>2 DEF Climbs
  <2>. QED
    BY <2>1, <2>3
<1> HIDE DEF one, X, On, N
<1>4. PICK f : IsRun(X, N, one, step, f)
  <2>1. step \in Steps(X, N)
    BY <1>2 DEF Steps
  <2> HIDE DEF step
  <2>. QED
    BY <1>1, <1>3, <2>1, LoopRuns
<1>5. /\ f \in [0 .. N -> X] /\ f[0] = one
      /\ \A k \in 1 .. N : f[k] = On(f[k - 1])
  <2>1. f \in [0 .. N -> X] /\ f[0] = one /\ \A k \in 1 .. N : f[k] = step[k][f[k - 1]]
    BY <1>4 DEF IsRun
  <2>2. ASSUME NEW k \in 1 .. N PROVE f[k] = On(f[k - 1])
    <3>1. k - 1 \in 0 .. N
      BY <1>1
    <3>2. f[k - 1] \in X
      BY <2>1, <3>1
    <3>. QED
      BY <2>1, <3>2
  <2>. QED
    BY <2>1, <2>2
<1>6. f = Next1(f)
  <2>1. \A k \in 0 .. N : f[k] = IF k = 0 THEN one ELSE On(f[k - 1])
    <3> SUFFICES ASSUME NEW k \in 0 .. N PROVE f[k] = IF k = 0 THEN one ELSE On(f[k - 1])
      OBVIOUS
    <3>1. k = 0 \/ k \in 1 .. N
      BY <1>1
    <3>. QED
      BY <1>5, <3>1
  <2>2. f = [k \in 0 .. N |-> f[k]]
    BY <1>5
  <2>. QED
    BY <2>1, <2>2
<1>7. line = Next1(line)
  <2> HIDE DEF Next1
  <2>. QED
    BY <1>6
<1>8. Lineage[n] = line[N]
  BY DEF Lineage, On, one, N
<1> HIDE DEF line
<1>9. \A k \in 0 .. N : line[k] = IF k = 0 THEN one ELSE On(line[k - 1])
  BY <1>7
<1> DEFINE T == {k \in 0 .. N : line[k] \in X /\ Len(line[k]) \in 1 .. k + 1}
<1>10. N \in T
  <2>1. 0 \in T
    <3>1. 0 \in 0 .. N /\ 1 \in 1 .. 0 + 1
      BY <1>1
    <3>2. line[0] = one
      BY <1>9, <3>1
    <3>. QED
      BY <1>3, <3>1, <3>2
  <2>2. ASSUME NEW k \in 1 .. N, k - 1 \in T PROVE k \in T
    <3>1. line[k] = On(line[k - 1]) /\ k \in 0 .. N
      BY <1>1, <1>9
    <3>2. line[k - 1] \in X /\ Len(line[k - 1]) \in 1 .. (k - 1) + 1
      BY <2>2
    <3>3. line[k] \in X /\ Len(line[k]) \in {Len(line[k - 1]), Len(line[k - 1]) + 1}
      BY <1>2, <3>1, <3>2
    <3>. QED
      BY <1>1, <3>1, <3>2, <3>3
  <2>3. N \in 0 .. N
    BY <1>1
  <2> HIDE DEF T
  <2>. QED
    BY <1>1, <2>1, <2>2, <2>3, GoingUp
<1>. QED
  BY <1>8, <1>10 DEF X, N

\* A directory in a node's lineage, as far up as a jump goes, with folders between.
Reaches(n, i, dir) ==
    /\ i \in 1 .. MaxLevels + 1 /\ i + 1 \in DOMAIN Lineage[n] /\ Lineage[n][i + 1] = dir
    /\ \A j \in 2 .. i : Lineage[n][j] \in Dirs

\* On the way from such a directory nothing but the ends is it, or the root.
LEMMA BetweenEnds ==
  ASSUME NEW n \in Nodes, NEW i, NEW dir, Reaches(n, i, dir)
  PROVE  LET l == Lineage[n]
         IN  /\ i \in Nat \ {0} /\ i <= Cardinality(Nodes) /\ i <= MaxLevels + 1
             /\ l[1] = n /\ \A j \in 1 .. i + 1 : l[j] \in Nodes
             /\ \A j \in 1 .. i : l[j + 1] = Tree[l[j]].parent /\ l[j + 1] # l[j]
             /\ \A j \in 1 .. i : l[j] # dir /\ l[j] # Root
<1> DEFINE l == Lineage[n]
<1>1. l \in Climbs(n) /\ Len(l) \in 1 .. Cardinality(Nodes) + 1
  BY LineageClimbs
<1> HIDE DEF l
<1>2. /\ l \in Seq(Nodes) /\ l[1] = n
      /\ \A j \in 1 .. Len(l) - 1 : l[j + 1] = Tree[l[j]].parent
      /\ \A j, k \in 1 .. Len(l) : l[j] = l[k] => j = k
      /\ DOMAIN l = 1 .. Len(l)
  BY <1>1 DEF Climbs
<1>3. /\ i \in Nat \ {0} /\ i <= MaxLevels + 1 /\ i + 1 \in 1 .. Len(l) /\ l[i + 1] = dir
  BY <1>2, ListAssumption DEF Reaches, l
<1>4. i <= Cardinality(Nodes)
  BY <1>1, <1>3, TreeIsFinite
<1>5. \A j \in 1 .. i + 1 : l[j] \in Nodes
  BY <1>2, <1>3
<1>6. ASSUME NEW j \in 1 .. i
      PROVE  l[j + 1] = Tree[l[j]].parent /\ l[j + 1] # l[j] /\ l[j] # dir
  <2>1. /\ j \in 1 .. Len(l) - 1 /\ j \in 1 .. Len(l) /\ j + 1 \in 1 .. Len(l)
        /\ j # j + 1 /\ j # i + 1
    BY <1>3
  <2>. QED
    BY <1>2, <1>3, <2>1
<1>7. ASSUME NEW j \in 1 .. i PROVE l[j] # Root
  BY <1>6, TreeAssumption
<1>. QED
  BY <1>2, <1>3, <1>4, <1>5, <1>6, <1>7 DEF l

\* A jump opens all the folders between.
LEMMA AboveOpens ==
  ASSUME NEW v, NEW n \in Nodes, NEW i, Reaches(n, i, v.current_dir)
  PROVE  \A j \in 2 .. i : Lineage[n][j] \in Above(v, n)
<1> DEFINE l == Lineage[n]
           dir == v.current_dir
           M == MaxLevels
           X == [node : Nodes, folders : SUBSET Nodes]
           first == [node |-> n, folders |-> {}]
           On(last) == LET p == Tree[last.node].parent
                       IN  IF p \in Nodes \ {dir, Root}
                           THEN [node |-> p, folders |-> last.folders \cup {p}] ELSE last
           step == [k \in 1 .. M |-> [last \in X |-> On(last)]]
           Next1(g) == [k \in 0 .. M |-> IF k = 0 THEN first ELSE On(g[k - 1])]
           turn == CHOOSE g : g = Next1(g)
<1>1. M \in Nat
  BY ListAssumption
<1>2. /\ i \in Nat \ {0} /\ i <= M + 1
      /\ l[1] = n /\ \A j \in 1 .. i + 1 : l[j] \in Nodes
      /\ \A j \in 1 .. i : l[j + 1] = Tree[l[j]].parent
      /\ \A j \in 1 .. i : l[j] # dir /\ l[j] # Root
  BY BetweenEnds
<1>3. \A last \in X : On(last) \in X
  OBVIOUS
<1>4. first \in X
  OBVIOUS
<1> HIDE DEF first, X, On, M, l, dir
<1>5. PICK f : IsRun(X, M, first, step, f)
  <2>1. step \in Steps(X, M)
    BY <1>3 DEF Steps
  <2> HIDE DEF step
  <2>. QED
    BY <1>1, <1>4, <2>1, LoopRuns
<1>6. /\ f \in [0 .. M -> X] /\ f[0] = first
      /\ \A k \in 1 .. M : f[k] = On(f[k - 1])
  <2>1. f \in [0 .. M -> X] /\ f[0] = first /\ \A k \in 1 .. M : f[k] = step[k][f[k - 1]]
    BY <1>5 DEF IsRun
  <2>2. ASSUME NEW k \in 1 .. M PROVE f[k] = On(f[k - 1])
    <3>1. k - 1 \in 0 .. M
      BY <1>1
    <3>2. f[k - 1] \in X
      BY <2>1, <3>1
    <3>. QED
      BY <2>1, <3>2
  <2>. QED
    BY <2>1, <2>2
<1>7. f = Next1(f)
  <2>1. \A k \in 0 .. M : f[k] = IF k = 0 THEN first ELSE On(f[k - 1])
    <3> SUFFICES ASSUME NEW k \in 0 .. M PROVE f[k] = IF k = 0 THEN first ELSE On(f[k - 1])
      OBVIOUS
    <3>1. k = 0 \/ k \in 1 .. M
      BY <1>1
    <3>. QED
      BY <1>6, <3>1
  <2>2. f = [k \in 0 .. M |-> f[k]]
    BY <1>6
  <2>. QED
    BY <2>1, <2>2
<1>8. turn = Next1(turn)
  <2> HIDE DEF Next1
  <2>. QED
    BY <1>7
<1>9. Above(v, n) = turn[M].folders
  BY DEF Above, On, first, M, dir
<1> HIDE DEF turn
<1>10. \A k \in 0 .. M : turn[k] = IF k = 0 THEN first ELSE On(turn[k - 1])
  BY <1>8
<1> DEFINE Told(k) == /\ k <= i - 1 => turn[k].node = l[k + 1]
                      /\ \A j \in 2 .. i : j <= k + 1 => l[j] \in turn[k].folders
           T == {k \in 0 .. M : Told(k)}
<1>11. Told(0)
  BY <1>1, <1>2, <1>10 DEF first
<1>12. ASSUME NEW k \in 1 .. M, Told(k - 1) PROVE Told(k)
  <2>1. turn[k] = On(turn[k - 1])
    BY <1>1, <1>10
  <2>2. turn[k - 1].folders \subseteq turn[k].folders
    BY <2>1 DEF On
  <2>3. ASSUME k <= i - 1
        PROVE  turn[k].node = l[k + 1] /\ l[k + 1] \in turn[k].folders
    <3>1. turn[k - 1].node = l[k]
      <4>1. k - 1 <= i - 1 /\ (k - 1) + 1 = k
        BY <1>1, <1>2, <2>3
      <4>. QED
        BY <1>12, <4>1
    <3>2. k \in 1 .. i /\ k + 1 \in 1 .. i /\ k + 1 \in 1 .. i + 1
      BY <1>1, <1>2, <2>3
    <3>3. l[k + 1] = Tree[l[k]].parent /\ l[k + 1] \in Nodes \ {dir, Root}
      BY <1>2, <3>2
    <3>. QED
      BY <2>1, <3>1, <3>3 DEF On
  <2>4. ASSUME NEW j \in 2 .. i, j <= k + 1 PROVE l[j] \in turn[k].folders
    <3>1. CASE j = k + 1
      <4>1. k <= i - 1
        BY <1>2, <3>1
      <4>. QED
        BY <2>3, <3>1, <4>1
    <3>2. CASE j # k + 1
      <4>1. j <= (k - 1) + 1
        BY <2>4, <3>2
      <4>. QED
        BY <1>12, <2>2, <4>1
    <3>. QED
      BY <3>1, <3>2
  <2>. QED
    BY <2>3, <2>4
<1>13. Told(M)
  <2>1. 0 \in T
    BY <1>1, <1>11
  <2>2. ASSUME NEW k \in 1 .. M, k - 1 \in T PROVE k \in T
    <3>1. Told(k - 1) /\ k \in 0 .. M
      BY <1>1, <2>2
    <3> HIDE DEF Told
    <3>. QED
      BY <1>12, <3>1
  <2>3. M \in 0 .. M
    BY <1>1
  <2>4. M \in T
    <3> HIDE DEF T
    <3>. QED
      BY <1>1, <2>1, <2>2, <2>3, GoingUp
  <2>. QED
    BY <2>4
<1>14. \A j \in 2 .. i : j <= M + 1
  BY <1>1, <1>2
<1>. QED
  BY <1>9, <1>13, <1>14 DEF l

\* A node that a directory is reached from has a way down from there, open once the
\* folders between are.
LEMMA LineageIsWay ==
  ASSUME NEW n \in Nodes, NEW i, NEW dir, Reaches(n, i, dir), NEW collapsed,
         \A j \in 2 .. i : Lineage[n][j] \notin collapsed
  PROVE  OpenWay(dir, n, Cardinality(Nodes), collapsed)
<1> DEFINE l == Lineage[n]
           N == Cardinality(Nodes)
           f == [k \in 0 .. i |-> l[i + 1 - k]]
<1>1. /\ i \in Nat \ {0} /\ i <= N
      /\ l[1] = n /\ \A j \in 1 .. i + 1 : l[j] \in Nodes
      /\ \A j \in 1 .. i : l[j + 1] = Tree[l[j]].parent /\ l[j + 1] # l[j]
  BY BetweenEnds
<1>2. /\ l[i + 1] = dir /\ \A j \in 2 .. i : l[j] \in Dirs \ collapsed
  BY DEF Reaches
<1> HIDE DEF l
<1>3. \A k \in 0 .. i : i + 1 - k \in 1 .. i + 1
  BY <1>1
<1>4. f \in [0 .. i -> Nodes] /\ \A k \in 0 .. i : f[k] = l[i + 1 - k]
  BY <1>1, <1>3
<1> HIDE DEF f
<1>5. f[0] = dir /\ f[i] = n
  <2>1. 0 \in 0 .. i /\ i \in 0 .. i /\ i + 1 - 0 = i + 1 /\ i + 1 - i = 1
    BY <1>1
  <2>. QED
    BY <1>1, <1>2, <1>4, <2>1
<1>6. ASSUME NEW k \in 1 .. i PROVE f[k] # f[k - 1] /\ Tree[f[k]].parent = f[k - 1]
  <2>1. k \in 0 .. i /\ k - 1 \in 0 .. i
    BY <1>1
  <2>2. i + 1 - k \in 1 .. i /\ (i + 1 - k) + 1 = i + 1 - (k - 1)
    BY <1>1
  <2>. QED
    BY <1>1, <1>4, <2>1, <2>2
<1>7. ASSUME NEW k \in 1 .. i - 1 PROVE f[k] \in Dirs \ collapsed
  <2>1. k \in 0 .. i /\ i + 1 - k \in 2 .. i
    BY <1>1
  <2>. QED
    BY <1>2, <1>4, <2>1
<1>8. Way(f, i, dir, n) /\ Open(f, i, collapsed)
  BY <1>1, <1>4, <1>5, <1>6, <1>7 DEF Way, Open
<1>9. i \in 1 .. N
  BY <1>1, TreeIsFinite
<1>. QED
  BY <1>8, <1>9 DEF OpenWay

\* The row of a node that has one is found.
LEMMA PositionFinds ==
  ASSUME NEW v \in ViewType, NEW n, n \in NodesOf(v.entries)
  PROVE  /\ Position(v, n) \in Nat /\ Position(v, n) < Len(v.entries)
         /\ v.entries[Position(v, n) + 1].node = n
<1> DEFINE rows == {i \in DOMAIN v.entries : v.entries[i].node = n}
           first == CHOOSE i \in rows : \A j \in rows : i <= j
<1>1. /\ v.entries \in Seq(Rows) /\ DOMAIN v.entries = 1 .. Len(v.entries)
      /\ Len(v.entries) \in Nat
  BY DEF ViewType
<1>2. rows # {}
  BY DEF NodesOf, ToSet
<1>3. rows \in SUBSET Nat
  BY <1>1
<1>4. first \in rows
  <2>1. \E i \in rows : \A j \in rows : i <= j
    <3> HIDE DEF rows
    <3>. QED
      BY <1>2, <1>3, LeastOf
  <2>. QED
    BY <2>1
<1>5. Position(v, n) = first - 1
  BY <1>2 DEF Position
<1>6. first \in 1 .. Len(v.entries) /\ v.entries[first].node = n
  BY <1>1, <1>4
<1> HIDE DEF first
<1>7. (first - 1) + 1 = first /\ first - 1 \in Nat /\ first - 1 < Len(v.entries)
  BY <1>1, <1>6
<1>. QED
  BY <1>5, <1>6, <1>7

-------------------------------------------------------------------------------
\* Operations on the list (FileList).

\* Only the directory, the folders, the order and the filter make the list.
LEMMA SameListing ==
  ASSUME NEW v, NEW w, v.current_dir = w.current_dir, v.collapsed = w.collapsed,
         v.sort_mode = w.sort_mode, v.flagged_filter = w.flagged_filter
  PROVE  Flattened(v) = Flattened(w)
BY DEF Flattened

\* Refreshing gives a list with its cursor on a row, and changes nothing else.
LEMMA RefreshLists ==
  ASSUME NEW v \in ViewType
  PROVE  /\ Refreshed(v) \in ListedViews
         /\ Refreshed(v).entries = Flattened(v)
         /\ Refreshed(v).current_dir = v.current_dir
         /\ Refreshed(v).collapsed = v.collapsed
         /\ Refreshed(v).path_stack = v.path_stack
         /\ Refreshed(v).sort_mode = v.sort_mode
         /\ Refreshed(v).flagged_filter = v.flagged_filter
         /\ v.selected < Len(Flattened(v)) \/ <<Flattened(v), v.selected>> = <<<<>>, 0>>
              => Refreshed(v).selected = v.selected
<1> DEFINE list == Flattened(v)
           cursor == IF list = <<>> THEN 0
                     ELSE IF v.selected >= Len(list) THEN Len(list) - 1 ELSE v.selected
           w == [v EXCEPT !.entries = list, !.selected = cursor]
<1>1. Refreshed(v) = w
  BY DEF Refreshed
<1>2. list \in Seq(Rows)
  BY ListingRows
<1>3. /\ cursor \in Nat
      /\ cursor < Len(list) \/ <<list, cursor>> = <<<<>>, 0>>
      /\ v.selected < Len(list) \/ <<list, v.selected>> = <<<<>>, 0>> => cursor = v.selected
  <2>1. v.selected \in Nat /\ Len(list) \in Nat /\ (list # <<>> => Len(list) > 0)
    BY <1>2 DEF ViewType
  <2> HIDE DEF list
  <2>. QED
    BY <2>1
<1> HIDE DEF cursor
<1>4. /\ w \in ViewType
      /\ w.entries = list /\ w.selected = cursor
      /\ w.current_dir = v.current_dir /\ w.collapsed = v.collapsed
      /\ w.path_stack = v.path_stack /\ w.sort_mode = v.sort_mode
      /\ w.flagged_filter = v.flagged_filter
  <2> HIDE DEF list
  <2>. QED
    BY <1>2, <1>3 DEF ViewType
<1>5. Flattened(w) = list
  BY <1>4, SameListing
<1>. QED
  BY <1>1, <1>3, <1>4, <1>5 DEF ListedViews, CursorOnRow

\* Moving the cursor to a row of the list leaves the list what it is.
LEMMA CursorMoves ==
  ASSUME NEW v \in ListedViews, NEW to \in Nat,
         to < Len(v.entries) \/ (v.entries = <<>> /\ to = 0)
  PROVE  /\ [v EXCEPT !.selected = to] \in ListedViews
         /\ [v EXCEPT !.selected = to].sort_mode = v.sort_mode
         /\ [v EXCEPT !.selected = to].flagged_filter = v.flagged_filter
<1> DEFINE w == [v EXCEPT !.selected = to]
<1>1. /\ w \in ViewType /\ w.entries = v.entries /\ w.selected = to
      /\ w.current_dir = v.current_dir /\ w.collapsed = v.collapsed
      /\ w.sort_mode = v.sort_mode /\ w.flagged_filter = v.flagged_filter
  BY DEF ListedViews, ViewType
<1>2. Flattened(w) = Flattened(v)
  BY <1>1, SameListing
<1>. QED
  BY <1>1, <1>2 DEF ListedViews, CursorOnRow

\* A set of numbers that has a member and is bounded has a largest one.
LEMMA LargestOf ==
  ASSUME NEW n \in Nat, NEW T \in SUBSET (1 .. n), T # {}
  PROVE  \E m \in T : \A k \in T : k <= m
<1> DEFINE U == {n - k : k \in T}
<1>1. PICK m \in U : \A k \in U : m <= k
  <2>1. U \in SUBSET Nat
    <3>1. \A k \in T : n - k \in Nat
      OBVIOUS
    <3>. QED
      BY <3>1
  <2>2. U # {}
    OBVIOUS
  <2> HIDE DEF U
  <2>. QED
    BY <2>1, <2>2, LeastOf
<1>2. PICK t \in T : m = n - t
  BY <1>1
<1>3. \A k \in T : m <= n - k
  BY <1>1
<1>. QED
  BY <1>2, <1>3

\* The row of a node is a row of the list; the first, where the node has none.
LEMMA PositionOnList ==
  ASSUME NEW v \in ViewType, NEW n
  PROVE  /\ Position(v, n) \in Nat
         /\ Position(v, n) < Len(v.entries) \/ (v.entries = <<>> /\ Position(v, n) = 0)
<1> DEFINE rows == {i \in DOMAIN v.entries : v.entries[i].node = n}
           first == CHOOSE i \in rows : \A j \in rows : i <= j
<1>1. /\ v.entries \in Seq(Rows) /\ Len(v.entries) \in Nat
      /\ rows \in SUBSET (1 .. Len(v.entries))
  BY DEF ViewType
<1>2. CASE rows = {}
  <2>1. Position(v, n) = 0
    BY <1>2 DEF Position
  <2>. QED
    BY <1>1, <2>1
<1>3. CASE rows # {}
  <2>1. first \in rows
    <3>1. rows \in SUBSET Nat
      BY <1>1
    <3>2. \E i \in rows : \A j \in rows : i <= j
      <4> HIDE DEF rows
      <4>. QED
        BY <1>3, <3>1, LeastOf
    <3>. QED
      BY <3>2
  <2>2. Position(v, n) = first - 1
    BY <1>3 DEF Position
  <2> HIDE DEF first, rows
  <2>. QED
    BY <1>1, <2>1, <2>2
<1>. QED
  BY <1>2, <1>3

\* A refreshed list keeps what a session of the search bar must not change.
SameModes(v, w) == w.sort_mode = v.sort_mode /\ w.flagged_filter = v.flagged_filter

\* A row under the cursor is a row of a node.
LEMMA RowUnderCursor ==
  ASSUME NEW v \in ListedViews, v.entries # <<>>
  PROVE  /\ v.selected + 1 \in 1 .. Len(v.entries) /\ Row(v) \in Rows
         /\ Row(v).node \in Nodes /\ Row(v).depth \in Nat
<1>1. /\ v.entries \in Seq(Rows) /\ v.selected \in Nat
      /\ v.selected < Len(v.entries) \/ <<v.entries, v.selected>> = <<<<>>, 0>>
  BY DEF ListedViews, CursorOnRow, ViewType
<1>2. v.selected + 1 \in 1 .. Len(v.entries)
  BY <1>1
<1>3. Row(v) \in Rows
  BY <1>1, <1>2 DEF Row
<1>. QED
  BY <1>2, <1>3 DEF Rows

LEMMA RowOnList ==
  ASSUME NEW v \in ListedViews, v.entries # <<>>
  PROVE  Row(v).node \in NodesOf(v.entries)
<1>1. v.entries \in Seq(Rows)
  BY DEF ListedViews, ViewType
<1>2. v.selected + 1 \in DOMAIN v.entries
  BY <1>1, RowUnderCursor
<1>. QED
  BY <1>2 DEF Row, NodesOf, ToSet

\* Going inside a folder.
LEMMA InsideLists ==
  ASSUME NEW v \in ListedViews
  PROVE  Inside(v) \in ListedViews
<1>1. CASE ~OnFolder(v)
  BY <1>1 DEF Inside
<1>2. CASE OnFolder(v)
  <2> DEFINE w == [v EXCEPT !.path_stack = Append(@, v.current_dir),
                            !.current_dir = Row(v).node, !.selected = 0]
  <2>1. Row(v).node \in Nodes
    BY <1>2, RowUnderCursor DEF OnFolder
  <2>2. /\ v \in ViewType /\ v.current_dir \in Nodes
        /\ Append(v.path_stack, v.current_dir) \in Seq(Nodes)
    BY DEF ListedViews, ViewType
  <2>3. w \in ViewType
    BY <2>1, <2>2 DEF ViewType
  <2>. QED
    BY <1>2, <2>3, RefreshLists DEF Inside
<1>. QED
  BY <1>1, <1>2

\* Going back to the directory on the stack, or to the parent.
LEMMA BackLists ==
  ASSUME NEW v \in ListedViews
  PROVE  Back(v) \in ListedViews /\ SameModes(v, Back(v))
<1>1. CASE ~CanGoBack(v)
  BY <1>1 DEF Back, SameModes
<1>2. CASE CanGoBack(v)
  <2> DEFINE to == IF v.path_stack # <<>> THEN Last(v.path_stack)
                   ELSE Tree[v.current_dir].parent
             stack == IF v.path_stack = <<>> THEN v.path_stack ELSE Front(v.path_stack)
             w == [v EXCEPT !.current_dir = to, !.path_stack = stack]
             up == Refreshed(w)
  <2>1. v.path_stack \in Seq(Nodes)
    BY DEF ListedViews, ViewType
  <2>2. to \in Nodes
    BY <1>2, <2>1 DEF CanGoBack, Last
  <2>3. stack \in Seq(Nodes)
    BY <2>1 DEF Front
  <2>4. w \in ViewType /\ SameModes(v, w)
    <3> HIDE DEF to, stack
    <3>. QED
      BY <2>2, <2>3 DEF ListedViews, ViewType, SameModes
  <2>5. up \in ListedViews /\ SameModes(w, up)
    <3> HIDE DEF w
    <3>. QED
      BY <2>4, RefreshLists DEF SameModes
  <2>6. Back(v) = [up EXCEPT !.selected = Position(up, v.current_dir)]
    BY <1>2 DEF Back
  <2> HIDE DEF up, w
  <2>. QED
    BY <2>4, <2>5, <2>6, PositionOnList, CursorMoves DEF ListedViews, SameModes
<1>. QED
  BY <1>1, <1>2

\* Closing a folder, going to the folder around a row, or leaving the directory.
LEMMA OutwardLists ==
  ASSUME NEW v \in ListedViews
  PROVE  Outward(v) \in ListedViews /\ SameModes(v, Outward(v))
<1>0. v \in ViewType /\ v.entries \in Seq(Rows) /\ v.selected \in Nat
  BY DEF ListedViews, ViewType
<1>1. CASE v.entries = <<>>
  BY <1>1 DEF Outward, SameModes
<1>2. CASE v.entries # <<>> /\ OnOpenFolder(v)
  <2> DEFINE w == [v EXCEPT !.collapsed = @ \cup {Row(v).node}]
  <2>1. Row(v).node \in Dirs
    BY <1>2 DEF OnOpenFolder, OnFolder
  <2>2. w \in ViewType /\ SameModes(v, w)
    BY <1>0, <2>1 DEF ViewType, SameModes
  <2>3. Outward(v) = Refreshed(w)
    BY <1>2 DEF Outward
  <2> HIDE DEF w
  <2>. QED
    BY <2>2, <2>3, RefreshLists DEF SameModes
<1>3. CASE v.entries # <<>> /\ ~OnOpenFolder(v) /\ LeavesList(v)
  BY <1>3, BackLists DEF Outward
<1>4. CASE v.entries # <<>> /\ ~OnOpenFolder(v) /\ ~LeavesList(v)
  <2> DEFINE above == {i \in 1 .. v.selected : v.entries[i].depth < Row(v).depth}
             to == (CHOOSE i \in above : \A j \in above : j <= i) - 1
  <2>1. /\ v.selected + 1 \in 1 .. Len(v.entries)
        /\ Row(v).depth \in Nat \ {0}
    BY <1>4, RowUnderCursor DEF LeavesList
  <2>2. v.entries[1].depth = 0
    BY <1>4, <1>0, ListingRows DEF ListedViews
  <2>3. 1 \in above
    <3>1. v.selected # 0
      BY <2>1, <2>2, <1>0 DEF Row
    <3>. QED
      BY <2>1, <2>2, <3>1, <1>0
  <2>4. \E i \in above : \A j \in above : j <= i
    <3>1. above \in SUBSET (1 .. v.selected) /\ above # {}
      BY <2>3
    <3> HIDE DEF above
    <3>. QED
      BY <3>1, <1>0, LargestOf
  <2>5. (CHOOSE i \in above : \A j \in above : j <= i) \in above
    BY <2>4
  <2>6. to \in Nat /\ to < Len(v.entries)
    <3> DEFINE last == CHOOSE i \in above : \A j \in above : j <= i
    <3>1. last \in 1 .. v.selected
      BY <2>5
    <3>2. to = last - 1
      OBVIOUS
    <3>3. Len(v.entries) \in Nat
      BY <1>0
    <3> HIDE DEF last, to, above
    <3>. QED
      BY <3>1, <3>2, <3>3, <2>1, <1>0
  <2>7. Outward(v) = [v EXCEPT !.selected = to]
    BY <1>4 DEF Outward
  <2> HIDE DEF to
  <2>. QED
    BY <2>6, <2>7, CursorMoves DEF SameModes
<1>. QED
  BY <1>1, <1>2, <1>3, <1>4

\* Opening and closing folders.
LEMMA FoldersList ==
  ASSUME NEW v \in ListedViews
  PROVE  /\ Toggled(v) \in ListedViews
         /\ Opened(v) \in ListedViews /\ SameModes(v, Opened(v))
<1>1. Toggled(v) \in ListedViews
  <2>1. CASE ~OnFolder(v)
    BY <2>1 DEF Toggled
  <2>2. CASE OnFolder(v)
    <3> DEFINE folders == IF Row(v).node \in v.collapsed THEN v.collapsed \ {Row(v).node}
                          ELSE v.collapsed \cup {Row(v).node}
    <3>1. folders \in SUBSET Dirs
      BY <2>2 DEF ListedViews, ViewType, OnFolder
    <3>2. [v EXCEPT !.collapsed = folders] \in ViewType
      <4> HIDE DEF folders
      <4>. QED
        BY <3>1 DEF ListedViews, ViewType
    <3>. QED
      BY <2>2, <3>2, RefreshLists DEF Toggled
  <2>. QED
    BY <2>1, <2>2
<1>2. Opened(v) \in ListedViews /\ SameModes(v, Opened(v))
  <2> DEFINE w == [v EXCEPT !.collapsed = @ \ {Row(v).node}]
  <2>1. w \in ViewType /\ SameModes(v, w)
    BY DEF ListedViews, ViewType, SameModes
  <2>2. Opened(v) = Refreshed(w) \/ Opened(v) = v
    BY DEF Opened
  <2> HIDE DEF w
  <2>. QED
    BY <2>1, <2>2, RefreshLists DEF SameModes
<1>. QED
  BY <1>1, <1>2

\* Moving in the list.
LEMMA MovedLists ==
  ASSUME NEW v \in ListedViews, NEW key \in Moves
  PROVE  Moved(v, key) \in ListedViews /\ SameModes(v, Moved(v, key))
<1>1. CASE v.entries = <<>>
  BY <1>1 DEF Moved, SameModes
<1>2. CASE v.entries # <<>>
  <2>1. /\ v.selected \in Nat /\ Len(v.entries) \in Nat \ {0} /\ v.selected < Len(v.entries)
        /\ Page \in Nat
    BY <1>2, ListAssumption DEF ListedViews, ViewType, CursorOnRow
  <2> DEFINE last == Len(v.entries) - 1
             up(by) == IF v.selected < by THEN 0 ELSE v.selected - by
             down(by) == IF v.selected + by > last THEN last ELSE v.selected + by
             to == CASE key = "Up" -> up(1) [] key = "PageUp" -> up(Page) [] key = "Home" -> 0
                     [] key = "Down" -> down(1) [] key = "PageDown" -> down(Page)
                     [] key = "End" -> last
  <2>2. \A by \in Nat : up(by) \in 0 .. last /\ down(by) \in 0 .. last
    BY <2>1
  <2>3. to \in 0 .. last
    <3>1. 0 \in 0 .. last /\ last \in 0 .. last /\ 1 \in Nat
      BY <2>1
    <3> HIDE DEF last, up, down
    <3>. QED
      BY <3>1, <2>1, <2>2 DEF Moves
  <2>4. Moved(v, key) = [v EXCEPT !.selected = to]
    BY <1>2 DEF Moved
  <2>5. to \in Nat /\ to < Len(v.entries)
    <3> HIDE DEF to
    <3>. QED
      BY <2>1, <2>3
  <2> HIDE DEF to
  <2>. QED
    BY <2>4, <2>5, CursorMoves DEF SameModes
<1>. QED
  BY <1>1, <1>2

\* Jumping to a match.
LEMMA JumpedLists ==
  ASSUME NEW v \in ListedViews, NEW n
  PROVE  JumpedTo(v, n) \in ListedViews /\ SameModes(v, JumpedTo(v, n))
<1> DEFINE w == [v EXCEPT !.collapsed = @ \ Above(v, n)]
           open == Refreshed(w)
<1>1. w \in ViewType /\ SameModes(v, w)
  BY DEF ListedViews, ViewType, SameModes
<1>2. open \in ListedViews /\ SameModes(w, open)
  <2> HIDE DEF w
  <2>. QED
    BY <1>1, RefreshLists DEF SameModes
<1>3. JumpedTo(v, n) = [open EXCEPT !.selected = Position(open, n)]
  BY DEF JumpedTo
<1> HIDE DEF open, w
<1>. QED
  BY <1>1, <1>2, <1>3, PositionOnList, CursorMoves DEF ListedViews, SameModes

\* A jump to a node that can come to have a row lands on it.
LEMMA JumpLands ==
  ASSUME NEW v \in ListedViews, NEW n \in Nodes, Passes(n, v.flagged_filter),
         NEW i, Reaches(n, i, v.current_dir)
  PROVE  Row(JumpedTo(v, n)).node = n
<1> DEFINE w == [v EXCEPT !.collapsed = @ \ Above(v, n)]
           open == Refreshed(w)
           to == Position(open, n)
<1>1. /\ w \in ViewType /\ w.current_dir = v.current_dir
      /\ w.flagged_filter = v.flagged_filter /\ w.collapsed = v.collapsed \ Above(v, n)
  BY DEF ListedViews, ViewType
<1>2. JumpedTo(v, n) = [open EXCEPT !.selected = to]
  BY DEF JumpedTo
<1> HIDE DEF w
<1>3. /\ open \in ListedViews /\ open.current_dir = v.current_dir
      /\ open.flagged_filter = v.flagged_filter /\ open.collapsed = v.collapsed \ Above(v, n)
  BY <1>1, RefreshLists
<1> HIDE DEF open
<1>4. OpenWay(v.current_dir, n, Cardinality(Nodes), open.collapsed)
  <2>1. \A j \in 2 .. i : Lineage[n][j] \notin open.collapsed
    BY <1>3, AboveOpens
  <2>. QED
    BY <2>1, LineageIsWay
<1>5. n \in NodesOf(open.entries)
  BY <1>3, <1>4, RowsByWays
<1>6. open.entries[to + 1].node = n
  BY <1>3, <1>5, PositionFinds DEF ListedViews
<1>7. [open EXCEPT !.selected = to].entries = open.entries
      /\ [open EXCEPT !.selected = to].selected = to
  BY <1>3 DEF ListedViews, ViewType
<1>. QED
  BY <1>2, <1>6, <1>7 DEF Row

\* Another order, another filter.
LEMMA NextMode ==
  ASSUME NEW v \in ListedViews
  PROVE  \E mode \in ToSet(SortModes) : Resorted(v) = Refreshed([v EXCEPT !.sort_mode = mode])
<1> DEFINE i == CHOOSE i \in DOMAIN SortModes : SortModes[i] = v.sort_mode
           k == (i % Len(SortModes)) + 1
<1>1. SortModes \in Seq(STRING) /\ SortModes # <<>>
  BY TreeAssumption
<1>2. i \in 1 .. Len(SortModes)
  <2>1. v.sort_mode \in {SortModes[j] : j \in DOMAIN SortModes}
    BY DEF ListedViews, ViewType, ToSet
  <2>. QED
    BY <1>1, <2>1
<1>3. Resorted(v) = Refreshed([v EXCEPT !.sort_mode = SortModes[k]])
  BY DEF Resorted
<1>4. k \in 1 .. Len(SortModes)
  <2> HIDE DEF i
  <2>1. i \in Int /\ Len(SortModes) \in Nat \ {0}
    BY <1>1, <1>2
  <2>. QED
    BY <2>1
<1> HIDE DEF k
<1>5. SortModes[k] \in ToSet(SortModes)
  BY <1>1, <1>4 DEF ToSet
<1>. QED
  BY <1>3, <1>5

LEMMA ArrangedLists ==
  ASSUME NEW v \in ListedViews
  PROVE  Resorted(v) \in ListedViews /\ Refiltered(v) \in ListedViews
<1>1. Refiltered(v) \in ListedViews
  <2>1. [v EXCEPT !.flagged_filter = ~@] \in ViewType
    BY DEF ListedViews, ViewType
  <2>. QED
    BY <2>1, RefreshLists DEF Refiltered
<1>2. Resorted(v) \in ListedViews
  <2>1. PICK mode \in ToSet(SortModes) :
               Resorted(v) = Refreshed([v EXCEPT !.sort_mode = mode])
    BY NextMode
  <2>2. [v EXCEPT !.sort_mode = mode] \in ViewType
    BY DEF ListedViews, ViewType
  <2>. QED
    BY <2>1, <2>2, RefreshLists
<1>. QED
  BY <1>1, <1>2

\* Putting back what was kept of a view gives a list; and, in a view that is
\* ordered and filtered alike, the very view it was kept of.
LEMMA RestoredLists ==
  ASSUME NEW v \in ViewType,
         NEW kept \in [current_dir : Nodes, selected : Nat, path_stack : Seq(Nodes),
                       collapsed : SUBSET Dirs]
  PROVE  /\ Restored(v, kept) \in ListedViews /\ SameModes(v, Restored(v, kept))
         /\ \A w \in ListedViews :
               kept = Kept(w) /\ SameModes(w, v) => Restored(v, kept) = w
<1> DEFINE u == [v EXCEPT !.current_dir = kept.current_dir, !.selected = kept.selected,
                          !.path_stack = kept.path_stack, !.collapsed = kept.collapsed]
<1>1. /\ u \in ViewType /\ SameModes(v, u)
      /\ u.current_dir = kept.current_dir /\ u.selected = kept.selected
      /\ u.path_stack = kept.path_stack /\ u.collapsed = kept.collapsed
  BY DEF ViewType, SameModes
<1>2. Restored(v, kept) = Refreshed(u)
  BY DEF Restored
<1> HIDE DEF u
<1>3. Restored(v, kept) \in ListedViews /\ SameModes(v, Restored(v, kept))
  BY <1>1, <1>2, RefreshLists DEF SameModes
<1>4. ASSUME NEW w \in ListedViews, kept = Kept(w), SameModes(w, v)
      PROVE  Refreshed(u) = w
  <2>1. /\ u.current_dir = w.current_dir /\ u.selected = w.selected
        /\ u.path_stack = w.path_stack /\ u.collapsed = w.collapsed
        /\ u.sort_mode = w.sort_mode /\ u.flagged_filter = w.flagged_filter
    BY <1>1, <1>4 DEF Kept, SameModes
  <2>2. Flattened(u) = w.entries
    BY <2>1, SameListing DEF ListedViews
  <2>3. u.selected < Len(Flattened(u)) \/ <<Flattened(u), u.selected>> = <<<<>>, 0>>
    BY <2>1, <2>2 DEF ListedViews, CursorOnRow
  <2> DEFINE r == Refreshed(u)
  <2>4. /\ r \in ViewType /\ r.entries = w.entries /\ r.selected = w.selected
        /\ r.current_dir = w.current_dir /\ r.collapsed = w.collapsed
        /\ r.path_stack = w.path_stack /\ r.sort_mode = w.sort_mode
        /\ r.flagged_filter = w.flagged_filter
    BY <1>1, <2>1, <2>2, <2>3, RefreshLists DEF ListedViews
  <2>5. w \in ViewType
    BY DEF ListedViews
  <2> HIDE DEF r
  <2>6. r = w
    <3> DEFINE parts(x) ==
                 [current_dir |-> x.current_dir, selected |-> x.selected,
                  entries |-> x.entries, collapsed |-> x.collapsed,
                  path_stack |-> x.path_stack, sort_mode |-> x.sort_mode,
                  flagged_filter |-> x.flagged_filter]
    <3>1. \A x \in ViewType : x = parts(x)
      BY DEF ViewType
    <3>2. parts(r) = parts(w)
      BY <2>4
    <3>. QED
      BY <2>4, <2>5, <3>1, <3>2
  <2>. QED
    BY <2>6 DEF r
<1>. QED
  BY <1>2, <1>3, <1>4

\* The view that the navigator begins with.
LEMMA FirstLists == FirstView \in ListedViews
<1> DEFINE v == [current_dir |-> Root, selected |-> 0, entries |-> <<>>, collapsed |-> Dirs,
                 path_stack |-> <<>>, sort_mode |-> SortModes[1], flagged_filter |-> FALSE]
<1>1. Root \in Nodes /\ SortModes[1] \in ToSet(SortModes)
  BY TreeAssumption DEF Nodes, ToSet
<1>2. v \in ViewType
  BY <1>1 DEF ViewType
<1>. QED
  BY <1>2, RefreshLists DEF FirstView

-------------------------------------------------------------------------------
\* Where the directory on show lies, and what going back comes to.

\* How deep a node lies, if it lies below the root.
Deep(n, d) == \E f : Way(f, d, Root, n)

\* No node but the first on a way is the root.
LEMMA RootIsFirst ==
  ASSUME NEW f, NEW j, NEW a, NEW b, Way(f, j, a, b), NEW i \in 1 .. j
  PROVE  f[i] # Root
BY TreeAssumption DEF Way

\* A node lies at one depth.
LEMMA OneDepth ==
  ASSUME NEW n, NEW d, NEW e, Deep(n, d), Deep(n, e)
  PROVE  d = e
<1>1. ASSUME NEW f, NEW g, NEW j \in Nat, NEW k \in Nat, Way(f, j, Root, n),
             Way(g, k, Root, n), j < k
      PROVE  FALSE
  <2> DEFINE T == {i \in 0 .. j : f[j - i] = g[k - i]}
  <2>1. /\ f[0] = Root /\ f[j] = n /\ g[k] = n
        /\ \A i \in 1 .. j : Tree[f[i]].parent = f[i - 1]
        /\ \A i \in 1 .. k : Tree[g[i]].parent = g[i - 1]
    BY <1>1 DEF Way
  <2>2. 0 \in T
    <3>1. j - 0 = j /\ k - 0 = k /\ 0 \in 0 .. j
      OBVIOUS
    <3>. QED
      BY <2>1, <3>1
  <2>3. ASSUME NEW i \in 1 .. j, i - 1 \in T PROVE i \in T
    <3>1. /\ j - (i - 1) \in 1 .. j /\ k - (i - 1) \in 1 .. k
          /\ (j - (i - 1)) - 1 = j - i /\ (k - (i - 1)) - 1 = k - i
      BY <1>1
    <3>2. f[j - (i - 1)] = g[k - (i - 1)]
      BY <2>3
    <3>3. /\ Tree[f[j - (i - 1)]].parent = f[(j - (i - 1)) - 1]
          /\ Tree[g[k - (i - 1)]].parent = g[(k - (i - 1)) - 1]
      BY <2>1, <3>1
    <3>4. f[j - i] = g[k - i]
      BY <3>1, <3>2, <3>3
    <3>. QED
      BY <3>4
  <2>4. j \in T
    <3>1. j \in 0 .. j
      OBVIOUS
    <3> HIDE DEF T
    <3>. QED
      BY <2>2, <2>3, <3>1, GoingUp
  <2>5. g[k - j] = Root /\ k - j \in 1 .. k
    <3>1. f[j - j] = g[k - j] /\ j - j = 0
      BY <2>4
    <3>. QED
      BY <1>1, <2>1, <3>1
  <2>. QED
    BY <1>1, <2>5, RootIsFirst
<1>2. PICK f, g : Way(f, d, Root, n) /\ Way(g, e, Root, n)
  BY DEF Deep
<1>3. d \in Nat /\ e \in Nat
  BY <1>2 DEF Way
<1>4. ~ (d < e) /\ ~ (e < d)
  BY <1>1, <1>2, <1>3
<1>. QED
  BY <1>3, <1>4

\* What a way leads to lies deeper by its length, and so does what is on it.
LEMMA DeeperByWay ==
  ASSUME NEW a, NEW d \in Nat, Deep(a, d), NEW f, NEW j, NEW b, Way(f, j, a, b),
         NEW i \in 0 .. j
  PROVE  Deep(f[i], d + i)
<1>1. PICK h : Way(h, d, Root, a)
  BY DEF Deep
<1>2. /\ h \in [0 .. d -> Nodes] /\ h[0] = Root /\ h[d] = a
      /\ \A k \in 1 .. d : h[k] # h[k - 1] /\ Tree[h[k]].parent = h[k - 1]
  BY <1>1 DEF Way
<1>3. /\ j \in Nat /\ f \in [0 .. j -> Nodes] /\ f[0] = a
      /\ \A k \in 1 .. j : f[k] # f[k - 1] /\ Tree[f[k]].parent = f[k - 1]
  BY DEF Way
<1> DEFINE g == [k \in 0 .. d + i |-> IF k <= d THEN h[k] ELSE f[k - d]]
<1>4. \A k \in 0 .. d + i : IF k <= d THEN k \in 0 .. d ELSE k - d \in 1 .. i /\ k - d \in 0 .. j
  BY <1>3
<1>5. /\ g \in [0 .. d + i -> Nodes]
      /\ \A k \in 0 .. d + i : g[k] = IF k <= d THEN h[k] ELSE f[k - d]
  <2>1. \A k \in 0 .. d + i : (IF k <= d THEN h[k] ELSE f[k - d]) \in Nodes
    BY <1>2, <1>3, <1>4
  <2>. QED
    BY <2>1
<1> HIDE DEF g
<1>6. \A k \in 0 .. i : d + k \in 0 .. d + i /\ g[d + k] = f[k]
  <2> SUFFICES ASSUME NEW k \in 0 .. i PROVE d + k \in 0 .. d + i /\ g[d + k] = f[k]
    OBVIOUS
  <2>1. d + k \in 0 .. d + i /\ (d + k) - d = k
    BY <1>3
  <2>2. CASE k = 0
    <3>1. d + k = d /\ d <= d
      BY <2>2
    <3>. QED
      BY <1>2, <1>3, <1>5, <2>1, <2>2, <3>1
  <2>3. CASE k # 0
    <3>1. ~ (d + k <= d)
      BY <2>3
    <3>. QED
      BY <1>5, <2>1, <3>1
  <2>. QED
    BY <2>2, <2>3
<1>7. ASSUME NEW k \in 1 .. d + i PROVE g[k] # g[k - 1] /\ Tree[g[k]].parent = g[k - 1]
  <2>1. CASE k <= d
    <3>1. k \in 1 .. d /\ k \in 0 .. d + i /\ k - 1 \in 0 .. d + i /\ k - 1 <= d
      BY <2>1, <1>3
    <3>2. g[k] = h[k] /\ g[k - 1] = h[k - 1]
      BY <1>5, <2>1, <3>1
    <3>. QED
      BY <1>2, <3>1, <3>2
  <2>2. CASE ~ (k <= d)
    <3> DEFINE l == k - d
    <3>1. l \in 1 .. j /\ l \in 0 .. i /\ l - 1 \in 0 .. i /\ d + l = k /\ d + (l - 1) = k - 1
      BY <1>3, <2>2
    <3> HIDE DEF l
    <3>2. g[k] = f[l] /\ g[k - 1] = f[l - 1]
      BY <1>6, <3>1
    <3>. QED
      BY <1>3, <3>1, <3>2
  <2>. QED
    BY <2>1, <2>2
<1>8. g[0] = Root /\ g[d + i] = f[i]
  <2>1. 0 \in 0 .. d + i /\ 0 <= d /\ i \in 0 .. i
    BY <1>3
  <2>. QED
    BY <1>2, <1>5, <1>6, <2>1
<1>9. Way(g, d + i, Root, f[i])
  <2>1. d + i \in Nat
    BY <1>3
  <2>. QED
    BY <1>5, <1>7, <1>8, <2>1 DEF Way
<1>. QED
  BY <1>9 DEF Deep

\* The directories gone through, from the root to the one on show, each left open to
\* the next: going inside started on a row of it.
Trail(v) == Append(v.path_stack, v.current_dir)
Placed(v) ==
    /\ Trail(v)[1] = Root
    /\ \A i \in 1 .. Len(v.path_stack) + 1 : Trail(v)[i] \in Dirs
    /\ \A i \in 1 .. Len(v.path_stack) :
          OpenWay(Trail(v)[i], Trail(v)[i + 1], Cardinality(Nodes), v.collapsed)

LEMMA TrailIs ==
  ASSUME NEW v \in ViewType
  PROVE  /\ Len(v.path_stack) \in Nat /\ v.path_stack \in Seq(Nodes)
         /\ Trail(v)[Len(v.path_stack) + 1] = v.current_dir
         /\ \A i \in 1 .. Len(v.path_stack) : Trail(v)[i] = v.path_stack[i]
         /\ v.current_dir \in Nodes /\ v.collapsed \in SUBSET Dirs
<1>1. v.path_stack \in Seq(Nodes) /\ v.current_dir \in Nodes /\ v.collapsed \in SUBSET Dirs
  BY DEF ViewType
<1> DEFINE s == v.path_stack
           c == v.current_dir
<1> HIDE DEF s, c
<1>2. s \in Seq(Nodes) /\ c \in Nodes /\ Len(s) \in Nat
  BY <1>1 DEF s, c
<1>3. Append(s, c)[Len(s) + 1] = c /\ \A i \in 1 .. Len(s) : Append(s, c)[i] = s[i]
  BY <1>2, LastAndAppend
<1>. QED
  BY <1>1, <1>2, <1>3 DEF Trail, s, c

\* Opening folders leaves the trail open.
LEMMA StillPlaced ==
  ASSUME NEW v, Placed(v), NEW w, w.path_stack = v.path_stack,
         w.current_dir = v.current_dir, w.collapsed \subseteq v.collapsed
  PROVE  Placed(w)
<1>1. Trail(w) = Trail(v)
  BY DEF Trail
<1>2. \A a, b : OpenWay(a, b, Cardinality(Nodes), v.collapsed)
                  => OpenWay(a, b, Cardinality(Nodes), w.collapsed)
  BY DEF OpenWay, Open
<1>. QED
  BY <1>1, <1>2 DEF Placed

\* So does closing a folder that the directory on show has a row for: it lies deeper
\* than all of the trail.
LEMMA ClosingLeavesTrail ==
  ASSUME NEW v \in ViewType, Placed(v), NEW most, NEW m,
         OpenWay(v.current_dir, m, most, v.collapsed),
         NEW w, w.path_stack = v.path_stack, w.current_dir = v.current_dir,
         w.collapsed \subseteq v.collapsed \cup {m}
  PROVE  Placed(w)
<1> DEFINE n == Len(v.path_stack)
           N == Cardinality(Nodes)
           t(i) == Trail(v)[i + 1]
           Tall(i) == \E d \in Nat :
                         /\ Deep(t(i), d)
                         /\ \A k \in 0 .. i : \A e \in Nat : Deep(t(k), e) => e <= d
           T == {i \in 0 .. n : Tall(i)}
<1>1. n \in Nat /\ t(n) = v.current_dir
  BY TrailIs
<1>2. t(0) = Root /\ \A i \in 1 .. n : OpenWay(t(i - 1), t(i), N, v.collapsed)
  <2>1. 0 + 1 = 1 /\ \A i \in 1 .. n : (i - 1) + 1 = i
    BY <1>1
  <2>. QED
    BY <2>1 DEF Placed
<1>3. Tall(0)
  <2>1. Deep(Root, 0)
    <3> DEFINE f == [k \in 0 .. 0 |-> Root]
    <3>1. Way(f, 0, Root, Root)
      BY TreeIsFinite DEF Way
    <3> HIDE DEF f
    <3>. QED
      BY <3>1 DEF Deep
  <2>2. \A k \in 0 .. 0 : \A e \in Nat : Deep(t(k), e) => e <= 0
    BY <1>2, <2>1, OneDepth
  <2> HIDE DEF t
  <2>. QED
    BY <1>2, <2>1, <2>2
<1> HIDE DEF t, N
<1>4. ASSUME NEW i \in 1 .. n, Tall(i - 1) PROVE Tall(i)
  <2>1. PICK d \in Nat : /\ Deep(t(i - 1), d)
                         /\ \A k \in 0 .. i - 1 : \A e \in Nat : Deep(t(k), e) => e <= d
    BY <1>4
  <2>2. PICK f, j : j \in 1 .. N /\ Way(f, j, t(i - 1), t(i))
    BY <1>2 DEF OpenWay
  <2>3. j \in Nat /\ f[j] = t(i) /\ j \in 0 .. j
    BY <2>2 DEF Way
  <2>4. Deep(t(i), d + j)
    BY <2>1, <2>2, <2>3, DeeperByWay
  <2>5. ASSUME NEW k \in 0 .. i, NEW e \in Nat, Deep(t(k), e) PROVE e <= d + j
    <3>1. CASE k = i
      BY <2>3, <2>4, <2>5, <3>1, OneDepth
    <3>2. CASE k # i
      <4>1. k \in 0 .. i - 1
        BY <1>1, <3>2
      <4>2. e <= d
        BY <2>1, <2>5, <4>1
      <4>. QED
        BY <2>3, <4>2
    <3>. QED
      BY <3>1, <3>2
  <2>6. d + j \in Nat
    BY <2>3
  <2>. QED
    BY <2>4, <2>5, <2>6
<1>5. \A i \in 0 .. n : Tall(i)
  <2>1. 0 \in T
    BY <1>1, <1>3
  <2>2. ASSUME NEW i \in 1 .. n, i - 1 \in T PROVE i \in T
    <3>1. Tall(i - 1) /\ i \in 0 .. n
      BY <1>1, <2>2
    <3> HIDE DEF Tall
    <3>. QED
      BY <1>4, <3>1
  <2>3. \A i \in 0 .. n : i \in T
    <3> HIDE DEF T, n
    <3>. QED
      BY <1>1, <2>1, <2>2, GoingUp
  <2>. QED
    BY <2>3
<1>6. PICK d \in Nat : /\ Deep(t(n), d)
                       /\ \A k \in 0 .. n : \A e \in Nat : Deep(t(k), e) => e <= d
  <2>1. n \in 0 .. n
    BY <1>1
  <2>. QED
    BY <1>5, <2>1
<1>7. PICK below \in Nat : Deep(m, below) /\ d < below
  <2>1. PICK f, j : j \in 1 .. most /\ Way(f, j, t(n), m)
    BY <1>1 DEF OpenWay
  <2>2. j \in Nat /\ f[j] = m /\ j \in 0 .. j /\ 0 < j
    BY <2>1 DEF Way
  <2>3. Deep(m, d + j)
    BY <1>6, <2>1, <2>2, DeeperByWay
  <2>4. d + j \in Nat /\ d < d + j
    BY <2>2
  <2>. QED
    BY <2>3, <2>4
<1>8. ASSUME NEW i \in 1 .. n PROVE OpenWay(t(i - 1), t(i), N, w.collapsed)
  <2>1. PICK f, j : j \in 1 .. N /\ Way(f, j, t(i - 1), t(i)) /\ Open(f, j, v.collapsed)
    BY <1>2 DEF OpenWay
  <2>2. j \in Nat /\ f[j] = t(i) /\ j \in 0 .. j
    BY <2>1 DEF Way
  <2>3. PICK e \in Nat : Deep(t(i - 1), e)
    <3>1. i - 1 \in 0 .. n
      BY <1>1
    <3>. QED
      BY <1>5, <3>1
  <2>4. e + j <= d
    <3>1. Deep(t(i), e + j)
      BY <2>1, <2>2, <2>3, DeeperByWay
    <3>2. i \in 0 .. n /\ e + j \in Nat
      BY <1>1, <2>2
    <3>. QED
      BY <1>6, <3>1, <3>2
  <2>5. ASSUME NEW k \in 1 .. j - 1 PROVE f[k] # m
    <3>1. k \in 0 .. j /\ e + k \in Nat /\ e + k < e + j
      BY <2>2
    <3>2. Deep(f[k], e + k)
      BY <2>1, <2>3, <3>1, DeeperByWay
    <3>3. f[k] = m => e + k = below
      BY <1>7, <3>2, OneDepth
    <3>. QED
      BY <1>7, <2>2, <2>4, <3>1, <3>3
  <2>6. Open(f, j, w.collapsed)
    BY <2>1, <2>5 DEF Open
  <2>. QED
    BY <2>1, <2>6 DEF OpenWay
<1>9. \A i \in 1 .. n : OpenWay(Trail(v)[i], Trail(v)[i + 1], N, w.collapsed)
  <2>1. \A i \in 1 .. n : (i - 1) + 1 = i
    BY <1>1
  <2>. QED
    BY <1>8, <2>1 DEF t
<1>10. Trail(w) = Trail(v)
  BY DEF Trail
<1>. QED
  BY <1>9, <1>10 DEF Placed, N

\* Going inside a folder on the list.
LEMMA InsidePlaced ==
  ASSUME NEW v \in ListedViews, Placed(v)
  PROVE  Placed(Inside(v))
<1> DEFINE c == Row(v).node
           s == v.path_stack
           n == Len(s)
           w == [v EXCEPT !.path_stack = Append(@, v.current_dir), !.current_dir = c,
                          !.selected = 0]
<1>1. CASE ~OnFolder(v)
  BY <1>1 DEF Inside
<1>2. CASE OnFolder(v)
  <2>1. v \in ViewType /\ c \in Dirs /\ c \in Nodes
    BY <1>2 DEF OnFolder, ListedViews, Dirs
  <2>2. OpenWay(v.current_dir, c, Cardinality(Nodes), v.collapsed)
    BY <1>2, <2>1, RowOnList, RowsByWays DEF OnFolder
  <2>3. /\ n \in Nat /\ s \in Seq(Nodes) /\ v.current_dir \in Nodes
        /\ Trail(v)[n + 1] = v.current_dir
        /\ Trail(v) \in Seq(Nodes) /\ Len(Trail(v)) = n + 1
    BY <2>1, TrailIs, LastAndAppend DEF Trail
  <2>4. /\ w \in ViewType /\ w.path_stack = Trail(v) /\ w.current_dir = c
        /\ w.collapsed = v.collapsed
    BY <2>1, <2>3 DEF ViewType, Trail
  <2> HIDE DEF c, w, s
  <2>5. /\ Refreshed(w).path_stack = Trail(v) /\ Refreshed(w).current_dir = c
        /\ Refreshed(w).collapsed = v.collapsed
    BY <2>4, RefreshLists
  <2> DEFINE u == Refreshed(w)
  <2>6. Inside(v) = u
    BY <1>2 DEF Inside, w, c
  <2> HIDE DEF u
  <2>7. /\ Trail(u)[(n + 1) + 1] = c
        /\ \A i \in 1 .. n + 1 : Trail(u)[i] = Trail(v)[i]
        /\ Len(u.path_stack) = n + 1
    <3>1. Trail(u) = Append(Trail(v), c) /\ u.path_stack = Trail(v)
      BY <2>5 DEF Trail, u
    <3>2. /\ Append(Trail(v), c)[Len(Trail(v)) + 1] = c
          /\ \A i \in 1 .. Len(Trail(v)) : Append(Trail(v), c)[i] = Trail(v)[i]
      BY <2>1, <2>3, LastAndAppend DEF c
    <3> HIDE DEF n
    <3>. QED
      BY <2>3, <3>1, <3>2
  <2>8. /\ Trail(v)[1] = Root /\ \A i \in 1 .. n + 1 : Trail(v)[i] \in Dirs
        /\ \A i \in 1 .. n :
              OpenWay(Trail(v)[i], Trail(v)[i + 1], Cardinality(Nodes), v.collapsed)
    BY DEF Placed, s
  <2> HIDE DEF n
  <2>9. Trail(u)[1] = Root
    BY <2>3, <2>7, <2>8
  <2>10. ASSUME NEW i \in 1 .. (n + 1) + 1 PROVE Trail(u)[i] \in Dirs
    <3>1. i = (n + 1) + 1 \/ i \in 1 .. n + 1
      BY <2>3
    <3>. QED
      BY <2>1, <2>7, <2>8, <3>1 DEF c
  <2>11. ASSUME NEW i \in 1 .. n + 1
         PROVE  OpenWay(Trail(u)[i], Trail(u)[i + 1], Cardinality(Nodes), v.collapsed)
    <3>1. CASE i = n + 1
      BY <2>2, <2>3, <2>7, <3>1
    <3>2. CASE i # n + 1
      <4>1. i \in 1 .. n /\ i + 1 \in 1 .. n + 1
        BY <2>3, <3>2
      <4>. QED
        BY <2>7, <2>8, <4>1
    <3>. QED
      BY <3>1, <3>2
  <2>. QED
    BY <2>5, <2>6, <2>7, <2>9, <2>10, <2>11 DEF Placed, u
<1>. QED
  BY <1>1, <1>2

\* Going back comes to the directory last on the stack, and to the row of the folder
\* that is left; from the root there is no going back.
LEMMA BackPlaced ==
  ASSUME NEW v \in ListedViews, Placed(v)
  PROVE  /\ Placed(Back(v))
         /\ Back(v).current_dir # v.current_dir =>
               /\ Row(Back(v)).node = v.current_dir
               /\ v.path_stack # <<>> /\ Back(v).current_dir = Last(v.path_stack)
<1> DEFINE s == v.path_stack
           n == Len(s)
           c == v.current_dir
<1>0. /\ v \in ViewType /\ n \in Nat /\ s \in Seq(Nodes) /\ c \in Nodes
      /\ Trail(v)[n + 1] = c /\ \A i \in 1 .. n : Trail(v)[i] = s[i]
      /\ v.collapsed \in SUBSET Dirs
  BY TrailIs DEF ListedViews
<1>1. /\ Trail(v)[1] = Root /\ \A i \in 1 .. n + 1 : Trail(v)[i] \in Dirs
      /\ \A i \in 1 .. n :
            OpenWay(Trail(v)[i], Trail(v)[i + 1], Cardinality(Nodes), v.collapsed)
  BY DEF Placed
<1>2. CASE s = <<>>
  <2>1. n + 1 = 1
    BY <1>2
  <2>2. c = Root
    BY <1>0, <1>1, <2>1
  <2>3. ~ CanGoBack(v)
    BY <1>2, <2>2, TreeAssumption DEF CanGoBack
  <2>. QED
    BY <2>3 DEF Back
<1>3. CASE s # <<>>
  <2> DEFINE w == [v EXCEPT !.current_dir = Last(s), !.path_stack = Front(s)]
             up == Refreshed(w)
             to == Position(up, c)
  <2>1. Back(v) = [up EXCEPT !.selected = to]
    BY <1>3 DEF Back, CanGoBack
  <2>2. /\ n \in 1 .. n /\ Last(s) = s[n] /\ Last(s) \in Nodes
        /\ Front(s) \in Seq(Nodes) /\ Len(Front(s)) = n - 1
        /\ \A i \in 1 .. n - 1 : Front(s)[i] = s[i]
    <3> HIDE DEF s
    <3>1. Len(s) \in Nat \ {0}
      BY <1>0, <1>3, EmptySeq
    <3>2. n \in 1 .. n /\ Last(s) = s[n] /\ Last(s) \in Nodes
      BY <1>0, <3>1 DEF Last
    <3>3. 1 \in 1 .. n + 1 /\ n - 1 \in 0 .. n /\ Front(s) = SubSeq(s, 1, n - 1)
      BY <3>1 DEF Front
    <3>4. /\ SubSeq(s, 1, n - 1) \in Seq(Nodes) /\ Len(SubSeq(s, 1, n - 1)) = n - 1
          /\ \A i \in 1 .. n - 1 : SubSeq(s, 1, n - 1)[i] = s[i]
      <4> DEFINE m == n - 1
      <4>1. m \in Nat /\ 1 \in Int /\ m \in Int /\ \A i \in 1 .. m : s[i] \in Nodes
        BY <1>0, <3>1
      <4> HIDE DEF m
      <4>2. /\ SubSeq(s, 1, m) \in Seq(Nodes)
            /\ Len(SubSeq(s, 1, m)) = IF 1 <= m THEN m - 1 + 1 ELSE 0
            /\ \A i \in 1 .. m - 1 + 1 : SubSeq(s, 1, m)[i] = s[1 + i - 1]
        BY <4>1, SubSeqProperties
      <4>3. (IF 1 <= m THEN m - 1 + 1 ELSE 0) = m
        BY <4>1
      <4>4. \A i \in 1 .. m : i \in 1 .. m - 1 + 1 /\ 1 + i - 1 = i
        BY <4>1
      <4>5. \A i \in 1 .. m : SubSeq(s, 1, m)[i] = s[i]
        BY <4>2, <4>4
      <4>. QED
        BY <4>2, <4>3, <4>5 DEF m
    <3>. QED
      BY <3>2, <3>3, <3>4
  <2>3. /\ w \in ViewType /\ w.current_dir = Last(s) /\ w.path_stack = Front(s)
        /\ w.collapsed = v.collapsed
    BY <1>0, <2>2 DEF ViewType
  <2> HIDE DEF w, s, c
  <2>4. /\ up \in ListedViews /\ up.current_dir = Last(s) /\ up.path_stack = Front(s)
        /\ up.collapsed = v.collapsed
    BY <2>3, RefreshLists
  <2> DEFINE back == [up EXCEPT !.selected = to]
  <2> HIDE DEF up
  <2>5. up \in ViewType
    BY <2>4 DEF ListedViews
  <2>6. /\ back.current_dir = Last(s) /\ back.path_stack = Front(s)
        /\ back.collapsed = v.collapsed /\ back.entries = up.entries /\ back.selected = to
        /\ Trail(back) = Trail(up)
    BY <2>4, <2>5 DEF ViewType, Trail
  <2>7. \A i \in 1 .. n : Trail(up)[i] = Trail(v)[i]
    <3>1. /\ Trail(up)[(n - 1) + 1] = Last(s)
          /\ \A i \in 1 .. n - 1 : Trail(up)[i] = Front(s)[i]
      <4>1. /\ Trail(up)[Len(up.path_stack) + 1] = up.current_dir
            /\ \A i \in 1 .. Len(up.path_stack) : Trail(up)[i] = up.path_stack[i]
        BY <2>5, TrailIs
      <4>. QED
        BY <2>2, <2>4, <4>1
    <3>2. \A i \in 1 .. n : i \in 1 .. n - 1 \/ i = (n - 1) + 1
      BY <1>0
    <3>3. (n - 1) + 1 = n
      BY <1>0
    <3> HIDE DEF n
    <3>. QED
      BY <1>0, <2>2, <3>1, <3>2, <3>3
  <2>8. Placed(back)
    <3>1. Len(back.path_stack) = n - 1 /\ (n - 1) + 1 = n /\ 1 \in 1 .. n
      BY <1>0, <2>2, <2>6
    <3>2. \A i \in 1 .. n : Trail(back)[i] = Trail(v)[i] /\ i \in 1 .. n + 1
      BY <1>0, <2>6, <2>7
    <3>3. \A i \in 1 .. n - 1 : i \in 1 .. n /\ i + 1 \in 1 .. n
      BY <1>0
    <3> HIDE DEF back, n
    <3>. QED
      BY <1>1, <2>6, <3>1, <3>2, <3>3 DEF Placed, back
  <2>9. OpenWay(up.current_dir, c, Cardinality(Nodes), up.collapsed) /\ c \in Dirs
    <3>1. n + 1 \in 1 .. n + 1
      BY <1>0
    <3>. QED
      BY <1>0, <1>1, <2>2, <2>4, <3>1
  <2>10. Passes(c, up.flagged_filter)
    BY <2>9 DEF Passes
  <2>11. c \in NodesOf(up.entries)
    BY <1>0, <2>4, <2>9, <2>10, RowsByWays
  <2>12. up.entries[to + 1].node = c
    BY <2>5, <2>11, PositionFinds
  <2>13. Row(back).node = c
    BY <2>6, <2>12 DEF Row
  <2>. QED
    BY <1>3, <2>1, <2>6, <2>8, <2>13 DEF s, c
<1>. QED
  BY <1>2, <1>3

\* Closing a folder, or going out.
LEMMA OutwardPlaced ==
  ASSUME NEW v \in ListedViews, Placed(v)
  PROVE  /\ Placed(Outward(v))
         /\ Outward(v).current_dir # v.current_dir => Outward(v) = Back(v)
<1>0. v \in ViewType
  BY DEF ListedViews
<1>1. CASE v.entries = <<>>
  BY <1>1 DEF Outward
<1>2. CASE v.entries # <<>> /\ OnOpenFolder(v)
  <2> DEFINE w == [v EXCEPT !.collapsed = @ \cup {Row(v).node}]
  <2>1. Row(v).node \in Dirs /\ Row(v).node \in Nodes
    BY <1>2 DEF OnOpenFolder, OnFolder, Dirs
  <2>2. /\ w \in ViewType /\ w.path_stack = v.path_stack /\ w.current_dir = v.current_dir
        /\ w.collapsed = v.collapsed \cup {Row(v).node}
    BY <1>0, <2>1 DEF ViewType
  <2>3. Outward(v) = Refreshed(w)
    BY <1>2 DEF Outward
  <2> HIDE DEF w
  <2> DEFINE u == Refreshed(w)
  <2>4. /\ u.path_stack = v.path_stack /\ u.current_dir = v.current_dir
        /\ u.collapsed = v.collapsed \cup {Row(v).node}
    BY <2>2, RefreshLists
  <2>5. OpenWay(v.current_dir, Row(v).node, Cardinality(Nodes), v.collapsed)
    BY <1>2, <2>1, RowOnList, RowsByWays
  <2> HIDE DEF u
  <2>6. Placed(u)
    BY <1>0, <2>4, <2>5, ClosingLeavesTrail
  <2>. QED
    BY <2>3, <2>4, <2>6 DEF u
<1>3. CASE v.entries # <<>> /\ ~OnOpenFolder(v) /\ LeavesList(v)
  BY <1>3, BackPlaced DEF Outward
<1>4. CASE v.entries # <<>> /\ ~OnOpenFolder(v) /\ ~LeavesList(v)
  <2>1. PICK to : Outward(v) = [v EXCEPT !.selected = to]
    BY <1>4 DEF Outward
  <2> DEFINE w == [v EXCEPT !.selected = to]
  <2>2. /\ w.path_stack = v.path_stack /\ w.current_dir = v.current_dir
        /\ w.collapsed = v.collapsed
    BY <1>0 DEF ViewType
  <2> HIDE DEF w
  <2>3. Placed(w)
    BY <2>2, StillPlaced
  <2>. QED
    BY <2>1, <2>2, <2>3 DEF w
<1>. QED
  BY <1>1, <1>2, <1>3, <1>4

\* Opening and closing folders.
LEMMA FoldersPlaced ==
  ASSUME NEW v \in ListedViews, Placed(v)
  PROVE  Placed(Toggled(v)) /\ Placed(Opened(v))
<1>0. v \in ViewType
  BY DEF ListedViews
<1>1. ASSUME NEW folders \in SUBSET Dirs
      PROVE  LET u == Refreshed([v EXCEPT !.collapsed = folders])
             IN  /\ u.path_stack = v.path_stack /\ u.current_dir = v.current_dir
                 /\ u.collapsed = folders
  <2> DEFINE w == [v EXCEPT !.collapsed = folders]
  <2>1. /\ w \in ViewType /\ w.path_stack = v.path_stack /\ w.current_dir = v.current_dir
        /\ w.collapsed = folders
    BY <1>0 DEF ViewType
  <2> HIDE DEF w
  <2>2. /\ Refreshed(w).path_stack = v.path_stack /\ Refreshed(w).current_dir = v.current_dir
        /\ Refreshed(w).collapsed = folders
    BY <2>1, RefreshLists
  <2>. QED
    BY <2>2 DEF w
<1> DEFINE with(folders) == Refreshed([v EXCEPT !.collapsed = folders])
           n == Row(v).node
<1>2. /\ Placed(with(v.collapsed \ {n}))
      /\ OnFolder(v) => Placed(with(v.collapsed \cup {n}))
  <2>1. v.collapsed \in SUBSET Dirs /\ (OnFolder(v) => n \in Dirs /\ n \in Nodes)
    BY <1>0 DEF ViewType, OnFolder, Dirs
  <2>2. /\ with(v.collapsed \ {n}).path_stack = v.path_stack
        /\ with(v.collapsed \ {n}).current_dir = v.current_dir
        /\ with(v.collapsed \ {n}).collapsed = v.collapsed \ {n}
    BY <1>1, <2>1
  <2> HIDE DEF n
  <2>3. ASSUME OnFolder(v) PROVE Placed(with(v.collapsed \cup {n}))
    <3>1. v.collapsed \cup {n} \in SUBSET Dirs
      BY <2>1, <2>3
    <3>2. /\ with(v.collapsed \cup {n}).path_stack = v.path_stack
          /\ with(v.collapsed \cup {n}).current_dir = v.current_dir
          /\ with(v.collapsed \cup {n}).collapsed = v.collapsed \cup {n}
      BY <1>1, <3>1
    <3>3. OpenWay(v.current_dir, n, Cardinality(Nodes), v.collapsed)
      BY <2>1, <2>3, RowOnList, RowsByWays DEF n, OnFolder
    <3> HIDE DEF with
    <3>. QED
      BY <1>0, <3>2, <3>3, ClosingLeavesTrail
  <2> HIDE DEF with
  <2>4. Placed(with(v.collapsed \ {n}))
    BY <2>2, StillPlaced
  <2>. QED
    BY <2>3, <2>4
<1>3. \/ Toggled(v) = v \/ Toggled(v) = with(v.collapsed \ {n})
      \/ OnFolder(v) /\ Toggled(v) = with(v.collapsed \cup {n})
  BY DEF Toggled
<1>4. Opened(v) = v \/ Opened(v) = with(v.collapsed \ {n})
  BY DEF Opened
<1> HIDE DEF with, n
<1>. QED
  BY <1>2, <1>3, <1>4

\* What moves the cursor, jumps, sorts or filters stays in the directory.
LEMMA OthersPlaced ==
  ASSUME NEW v \in ListedViews, Placed(v)
  PROVE  /\ \A key : /\ Placed(Moved(v, key))
                     /\ Moved(v, key).current_dir = v.current_dir
         /\ \A n : Placed(JumpedTo(v, n))
         /\ Placed(Resorted(v)) /\ Placed(Refiltered(v))
<1>0. v \in ViewType
  BY DEF ListedViews
<1>1. ASSUME NEW key PROVE Placed(Moved(v, key)) /\ Moved(v, key).current_dir = v.current_dir
  <2>1. PICK to : Moved(v, key) = v \/ Moved(v, key) = [v EXCEPT !.selected = to]
    BY DEF Moved
  <2> DEFINE w == [v EXCEPT !.selected = to]
  <2>2. /\ w.path_stack = v.path_stack /\ w.current_dir = v.current_dir
        /\ w.collapsed = v.collapsed
    BY <1>0 DEF ViewType
  <2> HIDE DEF w
  <2>3. Placed(w)
    BY <2>2, StillPlaced
  <2>. QED
    BY <2>1, <2>2, <2>3 DEF w
<1>2. ASSUME NEW n PROVE Placed(JumpedTo(v, n))
  <2> DEFINE w == [v EXCEPT !.collapsed = @ \ Above(v, n)]
             open == Refreshed(w)
             to == Position(open, n)
             u == [open EXCEPT !.selected = to]
  <2>1. /\ w \in ViewType /\ w.path_stack = v.path_stack /\ w.current_dir = v.current_dir
        /\ w.collapsed \subseteq v.collapsed
    BY <1>0 DEF ViewType
  <2>2. JumpedTo(v, n) = u
    BY DEF JumpedTo
  <2> HIDE DEF w
  <2>3. /\ open \in ViewType /\ open.path_stack = v.path_stack
        /\ open.current_dir = v.current_dir /\ open.collapsed \subseteq v.collapsed
    BY <2>1, RefreshLists DEF ListedViews
  <2> HIDE DEF open, to
  <2>4. /\ u.path_stack = v.path_stack /\ u.current_dir = v.current_dir
        /\ u.collapsed \subseteq v.collapsed
    BY <2>3 DEF ViewType
  <2> HIDE DEF u
  <2>. QED
    BY <2>2, <2>4, StillPlaced
<1>3. Placed(Refiltered(v))
  <2> DEFINE w == [v EXCEPT !.flagged_filter = ~@]
  <2>1. /\ w \in ViewType /\ w.path_stack = v.path_stack /\ w.current_dir = v.current_dir
        /\ w.collapsed \subseteq v.collapsed
    BY <1>0 DEF ViewType
  <2>2. Refiltered(v) = Refreshed(w)
    BY DEF Refiltered
  <2> HIDE DEF w
  <2>. QED
    BY <2>1, <2>2, RefreshLists, StillPlaced
<1>4. Placed(Resorted(v))
  <2>1. PICK mode \in ToSet(SortModes) :
               Resorted(v) = Refreshed([v EXCEPT !.sort_mode = mode])
    BY NextMode
  <2> DEFINE w == [v EXCEPT !.sort_mode = mode]
  <2>2. /\ w \in ViewType /\ w.path_stack = v.path_stack /\ w.current_dir = v.current_dir
        /\ w.collapsed \subseteq v.collapsed
    BY <1>0, <2>1 DEF ViewType
  <2> HIDE DEF w
  <2>3. Placed(Refreshed(w))
    BY <2>2, RefreshLists, StillPlaced
  <2>. QED
    BY <2>1, <2>3 DEF w
<1>. QED
  BY <1>1, <1>2, <1>3, <1>4

\* The navigator begins at the root, and what is put back lies where it lay.
LEMMA FirstPlaced == Placed(FirstView)
<1> DEFINE v == [current_dir |-> Root, selected |-> 0, entries |-> <<>>, collapsed |-> Dirs,
                 path_stack |-> <<>>, sort_mode |-> SortModes[1], flagged_filter |-> FALSE]
<1>1. Root \in Nodes /\ Root \in Dirs /\ SortModes[1] \in ToSet(SortModes)
  BY TreeAssumption DEF Nodes, Dirs, ToSet
<1>2. v \in ViewType
  BY <1>1 DEF ViewType
<1>3. Placed(v)
  <2>1. v.path_stack = <<>> /\ v.current_dir = Root /\ Len(v.path_stack) = 0
    OBVIOUS
  <2> HIDE DEF v
  <2>2. Trail(v)[1] = Root
    BY <1>2, <2>1, TrailIs
  <2>3. \A i \in 1 .. Len(v.path_stack) + 1 : i = 1
    BY <2>1
  <2>4. \A i \in 1 .. Len(v.path_stack) : FALSE
    BY <2>1
  <2>. QED
    BY <1>1, <2>2, <2>3, <2>4 DEF Placed
<1>4. FirstView = Refreshed(v)
  BY DEF FirstView
<1> HIDE DEF v
<1>5. /\ FirstView.path_stack = v.path_stack /\ FirstView.current_dir = v.current_dir
      /\ FirstView.collapsed \subseteq v.collapsed
  BY <1>2, <1>4, RefreshLists
<1>. QED
  BY <1>3, <1>5, StillPlaced

LEMMA RestoredPlaced ==
  ASSUME NEW v \in ViewType, NEW w \in ViewType, Placed(w)
  PROVE  Placed(Restored(v, Kept(w)))
<1> DEFINE kept == Kept(w)
           u == [v EXCEPT !.current_dir = kept.current_dir, !.selected = kept.selected,
                          !.path_stack = kept.path_stack, !.collapsed = kept.collapsed]
<1>1. /\ u \in ViewType /\ u.path_stack = w.path_stack /\ u.current_dir = w.current_dir
      /\ u.collapsed \subseteq w.collapsed
  BY DEF Kept, ViewType
<1>2. Restored(v, kept) = Refreshed(u)
  BY DEF Restored
<1> HIDE DEF u
<1>. QED
  BY <1>1, <1>2, RefreshLists, StillPlaced

-------------------------------------------------------------------------------
\* Requests and answers (SearchEngine).

\* A member of some Seq(S) is a sequence, and so is a function on 1 .. n.
LEMMA AreSequences ==
  /\ \A S : \A s \in Seq(S) : IsSequence(s)
  /\ \A s : IsSequence(s) => Len(s) \in Nat /\ DOMAIN s = 1 .. Len(s)
  /\ \A n \in Nat : \A s : s = [k \in 1 .. n |-> s[k]] => IsSequence(s)
<1>1. ASSUME NEW S, NEW s \in Seq(S) PROVE IsSequence(s)
  <2> DEFINE T == {s[i] : i \in DOMAIN s}
  <2>1. /\ Len(s) \in Nat /\ DOMAIN s = 1 .. Len(s)
        /\ s = [i \in 1 .. Len(s) |-> s[i]]
    OBVIOUS
  <2>2. \A i \in 1 .. Len(s) : s[i] \in T
    BY <2>1
  <2> HIDE DEF T
  <2>3. s \in Seq(T)
    BY <2>1, <2>2
  <2>. QED
    BY <2>3 DEF IsSequence, T
<1>2. ASSUME NEW s, IsSequence(s) PROVE Len(s) \in Nat /\ DOMAIN s = 1 .. Len(s)
  <2> DEFINE T == {s[i] : i \in DOMAIN s}
  <2>1. s \in Seq(T)
    BY <1>2 DEF IsSequence
  <2> HIDE DEF T
  <2>. QED
    BY <2>1
<1>3. ASSUME NEW n \in Nat, NEW s, s = [k \in 1 .. n |-> s[k]] PROVE IsSequence(s)
  <2> DEFINE T == {s[i] : i \in DOMAIN s}
  <2>1. DOMAIN s = 1 .. n
    BY <1>3
  <2>2. \A i \in 1 .. n : s[i] \in T
    BY <2>1
  <2> HIDE DEF T
  <2>3. s \in [1 .. n -> T]
    BY <1>3, <2>2
  <2>4. s \in Seq(T)
    BY <2>3
  <2>. QED
    BY <2>4 DEF IsSequence, T
<1>. QED
  BY <1>1, <1>2, <1>3

\* What is put behind a sequence, taken from its front, or stands at either end.
LEMMA SequenceSteps ==
  ASSUME NEW s, IsSequence(s), NEW e
  PROVE  /\ IsSequence(Append(s, e))
         /\ \A i \in DOMAIN Append(s, e) :
               Append(s, e)[i] = e \/ \E j \in DOMAIN s : Append(s, e)[i] = s[j]
         /\ s # <<>> =>
               /\ IsSequence(Tail(s))
               /\ \A i \in DOMAIN Tail(s) : \E j \in DOMAIN s : Tail(s)[i] = s[j]
               /\ \E j \in DOMAIN s : Head(s) = s[j]
               /\ \E j \in DOMAIN s : Last(s) = s[j]
<1> DEFINE T == {s[i] : i \in DOMAIN s} \cup {e}
<1>1. s \in Seq(T)
  <2>1. /\ Len(s) \in Nat /\ DOMAIN s = 1 .. Len(s)
        /\ s \in Seq({s[i] : i \in DOMAIN s})
    BY AreSequences DEF IsSequence
  <2>2. s = [i \in 1 .. Len(s) |-> s[i]]
    BY <2>1
  <2>3. \A i \in 1 .. Len(s) : s[i] \in T
    BY <2>1
  <2> HIDE DEF T
  <2>. QED
    BY <2>1, <2>2, <2>3
<1>2. \A t \in T : t = e \/ \E j \in DOMAIN s : t = s[j]
  OBVIOUS
<1> HIDE DEF T
<1>3. e \in T
  BY DEF T
<1>4. IsSequence(Append(s, e)) /\ (s # <<>> => IsSequence(Tail(s)))
  <2>1. Append(s, e) \in Seq(T) /\ (s # <<>> => Tail(s) \in Seq(T))
    BY <1>1, <1>3
  <2>. QED
    BY <2>1, AreSequences
<1>5. \A i \in DOMAIN Append(s, e) : Append(s, e)[i] \in T
  BY <1>1, <1>3
<1>6. ASSUME s # <<>>
      PROVE  /\ \A i \in DOMAIN Tail(s) : i + 1 \in DOMAIN s /\ Tail(s)[i] = s[i + 1]
             /\ 1 \in DOMAIN s /\ Head(s) = s[1]
             /\ Len(s) \in DOMAIN s /\ Last(s) = s[Len(s)]
  BY <1>1, <1>6 DEF Last
<1>. QED
  BY <1>2, <1>4, <1>5, <1>6

\* What is left of a sequence that is cut short is a sequence.
LEMMA CutIsSequence ==
  ASSUME NEW s, IsSequence(s)
  PROVE  IsSequence(Cut(s))
<1> DEFINE T == {s[i] : i \in DOMAIN s}
<1>1. s \in Seq(T)
  BY DEF IsSequence
<1> HIDE DEF T
<1>2. (IF Len(s) > MaxResults THEN MaxResults ELSE Len(s)) \in 0 .. Len(s)
  BY <1>1, TreeAssumption
<1>3. Cut(s) \in Seq(T)
  <2> DEFINE n == IF Len(s) > MaxResults THEN MaxResults ELSE Len(s)
  <2>1. n \in 0 .. Len(s)
    BY <1>2
  <2>2. Cut(s) = SubSeq(s, 1, n)
    BY DEF Cut
  <2> HIDE DEF n
  <2>. QED
    BY <1>1, <2>1, <2>2
<1>. QED
  BY <1>3, AreSequences

\* Putting the best matches first keeps a sequence a sequence.
LEMMA BestFirstIsSequence ==
  ASSUME NEW query, NEW hits, IsSequence(hits)
  PROVE  IsSequence(BestFirst(query, hits))
<1> DEFINE best == BestFirst(query, hits)
<1>1. Len(hits) \in Nat /\ DOMAIN hits = 1 .. Len(hits)
  BY AreSequences
<1>2. best = [k \in DOMAIN hits |-> best[k]]
  BY Zenon DEF BestFirst
<1> HIDE DEF best
<1>3. IsSequence(best)
  BY <1>1, <1>2, AreSequences
<1>. QED
  BY <1>3 DEF best

LEMMA DepthIsNumber == \A n \in Nodes : Depth[n] \in Nat
<1> SUFFICES ASSUME NEW n \in Nodes PROVE Depth[n] \in Nat
  OBVIOUS
<1> DEFINE named == {m \in Nodes : m # Root /\ m \in ToSet(Lineage[n])}
<1>1. Depth[n] = IF named = {} THEN 1 ELSE Cardinality(named)
  BY DEF Depth
<1>2. IsFiniteSet(named)
  <2>1. named \subseteq Nodes /\ IsFiniteSet(Nodes)
    BY TreeAssumption DEF Nodes
  <2>. QED
    BY <2>1, FS_Subset
<1> HIDE DEF named
<1>3. Cardinality(named) \in Nat
  BY <1>2, FS_CardinalityType
<1>. QED
  BY <1>1, <1>3

\* The best matches first: the same matches, and a whole name before all others.
LEMMA BestIsFirst ==
  ASSUME NEW query, NEW hits, IsSequence(hits), \A i \in DOMAIN hits : hits[i] \in Nodes
  PROVE  /\ DOMAIN BestFirst(query, hits) = DOMAIN hits
         /\ \A k \in DOMAIN hits :
               /\ \E i \in DOMAIN hits : BestFirst(query, hits)[k] = hits[i]
               /\ Tree[BestFirst(query, hits)[k]].name = query
                    => Tree[BestFirst(query, hits)[1]].name = query
<1> DEFINE D == DOMAIN hits
           name(i) == Tree[hits[i]].name
           whole(i) == name(i) = query
           depth(i) == Depth[hits[i]]
           better(i, j) == IF whole(i) # whole(j) THEN whole(i)
                           ELSE IF depth(i) # depth(j) THEN depth(i) < depth(j) ELSE i < j
           R == {p \in D \X D : better(p[1], p[2])}
           order == Sorted(D, better)
<1>1. Len(hits) \in Nat /\ D = 1 .. Len(hits) /\ IsFiniteSet(D) /\ Cardinality(D) = Len(hits)
  <2>1. Len(hits) \in Nat /\ D = 1 .. Len(hits)
    BY AreSequences
  <2> HIDE DEF D
  <2>2. 1 \in Int /\ Len(hits) \in Int
    BY <2>1
  <2>3. /\ IsFiniteSet(1 .. Len(hits))
        /\ Cardinality(1 .. Len(hits)) = IF 1 > Len(hits) THEN 0 ELSE Len(hits) - 1 + 1
    BY <2>2, FS_Interval
  <2>. QED
    BY <2>1, <2>3
<1>2. \A i \in D : depth(i) \in Nat /\ i \in Nat
  BY <1>1, DepthIsNumber
<1>3. \A i, j \in D : <<i, j>> \in R <=> better(i, j)
  <2> HIDE DEF D, better
  <2>. QED
    OBVIOUS
<1>4. Orders(R, D)
  <2>1. ASSUME NEW i \in D PROVE ~ better(i, i)
    BY <1>1
  <2>2. ASSUME NEW i \in D, NEW j \in D, i # j PROVE better(i, j) \/ better(j, i)
    <3> HIDE DEF name, depth, D
    <3>. QED
      BY <1>2, <2>2
  <2>3. ASSUME NEW i \in D, NEW j \in D, NEW k \in D, better(i, j), better(j, k)
        PROVE  better(i, k)
    <3> HIDE DEF name, depth, D
    <3>. QED
      BY <1>2, <2>3
  <2> HIDE DEF better, D, R
  <2>. QED
    BY <1>3, <2>1, <2>2, <2>3 DEF Orders
<1>5. /\ DOMAIN order = D
      /\ \A k \in D : order[k] \in D
      /\ \A k, l \in D : k < l => better(order[k], order[l])
  <2> DEFINE n == Cardinality(D)
             kth(k) == CHOOSE i \in D : Cardinality({j \in D : better(j, i)}) = k - 1
             all == [k \in 1 .. n |-> kth(k)]
  <2>1. order = SubSeq(all, 1, n)
    <3> HIDE DEF D, better
    <3>. QED
      BY Zenon DEF Sorted
  <2>2. all = Ranked(R, D)
    <3>1. \A i \in D : {j \in D : better(j, i)} = Before(R, D, i)
      <4> HIDE DEF D, R, better
      <4>. QED
        BY <1>3 DEF Before
    <3>2. \A k \in 1 .. n : kth(k) = CHOOSE i \in D : Cardinality(Before(R, D, i)) = k - 1
      <4> HIDE DEF D, R, better, n
      <4>. QED
        BY <3>1
    <3> HIDE DEF D, R, kth
    <3>. QED
      BY <3>2 DEF Ranked
  <2>3. D = 1 .. n
    BY <1>1
  <2> HIDE DEF D, R, all, order, better, n
  <2>4. /\ SubSeq(all, 1, n) = all
        /\ all \in Seq(D) /\ Len(all) = n /\ DOMAIN all = 1 .. n
        /\ \A k, l \in 1 .. n : k < l => <<all[k], all[l]>> \in R
    BY <1>1, <1>4, <2>2, RankedIsSlice DEF n
  <2>5. order = all
    BY <2>1, <2>4
  <2>6. \A k \in D : all[k] \in D
    BY <2>3, <2>4
  <2>. QED
    BY <1>3, <2>3, <2>4, <2>5, <2>6
<1>9. BestFirst(query, hits) = [k \in D |-> hits[order[k]]]
  BY DEF BestFirst
<1> HIDE DEF order
<1>10. ASSUME NEW k \in D, whole(order[k]) PROVE whole(order[1])
  <2>1. 1 \in D /\ (k = 1 \/ 1 < k)
    BY <1>1
  <2>2. k = 1 \/ better(order[1], order[k])
    <3> HIDE DEF D, better
    <3>. QED
      BY <1>5, <2>1
  <2> HIDE DEF name, D, depth
  <2>. QED
    BY <1>10, <2>2
<1> DEFINE best == BestFirst(query, hits)
<1>11. /\ DOMAIN best = D
       /\ \A k \in D : best[k] = hits[order[k]] /\ order[k] \in D
  <2>1. \A k \in D : order[k] \in D
    BY <1>5
  <2>2. best = [k \in D |-> hits[order[k]]]
    BY <1>9
  <2> HIDE DEF D, best
  <2>. QED
    BY <2>1, <2>2
<1>12. \A k \in D : 1 \in D /\ (whole(order[k]) => whole(order[1]))
  <2>1. \A k \in D : 1 \in D
    BY <1>1
  <2> HIDE DEF D, whole
  <2>. QED
    BY <1>10, <2>1
<1> HIDE DEF best
<1>13. \A k \in D : /\ \E i \in D : best[k] = hits[i]
                    /\ Tree[best[k]].name = query => Tree[best[1]].name = query
  <2>1. \A k \in D : Tree[best[k]].name = name(order[k])
    BY <1>11
  <2> HIDE DEF D, name
  <2>. QED
    BY <1>11, <1>12, <2>1
<1>. QED
  BY <1>11, <1>13 DEF best

\* A match of a query: a node below the root whose name has the query in it.
Fits(n, query) == n \in Nodes \ {Root} /\ Has(Tree[n].name, query)
MatchesFit(matches, query) ==
    \A i \in DOMAIN matches :
        /\ Fits(matches[i], query)
        /\ Tree[matches[i]].name = query => Tree[matches[1]].name = query

\* Cutting an answer short and putting its best matches first keeps it fit.
LEMMA BestOfCutFits ==
  ASSUME NEW query, NEW hits, IsSequence(hits), \A i \in DOMAIN hits : Fits(hits[i], query)
  PROVE  MatchesFit(BestFirst(query, Cut(hits)), query)
<1> DEFINE T == {hits[i] : i \in DOMAIN hits}
<1>1. hits \in Seq(T)
  BY DEF IsSequence
<1>2. \A t \in T : Fits(t, query)
  OBVIOUS
<1> HIDE DEF T
<1>3. Cut(hits) \in Seq(T)
  <2> DEFINE n == IF Len(hits) > MaxResults THEN MaxResults ELSE Len(hits)
  <2>1. n \in 0 .. Len(hits)
    BY <1>1, TreeAssumption
  <2>2. Cut(hits) = SubSeq(hits, 1, n)
    BY DEF Cut
  <2> HIDE DEF n
  <2>. QED
    BY <1>1, <2>1, <2>2
<1> DEFINE cut == Cut(hits)
<1> HIDE DEF cut
<1>4. \A i \in DOMAIN cut : Fits(cut[i], query) /\ cut[i] \in Nodes
  <2>1. \A i \in DOMAIN cut : cut[i] \in T
    BY <1>3 DEF cut
  <2>. QED
    BY <1>2, <2>1 DEF Fits
<1>5. IsSequence(cut)
  BY <1>3, AreSequences DEF cut
<1> DEFINE best == BestFirst(query, cut)
<1>6. /\ DOMAIN best = DOMAIN cut
      /\ \A k \in DOMAIN cut :
            /\ \E i \in DOMAIN cut : best[k] = cut[i]
            /\ Tree[best[k]].name = query => Tree[best[1]].name = query
  BY <1>4, <1>5, BestIsFirst
<1> HIDE DEF best
<1>7. MatchesFit(best, query)
  BY <1>4, <1>6 DEF MatchesFit
<1>. QED
  BY <1>7 DEF best, cut

\* The hits of a search, and those of a search among earlier matches.
LEMMA HitsFound ==
  ASSUME NEW query
  PROVE  LET hits == Sorted({n \in Candidates(query) : n # Root /\ Has(Tree[n].name, query)}, <)
         IN  /\ Searched(query) = BestFirst(query, Cut(hits))
             /\ IsSequence(hits)
             /\ \A i \in DOMAIN hits : hits[i] \in Nodes \ {Root} /\ Has(Tree[hits[i]].name, query)
<1> DEFINE found == {n \in Candidates(query) : n # Root /\ Has(Tree[n].name, query)}
           hits == Sorted(found, <)
<1>1. IsFiniteSet(found) /\ found \in SUBSET Nat /\ found \subseteq Nodes
  <2>1. Candidates(query) \subseteq Nodes
    BY DEF Candidates
  <2>2. IsFiniteSet(Nodes) /\ Nodes \subseteq Nat
    BY TreeAssumption DEF Nodes
  <2>3. found \in SUBSET Nodes
    BY <2>1
  <2> HIDE DEF found
  <2>. QED
    BY <2>2, <2>3, FS_Subset
<1>2. \A n \in found : n \in Nodes \ {Root} /\ Has(Tree[n].name, query)
  BY <1>1
<1>3. Searched(query) = BestFirst(query, Cut(hits))
  BY DEF Searched
<1> HIDE DEF found
<1>4. hits \in Seq(found)
  BY <1>1, SortedNumbers
<1> HIDE DEF hits
<1>5. \A i \in DOMAIN hits : hits[i] \in found
  BY <1>4
<1>6. IsSequence(hits)
  BY <1>4, AreSequences
<1>. QED
  BY <1>2, <1>3, <1>5, <1>6 DEF hits, found

AreKept(kept, query, hits) ==
    /\ Narrowed(query, hits) = BestFirst(query, Cut(kept))
    /\ IsSequence(kept)
    /\ \A i \in DOMAIN kept :
          /\ Has(Tree[kept[i]].name, query)
          /\ \E j \in DOMAIN hits : kept[i] = hits[j]
LEMMA HitsKept ==
  ASSUME NEW query, NEW hits, IsSequence(hits)
  PROVE  \E kept : AreKept(kept, query, hits)
<1> DEFINE P == {j \in DOMAIN hits : Has(Tree[hits[j]].name, query)}
           T == {hits[j] : j \in DOMAIN hits}
           kept == At(hits, P)
<1>1. Narrowed(query, hits) = BestFirst(query, Cut(kept))
  BY DEF Narrowed, Where
<1>2. hits \in Seq(T) /\ P \in SUBSET (1 .. Len(hits))
  <2>1. hits \in Seq(T) /\ DOMAIN hits = 1 .. Len(hits)
    BY AreSequences DEF IsSequence
  <2>. QED
    BY <2>1
<1> HIDE DEF T
<1>3. kept \in Seq(T) /\ ToSet(kept) = {hits[j] : j \in P}
  <2> HIDE DEF P
  <2>. QED
    BY <1>2, AtIsSequence
<1> HIDE DEF kept
<1>4. IsSequence(kept)
  BY <1>3, AreSequences
<1>5. \A i \in DOMAIN kept : \E j \in P : kept[i] = hits[j]
  <2> HIDE DEF P
  <2>. QED
    BY <1>3 DEF ToSet
<1>6. \A i \in DOMAIN kept :
         /\ Has(Tree[kept[i]].name, query)
         /\ \E j \in DOMAIN hits : kept[i] = hits[j]
  BY <1>5
<1>7. AreKept(kept, query, hits)
  BY <1>1, <1>4, <1>6 DEF AreKept
<1>. QED
  BY <1>7

\* A search of the tree answers with a sequence.
LEMMA SearchedIsSequence ==
  ASSUME NEW query
  PROVE  IsSequence(Searched(query))
BY HitsFound, CutIsSequence, BestFirstIsSequence

\* And so does a search among earlier matches.
LEMMA NarrowedIsSequence ==
  ASSUME NEW query, NEW hits, IsSequence(hits)
  PROVE  IsSequence(Narrowed(query, hits))
BY HitsKept, CutIsSequence, BestFirstIsSequence DEF AreKept

\* Matches are nodes below the root.
Below(matches) == \A i \in DOMAIN matches : matches[i] \in Nodes \ {Root}

\* What a search of the tree finds fits the query.
LEMMA SearchedFits ==
  ASSUME NEW query
  PROVE  MatchesFit(Searched(query), query)
BY HitsFound, BestOfCutFits DEF Fits

\* And so does what is left of earlier matches, whatever query those were for.
LEMMA NarrowedFits ==
  ASSUME NEW query, NEW hits, IsSequence(hits), Below(hits)
  PROVE  MatchesFit(Narrowed(query, hits), query)
<1>1. PICK kept : AreKept(kept, query, hits)
  BY HitsKept
<1>2. \A i \in DOMAIN kept : Fits(kept[i], query)
  BY <1>1 DEF AreKept, Below, Fits
<1>. QED
  BY <1>1, <1>2, BestOfCutFits DEF AreKept

-------------------------------------------------------------------------------
\* The loop (Navigator).

NInv == NavTypeOK /\ view \in ListedViews /\ WayBack /\ CursorsInRange

\* The channels hold requests among sequences of nodes, and sequences of matches.
LEMMA EngineStays ==
  ASSUME EngineTypeOK, IsSequence(search_results), [Next]_vars
  PROVE  EngineTypeOK'
<1> DEFINE fits(request) == request.within = AllNodes \/ IsSequence(request.within)
<1>0. /\ IsSequence(requests) /\ \A i \in DOMAIN requests : fits(requests[i])
      /\ working = Idle \/ fits(working)
      /\ IsSequence(answers) /\ \A i \in DOMAIN answers : IsSequence(answers[i].matches)
  BY DEF EngineTypeOK
<1>1. SUFFICES /\ IsSequence(requests') /\ \A i \in DOMAIN requests' : fits(requests'[i])
               /\ working' = Idle \/ fits(working')
               /\ IsSequence(answers')
               /\ \A i \in DOMAIN answers' : IsSequence(answers'[i].matches)
  BY DEF EngineTypeOK, IsSequence
<1>2. CASE UNCHANGED engineVars
  BY <1>0, <1>2 DEF engineVars
<1>3. CASE TakeAnswer
  <2>1. answers # <<>> /\ answers' = Tail(answers) /\ UNCHANGED <<requests, working>>
    BY <1>3 DEF TakeAnswer
  <2>2. /\ IsSequence(Tail(answers))
        /\ \A i \in DOMAIN Tail(answers) : \E j \in DOMAIN answers : Tail(answers)[i] = answers[j]
    BY <1>0, <2>1, SequenceSteps
  <2>. QED
    BY <1>0, <2>1, <2>2
<1>4. CASE Fire
  <2>1. /\ UNCHANGED <<working, answers>>
        /\ UNCHANGED requests \/ Ask(search_query, Within)
    BY <1>4 DEF Fire
  <2>2. CASE UNCHANGED requests
    BY <1>0, <2>1, <2>2
  <2>3. CASE Ask(search_query, Within)
    <3> DEFINE request == [query |-> search_query, within |-> Within]
    <3>1. fits(request)
      <4>1. Within = AllNodes \/ IsSequence(Within)
        BY DEF Within
      <4>. QED
        BY <4>1
    <3>2. requests' = Append(requests, request)
      BY <2>3 DEF Ask
    <3> HIDE DEF request, fits
    <3>3. /\ IsSequence(Append(requests, request))
          /\ \A i \in DOMAIN Append(requests, request) :
                \/ Append(requests, request)[i] = request
                \/ \E j \in DOMAIN requests : Append(requests, request)[i] = requests[j]
      BY <1>0, SequenceSteps
    <3>. QED
      BY <1>0, <2>1, <3>1, <3>2, <3>3
  <2>. QED
    BY <2>1, <2>2, <2>3
<1>5. CASE Take
  <2>1. /\ requests # <<>> /\ working' = Last(requests) /\ requests' = <<>>
        /\ UNCHANGED answers
    BY <1>5 DEF Take
  <2>2. \E j \in DOMAIN requests : Last(requests) = requests[j]
    BY <1>0, <2>1, SequenceSteps
  <2>3. IsSequence(<<>>) /\ DOMAIN <<>> = {}
    <3>1. <<>> \in Seq(Nat) /\ DOMAIN <<>> = {}
      OBVIOUS
    <3>. QED
      BY <3>1, AreSequences
  <2> HIDE DEF fits
  <2>. QED
    BY <1>0, <2>1, <2>2, <2>3
<1>6. CASE Answer
  <2> DEFINE found == IF working.within = AllNodes THEN Searched(working.query)
                      ELSE Narrowed(working.query, working.within)
             answer == [query |-> working.query, matches |-> found]
  <2>1. /\ working # Idle /\ answers' = Append(answers, answer)
        /\ working' = Idle /\ UNCHANGED requests
    BY <1>6 DEF Answer
  <2>2. IsSequence(found)
    BY <1>0, <2>1, SearchedIsSequence, NarrowedIsSequence
  <2>3. IsSequence(answer.matches)
    BY <2>2
  <2> HIDE DEF answer, found
  <2>4. /\ IsSequence(Append(answers, answer))
        /\ \A i \in DOMAIN Append(answers, answer) :
              \/ Append(answers, answer)[i] = answer
              \/ \E j \in DOMAIN answers : Append(answers, answer)[i] = answers[j]
    BY <1>0, SequenceSteps
  <2>. QED
    BY <1>0, <2>1, <2>3, <2>4
<1>7. UNCHANGED engineVars \/ TakeAnswer \/ Fire \/ Take \/ Answer
  BY DEF Next, vars, Key, Move, Rearrange, CycleMatch, Type, Left, Right, EnterFolder, GoBack,
         OpenSearch, Erase, ConfirmSearch, CancelSearch, Quit, Pressed, NoKey, NoAnswer,
         NotDue, Engine, EngineStep
<1>. QED
  BY <1>2, <1>3, <1>4, <1>5, <1>6, <1>7

\* Every step leaves a list that is what the view makes it, with the cursor on a
\* row; and a step in the search bar neither sorts nor filters.
LEMMA ViewStays ==
  ASSUME NInv, [Next]_vars
  PROVE  view' \in ListedViews /\ (searching => SameModes(view, view'))
<1>0. view \in ListedViews /\ view \in ViewType
  BY DEF NInv, NavTypeOK
<1>1. CASE UNCHANGED view
  BY <1>0, <1>1 DEF SameModes
<1>2. ASSUME NEW key, Move(key) PROVE view' \in ListedViews /\ SameModes(view, view')
  BY <1>0, <1>2, MovedLists DEF Move
<1>3. CASE Left
  BY <1>0, <1>3, OutwardLists DEF Left
<1>4. CASE Right
  <2>1. CASE OnClosedFolder(view) \/ searching
    BY <1>0, <1>4, <2>1, FoldersList DEF Right
  <2>2. CASE ~(OnClosedFolder(view) \/ searching)
    BY <1>0, <1>4, <2>2, InsideLists DEF Right
  <2>. QED
    BY <2>1, <2>2
<1>5. CASE EnterFolder \/ GoBack
  BY <1>0, <1>5, InsideLists, BackLists DEF EnterFolder, GoBack
<1>6. ASSUME NEW key, Rearrange(key) PROVE view' \in ListedViews /\ ~searching
  <2>1. view' \in {Resorted(view), Toggled(view), Refiltered(view)} /\ ~searching
    BY <1>6 DEF Rearrange
  <2>. QED
    BY <1>0, <2>1, ArrangedLists, FoldersList
<1>7. ASSUME NEW key, CycleMatch(key) PROVE view' \in ListedViews /\ SameModes(view, view')
  <2>1. view' = view \/ \E n : view' = JumpedTo(view, n)
    BY <1>7 DEF CycleMatch
  <2>. QED
    BY <1>0, <2>1, JumpedLists DEF SameModes
<1>8. CASE TakeAnswer
  <2>1. view' = view \/ \E n : view' = JumpedTo(view, n)
    BY <1>8 DEF TakeAnswer
  <2>. QED
    BY <1>0, <2>1, JumpedLists DEF SameModes
<1>9. CASE CancelSearch \/ Fire
  <2>1. view' = view \/ view' = Restored(view, saved)
    BY <1>9 DEF CancelSearch, Fire
  <2>2. saved \in [current_dir : Nodes, selected : Nat, path_stack : Seq(Nodes),
                   collapsed : SUBSET Dirs]
    BY DEF NInv, NavTypeOK
  <2>. QED
    BY <1>0, <2>1, <2>2, RestoredLists DEF SameModes
<1>10. ASSUME NEW key, Type(key) PROVE UNCHANGED view
  BY <1>10 DEF Type
<1>11. CASE OpenSearch \/ Erase \/ ConfirmSearch \/ Quit \/ NoKey \/ NoAnswer \/ NotDue \/ Engine
            \/ UNCHANGED vars
  BY <1>1, <1>11 DEF OpenSearch, Erase, ConfirmSearch, Quit, NoKey, NoAnswer, NotDue, Engine, vars
<1>. QED
  <2>1. \/ \E key : Move(key) \/ Rearrange(key) \/ CycleMatch(key) \/ Type(key)
        \/ Left \/ Right \/ EnterFolder \/ GoBack \/ OpenSearch \/ Erase \/ ConfirmSearch
        \/ CancelSearch \/ Quit \/ NoKey \/ TakeAnswer \/ NoAnswer \/ Fire \/ NotDue
        \/ Engine \/ UNCHANGED vars
    BY DEF Next, Key
  <2>2. (\E key : Move(key) \/ Rearrange(key) \/ CycleMatch(key) \/ Type(key))
          => view' \in ListedViews /\ (searching => SameModes(view, view'))
    BY <1>0, <1>1, <1>2, <1>6, <1>7, <1>10
  <2>. QED
    BY <2>1, <2>2, <1>3, <1>4, <1>5, <1>8, <1>9, <1>11

\* The matches on show are a sequence, with the cursor on one of them.
LEMMA ResultsStay ==
  ASSUME NInv, [Next]_vars
  PROVE  /\ IsSequence(search_results') /\ search_cursor' \in Nat
         /\ search_cursor' < Len(search_results') \/ search_results' = <<>>
<1>0. /\ IsSequence(search_results) /\ search_cursor \in Nat
      /\ search_cursor < Len(search_results) \/ search_results = <<>>
      /\ Len(search_results) \in Nat
  BY AreSequences DEF NInv, NavTypeOK, CursorsInRange
<1>1. CASE UNCHANGED <<search_results, search_cursor>>
  BY <1>0, <1>1
<1>2. CASE search_results' = <<>> /\ search_cursor' \in {0, search_cursor}
  <2>1. <<>> \in Seq(Nat)
    OBVIOUS
  <2>2. IsSequence(search_results')
    BY <1>2, <2>1, AreSequences
  <2>3. search_cursor' \in Nat
    BY <1>0, <1>2
  <2>. QED
    BY <1>2, <2>2, <2>3
<1>3. ASSUME NEW key, CycleMatch(key)
      PROVE  /\ search_results' = search_results /\ search_cursor' \in Nat
             /\ search_cursor' < Len(search_results) \/ search_results = <<>>
  <2> DEFINE count == Len(search_results)
             by == IF key = "n" THEN 1 ELSE count - 1
  <2>1. search_results' = search_results
    BY <1>3 DEF CycleMatch
  <2>2. CASE search_results = <<>>
    BY <1>0, <1>3, <2>1, <2>2 DEF CycleMatch
  <2>3. CASE search_results # <<>>
    <3>1. search_cursor' = (search_cursor + by) % count
      BY <1>3, <2>3 DEF CycleMatch
    <3>2. count \in Nat \ {0} /\ search_cursor + by \in Int
      BY <1>0, <2>3
    <3> HIDE DEF count, by
    <3>3. search_cursor' \in Nat /\ search_cursor' < count
      BY <3>1, <3>2
    <3>. QED
      BY <2>1, <3>3 DEF count
  <2>. QED
    BY <2>2, <2>3
<1>4. CASE TakeAnswer
  <2>1. UNCHANGED <<search_results, search_cursor>>
        \/ (search_results' = Head(answers).matches /\ search_cursor' = 0)
    BY <1>4 DEF TakeAnswer, resultVars
  <2>2. IsSequence(Head(answers).matches)
    <3>1. IsSequence(answers) /\ \A i \in DOMAIN answers : IsSequence(answers[i].matches)
      BY DEF NInv, NavTypeOK, EngineTypeOK
    <3>2. answers # <<>>
      BY <1>4 DEF TakeAnswer
    <3>3. \E j \in DOMAIN answers : Head(answers) = answers[j]
      BY <3>1, <3>2, SequenceSteps
    <3>. QED
      BY <3>1, <3>3
  <2>3. \A m : IsSequence(m) => m = <<>> \/ 0 < Len(m)
    <3> SUFFICES ASSUME NEW m, IsSequence(m) PROVE m = <<>> \/ 0 < Len(m)
      OBVIOUS
    <3> DEFINE T == {m[i] : i \in DOMAIN m}
    <3>1. m \in Seq(T)
      BY DEF IsSequence
    <3> HIDE DEF T
    <3>. QED
      BY <3>1
  <2>4. IsSequence(search_results')
    BY <1>0, <2>1, <2>2
  <2>. QED
    BY <1>0, <2>1, <2>2, <2>3, <2>4
<1>5. CASE Fire
  BY <1>1, <1>2, <1>5 DEF Fire, resultVars
<1>6. CASE OpenSearch \/ CancelSearch
  BY <1>2, <1>6 DEF OpenSearch, CancelSearch
<1>7. ASSUME NEW key, Move(key) \/ Rearrange(key) \/ Type(key)
      PROVE  UNCHANGED <<search_results, search_cursor>>
  BY <1>7 DEF Move, Rearrange, Type, resultVars
<1>8. CASE Left \/ Right \/ EnterFolder \/ GoBack \/ Erase \/ ConfirmSearch \/ Quit \/ NoKey
           \/ NoAnswer \/ NotDue \/ Engine \/ UNCHANGED vars
  BY <1>1, <1>8 DEF Left, Right, EnterFolder, GoBack, Erase, ConfirmSearch, Quit, NoKey,
                    NoAnswer, NotDue, Engine, vars, resultVars
<1>9. ASSUME NEW key, CycleMatch(key)
      PROVE  IsSequence(search_results')
  BY <1>0, <1>3, <1>9
<1>. QED
  BY <1>1, <1>3, <1>4, <1>5, <1>6, <1>7, <1>8, <1>9 DEF Next, Key

\* The view to go back to stays what it was when the search bar was opened.
LEMMA BarStays ==
  ASSUME NInv, [Next]_vars
  PROVE  /\ opened' \in ViewType /\ searching' \in BOOLEAN
         /\ saved' \in [current_dir : Nodes, selected : Nat, path_stack : Seq(Nodes),
                        collapsed : SUBSET Dirs]
         /\ WayBack'
<1> DEFINE Kepts == [current_dir : Nodes, selected : Nat, path_stack : Seq(Nodes),
                     collapsed : SUBSET Dirs]
<1>0. /\ opened \in ViewType /\ searching \in BOOLEAN /\ saved \in Kepts /\ WayBack
      /\ view \in ListedViews /\ view \in ViewType
  BY DEF NInv, NavTypeOK
<1>1. searching => SameModes(view, view')
  BY ViewStays
<1>2. CASE UNCHANGED barVars
  BY <1>0, <1>1, <1>2 DEF barVars, WayBack, SameModes
<1>3. CASE OpenSearch
  <2>1. saved' = Kept(view) /\ opened' = view /\ view' = view /\ searching' = TRUE
    BY <1>3 DEF OpenSearch
  <2>2. Kept(view) \in Kepts
    BY <1>0 DEF Kept, ViewType
  <2>. QED
    BY <1>0, <2>1, <2>2 DEF WayBack, Kept
<1>4. CASE CancelSearch
  <2>1. /\ searching' = FALSE /\ opened' = opened
        /\ saved' = [saved EXCEPT !.path_stack = <<>>, !.collapsed = {}]
    BY <1>4 DEF CancelSearch
  <2>2. [saved EXCEPT !.path_stack = <<>>, !.collapsed = {}] \in Kepts
    <3>1. <<>> \in Seq(Nodes) /\ {} \in SUBSET Dirs
      OBVIOUS
    <3>. QED
      BY <1>0, <3>1
  <2>. QED
    BY <1>0, <2>1, <2>2 DEF WayBack
<1>5. CASE ConfirmSearch
  BY <1>0, <1>5 DEF ConfirmSearch, WayBack
<1>6. ASSUME NEW key, Move(key) \/ Rearrange(key) \/ Type(key) \/ CycleMatch(key)
      PROVE  UNCHANGED barVars
  BY <1>6 DEF Move, Rearrange, Type, CycleMatch
<1>7. CASE Left \/ Right \/ EnterFolder \/ GoBack \/ Erase \/ Quit \/ NoKey \/ TakeAnswer
           \/ NoAnswer \/ Fire \/ NotDue \/ Engine \/ UNCHANGED vars
  BY <1>2, <1>7 DEF Left, Right, EnterFolder, GoBack, Erase, Quit, NoKey, TakeAnswer,
                    NoAnswer, Fire, NotDue, Engine, vars
<1>. QED
  BY <1>2, <1>3, <1>4, <1>5, <1>6, <1>7 DEF Next, Key

\* The navigator begins in the invariant.
LEMMA NavInit == Init => NInv
<1> SUFFICES ASSUME Init PROVE NInv
  OBVIOUS
<1>1. view \in ListedViews /\ view \in ViewType /\ opened = view
  BY FirstLists DEF Init, ListedViews
<1>2. IsSequence(<<>>) /\ DOMAIN <<>> = {}
  <2>1. <<>> \in Seq(Nat) /\ DOMAIN <<>> = {}
    OBVIOUS
  <2>. QED
    BY <2>1, AreSequences
<1>3. EngineTypeOK
  BY <1>2 DEF Init, EngineInit, EngineTypeOK
<1>4. saved \in [current_dir : Nodes, selected : Nat, path_stack : Seq(Nodes),
                 collapsed : SUBSET Dirs]
  BY <1>1 DEF Init, Kept, ViewType
<1>5. NavTypeOK
  BY <1>1, <1>2, <1>3, <1>4 DEF Init, NavTypeOK
<1>. QED
  BY <1>1, <1>5 DEF Init, NInv, WayBack, CursorsInRange, ListedViews

\* Every step preserves the invariant.
LEMMA NavStep == NInv /\ [Next]_vars => NInv'
<1> SUFFICES ASSUME NInv, [Next]_vars PROVE NInv'
  OBVIOUS
<1>1. EngineTypeOK'
  BY EngineStays DEF NInv, NavTypeOK
<1>2. view' \in ListedViews /\ view' \in ViewType /\ CursorOnRow(view')
  BY ViewStays DEF ListedViews
<1>3. /\ IsSequence(search_results') /\ search_cursor' \in Nat
      /\ search_cursor' < Len(search_results') \/ search_results' = <<>>
  BY ResultsStay
<1>4. IsSequence(search_results)'
  BY <1>3 DEF IsSequence
<1>. QED
  BY <1>1, <1>2, <1>3, <1>4, BarStays DEF NInv, NavTypeOK, CursorsInRange, CursorOnRow,
     ListedViews, Flattened

\* The invariant holds in every state.
LEMMA NavAlways == Spec => []NInv
BY NavInit, NavStep, PTL DEF Spec

\* What waits in the channels: searches of the whole tree or among nodes below the
\* root, and answers that fit the query they were asked for.
ChannelsFit ==
    /\ \A i \in DOMAIN requests : requests[i].within = AllNodes \/ Below(requests[i].within)
    /\ working = Idle \/ working.within = AllNodes \/ Below(working.within)
    /\ \A i \in DOMAIN answers : MatchesFit(answers[i].matches, answers[i].query)
    /\ Below(search_results)

\* A step from which the matches on show are others: an answer to the query as it
\* is, the first match under the cursor, or none.
LEMMA NewResults ==
  ASSUME NInv, ChannelsFit, [Next]_vars, search_results' # search_results
  PROVE  \/ search_results' = <<>>
         \/ /\ MatchesFit(search_results', search_query)
            /\ search_cursor' = 0
<1>1. CASE TakeAnswer
  <2>1. /\ search_results' = Head(answers).matches /\ search_cursor' = 0
        /\ Head(answers).query = search_query /\ answers # <<>>
    BY <1>1 DEF TakeAnswer, Accepted, resultVars
  <2>2. \E j \in DOMAIN answers : Head(answers) = answers[j]
    BY <2>1, SequenceSteps DEF NInv, NavTypeOK, EngineTypeOK
  <2>. QED
    BY <2>1, <2>2 DEF ChannelsFit
<1>2. CASE OpenSearch \/ CancelSearch \/ Fire
  BY <1>2 DEF OpenSearch, CancelSearch, Fire, resultVars
<1>3. ASSUME NEW key, Move(key) \/ Rearrange(key) \/ Type(key) \/ CycleMatch(key)
      PROVE  UNCHANGED search_results
  BY <1>3 DEF Move, Rearrange, Type, CycleMatch, resultVars
<1>4. CASE Left \/ Right \/ EnterFolder \/ GoBack \/ Erase \/ ConfirmSearch \/ Quit \/ NoKey
           \/ NoAnswer \/ NotDue \/ Engine \/ UNCHANGED vars
  BY <1>4 DEF Left, Right, EnterFolder, GoBack, Erase, ConfirmSearch, Quit, NoKey,
              NoAnswer, NotDue, Engine, vars, resultVars
<1>. QED
  BY <1>1, <1>2, <1>3, <1>4 DEF Next, Key

\* Every step keeps what waits in the channels fit.
LEMMA ChannelsStayFit ==
  ASSUME NInv, ChannelsFit, [Next]_vars
  PROVE  ChannelsFit'
<1>0. /\ IsSequence(requests) /\ IsSequence(answers)
      /\ working # Idle => working.within = AllNodes \/ IsSequence(working.within)
  BY DEF NInv, NavTypeOK, EngineTypeOK
<1> DEFINE asked(request) == request.within = AllNodes \/ Below(request.within)
           fits(answer) == MatchesFit(answer.matches, answer.query)
<1>1. /\ \A i \in DOMAIN requests : asked(requests[i])
      /\ working = Idle \/ asked(working)
      /\ \A i \in DOMAIN answers : fits(answers[i])
  BY DEF ChannelsFit
<1>2. Below(search_results')
  <2>1. CASE UNCHANGED search_results
    BY <2>1 DEF ChannelsFit
  <2>2. CASE search_results' = <<>>
    BY <2>2 DEF Below
  <2>3. CASE MatchesFit(search_results', search_query)
    BY <2>3 DEF MatchesFit, Fits, Below
  <2>. QED
    BY <2>1, <2>2, <2>3, NewResults
<1>3. SUFFICES /\ \A i \in DOMAIN requests' : asked(requests'[i])
               /\ working' = Idle \/ asked(working')
               /\ \A i \in DOMAIN answers' : fits(answers'[i])
  BY <1>2 DEF ChannelsFit, Below
<1>4. CASE UNCHANGED engineVars
  BY <1>1, <1>4 DEF engineVars
<1>5. CASE TakeAnswer
  <2>1. answers # <<>> /\ answers' = Tail(answers) /\ UNCHANGED <<requests, working>>
    BY <1>5 DEF TakeAnswer
  <2>2. \A i \in DOMAIN Tail(answers) : \E j \in DOMAIN answers : Tail(answers)[i] = answers[j]
    BY <1>0, <2>1, SequenceSteps
  <2> HIDE DEF asked, fits
  <2>. QED
    BY <1>1, <2>1, <2>2
<1>6. CASE Fire
  <2>1. /\ UNCHANGED <<working, answers>>
        /\ UNCHANGED requests \/ Ask(search_query, Within)
    BY <1>6 DEF Fire
  <2>2. CASE UNCHANGED requests
    BY <1>1, <2>1, <2>2
  <2>3. CASE Ask(search_query, Within)
    <3> DEFINE request == [query |-> search_query, within |-> Within]
    <3>1. asked(request)
      <4>1. Within = AllNodes \/ Below(Within)
        BY DEF Within, ChannelsFit
      <4>. QED
        BY <4>1
    <3>2. requests' = Append(requests, request)
      BY <2>3 DEF Ask
    <3> HIDE DEF request, asked, fits
    <3>3. \A i \in DOMAIN Append(requests, request) :
             \/ Append(requests, request)[i] = request
             \/ \E j \in DOMAIN requests : Append(requests, request)[i] = requests[j]
      BY <1>0, SequenceSteps
    <3>. QED
      BY <1>1, <2>1, <3>1, <3>2, <3>3
  <2>. QED
    BY <2>1, <2>2, <2>3
<1>7. CASE Take
  <2>1. /\ requests # <<>> /\ working' = Last(requests) /\ requests' = <<>>
        /\ UNCHANGED answers
    BY <1>7 DEF Take
  <2>2. \E j \in DOMAIN requests : Last(requests) = requests[j]
    BY <1>0, <2>1, SequenceSteps
  <2>3. DOMAIN <<>> = {}
    OBVIOUS
  <2> HIDE DEF asked, fits
  <2>. QED
    BY <1>1, <2>1, <2>2, <2>3
<1>8. CASE Answer
  <2> DEFINE found == IF working.within = AllNodes THEN Searched(working.query)
                      ELSE Narrowed(working.query, working.within)
             answer == [query |-> working.query, matches |-> found]
  <2>1. /\ working # Idle /\ answers' = Append(answers, answer)
        /\ working' = Idle /\ UNCHANGED requests
    BY <1>8 DEF Answer
  <2>2. MatchesFit(found, working.query)
    BY <1>0, <1>1, <2>1, SearchedFits, NarrowedFits
  <2>3. fits(answer)
    BY <2>2
  <2> HIDE DEF answer, found, asked, fits
  <2>4. \A i \in DOMAIN Append(answers, answer) :
           \/ Append(answers, answer)[i] = answer
           \/ \E j \in DOMAIN answers : Append(answers, answer)[i] = answers[j]
    BY <1>0, SequenceSteps
  <2>. QED
    BY <1>1, <2>1, <2>3, <2>4
<1>9. UNCHANGED engineVars \/ TakeAnswer \/ Fire \/ Take \/ Answer
  BY DEF Next, vars, Key, Move, Rearrange, CycleMatch, Type, Left, Right, EnterFolder, GoBack,
         OpenSearch, Erase, ConfirmSearch, CancelSearch, Quit, Pressed, NoKey, NoAnswer,
         NotDue, Engine, EngineStep
<1>. QED
  BY <1>4, <1>5, <1>6, <1>7, <1>8, <1>9

-------------------------------------------------------------------------------
\* The channels, the view and the search bar keep their types, for every tree.
THEOREM NavTypeCorrect == Spec => []NavTypeOK
<1>1. NInv => NavTypeOK
  BY DEF NInv
<1>. QED
  BY <1>1, NavAlways, PTL

\* No key, late answer, sort or filter leaves a cursor beyond its list, so no
\* handler of the navigator indexes past one.
THEOREM CursorsAlwaysInRange == Spec => []CursorsInRange
<1>1. NInv => CursorsInRange
  BY DEF NInv
<1>. QED
  BY <1>1, NavAlways, PTL

\* Esc in the search bar (cancel_search) gives back the very view that the bar was
\* opened on, whatever was typed, answered, opened or left in between.
THEOREM CancelAlwaysRestores == Spec => CancelRestoresView
<1>1. ASSUME NInv, CancelSearch PROVE view' = opened
  <2>1. /\ searching /\ view' = Restored(view, saved)
    BY <1>1 DEF CancelSearch
  <2>2. /\ opened \in ListedViews /\ saved = Kept(opened) /\ SameModes(opened, view)
    BY <1>1, <2>1 DEF NInv, WayBack, SameModes
  <2>3. /\ view \in ViewType
        /\ saved \in [current_dir : Nodes, selected : Nat, path_stack : Seq(Nodes),
                      collapsed : SUBSET Dirs]
    BY <1>1 DEF NInv, NavTypeOK
  <2>. QED
    BY <2>1, <2>2, <2>3, RestoredLists
<1>2. NInv /\ [Next]_vars => [CancelSearch => view' = opened]_vars
  BY <1>1
<1>. QED
  BY <1>2, NavAlways, PTL DEF Spec, CancelRestoresView

\* Matches that come on show are files and folders whose names have the query in
\* them as it is typed now (poll_search_results), a whole name before all others:
\* whatever was typed, drained, narrowed or answered late.
THEOREM AnswersAlwaysFit == Spec => AnswersFit
<1>1. Init => ChannelsFit
  <2>1. DOMAIN <<>> = {}
    OBVIOUS
  <2>. QED
    BY <2>1 DEF Init, EngineInit, ChannelsFit, Below
<1>2. NInv /\ ChannelsFit /\ [Next]_vars => ChannelsFit'
  BY ChannelsStayFit
<1> DEFINE Shown ==
             search_results' # search_results /\ search_results' # <<>> =>
                /\ \A n \in ToSet(search_results') : n # Root /\ Has(Tree[n].name, search_query)
                /\ search_cursor' = 0
                /\ \A n \in ToSet(search_results') :
                      LET best == search_results'[1]
                      IN  Tree[n].name = search_query => Tree[best].name = search_query
<1>3. NInv /\ ChannelsFit /\ [Next]_vars => Shown
  <2>1. SUFFICES ASSUME NInv, ChannelsFit, [Next]_vars,
                        search_results' # search_results, search_results' # <<>>
                 PROVE  Shown
    OBVIOUS
  <2>2. MatchesFit(search_results', search_query) /\ search_cursor' = 0
    BY <2>1, NewResults
  <2>. QED
    BY <2>2 DEF MatchesFit, Fits, ToSet
<1>4. NInv /\ ChannelsFit /\ [Next]_vars => [Shown]_vars
  BY <1>3
<1>. QED
  BY <1>1, <1>2, <1>4, NavAlways, PTL DEF Spec, AnswersFit

\* A jump to a match (jump_to_search_result) leaves the cursor on it, in any tree and
\* however it was sorted and collapsed, whenever it lies below the directory on show:
\* for the first match of an answer and for every match that n and N go round to.
THEOREM MatchAlwaysUnderCursor == Spec => MatchIsUnderCursor
<1>1. Init => ChannelsFit
  <2>1. DOMAIN <<>> = {}
    OBVIOUS
  <2>. QED
    BY <2>1 DEF Init, EngineInit, ChannelsFit, Below
<1>2. NInv /\ ChannelsFit /\ [Next]_vars => ChannelsFit'
  BY ChannelsStayFit
<1> DEFINE Jumps == (TakeAnswer /\ Accepted(Head(answers)))
                       \/ CycleMatch("n") \/ CycleMatch("N")
           Lands == \/ search_results' = <<>>
                    \/ Listable(search_results'[search_cursor' + 1]) =>
                          Row(view').node = search_results'[search_cursor' + 1]
<1>3. ASSUME NInv, ChannelsFit, [Next]_vars, Jumps, search_results' # <<>>,
             Listable(search_results'[search_cursor' + 1])
      PROVE  Row(view').node = search_results'[search_cursor' + 1]
  <2> DEFINE match == search_results'[search_cursor' + 1]
  <2>1. match \in Nodes
    <3>1. Below(search_results)'
      BY <1>2, <1>3 DEF ChannelsFit
    <3>2. /\ IsSequence(search_results') /\ search_cursor' \in Nat
          /\ search_cursor' < Len(search_results')
      BY <1>3, ResultsStay
    <3>3. search_cursor' + 1 \in DOMAIN search_results'
      BY <3>2, AreSequences
    <3>. QED
      BY <3>1, <3>3 DEF Below
  <2>2. view' = JumpedTo(view, match)
    <3>1. CASE TakeAnswer /\ Accepted(Head(answers))
      <4>1. /\ search_results' = Head(answers).matches /\ search_cursor' = 0
            /\ view' = IF Head(answers).matches = <<>> THEN view
                       ELSE JumpedTo(view, Head(answers).matches[1])
        BY <3>1 DEF TakeAnswer
      <4>. QED
        BY <1>3, <4>1
    <3>2. ASSUME NEW key, CycleMatch(key)
          PROVE  view' = JumpedTo(view, match)
      <4>1. search_results' = search_results
        BY <3>2 DEF CycleMatch
      <4>. QED
        BY <1>3, <3>2, <4>1 DEF CycleMatch
    <3>. QED
      BY <1>3, <3>1, <3>2
  <2>3. PICK i : Reaches(match, i, view.current_dir)
    BY <1>3 DEF Listable, Reaches
  <2>4. view \in ListedViews /\ Passes(match, view.flagged_filter)
    BY <1>3 DEF NInv, Listable
  <2> HIDE DEF match
  <2>5. Row(view').node = match
    BY <2>1, <2>2, <2>3, <2>4, JumpLands
  <2>. QED
    BY <2>5 DEF match
<1>4. NInv /\ ChannelsFit /\ [Next]_vars => (Jumps => Lands)
  BY <1>3
<1>5. NInv /\ ChannelsFit /\ [Next]_vars => [Jumps => Lands]_vars
  BY <1>4
<1>. QED
  BY <1>1, <1>2, <1>5, NavAlways, PTL DEF Spec, MatchIsUnderCursor

\* The view on show, and the one the search bar was opened on, lie on open trails;
\* only the search bar leaves a search to be sent.
AllPlaced == Placed(view) /\ Placed(opened) /\ (pending_search => searching)

\* Every step keeps them so.
LEMMA AllStayPlaced ==
  ASSUME NInv, AllPlaced, [Next]_vars
  PROVE  AllPlaced'
<1>0. /\ view \in ListedViews /\ view \in ViewType /\ Placed(view) /\ Placed(opened)
      /\ opened \in ViewType /\ (pending_search => searching)
  BY DEF NInv, NavTypeOK, AllPlaced
<1>1. SUFFICES Placed(view') /\ Placed(opened') /\ (pending_search' => searching')
  BY DEF AllPlaced, Placed, Trail
<1>2. CASE UNCHANGED <<view, opened, pending_search, searching>>
  BY <1>0, <1>2
<1>3. ASSUME NEW key, Move(key) \/ CycleMatch(key) \/ Rearrange(key)
      PROVE  Placed(view') /\ UNCHANGED <<opened, pending_search, searching>>
  <2>1. UNCHANGED <<opened, pending_search, searching>>
    BY <1>3 DEF Move, CycleMatch, Rearrange, barVars, queryVars
  <2>2. \/ view' = view \/ view' = Moved(view, key) \/ \E n : view' = JumpedTo(view, n)
        \/ view' \in {Resorted(view), Toggled(view), Refiltered(view)}
    BY <1>3 DEF Move, CycleMatch, Rearrange
  <2>. QED
    BY <1>0, <2>1, <2>2, OthersPlaced, FoldersPlaced
<1>4. CASE Left \/ Right \/ EnterFolder \/ GoBack
  <2>1. UNCHANGED <<opened, pending_search, searching>>
    BY <1>4 DEF Left, Right, EnterFolder, GoBack, barVars, queryVars
  <2>2. view' \in {Outward(view), Opened(view), Inside(view), Back(view)}
    BY <1>4 DEF Left, Right, EnterFolder, GoBack
  <2>. QED
    BY <1>0, <2>1, <2>2, OutwardPlaced, FoldersPlaced, InsidePlaced, BackPlaced
<1>5. CASE OpenSearch
  BY <1>0, <1>5 DEF OpenSearch
<1>6. ASSUME NEW key, Type(key) PROVE UNCHANGED <<view, opened, searching>> /\ searching
  BY <1>6 DEF Type, barVars
<1>7. CASE Erase \/ ConfirmSearch
  BY <1>0, <1>7 DEF Erase, ConfirmSearch, barVars
<1>8. ASSUME searching, view' = Restored(view, saved) PROVE Placed(view')
  <2>1. saved = Kept(opened)
    BY <1>8 DEF NInv, WayBack
  <2>. QED
    BY <1>0, <1>8, <2>1, RestoredPlaced
<1>9. CASE CancelSearch
  BY <1>0, <1>8, <1>9 DEF CancelSearch
<1>10. CASE Fire
  <2>1. /\ pending_search /\ pending_search' = FALSE /\ UNCHANGED <<opened, searching>>
        /\ view' = view \/ view' = Restored(view, saved)
    BY <1>10 DEF Fire, barVars
  <2>. QED
    BY <1>0, <1>8, <2>1
<1>11. CASE TakeAnswer
  <2>1. /\ UNCHANGED <<opened, searching, pending_search>>
        /\ view' = view \/ \E n : view' = JumpedTo(view, n)
    BY <1>11 DEF TakeAnswer, barVars, queryVars
  <2>. QED
    BY <1>0, <2>1, OthersPlaced
<1>12. CASE Quit \/ NoKey \/ NoAnswer \/ NotDue \/ Engine \/ UNCHANGED vars
  BY <1>2, <1>12 DEF Quit, NoKey, NoAnswer, NotDue, Engine, vars, barVars, queryVars
<1>. QED
  <2>1. \/ \E key : Move(key) \/ Rearrange(key) \/ CycleMatch(key) \/ Type(key)
        \/ Left \/ Right \/ EnterFolder \/ GoBack \/ OpenSearch \/ Erase \/ ConfirmSearch
        \/ CancelSearch \/ Quit \/ NoKey \/ TakeAnswer \/ NoAnswer \/ Fire \/ NotDue
        \/ Engine \/ UNCHANGED vars
    BY DEF Next, Key
  <2>2. (\E key : Move(key) \/ Rearrange(key) \/ CycleMatch(key) \/ Type(key))
          => Placed(view') /\ Placed(opened') /\ (pending_search' => searching')
    BY <1>0, <1>3, <1>6
  <2>. QED
    BY <2>1, <2>2, <1>4, <1>5, <1>7, <1>9, <1>10, <1>11, <1>12

\* Backing out of a folder (navigate_back, by Backspace or by leaving the list with
\* Left) lands on that folder in the directory from which it was entered: the folders
\* between stay open whatever was collapsed, searched for, cancelled or filtered since.
THEOREM BackAlwaysLands == Spec => BackLandsOnFolder
<1>1. Init => AllPlaced
  BY FirstPlaced DEF Init, AllPlaced
<1>2. NInv /\ AllPlaced /\ [Next]_vars => AllPlaced'
  BY AllStayPlaced
<1> DEFINE Lands == /\ Row(view').node = view.current_dir
                    /\ view.path_stack # <<>>
                    /\ view'.current_dir = Last(view.path_stack)
           Goes == (GoBack \/ Left) /\ view'.current_dir # view.current_dir
<1>3. ASSUME NInv, AllPlaced, Goes PROVE Lands
  <2>1. view \in ListedViews /\ Placed(view)
    BY <1>3 DEF NInv, AllPlaced
  <2>2. view' = Back(view)
    <3>1. CASE GoBack
      BY <3>1 DEF GoBack
    <3>2. CASE Left
      BY <1>3, <2>1, <3>2, OutwardPlaced DEF Left
    <3>. QED
      BY <1>3, <3>1, <3>2
  <2>. QED
    BY <1>3, <2>1, <2>2, BackPlaced
<1>4. NInv /\ AllPlaced /\ [Next]_vars => [Goes => Lands]_vars
  BY <1>3
<1>. QED
  BY <1>1, <1>2, <1>4, NavAlways, PTL DEF Spec, BackLandsOnFolder
===============================================================================
