------------------------------ MODULE SliceProofs ------------------------------
(***************************************************************************)
(* Lemmas about slices: what sorting, filtering and flattening them return,*)
(* and what a loop over one makes, for any elements.                       *)
(***************************************************************************)
EXTENDS Slices, SequenceTheorems, FiniteSetTheorems, WellFoundedInduction, TLAPS

-------------------------------------------------------------------------------
\* Finite total orders, and sequences made of them.

\* A least element of any set of numbers.
LEMMA LeastOf ==
  ASSUME NEW T \in SUBSET Nat, T # {}
  PROVE  \E m \in T : \A k \in T : m <= k
<1>1. PICK m \in T : \A k \in T : ~ (<<k, m>> \in OpToRel(<, Nat))
  BY NatLessThanWellFounded, WFMin
<1>2. \A k \in T : ~ (k < m)
  BY <1>1 DEF OpToRel
<1>. QED
  BY <1>2

\* R is a strict total order of S; what lies before x in it.
Orders(R, S) ==
    /\ \A x \in S : <<x, x>> \notin R
    /\ \A x, y \in S : x # y => <<x, y>> \in R \/ <<y, x>> \in R
    /\ \A x, y, z \in S : <<x, y>> \in R /\ <<y, z>> \in R => <<x, z>> \in R
Before(R, S, x) == {y \in S : <<y, x>> \in R}

\* In a finite set so ordered every place is taken: some element has k before it.
LEMMA EveryRank ==
  ASSUME NEW S, IsFiniteSet(S), NEW R, Orders(R, S)
  PROVE  /\ Cardinality(S) \in Nat
         /\ \A k \in 1 .. Cardinality(S) : \E x \in S : Cardinality(Before(R, S, x)) = k - 1
         /\ \A x \in S : Cardinality(Before(R, S, x)) \in 0 .. Cardinality(S) - 1
         /\ \A x, y \in S : <<x, y>> \in R =>
               Cardinality(Before(R, S, x)) < Cardinality(Before(R, S, y))
<1> DEFINE n == Cardinality(S)
           under(x) == Before(R, S, x)
           rank == [x \in S |-> Cardinality(under(x))]
<1>1. n \in Nat
  BY FS_CardinalityType
<1>2. \A x \in S : IsFiniteSet(under(x)) /\ Cardinality(under(x)) \in 0 .. n - 1
  <2> SUFFICES ASSUME NEW x \in S
               PROVE  IsFiniteSet(under(x)) /\ Cardinality(under(x)) \in 0 .. n - 1
    OBVIOUS
  <2>1. under(x) \in SUBSET S /\ under(x) # S
    BY DEF Before, Orders
  <2> HIDE DEF under
  <2>2. /\ IsFiniteSet(under(x)) /\ Cardinality(under(x)) <= n
        /\ n = Cardinality(under(x)) => S = under(x)
    BY <2>1, FS_Subset
  <2>3. Cardinality(under(x)) \in Nat
    BY <2>2, FS_CardinalityType
  <2>. QED
    BY <1>1, <2>1, <2>2, <2>3
<1>3. \A x, y \in S : <<x, y>> \in R => Cardinality(under(x)) < Cardinality(under(y))
  <2> SUFFICES ASSUME NEW x \in S, NEW y \in S, <<x, y>> \in R
               PROVE  Cardinality(under(x)) < Cardinality(under(y))
    OBVIOUS
  <2>1. under(x) \in SUBSET under(y) /\ under(x) # under(y)
    <3>1. x \in under(y) /\ x \notin under(x)
      BY DEF Before, Orders
    <3>2. \A z \in under(x) : z \in under(y)
      BY DEF Before, Orders
    <3>. QED
      BY <3>1, <3>2
  <2> HIDE DEF under
  <2>2. /\ Cardinality(under(x)) <= Cardinality(under(y))
        /\ Cardinality(under(y)) = Cardinality(under(x)) => under(y) = under(x)
    BY <1>2, <2>1, FS_Subset
  <2>3. Cardinality(under(x)) \in Nat /\ Cardinality(under(y)) \in Nat
    BY <1>2, FS_CardinalityType
  <2>. QED
    BY <2>1, <2>2, <2>3
<1>4. \A x, y \in S : Cardinality(under(x)) = Cardinality(under(y)) => x = y
  <2> SUFFICES ASSUME NEW x \in S, NEW y \in S, x # y
               PROVE  Cardinality(under(x)) # Cardinality(under(y))
    OBVIOUS
  <2>1. <<x, y>> \in R \/ <<y, x>> \in R
    BY DEF Orders
  <2> HIDE DEF under
  <2>2. Cardinality(under(x)) \in Nat /\ Cardinality(under(y)) \in Nat
    BY <1>2, FS_CardinalityType
  <2>. QED
    BY <1>3, <2>1, <2>2
<1>5. rank \in Injection(S, 0 .. n - 1)
  <2> HIDE DEF under, n
  <2>1. rank \in [S -> 0 .. n - 1]
    BY <1>2
  <2>2. IsInjective(rank)
    BY <1>4 DEF IsInjective
  <2>. QED
    BY <2>1, <2>2 DEF Injection
<1>6. rank \in Surjection(S, 0 .. n - 1)
  <2>1. IsFiniteSet(0 .. n - 1) /\ Cardinality(0 .. n - 1) = n
    <3>1. 0 \in Int /\ n - 1 \in Int
      BY <1>1
    <3>2. /\ IsFiniteSet(0 .. n - 1)
          /\ Cardinality(0 .. n - 1) = IF 0 > n - 1 THEN 0 ELSE n - 1 - 0 + 1
      BY <3>1, FS_Interval
    <3> HIDE DEF n
    <3>. QED
      BY <1>1, <3>2
  <2> HIDE DEF rank
  <2>. QED
    BY <1>5, <2>1, FS_Injection
<1>7. \A k \in 1 .. n : \E x \in S : Cardinality(under(x)) = k - 1
  <2> SUFFICES ASSUME NEW k \in 1 .. n PROVE \E x \in S : rank[x] = k - 1
    OBVIOUS
  <2>1. k - 1 \in 0 .. n - 1
    BY <1>1
  <2> HIDE DEF rank
  <2>. QED
    BY <1>6, <2>1 DEF Surjection
<1>. QED
  BY <1>1, <1>2, <1>3, <1>7

\* The elements by their places are all of them, in their order.
Ranked(R, S) ==
    [k \in 1 .. Cardinality(S) |-> CHOOSE x \in S : Cardinality(Before(R, S, x)) = k - 1]
LEMMA RankedSequence ==
  ASSUME NEW S, IsFiniteSet(S), NEW R, Orders(R, S)
  PROVE  LET s == Ranked(R, S)
         IN  /\ Cardinality(S) \in Nat
             /\ s \in [1 .. Cardinality(S) -> S]
             /\ \A x \in S : \E k \in 1 .. Cardinality(S) : s[k] = x
             /\ \A k, l \in 1 .. Cardinality(S) : k < l => <<s[k], s[l]>> \in R
<1> DEFINE s == Ranked(R, S)
           n == Cardinality(S)
           rank(x) == Cardinality(Before(R, S, x))
<1>1. /\ n \in Nat
      /\ \A k \in 1 .. n : \E x \in S : rank(x) = k - 1
      /\ \A x \in S : rank(x) \in 0 .. n - 1
      /\ \A x, y \in S : <<x, y>> \in R => rank(x) < rank(y)
  BY EveryRank
<1> HIDE DEF n, rank
<1>2. s = [k \in 1 .. n |-> CHOOSE x \in S : rank(x) = k - 1]
  BY DEF n, rank, Ranked
<1> HIDE DEF s
<1>3. \A k \in 1 .. n : s[k] \in S /\ rank(s[k]) = k - 1
  <2> SUFFICES ASSUME NEW k \in 1 .. n PROVE s[k] \in S /\ rank(s[k]) = k - 1
    OBVIOUS
  <2>1. s[k] = CHOOSE x \in S : rank(x) = k - 1
    BY <1>2
  <2>2. \E x \in S : rank(x) = k - 1
    BY <1>1
  <2>. QED
    BY <2>1, <2>2
<1>4. \A x, y \in S : rank(x) = rank(y) => x = y
  <2> SUFFICES ASSUME NEW x \in S, NEW y \in S, x # y PROVE rank(x) # rank(y)
    OBVIOUS
  <2>1. <<x, y>> \in R \/ <<y, x>> \in R
    BY DEF Orders
  <2>. QED
    BY <1>1, <2>1
<1>5. ASSUME NEW x \in S PROVE \E k \in 1 .. n : s[k] = x
  <2>1. rank(x) + 1 \in 1 .. n /\ rank(x) \in Nat
    BY <1>1
  <2>2. rank(s[rank(x) + 1]) = rank(x) /\ s[rank(x) + 1] \in S
    BY <1>3, <2>1
  <2>. QED
    BY <1>4, <2>1, <2>2
<1>6. ASSUME NEW k \in 1 .. n, NEW l \in 1 .. n, k < l PROVE <<s[k], s[l]>> \in R
  <2>1. s[k] \in S /\ s[l] \in S /\ rank(s[k]) = k - 1 /\ rank(s[l]) = l - 1
    BY <1>3
  <2>2. s[k] # s[l]
    BY <1>6, <2>1
  <2>3. <<s[k], s[l]>> \in R \/ <<s[l], s[k]>> \in R
    BY <2>1, <2>2 DEF Orders
  <2>4. <<s[l], s[k]>> \notin R
    <3> SUFFICES ASSUME <<s[l], s[k]>> \in R PROVE FALSE
      OBVIOUS
    <3>1. rank(s[l]) < rank(s[k])
      BY <1>1, <2>1
    <3>. QED
      BY <1>6, <2>1, <3>1
  <2>. QED
    BY <2>3, <2>4
<1>7. s \in [1 .. n -> S]
  BY <1>2, <1>3
<1>. QED
  BY <1>1, <1>5, <1>6, <1>7 DEF n, s

\* A function over 1 .. n is a sequence, and its own first n elements.
LEMMA SequenceOf ==
  ASSUME NEW S, NEW n \in Nat, NEW s \in [1 .. n -> S]
  PROVE  /\ s \in Seq(S) /\ Len(s) = n /\ DOMAIN s = 1 .. n
         /\ SubSeq(s, 1, n) = s
<1>1. s \in Seq(S) /\ Len(s) = n /\ DOMAIN s = 1 .. n
  OBVIOUS
<1>. QED
  BY <1>1, SubSeqFull

\* What sorting makes: all the elements, in the order of the relation.
LEMMA RankedIsSlice ==
  ASSUME NEW S, IsFiniteSet(S), NEW R, Orders(R, S)
  PROVE  LET s == Ranked(R, S)
         IN  /\ SubSeq(s, 1, Cardinality(S)) = s
             /\ s \in Seq(S) /\ ToSet(s) = S
             /\ Cardinality(S) \in Nat /\ Len(s) = Cardinality(S)
             /\ DOMAIN s = 1 .. Cardinality(S)
             /\ \A k, l \in 1 .. Cardinality(S) : k < l => <<s[k], s[l]>> \in R
<1> DEFINE s == Ranked(R, S)
           n == Cardinality(S)
<1>1. /\ n \in Nat /\ s \in [1 .. n -> S]
      /\ \A x \in S : \E k \in 1 .. n : s[k] = x
      /\ \A k, l \in 1 .. n : k < l => <<s[k], s[l]>> \in R
  BY RankedSequence
<1> HIDE DEF s, n
<1>2. s \in Seq(S) /\ Len(s) = n /\ DOMAIN s = 1 .. n /\ SubSeq(s, 1, n) = s
  BY <1>1, SequenceOf
<1>3. ToSet(s) = S
  BY <1>1, <1>2 DEF ToSet
<1>. QED
  BY <1>1, <1>2, <1>3 DEF s, n

\* Numbers in their order.
LEMMA SortedNumbers ==
  ASSUME NEW T \in SUBSET Nat, IsFiniteSet(T)
  PROVE  Sorted(T, <) \in Seq(T) /\ ToSet(Sorted(T, <)) = T
<1> DEFINE R == {p \in T \X T : p[1] < p[2]}
           n == Cardinality(T)
           kth(k) == CHOOSE x \in T : Cardinality({y \in T : y < x}) = k - 1
           all == [k \in 1 .. n |-> kth(k)]
<1>1. \A x, y \in T : <<x, y>> \in R <=> x < y
  OBVIOUS
<1>2. Orders(R, T)
  <2> HIDE DEF R
  <2>. QED
    BY <1>1 DEF Orders
<1>3. all = Ranked(R, T)
  <2>1. \A x \in T : {y \in T : y < x} = Before(R, T, x)
    <3> HIDE DEF R
    <3>. QED
      BY <1>1 DEF Before
  <2>2. \A k \in 1 .. n : kth(k) = CHOOSE x \in T : Cardinality(Before(R, T, x)) = k - 1
    <3> HIDE DEF R, n
    <3>. QED
      BY <2>1
  <2> HIDE DEF R, kth
  <2>. QED
    BY <2>2 DEF Ranked
<1>4. Sorted(T, <) = SubSeq(all, 1, n)
  BY Zenon DEF Sorted
<1> HIDE DEF R, all, n
<1>5. SubSeq(all, 1, n) = all /\ all \in Seq(T) /\ ToSet(all) = T
  BY <1>2, <1>3, RankedIsSlice DEF n
<1>. QED
  BY <1>4, <1>5, Zenon

\* The elements at chosen positions: taken one by one, in their order.
IsPick(s, P, m, at) ==
    /\ m = Cardinality(P) /\ m \in Nat /\ at \in [1 .. m -> P]
    /\ At(s, P) = [k \in 1 .. m |-> s[at[k]]]
    /\ \A p \in P : \E k \in 1 .. m : at[k] = p
    /\ \A k, l \in 1 .. m : k < l => at[k] < at[l]

LEMMA AtPositions ==
  ASSUME NEW n \in Nat, NEW P \in SUBSET (1 .. n), NEW s
  PROVE  \E m, at : IsPick(s, P, m, at)
<1> DEFINE m == Cardinality(P)
           R == {p \in P \X P : p[1] < p[2]}
           kth(k) == CHOOSE x \in P : Cardinality({y \in P : y < x}) = k - 1
           all == [k \in 1 .. m |-> kth(k)]
<1>1. IsFiniteSet(P)
  <2>1. IsFiniteSet(1 .. n)
    BY FS_Interval
  <2>. QED
    BY <2>1, FS_Subset
<1>2. \A x, y \in P : <<x, y>> \in R <=> x < y
  OBVIOUS
<1>3. \A x \in P : {y \in P : y < x} = Before(R, P, x)
  <2> HIDE DEF R
  <2>. QED
    BY <1>2 DEF Before
<1>4. Orders(R, P)
  <2> HIDE DEF R
  <2>1. P \in SUBSET Nat
    OBVIOUS
  <2>. QED
    BY <1>2, <2>1 DEF Orders
<1>5. all = Ranked(R, P)
  <2>1. \A k \in 1 .. m : kth(k) = CHOOSE x \in P : Cardinality(Before(R, P, x)) = k - 1
    <3> HIDE DEF R, m
    <3>. QED
      BY <1>3
  <2> HIDE DEF R, kth
  <2>. QED
    BY <2>1 DEF Ranked
<1> HIDE DEF R, all
<1>6. /\ m \in Nat /\ all \in [1 .. m -> P]
      /\ \A p \in P : \E k \in 1 .. m : all[k] = p
      /\ \A k, l \in 1 .. m : k < l => <<all[k], all[l]>> \in R
  BY <1>1, <1>4, <1>5, RankedSequence
<1> USE DEF all
<1>7. Sorted(P, LAMBDA i, j : i < j) = SubSeq(all, 1, m)
  BY Zenon DEF Sorted
<1> HIDE DEF all, m
<1>8. Sorted(P, LAMBDA i, j : i < j) = all /\ DOMAIN all = 1 .. m
  BY <1>6, <1>7, SequenceOf
<1>9. At(s, P) = [k \in 1 .. m |-> s[all[k]]]
  BY <1>8 DEF At
<1>10. \A k, l \in 1 .. m : k < l => all[k] < all[l]
  BY <1>2, <1>6
<1>11. IsPick(s, P, m, all)
  BY <1>6, <1>9, <1>10 DEF IsPick, m
<1>. QED
  BY <1>11

\* Of a sequence: a sequence of the same, with those elements and no others.
LEMMA AtIsSequence ==
  ASSUME NEW S, NEW s \in Seq(S), NEW P \in SUBSET (1 .. Len(s))
  PROVE  /\ At(s, P) \in Seq(S)
         /\ Len(At(s, P)) \in Nat /\ DOMAIN At(s, P) = 1 .. Len(At(s, P))
         /\ Len(At(s, P)) = Cardinality(P)
         /\ ToSet(At(s, P)) = {s[p] : p \in P}
         /\ At(s, P) = <<>> <=> P = {}
<1> DEFINE t == At(s, P)
<1>1. Len(s) \in Nat /\ \A p \in P : s[p] \in S
  OBVIOUS
<1>2. PICK m, at : IsPick(s, P, m, at)
  BY <1>1, AtPositions
<1>3. /\ m = Cardinality(P) /\ m \in Nat /\ at \in [1 .. m -> P]
      /\ t = [k \in 1 .. m |-> s[at[k]]]
      /\ \A p \in P : \E k \in 1 .. m : at[k] = p
  BY <1>2 DEF IsPick
<1> HIDE DEF t
<1>4. t \in [1 .. m -> S]
  BY <1>1, <1>3
<1>5. t \in Seq(S) /\ Len(t) = m /\ DOMAIN t = 1 .. m
  BY <1>3, <1>4, SequenceOf
<1>6. ToSet(t) = {s[p] : p \in P}
  BY <1>3, <1>5 DEF ToSet
<1>7. t = <<>> <=> P = {}
  <2>1. t = <<>> <=> m = 0
    BY <1>3, <1>5, EmptySeq
  <2>2. P = {} => m = 0
    BY <1>3, FS_EmptySet
  <2>3. m = 0 => P = {}
    BY <1>3
  <2>. QED
    BY <2>1, <2>2, <2>3
<1>. QED
  BY <1>3, <1>5, <1>6, <1>7 DEF t

\* Going up: what holds at 0 and passes from each number to the next holds at all.
LEMMA GoingUp ==
  ASSUME NEW n \in Nat, NEW T, 0 \in T, \A i \in 1 .. n : i - 1 \in T => i \in T
  PROVE  \A i \in 0 .. n : i \in T
<1> DEFINE bad == {i \in 0 .. n : i \notin T}
<1> SUFFICES ASSUME bad # {} PROVE FALSE
  OBVIOUS
<1>1. bad \in SUBSET Nat
  OBVIOUS
<1> HIDE DEF bad
<1>2. PICK m \in bad : \A k \in bad : m <= k
  BY <1>1, LeastOf
<1> USE DEF bad
<1>3. m \in 1 .. n
  BY <1>2
<1>4. m - 1 \notin bad
  <2>1. m - 1 < m
    BY <1>3
  <2> HIDE DEF bad
  <2>. QED
    BY <1>1, <1>2, <2>1
<1>. QED
  BY <1>2, <1>3, <1>4

\* A loop over n steps, each of which makes one value of the next, runs.
Steps(X, n) == [1 .. n -> [X -> X]]
IsRun(X, n, base, step, f) ==
    f \in [0 .. n -> X] /\ f[0] = base /\ \A i \in 1 .. n : f[i] = step[i][f[i - 1]]
LEMMA LoopRuns ==
  ASSUME NEW X, NEW n \in Nat, NEW base \in X, NEW step \in Steps(X, n)
  PROVE  \E f : IsRun(X, n, base, step, f)
<1> DEFINE Runs(m) == \E f \in [0 .. m -> X] :
                        f[0] = base /\ \A i \in 1 .. m : f[i] = step[i][f[i - 1]]
           T == {m \in 0 .. n : Runs(m)}
<1> USE DEF Steps
<1>1. 0 \in T
  <2> DEFINE f == [i \in 0 .. 0 |-> base]
  <2>1. f \in [0 .. 0 -> X] /\ f[0] = base /\ \A i \in 1 .. 0 : f[i] = step[i][f[i - 1]]
    OBVIOUS
  <2>2. Runs(0)
    BY <2>1
  <2>. QED
    BY <2>2
<1>2. ASSUME NEW m \in 1 .. n, m - 1 \in T PROVE m \in T
  <2>1. PICK f \in [0 .. m - 1 -> X] :
           f[0] = base /\ \A i \in 1 .. m - 1 : f[i] = step[i][f[i - 1]]
    BY <1>2
  <2> DEFINE new == step[m][f[m - 1]]
             g == [i \in 0 .. m |-> IF i = m THEN new ELSE f[i]]
  <2>2. new \in X
    <3>1. m - 1 \in 0 .. m - 1 /\ step[m] \in [X -> X]
      OBVIOUS
    <3>2. f[m - 1] \in X
      BY <2>1, <3>1
    <3>. QED
      BY <3>1, <3>2
  <2> HIDE DEF new
  <2>3. g \in [0 .. m -> X] /\ g[m] = new /\ \A i \in 0 .. m - 1 : g[i] = f[i]
    BY <2>1, <2>2
  <2> HIDE DEF g
  <2>4. ASSUME NEW i \in 1 .. m PROVE g[i] = step[i][g[i - 1]]
    <3>1. g[i - 1] = f[i - 1]
      BY <2>3
    <3>2. CASE i = m
      BY <2>3, <3>1, <3>2 DEF new
    <3>3. CASE i # m
      <4>1. i \in 1 .. m - 1
        BY <3>3
      <4>. QED
        BY <2>1, <2>3, <3>1, <4>1
    <3>. QED
      BY <3>2, <3>3
  <2>5. g[0] = base
    BY <2>1, <2>3
  <2>6. Runs(m)
    BY <2>3, <2>4, <2>5
  <2> HIDE DEF Runs
  <2>7. m \in 0 .. n
    OBVIOUS
  <2>. QED
    BY <2>6, <2>7
<1>3. \A m \in 0 .. n : m \in T
  <2> HIDE DEF T
  <2>. QED
    BY <1>1, <1>2, GoingUp
<1>. QED
  BY <1>3 DEF IsRun

\* Flattening is the loop that appends one list after the other.
IsFlattening(X, n, s, f) ==
    /\ f \in [0 .. n -> Seq(X)]
    /\ f[0] = <<>> /\ \A i \in 1 .. n : f[i] = f[i - 1] \o s[i]
    /\ FlattenSeq(s) = f[n]
LEMMA FlattenRuns ==
  ASSUME NEW X, NEW n \in Nat, NEW s \in [1 .. n -> Seq(X)]
  PROVE  \E f : IsFlattening(X, n, s, f)
<1> USE DEF IsFlattening
<1> DEFINE step == [i \in 1 .. n |-> [t \in Seq(X) |-> t \o s[i]]]
<1>1. step \in [1 .. n -> [Seq(X) -> Seq(X)]]
  OBVIOUS
<1>2. <<>> \in Seq(X)
  BY EmptySeq
<1> DEFINE none == <<>>
<1> HIDE DEF none
<1>3. PICK f \in [0 .. n -> Seq(X)] :
         f[0] = none /\ \A i \in 1 .. n : f[i] = step[i][f[i - 1]]
  <2>1. none \in Seq(X) /\ step \in Steps(Seq(X), n)
    BY <1>1, <1>2 DEF none, Steps
  <2> HIDE DEF step
  <2>2. \E f : IsRun(Seq(X), n, none, step, f)
    BY <2>1, LoopRuns
  <2>. QED
    BY <2>2 DEF IsRun
<1> USE DEF none
<1>4. \A i \in 1 .. n : f[i] = f[i - 1] \o s[i]
  <2> SUFFICES ASSUME NEW i \in 1 .. n PROVE f[i] = f[i - 1] \o s[i]
    OBVIOUS
  <2>1. i - 1 \in 0 .. n
    OBVIOUS
  <2>2. f[i - 1] \in Seq(X)
    BY <2>1
  <2>. QED
    BY <1>3, <2>2
<1>5. Len(s) = n
  OBVIOUS
<1>6. CASE n = 0
  <2>1. s = <<>>
    BY <1>6
  <2>. QED
    BY <1>3, <1>4, <1>5, <1>6, <2>1 DEF FlattenSeq
<1>7. CASE n # 0
  <2> DEFINE Next1(g) == [i \in 1 .. Len(s) |-> IF i = 1 THEN s[i] ELSE g[i - 1] \o s[i]]
             part == [i \in 1 .. n |-> f[i]]
  <2>1. \A i \in 1 .. n : f[i] = IF i = 1 THEN s[i] ELSE part[i - 1] \o s[i]
    <3> SUFFICES ASSUME NEW i \in 1 .. n
                 PROVE  f[i] = IF i = 1 THEN s[i] ELSE part[i - 1] \o s[i]
      OBVIOUS
    <3>1. s[i] \in Seq(X)
      OBVIOUS
    <3>2. <<>> \o s[i] = s[i]
      BY <3>1
    <3>3. CASE i = 1
      <4>1. 1 \in 1 .. n /\ 1 - 1 = 0
        OBVIOUS
      <4>2. f[1] = f[1 - 1] \o s[1]
        BY <1>4, <4>1
      <4>3. f[0] = <<>>
        BY <1>3
      <4>. QED
        BY <3>2, <3>3, <4>1, <4>2, <4>3
    <3>4. CASE i # 1
      <4>1. part[i - 1] = f[i - 1]
        BY <3>4
      <4>2. f[i] = f[i - 1] \o s[i]
        BY <1>4
      <4> HIDE DEF part
      <4>. QED
        BY <3>4, <4>1, <4>2
    <3>. QED
      BY <3>3, <3>4
  <2>2. part = Next1(part)
    <3> DEFINE nx == Next1(part)
    <3>1. nx = [i \in 1 .. n |-> IF i = 1 THEN s[i] ELSE part[i - 1] \o s[i]]
      BY <1>5
    <3>. QED
      BY <2>1, <3>1
  <2> DEFINE flat == CHOOSE g : g = Next1(g)
  <2> HIDE DEF Next1
  <2>3. flat = Next1(flat)
    BY <2>2
  <2>4. FlattenSeq(s) = flat[n]
    BY <1>5, <1>7 DEF FlattenSeq, Next1
  <2> HIDE DEF flat
  <2>5. \A i \in 1 .. n : flat[i] = IF i = 1 THEN s[i] ELSE flat[i - 1] \o s[i]
    BY <1>5, <2>3 DEF Next1
  <2> DEFINE T == {i \in 0 .. n : i = 0 \/ flat[i] = f[i]}
  <2>6. ASSUME NEW i \in 1 .. n, i - 1 \in T PROVE i \in T
    <3>1. flat[i] = IF i = 1 THEN s[i] ELSE flat[i - 1] \o s[i]
      BY <2>5
    <3>2. f[i] = IF i = 1 THEN s[i] ELSE part[i - 1] \o s[i]
      BY <2>1
    <3>3. i # 1 => flat[i - 1] = f[i - 1] /\ part[i - 1] = f[i - 1]
      BY <2>6
    <3>4. flat[i] = f[i]
      <4> HIDE DEF part
      <4>. QED
        BY <3>1, <3>2, <3>3
    <3>. QED
      BY <3>4
  <2>7. 0 \in T
    OBVIOUS
  <2>8. n \in T
    <3>1. n \in 0 .. n
      OBVIOUS
    <3> HIDE DEF T
    <3>. QED
      BY <2>6, <2>7, <3>1, GoingUp
  <2>9. flat[n] = f[n]
    BY <1>7, <2>8
  <2>. QED
    BY <1>3, <1>4, <2>4, <2>9
<1>. QED
  BY <1>6, <1>7

\* Two lists after one another hold what both hold.
LEMMA ConcatIsBoth ==
  ASSUME NEW X, NEW s \in Seq(X), NEW t \in Seq(X)
  PROVE  s \o t \in Seq(X) /\ ToSet(s \o t) = ToSet(s) \cup ToSet(t)
<1>1. /\ s \o t \in Seq(X) /\ DOMAIN (s \o t) = 1 .. (Len(s) + Len(t))
      /\ Len(s) \in Nat /\ Len(t) \in Nat /\ DOMAIN s = 1 .. Len(s) /\ DOMAIN t = 1 .. Len(t)
      /\ \A i \in 1 .. Len(s) : (s \o t)[i] = s[i]
      /\ \A i \in 1 .. Len(t) : (s \o t)[Len(s) + i] = t[i]
  <2>1. Len(s) \in Nat /\ Len(t) \in Nat /\ DOMAIN s = 1 .. Len(s) /\ DOMAIN t = 1 .. Len(t)
    OBVIOUS
  <2>2. s \o t \in Seq(X) /\ Len(s \o t) = Len(s) + Len(t)
    OBVIOUS
  <2>3. \A i \in 1 .. Len(s) : (s \o t)[i] = s[i]
    BY <2>1
  <2>4. \A i \in 1 .. Len(t) : (s \o t)[Len(s) + i] = t[i]
    BY <2>1
  <2>. QED
    BY <2>1, <2>2, <2>3, <2>4
<1> DEFINE u == s \o t
<1> HIDE DEF u
<1>2. \A i \in DOMAIN u : u[i] \in ToSet(s) \cup ToSet(t)
  <2> SUFFICES ASSUME NEW i \in 1 .. (Len(s) + Len(t)) PROVE u[i] \in ToSet(s) \cup ToSet(t)
    BY <1>1 DEF u
  <2>1. CASE i <= Len(s)
    BY <1>1, <2>1 DEF u, ToSet
  <2>2. CASE ~ (i <= Len(s))
    <3>1. i - Len(s) \in 1 .. Len(t) /\ Len(s) + (i - Len(s)) = i
      BY <1>1, <2>2
    <3>. QED
      BY <1>1, <3>1 DEF u, ToSet
  <2>. QED
    BY <2>1, <2>2
<1>3. ToSet(s) \cup ToSet(t) \subseteq ToSet(u)
  <2>1. \A i \in 1 .. Len(s) : s[i] = u[i] /\ i \in DOMAIN u
    BY <1>1 DEF u
  <2>2. \A i \in 1 .. Len(t) : t[i] = u[Len(s) + i] /\ Len(s) + i \in DOMAIN u
    BY <1>1 DEF u
  <2>. QED
    BY <1>1, <2>1, <2>2 DEF ToSet
<1>. QED
  BY <1>1, <1>2, <1>3 DEF u, ToSet

\* Of lists: a list of what they hold.
LEMMA FlattenIsSequence ==
  ASSUME NEW X, NEW n \in Nat, NEW s \in [1 .. n -> Seq(X)]
  PROVE  /\ FlattenSeq(s) \in Seq(X)
         /\ ToSet(FlattenSeq(s)) = UNION {ToSet(s[i]) : i \in 1 .. n}
<1>1. PICK f : IsFlattening(X, n, s, f)
  BY FlattenRuns
<1> USE DEF IsFlattening
<1> DEFINE upto(i) == UNION {ToSet(s[j]) : j \in 1 .. i}
           T == {i \in 0 .. n : ToSet(f[i]) = upto(i)}
<1>2. 0 \in T
  <2>1. ToSet(f[0]) = {} /\ upto(0) = {}
    BY <1>1 DEF ToSet
  <2>. QED
    BY <2>1
<1>3. ASSUME NEW i \in 1 .. n, i - 1 \in T PROVE i \in T
  <2>1. f[i] = f[i - 1] \o s[i] /\ f[i - 1] \in Seq(X) /\ s[i] \in Seq(X)
    <3>1. i - 1 \in 0 .. n
      OBVIOUS
    <3>. QED
      BY <1>1, <3>1
  <2>2. ToSet(f[i]) = ToSet(f[i - 1]) \cup ToSet(s[i])
    BY <2>1, ConcatIsBoth
  <2>3. upto(i) = upto(i - 1) \cup ToSet(s[i])
    <3>1. 1 .. i = (1 .. (i - 1)) \cup {i}
      OBVIOUS
    <3>. QED
      BY <3>1
  <2>4. ToSet(f[i - 1]) = upto(i - 1) /\ i \in 0 .. n
    BY <1>3
  <2> HIDE DEF upto
  <2>. QED
    BY <2>2, <2>3, <2>4
<1>4. n \in T
  <2>1. n \in 0 .. n
    OBVIOUS
  <2> HIDE DEF T
  <2>. QED
    BY <1>2, <1>3, <2>1, GoingUp
<1>5. f[n] \in Seq(X)
  BY <1>1
<1>. QED
  BY <1>1, <1>4, <1>5

LEMMA ElementsFinite ==
  ASSUME NEW X, NEW s \in Seq(X)
  PROVE  IsFiniteSet(ToSet(s)) /\ ToSet(s) \in SUBSET X
<1>1. Len(s) \in Nat /\ DOMAIN s = 1 .. Len(s) /\ ToSet(s) \in SUBSET X
  BY DEF ToSet
<1> DEFINE D == 1 .. Len(s)
<1>2. IsFiniteSet(D)
  BY <1>1, FS_Interval
<1>3. ToSet(s) = {s[i] : i \in D}
  BY <1>1 DEF ToSet
<1> HIDE DEF D
<1>4. IsFiniteSet({s[i] : i \in D})
  <2> DEFINE f == [i \in D |-> s[i]]
             R == {s[i] : i \in D}
  <2>1. f \in Surjection(D, R)
    BY DEF Surjection
  <2> HIDE DEF f, R
  <2>2. IsFiniteSet(R)
    BY <1>2, <2>1, FS_Surjection
  <2>. QED
    BY <2>2 DEF R
<1>. QED
  BY <1>1, <1>3, <1>4

\* The last element, and what appending and replacing it make.
LEMMA LastAndAppend ==
  ASSUME NEW X, NEW s \in Seq(X), NEW x \in X
  PROVE  /\ Append(s, x) \in Seq(X) /\ Len(Append(s, x)) = Len(s) + 1
         /\ DOMAIN Append(s, x) = 1 .. Len(s) + 1
         /\ Append(s, x)[Len(s) + 1] = x
         /\ \A i \in 1 .. Len(s) : Append(s, x)[i] = s[i]
         /\ s # <<>> =>
              /\ Len(s) \in 1 .. Len(s) /\ Last(s) = s[Len(s)] /\ Last(s) \in X
              /\ [s EXCEPT ![Len(s)] = x] \in Seq(X)
              /\ DOMAIN [s EXCEPT ![Len(s)] = x] = 1 .. Len(s)
              /\ \A i \in 1 .. Len(s) :
                    [s EXCEPT ![Len(s)] = x][i] = IF i = Len(s) THEN x ELSE s[i]
<1>1. Len(s) \in Nat /\ DOMAIN s = 1 .. Len(s)
  OBVIOUS
<1>2. s # <<>> => Len(s) \in 1 .. Len(s)
  BY EmptySeq
<1>. QED
  BY <1>1, <1>2 DEF Last

\* A finite set in some order.
LEMMA SetAsSequence ==
  ASSUME NEW S, IsFiniteSet(S)
  PROVE  LET s == SetToSeq(S)
         IN  /\ s \in Seq(S) /\ ToSet(s) = S
             /\ Len(s) \in Nat /\ DOMAIN s = 1 .. Len(s)
             /\ \A i, j \in DOMAIN s : s[i] = s[j] => i = j
<1> DEFINE n == Cardinality(S)
           s == SetToSeq(S)
<1>1. n \in Nat /\ ExistsBijection(1 .. n, S)
  BY FS_CardinalityType
<1>2. PICK f \in Bijection(1 .. n, S) : TRUE
  BY <1>1 DEF ExistsBijection
<1>3. f \in [1 .. n -> S] /\ IsInjective(f)
  BY <1>2 DEF Bijection, Injection
<1>4. s \in [1 .. n -> S] /\ IsInjective(s)
  BY <1>3 DEF SetToSeq
<1>5. s \in Injection(1 .. n, S)
  BY <1>4 DEF Injection
<1>6. IsFiniteSet(1 .. n) /\ Cardinality(1 .. n) = n
  BY <1>1, FS_Interval
<1>7. s \in Surjection(1 .. n, S)
  BY <1>5, <1>6, FS_Injection
<1>8. \A x \in S : \E i \in 1 .. n : s[i] = x
  BY <1>7 DEF Surjection
<1> HIDE DEF n, s
<1>9. s \in Seq(S) /\ Len(s) = n /\ DOMAIN s = 1 .. n
  BY <1>1, <1>4, SequenceOf
<1>10. ToSet(s) = S
  <2>1. \A i \in DOMAIN s : s[i] \in S
    BY <1>4, <1>9
  <2>. QED
    BY <1>8, <1>9, <2>1 DEF ToSet
<1>11. \A i, j \in DOMAIN s : s[i] = s[j] => i = j
  BY <1>4 DEF IsInjective
<1>. QED
  BY <1>1, <1>9, <1>10, <1>11 DEF s

LEMMA ImageIsFinite ==
  ASSUME NEW S, IsFiniteSet(S), NEW f, DOMAIN f = S
  PROVE  IsFiniteSet({f[x] : x \in S})
<1> DEFINE T == {f[x] : x \in S}
           g == [x \in S |-> f[x]]
<1>1. g \in [S -> T] /\ \A t \in T : \E x \in S : g[x] = t
  OBVIOUS
<1>2. g \in Surjection(S, T)
  BY <1>1 DEF Surjection
<1>. QED
  BY <1>2, FS_Surjection

LEMMA Single == ASSUME NEW x PROVE <<x>> \in Seq(ToSet(<<x>>)) /\ ToSet(<<x>>) = {x}
  BY DEF ToSet

===============================================================================
