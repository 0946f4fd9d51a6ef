------------------------ MODULE CorrelationPassProofs -------------------------
(***************************************************************************)
(* Theorems about what the correlation pass writes, for any findings of any*)
(* number of passes: first what the rules make of any events, then of      *)
(* PersistPass, then of CorrelationPass.                                   *)
(***************************************************************************)
EXTENDS CorrelationPass, SliceProofs

-------------------------------------------------------------------------------
\* Events in the order of time.

Earlier(e, f) == e.ts < f.ts \/ (e.ts = f.ts /\ e.id < f.id)

\* Rows told apart by their id.
Timed(S) ==
    /\ IsFiniteSet(S)
    /\ \A e \in S : e.ts \in Int /\ e.id \in Nat
    /\ \A e, f \in S : e.id = f.id => e = f

\* ByTime is all the rows, each before the later ones.
LEMMA ByTimeInOrder ==
  ASSUME NEW S, Timed(S)
  PROVE  /\ ByTime(S) \in Seq(S)
         /\ ToSet(ByTime(S)) = S
         /\ \A k, l \in DOMAIN ByTime(S) : k < l => Earlier(ByTime(S)[k], ByTime(S)[l])
<1> DEFINE m == Cardinality(S)
           earlier(x, y) == x.ts < y.ts \/ (x.ts = y.ts /\ x.id < y.id)
           R == {p \in S \X S : earlier(p[1], p[2])}
           kth(k) == CHOOSE x \in S : Cardinality({y \in S : earlier(y, x)}) = k - 1
           all == [k \in 1 .. m |-> kth(k)]
<1>1. \A x, y \in S : <<x, y>> \in R <=> earlier(x, y)
  <2> HIDE DEF earlier
  <2>. QED
    OBVIOUS
<1>2. \A x \in S : {y \in S : earlier(y, x)} = Before(R, S, x)
  <2> HIDE DEF R
  <2>. QED
    BY <1>1 DEF Before
<1>3. Orders(R, S)
  <2>1. \A x \in S : ~ earlier(x, x)
    BY DEF Timed
  <2>2. \A x, y \in S : x # y => earlier(x, y) \/ earlier(y, x)
    BY DEF Timed
  <2>3. \A x, y, z \in S : earlier(x, y) /\ earlier(y, z) => earlier(x, z)
    BY DEF Timed
  <2> HIDE DEF R, earlier
  <2>. QED
    BY <1>1, <2>1, <2>2, <2>3 DEF Orders
<1>4. all = Ranked(R, S)
  <2>1. \A k \in 1 .. m : kth(k) = CHOOSE x \in S : Cardinality(Before(R, S, x)) = k - 1
    <3> HIDE DEF R, m, earlier
    <3>. QED
      BY <1>2
  <2> HIDE DEF R, kth
  <2>. QED
    BY <2>1 DEF Ranked
<1> HIDE DEF R, all
<1>5. /\ m \in Nat /\ all \in [1 .. m -> S]
      /\ \A p \in S : \E k \in 1 .. m : all[k] = p
      /\ \A k, l \in 1 .. m : k < l => <<all[k], all[l]>> \in R
  BY <1>3, <1>4, RankedSequence DEF Timed
<1> USE DEF all
<1>6. ByTime(S) = SubSeq(all, 1, m)
  BY Zenon DEF ByTime, Sorted
<1> HIDE DEF all, m, earlier
<1>7. ByTime(S) = all /\ DOMAIN all = 1 .. m /\ all \in Seq(S)
  BY <1>5, <1>6, SequenceOf
<1>8. ToSet(all) = S
  BY <1>5, <1>7 DEF ToSet
<1>9. \A k, l \in 1 .. m : k < l => Earlier(all[k], all[l])
  BY <1>1, <1>5 DEF earlier, Earlier
<1>. QED
  BY <1>7, <1>8, <1>9

-------------------------------------------------------------------------------
\* The evaluator.

\* The loop over the candidates ends with the first of the nearest.
LEMMA NearestIsFirst ==
  ASSUME NEW a, a.ts \in Int, NEW E, \A c \in E : c.ts \in Int,
         NEW cands \in Seq(E), NEW Q \in SUBSET (1 .. Len(cands))
  PROVE  /\ Q = {} => Nearest(a, cands, Q) = <<>>
         /\ Q # {} =>
              \E k \in Q :
                 /\ Nearest(a, cands, Q) = <<cands[k]>>
                 /\ \A j \in Q : \/ Dist(a, cands[k]) < Dist(a, cands[j])
                                 \/ Dist(a, cands[k]) = Dist(a, cands[j]) /\ k <= j
<1> DEFINE n == Len(cands)
           none == <<>>
           Value(i, b) == IF i \in Q /\ Nearer(a, b, cands[i]) THEN <<cands[i]>> ELSE b
           step == [i \in 1 .. n |-> [b \in Seq(E) |-> Value(i, b)]]
           Loop(g) == [i \in 0 .. n |-> IF i = 0 THEN none ELSE Value(i, g[i - 1])]
<1>1. n \in Nat /\ \A i \in 1 .. n : cands[i] \in E
  OBVIOUS
<1>2. none \in Seq(E)
  BY EmptySeq
<1>3. \A i \in 1 .. n : \A b \in Seq(E) : Value(i, b) \in Seq(E)
  BY <1>1
<1>4. step \in Steps(Seq(E), n)
  <2> HIDE DEF Value, n
  <2>. QED
    BY <1>3 DEF Steps
<1> HIDE DEF n, none, Value
<1>5. PICK f : IsRun(Seq(E), n, none, step, f)
  <2> HIDE DEF step
  <2>. QED
    BY <1>1, <1>2, <1>4, LoopRuns
<1>6. /\ f \in [0 .. n -> Seq(E)] /\ f[0] = none
      /\ \A i \in 1 .. n : f[i] = Value(i, f[i - 1])
  <2>1. f \in [0 .. n -> Seq(E)] /\ f[0] = none /\ \A i \in 1 .. n : f[i] = step[i][f[i - 1]]
    BY <1>5 DEF IsRun
  <2>2. ASSUME NEW i \in 1 .. n PROVE f[i - 1] \in Seq(E)
    <3>1. i - 1 \in 0 .. n
      BY <1>1
    <3>. QED
      BY <2>1, <3>1
  <2>. QED
    BY <2>1, <2>2
<1>7. f = Loop(f)
  BY <1>6
<1> DEFINE best == CHOOSE g : g = Loop(g)
<1>8. Nearest(a, cands, Q) = best[n]
  BY DEF Nearest, Value, n, none
<1> HIDE DEF Loop
<1>9. best = Loop(best)
  BY <1>7
<1> USE DEF Loop
<1> HIDE DEF best
<1>10. /\ best[0] = none
       /\ \A i \in 1 .. n : best[i] = Value(i, best[i - 1])
  BY <1>1, <1>9
<1> DEFINE Known(i) ==
             /\ Q \cap 1 .. i = {} => best[i] = none
             /\ Q \cap 1 .. i # {} =>
                  \E k \in Q \cap 1 .. i :
                     /\ best[i] = <<cands[k]>>
                     /\ \A j \in Q \cap 1 .. i :
                           \/ Dist(a, cands[k]) < Dist(a, cands[j])
                           \/ Dist(a, cands[k]) = Dist(a, cands[j]) /\ k <= j
           T == {i \in 0 .. n : Known(i)}
<1>11. \A c \in E : Dist(a, c) \in Int
  BY DEF Dist
<1>12. 0 \in T
  <2>1. Q \cap 1 .. 0 = {}
    OBVIOUS
  <2>. QED
    BY <1>1, <1>10, <2>1
<1>13. ASSUME NEW i \in 1 .. n, i - 1 \in T PROVE i \in T
  <2>1. /\ Known(i - 1) /\ best[i] = Value(i, best[i - 1]) /\ cands[i] \in E
        /\ 1 .. i = (1 .. i - 1) \cup {i}
    BY <1>1, <1>10, <1>13
  <2>2. CASE i \notin Q
    <3>1. Q \cap 1 .. i = Q \cap 1 .. i - 1 /\ best[i] = best[i - 1]
      BY <2>1, <2>2 DEF Value
    <3>. QED
      BY <1>1, <2>1, <3>1
  <2>3. CASE i \in Q /\ Q \cap 1 .. i - 1 = {}
    <3>1. Q \cap 1 .. i = {i}
      BY <2>1, <2>3
    <3>2. best[i] = <<cands[i]>>
      BY <2>1, <2>3 DEF Value, Nearer, none
    <3>3. Dist(a, cands[i]) = Dist(a, cands[i]) /\ i <= i
      OBVIOUS
    <3>4. Known(i)
      BY <3>1, <3>2, <3>3
    <3> HIDE DEF Known
    <3>. QED
      BY <1>1, <3>4
  <2>4. CASE i \in Q /\ Q \cap 1 .. i - 1 # {}
    <3>1. PICK k \in Q \cap 1 .. i - 1 :
             /\ best[i - 1] = <<cands[k]>>
             /\ \A j \in Q \cap 1 .. i - 1 :
                   \/ Dist(a, cands[k]) < Dist(a, cands[j])
                   \/ Dist(a, cands[k]) = Dist(a, cands[j]) /\ k <= j
      BY <2>1, <2>4
    <3>2. cands[k] \in E /\ k \in 1 .. n /\ k < i
      BY <1>1
    <3>3. <<cands[k]>>[1] = cands[k] /\ <<cands[k]>> # <<>>
      OBVIOUS
    <3>4. best[i] = IF Dist(a, cands[i]) < Dist(a, cands[k]) THEN <<cands[i]>> ELSE <<cands[k]>>
      BY <2>1, <2>4, <3>1, <3>3 DEF Value, Nearer
    <3>5. /\ Dist(a, cands[i]) \in Int /\ Dist(a, cands[k]) \in Int
          /\ \A j \in Q \cap 1 .. i - 1 : Dist(a, cands[j]) \in Int
      BY <1>1, <1>11, <2>1, <3>2
    <3>6. CASE Dist(a, cands[i]) < Dist(a, cands[k])
      <4>1. \A j \in Q \cap 1 .. i : \/ Dist(a, cands[i]) < Dist(a, cands[j])
                                     \/ Dist(a, cands[i]) = Dist(a, cands[j]) /\ i <= j
        <5> SUFFICES ASSUME NEW j \in Q \cap 1 .. i
                     PROVE  \/ Dist(a, cands[i]) < Dist(a, cands[j])
                            \/ Dist(a, cands[i]) = Dist(a, cands[j]) /\ i <= j
          OBVIOUS
        <5>1. CASE j = i
          BY <1>1, <5>1
        <5>2. CASE j # i
          <6>1. j \in Q \cap 1 .. i - 1
            BY <2>1, <5>2
          <6>2. Dist(a, cands[k]) <= Dist(a, cands[j])
            BY <3>1, <3>5, <6>1
          <6>. QED
            BY <3>5, <3>6, <6>1, <6>2
        <5>. QED
          BY <5>1, <5>2
      <4>2. i \in Q \cap 1 .. i /\ best[i] = <<cands[i]>>
        BY <2>4, <3>4, <3>6
      <4>3. Known(i)
        BY <4>1, <4>2
      <4> HIDE DEF Known
      <4>. QED
        BY <1>1, <4>3
    <3>7. CASE ~ (Dist(a, cands[i]) < Dist(a, cands[k]))
      <4>1. \A j \in Q \cap 1 .. i : \/ Dist(a, cands[k]) < Dist(a, cands[j])
                                     \/ Dist(a, cands[k]) = Dist(a, cands[j]) /\ k <= j
        BY <2>1, <3>1, <3>2, <3>5, <3>7
      <4>2. k \in Q \cap 1 .. i /\ best[i] = <<cands[k]>>
        BY <3>2, <3>4, <3>7
      <4>3. Known(i)
        BY <4>1, <4>2
      <4> HIDE DEF Known
      <4>. QED
        BY <1>1, <4>3
    <3>. QED
      BY <3>6, <3>7
  <2>. QED
    BY <2>2, <2>3, <2>4
<1>14. n \in T
  <2>1. n \in 0 .. n
    BY <1>1
  <2> HIDE DEF T
  <2>. QED
    BY <1>1, <1>12, <1>13, <2>1, GoingUp
<1>15. Q \cap 1 .. n = Q
  BY DEF n
<1>. QED
  BY <1>8, <1>14, <1>15 DEF none

-------------------------------------------------------------------------------
\* The events the rules read.

\* What the pass fetches: rows of the timeline in their order.
Timeline(events) ==
    /\ events \in Seq(ToSet(events))
    /\ \A e \in ToSet(events) : IsEvent(e) /\ e.ts >= 1
    /\ \A e, f \in ToSet(events) : e.id = f.id => e = f
    /\ \A k, l \in DOMAIN events : k < l => Earlier(events[k], events[l])

\* A part of the evidence is told apart by its ids, and so fetched in order.
LEMMA FetchedInOrder ==
  ASSUME NEW evidence \in Scenarios, NEW table \in SUBSET evidence
  PROVE  /\ Timeline(FetchEvents(table))
         /\ ToSet(FetchEvents(table)) = {e \in table : e.ts >= 1}
<1> DEFINE S == {e \in table : e.ts >= 1}
<1>1. /\ IsFiniteSet(evidence) /\ \A e \in evidence : IsEvent(e)
      /\ \A e, f \in evidence : e.id = f.id => e = f
  BY EvidenceAssumption
<1>2. IsFiniteSet(S)
  <2>1. S \in SUBSET evidence
    OBVIOUS
  <2> HIDE DEF S
  <2>. QED
    BY <1>1, <2>1, FS_Subset
<1>3. Timed(S)
  BY <1>1, <1>2 DEF Timed, IsEvent
<1>4. \A e \in S : IsEvent(e) /\ e.ts >= 1
  BY <1>1
<1>5. FetchEvents(table) = ByTime(S)
  BY DEF FetchEvents
<1> HIDE DEF S
<1>6. /\ ByTime(S) \in Seq(S) /\ ToSet(ByTime(S)) = S
      /\ \A k, l \in DOMAIN ByTime(S) : k < l => Earlier(ByTime(S)[k], ByTime(S)[l])
  BY <1>3, ByTimeInOrder
<1>7. \A e, f \in S : e.id = f.id => e = f
  BY <1>3 DEF Timed
<1>8. Timeline(ByTime(S))
  BY <1>4, <1>6, <1>7 DEF Timeline
<1>. QED
  BY <1>5, <1>6, <1>8 DEF S

\* What is taken from ordered positions stays in order.
LEMMA AtKeepsOrder ==
  ASSUME NEW S, NEW s \in Seq(S), NEW P \in SUBSET (1 .. Len(s)),
         \A p, q \in P : p < q => Earlier(s[p], s[q])
  PROVE  \A k, l \in DOMAIN At(s, P) : k < l => Earlier(At(s, P)[k], At(s, P)[l])
<1> DEFINE n == Len(s)
<1>1. n \in Nat /\ P \in SUBSET (1 .. n)
  OBVIOUS
<1> HIDE DEF n
<1>2. PICK m, at : IsPick(s, P, m, at)
  BY <1>1, AtPositions
<1>3. /\ DOMAIN At(s, P) = 1 .. m /\ \A k \in 1 .. m : At(s, P)[k] = s[at[k]] /\ at[k] \in P
      /\ \A k, l \in 1 .. m : k < l => at[k] < at[l]
  BY <1>2 DEF IsPick
<1> SUFFICES ASSUME NEW k \in 1 .. m, NEW l \in 1 .. m, k < l
             PROVE  Earlier(At(s, P)[k], At(s, P)[l])
  BY <1>3
<1>4. at[k] \in P /\ at[l] \in P /\ at[k] < at[l]
  BY <1>3
<1>. QED
  BY <1>3, <1>4

\* A row whose references a rule replaces is otherwise the same row.
LEMMA Rejoined ==
  ASSUME NEW e, IsEvent(e), NEW refs, refs \in Seq(ToSet(refs))
  PROVE  LET r == [e EXCEPT !.ents = refs]
         IN  /\ IsEvent(r) /\ r.ents = refs
             /\ r.id = e.id /\ r.ts = e.ts /\ r.type = e.type
             /\ r.host = e.host /\ r.path = e.path /\ r.source = e.source
<1> DEFINE r == [e EXCEPT !.ents = refs]
<1>1. /\ e = [field \in DOMAIN e |-> e[field]]
      /\ {"id", "ts", "type", "ents", "host", "path", "source"} \subseteq DOMAIN e
      /\ e.id \in Nat /\ e.ts \in Int
  BY DEF IsEvent
<1>2. /\ r = [field \in DOMAIN e |-> IF field = "ents" THEN refs ELSE e[field]]
      /\ DOMAIN r = DOMAIN e
  BY <1>1
<1> HIDE DEF r
<1>3. /\ r.ents = refs /\ r.id = e.id /\ r.ts = e.ts /\ r.type = e.type
      /\ r.host = e.host /\ r.path = e.path /\ r.source = e.source
  BY <1>1, <1>2
<1>4. r = [field \in DOMAIN r |-> r[field]]
  BY <1>2
<1>5. IsEvent(r)
  BY <1>1, <1>2, <1>3, <1>4 DEF IsEvent
<1>. QED
  BY <1>3, <1>5 DEF r

\* What a rule evaluates an event with is the event, but for its references.
LEMMA JoinedIsEvent ==
  ASSUME NEW code, NEW e, IsEvent(e)
  PROVE  LET r == Joined(code, e)
         IN  /\ IsEvent(r) /\ r.id = e.id /\ r.ts = e.ts /\ r.type = e.type
             /\ r.host = e.host /\ r.path = e.path
<1>1. CASE code = "relocate"
  BY <1>1, Rejoined, Single DEF Joined
<1>2. CASE code \in {"persist", "regconfirm"}
  BY <1>2, Rejoined, Single DEF Joined
<1>3. CASE code # "relocate" /\ code \notin {"persist", "regconfirm"}
  BY <1>3 DEF Joined
<1>. QED
  BY <1>1, <1>2, <1>3

\* What the disk rules read: events whose id tells their time, and which are in
\* order but for the bursts.
Burst == "LogonFailureBurst"
Readable(evs) ==
    /\ evs \in Seq(ToSet(evs))
    /\ \A e \in ToSet(evs) : IsEvent(e) /\ e.ts >= 1
    /\ \A e, f \in ToSet(evs) : e.id = f.id => e.ts = f.ts
    /\ \A k, l \in DOMAIN evs :
          k < l /\ evs[k].type # Burst /\ evs[l].type # Burst => Earlier(evs[k], evs[l])

\* The events of one type.
LEMMA OfTypeFacts ==
  ASSUME NEW evs, Readable(evs), NEW type
  PROVE  /\ OfType(evs, type) \in Seq(ToSet(OfType(evs, type)))
         /\ ToSet(OfType(evs, type)) = {e \in ToSet(evs) : e.type = type}
         /\ type # Burst =>
              \A k, l \in DOMAIN OfType(evs, type) :
                 k < l => Earlier(OfType(evs, type)[k], OfType(evs, type)[l])
<1> DEFINE P == {i \in DOMAIN evs : evs[i].type = type}
           E == ToSet(evs)
           t == At(evs, P)
<1>1. OfType(evs, type) = t
  BY DEF OfType, Where
<1>2. evs \in Seq(E) /\ DOMAIN evs = 1 .. Len(evs) /\ P \in SUBSET (1 .. Len(evs))
  BY DEF Readable
<1>3. {evs[p] : p \in P} = {e \in E : e.type = type}
  BY DEF ToSet
<1>4. type # Burst => \A p, q \in P : p < q => Earlier(evs[p], evs[q])
  BY DEF Readable
<1> HIDE DEF P, E
<1>5. /\ t \in Seq(E) /\ ToSet(t) = {evs[p] : p \in P}
      /\ DOMAIN t = 1 .. Len(t) /\ Len(t) \in Nat
  BY <1>2, AtIsSequence
<1>6. type # Burst => \A k, l \in DOMAIN t : k < l => Earlier(t[k], t[l])
  BY <1>2, <1>4, AtKeepsOrder
<1> HIDE DEF t
<1>7. t \in Seq(ToSet(t))
  <2>1. t \in [1 .. Len(t) -> ToSet(t)]
    BY <1>5 DEF ToSet
  <2>. QED
    BY <1>5, <2>1
<1>. QED
  BY <1>1, <1>3, <1>5, <1>6, <1>7 DEF E

\* And as a rule joins them.
LEMMA ProjectFacts ==
  ASSUME NEW evs, Readable(evs), NEW code, NEW type
  PROVE  LET p == Project(code, evs, type)
         IN  /\ p \in Seq(ToSet(p)) /\ Len(p) \in Nat /\ DOMAIN p = 1 .. Len(p)
             /\ ToSet(p) = {Joined(code, e) : e \in {x \in ToSet(evs) : x.type = type}}
             /\ \A e \in ToSet(p) :
                   /\ IsEvent(e) /\ e.type = type /\ e.ts >= 1
                   /\ \E x \in ToSet(evs) : x.id = e.id /\ x.ts = e.ts
             /\ type # Burst => \A k, l \in DOMAIN p : k < l => Earlier(p[k], p[l])
<1> DEFINE typed == OfType(evs, type)
           p == Project(code, evs, type)
<1>1. p = [i \in DOMAIN typed |-> Joined(code, typed[i])]
  BY DEF Project
<1>2. /\ typed \in Seq(ToSet(typed)) /\ ToSet(typed) = {x \in ToSet(evs) : x.type = type}
      /\ type # Burst => \A k, l \in DOMAIN typed : k < l => Earlier(typed[k], typed[l])
  BY OfTypeFacts
<1>3. \A x \in ToSet(evs) : IsEvent(x) /\ x.ts >= 1
  BY DEF Readable
<1> HIDE DEF typed, p
<1>4. DOMAIN typed = 1 .. Len(typed) /\ Len(typed) \in Nat
  BY <1>2
<1>5. \A i \in DOMAIN typed : typed[i] \in ToSet(evs) /\ typed[i].type = type
  <2>1. \A i \in DOMAIN typed : typed[i] \in ToSet(typed)
    BY DEF ToSet
  <2>. QED
    BY <1>2, <2>1
<1>6. ToSet(p) = {Joined(code, e) : e \in ToSet(typed)}
  BY <1>1 DEF ToSet
<1>7. DOMAIN p = 1 .. Len(typed) /\ p \in [1 .. Len(typed) -> ToSet(p)]
  BY <1>1, <1>4 DEF ToSet
<1>8. p \in Seq(ToSet(p)) /\ Len(p) = Len(typed)
  BY <1>4, <1>7, SequenceOf
<1>9. ASSUME NEW x \in ToSet(evs), x.type = type
      PROVE  LET e == Joined(code, x)
             IN  /\ IsEvent(e) /\ e.type = type /\ e.ts >= 1
                 /\ e.id = x.id /\ e.ts = x.ts
  BY <1>3, <1>9, JoinedIsEvent
<1>10. ASSUME NEW e \in ToSet(p)
       PROVE  /\ IsEvent(e) /\ e.type = type /\ e.ts >= 1
              /\ \E x \in ToSet(evs) : x.id = e.id /\ x.ts = e.ts
  <2>1. PICK x \in ToSet(evs) : x.type = type /\ e = Joined(code, x)
    BY <1>2, <1>6
  <2>. QED
    BY <1>9, <2>1
<1>11. ASSUME type # Burst, NEW k \in DOMAIN p, NEW l \in DOMAIN p, k < l
       PROVE  Earlier(p[k], p[l])
  <2>1. k \in DOMAIN typed /\ l \in DOMAIN typed
    BY <1>4, <1>7
  <2>2. Earlier(typed[k], typed[l])
    BY <1>2, <1>11, <2>1
  <2>3. /\ p[k].ts = typed[k].ts /\ p[k].id = typed[k].id
        /\ p[l].ts = typed[l].ts /\ p[l].id = typed[l].id
    BY <1>1, <1>5, <1>9, <2>1
  <2>. QED
    BY <2>2, <2>3 DEF Earlier
<1>. QED
  BY <1>2, <1>4, <1>6, <1>7, <1>8, <1>10, <1>11 DEF p

-------------------------------------------------------------------------------
\* Bursts.

\* A run: each element after the one before, and not long after.
RunOf(D, r) ==
    /\ r \in Seq(D) /\ r # <<>>
    /\ \A j, k \in DOMAIN r : j < k => Earlier(r[j], r[k])
    /\ \A j \in DOMAIN r : j + 1 \in DOMAIN r => r[j + 1].ts - r[j].ts <= BurstWindow

\* A run that the next event follows closely is a longer run.
LEMMA LongerRun ==
  ASSUME NEW D, NEW r, RunOf(D, r), NEW e \in D,
         \A j \in DOMAIN r : Earlier(r[j], e), e.ts - Last(r).ts <= BurstWindow
  PROVE  RunOf(D, Append(r, e))
<1> DEFINE t == Append(r, e)
           n == Len(r)
<1>1. /\ n \in Nat /\ DOMAIN r = 1 .. n /\ n \in 1 .. n /\ Last(r) = r[n]
      /\ t \in Seq(D) /\ Len(t) = n + 1 /\ DOMAIN t = 1 .. n + 1 /\ t[n + 1] = e
      /\ \A i \in 1 .. n : t[i] = r[i]
  BY LastAndAppend DEF RunOf
<1> HIDE DEF t, n
<1>2. t # <<>>
  BY <1>1, EmptySeq
<1>3. ASSUME NEW j \in 1 .. n + 1, NEW k \in 1 .. n + 1, j < k PROVE Earlier(t[j], t[k])
  <2>1. j \in 1 .. n /\ t[j] = r[j]
    BY <1>1, <1>3
  <2>2. CASE k = n + 1
    BY <1>1, <2>1, <2>2
  <2>3. CASE k # n + 1
    <3>1. k \in 1 .. n /\ t[k] = r[k]
      BY <1>1, <2>3
    <3>. QED
      BY <1>1, <1>3, <2>1, <3>1 DEF RunOf
  <2>. QED
    BY <2>2, <2>3
<1>4. ASSUME NEW j \in 1 .. n + 1, j + 1 \in 1 .. n + 1
      PROVE  t[j + 1].ts - t[j].ts <= BurstWindow
  <2>1. j \in 1 .. n /\ t[j] = r[j]
    BY <1>1, <1>4
  <2>2. CASE j = n
    BY <1>1, <2>1, <2>2
  <2>3. CASE j # n
    <3>1. j + 1 \in 1 .. n /\ t[j + 1] = r[j + 1]
      BY <1>1, <2>1, <2>3
    <3>. QED
      BY <1>1, <2>1, <3>1 DEF RunOf
  <2>. QED
    BY <2>2, <2>3
<1>. QED
  BY <1>1, <1>2, <1>3, <1>4 DEF RunOf, t

\* The loop over the sorted events cuts them into runs.
LEMMA RunsAreLinked ==
  ASSUME NEW evs, Timeline(evs), NEW type
  PROVE  LET D == {e \in ToSet(OfType(evs, type)) : e.ts > 0}
             W == BurstWindows(evs, type)
         IN  /\ W \in Seq(Seq(D)) /\ DOMAIN W = 1 .. Len(W) /\ Len(W) \in Nat
             /\ \A r \in ToSet(W) : RunOf(D, r) /\ Len(r) >= BurstThreshold
<1> DEFINE D == {e \in ToSet(OfType(evs, type)) : e.ts > 0}
           sorted == ByTime(D)
           n == Len(sorted)
           none == <<>>
           Value(i, r) == IF r # none /\ sorted[i].ts - Last(Last(r)).ts <= BurstWindow
                          THEN [r EXCEPT ![Len(r)] = Append(Last(r), sorted[i])]
                          ELSE Append(r, <<sorted[i]>>)
           Lists == Seq(Seq(D))
           step == [i \in 1 .. n |-> [r \in Lists |-> Value(i, r)]]
           Loop(g) == [i \in 0 .. n |-> IF i = 0 THEN none ELSE Value(i, g[i - 1])]
<1>1. Readable(evs)
  BY DEF Timeline, Readable
<1>2. D \in SUBSET ToSet(evs) /\ IsFiniteSet(D)
  <2>1. ToSet(OfType(evs, type)) \in SUBSET ToSet(evs)
    BY <1>1, OfTypeFacts
  <2>2. D \in SUBSET ToSet(evs)
    BY <2>1
  <2>3. IsFiniteSet(ToSet(evs))
    BY ElementsFinite DEF Timeline
  <2> HIDE DEF D
  <2>. QED
    BY <2>2, <2>3, FS_Subset
<1>3. Timed(D)
  BY <1>2 DEF Timeline, Timed, IsEvent
<1> HIDE DEF D
<1>4. /\ sorted \in Seq(D) /\ \A k, l \in DOMAIN sorted : k < l => Earlier(sorted[k], sorted[l])
  BY <1>3, ByTimeInOrder
<1>5. n \in Nat /\ DOMAIN sorted = 1 .. n /\ \A i \in 1 .. n : sorted[i] \in D
  BY <1>4
<1> HIDE DEF sorted, n
<1>6. none \in Lists
  BY EmptySeq
<1>7. \A i \in 1 .. n : \A r \in Lists : Value(i, r) \in Lists
  <2> SUFFICES ASSUME NEW i \in 1 .. n, NEW r \in Lists PROVE Value(i, r) \in Lists
    OBVIOUS
  <2>1. sorted[i] \in D /\ <<sorted[i]>> \in Seq(D)
    BY <1>5
  <2>2. Append(r, <<sorted[i]>>) \in Lists
    BY <2>1
  <2>3. ASSUME r # <<>> PROVE [r EXCEPT ![Len(r)] = Append(Last(r), sorted[i])] \in Lists
    <3>1. Last(r) \in Seq(D)
      BY <2>1, <2>3, LastAndAppend
    <3>2. Append(Last(r), sorted[i]) \in Seq(D)
      BY <2>1, <3>1
    <3>. QED
      BY <2>3, <3>2, LastAndAppend
  <2>. QED
    BY <2>2, <2>3
<1> HIDE DEF none, Value, Lists
<1>8. step \in Steps(Lists, n)
  BY <1>7 DEF Steps
<1>9. PICK f : IsRun(Lists, n, none, step, f)
  <2> HIDE DEF step
  <2>. QED
    BY <1>5, <1>6, <1>8, LoopRuns
<1>10. /\ f \in [0 .. n -> Lists] /\ f[0] = none
       /\ \A i \in 1 .. n : f[i] = Value(i, f[i - 1])
  <2>1. f \in [0 .. n -> Lists] /\ f[0] = none /\ \A i \in 1 .. n : f[i] = step[i][f[i - 1]]
    BY <1>9 DEF IsRun
  <2>2. ASSUME NEW i \in 1 .. n PROVE f[i - 1] \in Lists
    <3>1. i - 1 \in 0 .. n
      BY <1>5
    <3>. QED
      BY <2>1, <3>1
  <2>. QED
    BY <2>1, <2>2
<1>11. f = Loop(f)
  BY <1>10
<1> DEFINE runs == CHOOSE g : g = Loop(g)
<1>12. BurstWindows(evs, type) = Where(runs[n], LAMBDA r : Len(r) >= BurstThreshold)
  BY DEF BurstWindows, Value, n, none, sorted, D
<1> HIDE DEF Loop
<1>13. runs = Loop(runs)
  BY <1>11
<1> USE DEF Loop
<1> HIDE DEF runs
<1>14. /\ runs[0] = none
       /\ \A i \in 1 .. n : runs[i] = Value(i, runs[i - 1])
  BY <1>5, <1>13
<1> DEFINE Known(i) ==
             /\ runs[i] \in Lists
             /\ \A q \in 1 .. Len(runs[i]) :
                   /\ RunOf(D, runs[i][q])
                   /\ \A j \in DOMAIN runs[i][q] : \E h \in 1 .. i : runs[i][q][j] = sorted[h]
           T == {i \in 0 .. n : Known(i)}
<1>15. 0 \in T
  <2>1. Len(<<>>) = 0 /\ 1 .. 0 = {}
    OBVIOUS
  <2>. QED
    BY <1>5, <1>6, <1>14, <2>1 DEF none
<1>16. ASSUME NEW i \in 1 .. n, i - 1 \in T PROVE i \in T
  <2> DEFINE b == runs[i - 1]
             e == sorted[i]
  <2>1. Known(i - 1) /\ runs[i] = Value(i, b) /\ e \in D
    BY <1>5, <1>14, <1>16
  <2>2. b \in Seq(Seq(D)) /\ Len(b) \in Nat
    BY <2>1 DEF Lists
  <2>3. \A h \in 1 .. i - 1 : Earlier(sorted[h], e) /\ h \in 1 .. i
    BY <1>4, <1>5
  <2>4. \A q \in 1 .. Len(b) : \A j \in DOMAIN b[q] : Earlier(b[q][j], e)
    BY <2>1, <2>3
  <2>5. i \in 1 .. i /\ i \in 0 .. n
    BY <1>5
  <2> HIDE DEF b, e
  <2>6. \A q \in 1 .. Len(b) :
           /\ RunOf(D, b[q])
           /\ \A j \in DOMAIN b[q] : \E h \in 1 .. i : b[q][j] = sorted[h]
    BY <2>1, <2>3 DEF b
  <2>7. CASE b # none /\ e.ts - Last(Last(b)).ts <= BurstWindow
    <3> DEFINE longer == Append(Last(b), e)
    <3>1. /\ Len(b) \in 1 .. Len(b) /\ Last(b) = b[Len(b)] /\ Last(b) \in Seq(D)
      BY <2>1, <2>2, <2>7, LastAndAppend DEF none
    <3>2. RunOf(D, Last(b))
      BY <2>6, <3>1
    <3>3. RunOf(D, longer)
      BY <2>1, <2>4, <2>7, <3>1, <3>2, LongerRun
    <3>4. /\ longer \in Seq(D) /\ DOMAIN longer = 1 .. Len(Last(b)) + 1
          /\ longer[Len(Last(b)) + 1] = e
          /\ \A j \in 1 .. Len(Last(b)) : longer[j] = Last(b)[j]
          /\ DOMAIN Last(b) = 1 .. Len(Last(b)) /\ Len(Last(b)) \in Nat
      BY <2>1, <3>1, LastAndAppend
    <3> HIDE DEF longer
    <3>5. /\ [b EXCEPT ![Len(b)] = longer] \in Seq(Seq(D))
          /\ DOMAIN [b EXCEPT ![Len(b)] = longer] = 1 .. Len(b)
          /\ \A q \in 1 .. Len(b) :
                [b EXCEPT ![Len(b)] = longer][q] = IF q = Len(b) THEN longer ELSE b[q]
      BY <2>2, <2>7, <3>4, LastAndAppend DEF none
    <3>6. runs[i] = [b EXCEPT ![Len(b)] = longer]
      BY <2>1, <2>7 DEF Value, longer, b, e
    <3>7. \A j \in DOMAIN longer : \E h \in 1 .. i : longer[j] = sorted[h]
      <4> SUFFICES ASSUME NEW j \in DOMAIN longer PROVE \E h \in 1 .. i : longer[j] = sorted[h]
        OBVIOUS
      <4>1. CASE j = Len(Last(b)) + 1
        BY <2>5, <3>4, <4>1 DEF e
      <4>2. CASE j # Len(Last(b)) + 1
        <5>1. j \in DOMAIN Last(b) /\ longer[j] = Last(b)[j]
          BY <3>4, <4>2
        <5>. QED
          BY <2>6, <3>1, <5>1
      <4>. QED
        BY <4>1, <4>2
    <3>8. runs[i] \in Lists /\ Len(runs[i]) = Len(b)
      BY <2>2, <3>5, <3>6 DEF Lists
    <3>9. ASSUME NEW q \in 1 .. Len(b)
          PROVE  /\ RunOf(D, runs[i][q])
                 /\ \A j \in DOMAIN runs[i][q] : \E h \in 1 .. i : runs[i][q][j] = sorted[h]
      <4> DEFINE next == [b EXCEPT ![Len(b)] = longer]
      <4>1. next[q] = IF q = Len(b) THEN longer ELSE b[q]
        BY <3>5
      <4>2. runs[i] = next
        BY <3>6
      <4> HIDE DEF next
      <4>3. CASE q = Len(b)
        BY <3>3, <3>7, <4>1, <4>2, <4>3
      <4>4. CASE q # Len(b)
        BY <2>6, <4>1, <4>2, <4>4
      <4>. QED
        BY <4>3, <4>4
    <3>10. Known(i)
      BY <3>8, <3>9
    <3> HIDE DEF Known
    <3>. QED
      BY <2>5, <3>10
  <2>8. CASE ~ (b # none /\ e.ts - Last(Last(b)).ts <= BurstWindow)
    <3>1. runs[i] = Append(b, <<e>>)
      BY <2>1, <2>8 DEF Value, b, e
    <3>2. <<e>> \in Seq(D) /\ <<e>> # <<>> /\ DOMAIN <<e>> = {1} /\ <<e>>[1] = e
      BY <2>1
    <3>3. RunOf(D, <<e>>)
      BY <3>2 DEF RunOf
    <3> DEFINE x == <<e>>
    <3> HIDE DEF x
    <3>4. /\ Append(b, x) \in Seq(Seq(D)) /\ Len(Append(b, x)) = Len(b) + 1
          /\ Append(b, x)[Len(b) + 1] = x
          /\ \A q \in 1 .. Len(b) : Append(b, x)[q] = b[q]
      BY <2>2, <3>2, LastAndAppend DEF x
    <3>5. \A j \in DOMAIN x : \E h \in 1 .. i : x[j] = sorted[h]
      BY <2>5, <3>2 DEF x, e
    <3>6. ASSUME NEW q \in 1 .. Len(b) + 1
          PROVE  /\ RunOf(D, Append(b, x)[q])
                 /\ \A j \in DOMAIN Append(b, x)[q] :
                       \E h \in 1 .. i : Append(b, x)[q][j] = sorted[h]
      <4>1. CASE q = Len(b) + 1
        BY <3>3, <3>4, <3>5, <4>1 DEF x
      <4>2. CASE q # Len(b) + 1
        <5>1. q \in 1 .. Len(b)
          BY <2>2, <4>2
        <5>. QED
          BY <2>6, <3>4, <5>1
      <4>. QED
        BY <4>1, <4>2
    <3> DEFINE next == Append(b, x)
    <3>7. runs[i] = next
      BY <3>1 DEF x
    <3>8. next \in Lists /\ Len(next) = Len(b) + 1
      BY <3>4 DEF Lists
    <3>9. \A q \in 1 .. Len(next) :
             /\ RunOf(D, next[q])
             /\ \A j \in DOMAIN next[q] : \E h \in 1 .. i : next[q][j] = sorted[h]
      BY <3>6, <3>8
    <3> HIDE DEF next
    <3>10. Known(i)
      BY <3>7, <3>8, <3>9
    <3> HIDE DEF Known
    <3>. QED
      BY <2>5, <3>10
  <2>. QED
    BY <2>7, <2>8
<1>17. n \in T
  <2>1. n \in 0 .. n
    BY <1>5
  <2> HIDE DEF T
  <2>. QED
    BY <1>5, <1>15, <1>16, <2>1, GoingUp
<1> DEFINE all == runs[n]
           P == {i \in DOMAIN all : Len(all[i]) >= BurstThreshold}
<1>18. all \in Seq(Seq(D)) /\ \A q \in 1 .. Len(all) : RunOf(D, all[q])
  BY <1>17 DEF Lists
<1>19. BurstWindows(evs, type) = At(all, P)
  BY <1>12 DEF Where
<1>20. P \in SUBSET (1 .. Len(all)) /\ \A p \in P : RunOf(D, all[p]) /\ Len(all[p]) >= BurstThreshold
  <2> HIDE DEF all
  <2>1. DOMAIN all = 1 .. Len(all)
    BY <1>18
  <2>2. P \subseteq DOMAIN all /\ \A p \in P : Len(all[p]) >= BurstThreshold
    OBVIOUS
  <2> HIDE DEF P
  <2>. QED
    BY <1>18, <2>1, <2>2
<1> HIDE DEF all, P
<1>21. /\ At(all, P) \in Seq(Seq(D)) /\ ToSet(At(all, P)) = {all[p] : p \in P}
       /\ DOMAIN At(all, P) = 1 .. Len(At(all, P)) /\ Len(At(all, P)) \in Nat
  BY <1>18, <1>20, AtIsSequence, SMTT(20)
<1>. QED
  BY <1>19, <1>20, <1>21 DEF D

\* A burst's joining reference is carried by every member.
LEMMA JoinEntityIsShared ==
  ASSUME NEW run, BurstJoinEntity(run) # <<>>
  PROVE  \E x : /\ BurstJoinEntity(run) = <<x>>
                /\ \A i \in DOMAIN run : x \in ToSet(run[i].ents)
<1> DEFINE first(kind) == Where(run[1].ents, LAMBDA e : e[1] = kind)
           shared(kind) == /\ first(kind) # <<>>
                           /\ \A i \in DOMAIN run : first(kind)[1] \in ToSet(run[i].ents)
<1>1. BurstJoinEntity(run) = IF shared("ip") THEN <<first("ip")[1]>>
                             ELSE IF shared("user") THEN <<first("user")[1]>> ELSE <<>>
  BY DEF BurstJoinEntity
<1> HIDE DEF first
<1>. QED
  BY <1>1

Failures(evs) == {e \in ToSet(OfType(evs, "LogonFailure")) : e.ts > 0}

\* The failed logons behind a burst: enough of them, close to one another, up to
\* the one that fronts it, all with the reference it carries.
Behind(evs, b, r) ==
    /\ RunOf(Failures(evs), r) /\ Len(r) >= BurstThreshold
    /\ b.id = Last(r).id /\ b.ts = Last(r).ts
    /\ \E x : b.ents = <<x>> /\ \A i \in DOMAIN r : x \in ToSet(r[i].ents)

LEMMA BurstAnchorFacts ==
  ASSUME NEW evs, Timeline(evs)
  PROVE  LET B == BurstAnchors(evs)
         IN  /\ B \in Seq(ToSet(B))
             /\ \A b \in ToSet(B) :
                   /\ IsEvent(b) /\ b.type = Burst
                   /\ \E e \in ToSet(evs) : e.id = b.id /\ e.ts = b.ts
                   /\ \E r : Behind(evs, b, r)
<1> DEFINE D == Failures(evs)
           W == BurstWindows(evs, "LogonFailure")
           runs == Where(W, LAMBDA r : BurstJoinEntity(r) # <<>>)
           P == {i \in DOMAIN W : BurstJoinEntity(W[i]) # <<>>}
           B == BurstAnchors(evs)
<1>1. /\ W \in Seq(Seq(D)) /\ DOMAIN W = 1 .. Len(W) /\ Len(W) \in Nat
      /\ \A r \in ToSet(W) : RunOf(D, r) /\ Len(r) >= BurstThreshold
  BY RunsAreLinked DEF Failures
<1>2. runs = At(W, P)
  BY DEF Where
<1>3. \A i \in DOMAIN W : W[i] \in ToSet(W)
  BY DEF ToSet
<1>4. P \in SUBSET (1 .. Len(W)) /\ \A p \in P : W[p] \in ToSet(W) /\ BurstJoinEntity(W[p]) # <<>>
  BY <1>1, <1>3
<1>5. B = [i \in DOMAIN runs |->
             [Last(runs[i]) EXCEPT !.type = "LogonFailureBurst",
                                   !.ents = BurstJoinEntity(runs[i])]]
  BY DEF BurstAnchors
<1>6. D \in SUBSET ToSet(evs) /\ \A e \in D : IsEvent(e) /\ e.ts >= 1
  <2>1. Readable(evs)
    BY DEF Timeline, Readable
  <2>2. ToSet(OfType(evs, "LogonFailure")) \in SUBSET ToSet(evs)
    BY <2>1, OfTypeFacts
  <2>. QED
    BY <2>2 DEF Failures, Timeline
<1> HIDE DEF W, P, runs, B, D
<1>7. /\ runs \in Seq(Seq(D)) /\ DOMAIN runs = 1 .. Len(runs) /\ Len(runs) \in Nat
      /\ ToSet(runs) = {W[p] : p \in P}
  BY <1>1, <1>2, <1>4, AtIsSequence
<1>8. ASSUME NEW i \in DOMAIN runs
      PROVE  /\ RunOf(D, runs[i]) /\ Len(runs[i]) >= BurstThreshold
             /\ BurstJoinEntity(runs[i]) # <<>>
  <2>1. runs[i] \in ToSet(runs)
    BY DEF ToSet
  <2>. QED
    BY <1>1, <1>4, <1>7, <2>1
<1>9. ASSUME NEW i \in DOMAIN runs
      PROVE  /\ IsEvent(B[i]) /\ B[i].type = Burst
             /\ \E e \in ToSet(evs) : e.id = B[i].id /\ e.ts = B[i].ts
             /\ Behind(evs, B[i], runs[i])
  <2> DEFINE last == Last(runs[i])
             refs == BurstJoinEntity(runs[i])
             b == B[i]
  <2>1. RunOf(D, runs[i]) /\ Len(runs[i]) >= BurstThreshold /\ refs # <<>>
    BY <1>8
  <2>2. PICK x : refs = <<x>> /\ \A j \in DOMAIN runs[i] : x \in ToSet(runs[i][j].ents)
    BY <2>1, JoinEntityIsShared
  <2>3. last \in D
    <3>1. runs[i] \in Seq(D) /\ runs[i] # <<>>
      BY <2>1 DEF RunOf
    <3>2. Len(runs[i]) \in 1 .. Len(runs[i])
      BY <3>1, EmptySeq
    <3>. QED
      BY <3>1, <3>2 DEF Last
  <2>4. b = [last EXCEPT !.type = "LogonFailureBurst", !.ents = refs]
    BY <1>5
  <2>5. IsEvent(last) /\ last.ts >= 1 /\ last \in ToSet(evs)
    BY <1>6, <2>3
  <2> HIDE DEF last, refs, b
  <2>6. /\ last = [field \in DOMAIN last |-> last[field]]
        /\ {"id", "ts", "type", "ents", "host", "path", "source"} \subseteq DOMAIN last
        /\ last.id \in Nat /\ last.ts \in Int
    BY <2>5 DEF IsEvent
  <2>7. b = [field \in DOMAIN last |->
               IF field = "ents" THEN refs
               ELSE IF field = "type" THEN "LogonFailureBurst" ELSE last[field]]
    BY <2>4, <2>6
  <2>8. DOMAIN b = DOMAIN last /\ b = [field \in DOMAIN b |-> b[field]]
    BY <2>7
  <2>9. /\ b.ents = refs /\ b.id = last.id /\ b.ts = last.ts /\ b.type = "LogonFailureBurst"
    BY <2>6, <2>7
  <2>10. refs \in Seq(ToSet(refs))
    BY <2>2, Single
  <2>11. IsEvent(b)
    BY <2>6, <2>8, <2>9, <2>10 DEF IsEvent
  <2>12. Behind(evs, b, runs[i])
    BY <2>1, <2>2, <2>9 DEF Behind, last, D
  <2>. QED
    BY <2>5, <2>9, <2>11, <2>12 DEF b, Burst
<1>10. DOMAIN B = 1 .. Len(runs) /\ B \in [1 .. Len(runs) -> ToSet(B)]
  BY <1>5, <1>7 DEF ToSet
<1>11. B \in Seq(ToSet(B))
  BY <1>7, <1>10, SequenceOf
<1>12. \A b \in ToSet(B) : \E i \in DOMAIN runs : b = B[i]
  BY <1>7, <1>10 DEF ToSet
<1>13. ASSUME NEW b \in ToSet(B)
       PROVE  /\ IsEvent(b) /\ b.type = Burst
              /\ \E e \in ToSet(evs) : e.id = b.id /\ e.ts = b.ts
              /\ \E r : Behind(evs, b, r)
  <2>1. PICK i \in DOMAIN runs : b = B[i]
    BY <1>12
  <2>. QED
    BY <1>9, <2>1
<1>. QED
  BY <1>11, <1>13 DEF B

\* The disk rules read the disk rows and the bursts.
LEMMA InputsAreReadable ==
  ASSUME NEW events, Timeline(events)
  PROVE  /\ Readable(Inputs(events))
         /\ ToSet(Inputs(events)) =
               {e \in ToSet(events) : ~ MemoryRow(e)} \cup ToSet(BurstAnchors(events))
         /\ \A e \in ToSet(Inputs(events)) : \E x \in ToSet(events) : x.id = e.id /\ x.ts = e.ts
<1> DEFINE P == {i \in DOMAIN events : ~ MemoryRow(events[i])}
           disk == At(events, P)
           B == BurstAnchors(events)
           X == ToSet(disk) \cup ToSet(B)
           all == Inputs(events)
<1>1. all = disk \o B
  BY DEF Inputs, Where
<1>2. /\ events \in Seq(ToSet(events)) /\ DOMAIN events = 1 .. Len(events)
      /\ P \in SUBSET (1 .. Len(events))
      /\ \A p, q \in P : p < q => Earlier(events[p], events[q])
  BY DEF Timeline
<1>3. {events[p] : p \in P} = {e \in ToSet(events) : ~ MemoryRow(e)}
  BY DEF ToSet
<1>4. /\ B \in Seq(ToSet(B))
      /\ \A b \in ToSet(B) : /\ IsEvent(b) /\ b.type = Burst
                             /\ \E e \in ToSet(events) : e.id = b.id /\ e.ts = b.ts
  BY BurstAnchorFacts
<1> HIDE DEF P, B
<1>5. /\ disk \in Seq(ToSet(events)) /\ ToSet(disk) = {e \in ToSet(events) : ~ MemoryRow(e)}
      /\ \A k, l \in DOMAIN disk : k < l => Earlier(disk[k], disk[l])
  BY <1>2, <1>3, AtIsSequence, AtKeepsOrder
<1> HIDE DEF disk, all
<1>6. disk \in Seq(X) /\ B \in Seq(X)
  <2>1. disk \in Seq(ToSet(disk))
    BY <1>5 DEF ToSet
  <2> HIDE DEF X
  <2>2. ToSet(disk) \in SUBSET X /\ ToSet(B) \in SUBSET X
    BY DEF X
  <2>. QED
    BY <1>4, <2>1, <2>2
<1> HIDE DEF X
<1>7. all \in Seq(X) /\ ToSet(all) = ToSet(disk) \cup ToSet(B)
  BY <1>1, <1>6, ConcatIsBoth
<1>8. all \in Seq(ToSet(all))
  BY <1>7 DEF X
<1>9. \A e \in ToSet(all) : \E x \in ToSet(events) : x.id = e.id /\ x.ts = e.ts
  BY <1>4, <1>5, <1>7
<1>10. \A e \in ToSet(all) : IsEvent(e) /\ e.ts >= 1
  <2>1. \A e \in ToSet(disk) : IsEvent(e) /\ e.ts >= 1
    BY <1>5 DEF Timeline
  <2>2. \A e \in ToSet(B) : IsEvent(e) /\ e.ts >= 1
    BY <1>4 DEF Timeline
  <2>. QED
    BY <1>7, <2>1, <2>2
<1>11. \A e, f \in ToSet(all) : e.id = f.id => e.ts = f.ts
  <2> SUFFICES ASSUME NEW e \in ToSet(all), NEW f \in ToSet(all), e.id = f.id PROVE e.ts = f.ts
    OBVIOUS
  <2>1. PICK x \in ToSet(events) : x.id = e.id /\ x.ts = e.ts
    BY <1>9
  <2>2. PICK y \in ToSet(events) : y.id = f.id /\ y.ts = f.ts
    BY <1>9
  <2>3. x = y
    BY <2>1, <2>2 DEF Timeline
  <2>. QED
    BY <2>1, <2>2, <2>3
<1>12. ASSUME NEW k \in DOMAIN all, NEW l \in DOMAIN all, k < l,
              all[k].type # Burst, all[l].type # Burst
       PROVE  Earlier(all[k], all[l])
  <2>1. /\ Len(disk) \in Nat /\ Len(B) \in Nat /\ DOMAIN disk = 1 .. Len(disk)
        /\ DOMAIN all = 1 .. (Len(disk) + Len(B))
    BY <1>1, <1>6
  <2>2. \A i \in 1 .. Len(disk) : all[i] = disk[i]
    BY <1>1, <1>6, <2>1
  <2>3. \A i \in 1 .. Len(B) : all[Len(disk) + i] = B[i]
    BY <1>1, <1>6, <2>1
  <2>4. ASSUME NEW i \in DOMAIN all, ~ (i <= Len(disk)) PROVE all[i].type = Burst
    <3>1. i - Len(disk) \in 1 .. Len(B) /\ Len(disk) + (i - Len(disk)) = i
      BY <2>1, <2>4
    <3>2. all[i] = B[i - Len(disk)]
      BY <2>3, <3>1
    <3>3. B[i - Len(disk)] \in ToSet(B)
      BY <1>6, <3>1 DEF ToSet
    <3>. QED
      BY <1>4, <3>2, <3>3
  <2>5. k \in DOMAIN disk /\ l \in DOMAIN disk
    BY <1>12, <2>1, <2>4
  <2>. QED
    BY <1>5, <1>12, <2>1, <2>2, <2>5
<1>13. Readable(all)
  BY <1>8, <1>10, <1>11, <1>12 DEF Readable
<1>. QED
  BY <1>5, <1>7, <1>9, <1>13 DEF all, B

-------------------------------------------------------------------------------
\* The pair rules.

\* What the evaluator asks of a candidate.
Qualifies(code, a, c) ==
    /\ c.ts > 0 /\ c.type = Rule(code).consequent
    /\ WithinWindow(Rule(code), a, c)
    /\ Admits(Rule(code).scope, a.host, c.host)
    /\ SharesEntity(a, c)
    /\ Guard(code, a, c)

\* Over candidates in order the first of the nearest is the nearest and earliest.
LEMMA FirstIsNearestTo ==
  ASSUME NEW a, a.ts \in Int, NEW E, \A c \in E : c.ts \in Int /\ c.id \in Nat,
         NEW cands \in Seq(E),
         \A k, l \in DOMAIN cands : k < l => Earlier(cands[k], cands[l]),
         NEW Q \in SUBSET (1 .. Len(cands))
  PROVE  /\ Q = {} => Nearest(a, cands, Q) = <<>>
         /\ Q # {} => \E c \in NearestTo(a, {cands[q] : q \in Q}) : Nearest(a, cands, Q) = <<c>>
<1>1. \A c \in E : c.ts \in Int
  OBVIOUS
<1>2. /\ Q = {} => Nearest(a, cands, Q) = <<>>
      /\ Q # {} =>
           \E k \in Q :
              /\ Nearest(a, cands, Q) = <<cands[k]>>
              /\ \A j \in Q : \/ Dist(a, cands[k]) < Dist(a, cands[j])
                              \/ Dist(a, cands[k]) = Dist(a, cands[j]) /\ k <= j
  BY <1>1, NearestIsFirst
<1> SUFFICES ASSUME Q # {}
             PROVE  \E c \in NearestTo(a, {cands[q] : q \in Q}) : Nearest(a, cands, Q) = <<c>>
  BY <1>2
<1>3. PICK k \in Q :
         /\ Nearest(a, cands, Q) = <<cands[k]>>
         /\ \A j \in Q : \/ Dist(a, cands[k]) < Dist(a, cands[j])
                         \/ Dist(a, cands[k]) = Dist(a, cands[j]) /\ k <= j
  BY <1>2
<1>4. DOMAIN cands = 1 .. Len(cands) /\ \A q \in Q : q \in DOMAIN cands /\ cands[q] \in E
  OBVIOUS
<1>5. ASSUME NEW j \in Q
      PROVE  \/ Dist(a, cands[k]) < Dist(a, cands[j])
             \/ /\ Dist(a, cands[k]) = Dist(a, cands[j])
                /\ cands[k].ts < cands[j].ts
                   \/ (cands[k].ts = cands[j].ts /\ cands[k].id <= cands[j].id)
  <2>1. CASE Dist(a, cands[k]) < Dist(a, cands[j])
    BY <2>1
  <2>2. CASE Dist(a, cands[k]) = Dist(a, cands[j]) /\ k <= j
    <3>1. CASE k = j
      BY <1>1, <1>4, <2>2, <3>1
    <3>2. CASE k # j
      <4>1. k < j /\ k \in DOMAIN cands /\ j \in DOMAIN cands
        BY <1>4, <2>2, <3>2
      <4>2. Earlier(cands[k], cands[j])
        BY <4>1
      <4>3. cands[k].id \in Nat /\ cands[j].id \in Nat
        BY <1>4
      <4>. QED
        BY <2>2, <4>2, <4>3 DEF Earlier
    <3>. QED
      BY <3>1, <3>2
  <2>. QED
    BY <1>3, <2>1, <2>2
<1> DEFINE S == {cands[q] : q \in Q}
<1>6. cands[k] \in NearestTo(a, S)
  <2>1. cands[k] \in S /\ \A d \in S : \E j \in Q : d = cands[j]
    OBVIOUS
  <2> HIDE DEF S
  <2>2. ASSUME NEW d \in S
        PROVE  \/ Dist(a, cands[k]) < Dist(a, d)
               \/ /\ Dist(a, cands[k]) = Dist(a, d)
                  /\ cands[k].ts < d.ts \/ (cands[k].ts = d.ts /\ cands[k].id <= d.id)
    <3>1. PICK j \in Q : d = cands[j]
      BY <2>1
    <3>. QED
      BY <1>5, <3>1
  <2>. QED
    BY <2>1, <2>2 DEF NearestTo
<1>. QED
  BY <1>3, <1>6

\* The nearest of a set is one event, by its id.
LEMMA NearestToIsOne ==
  ASSUME NEW a, a.ts \in Int, NEW C, \A c \in C : c.ts \in Int /\ c.id \in Nat,
         NEW c \in NearestTo(a, C), NEW d \in NearestTo(a, C)
  PROVE  c.id = d.id /\ c.ts = d.ts
<1>1. c \in C /\ d \in C
  BY DEF NearestTo
<1>2. Dist(a, c) \in Int /\ Dist(a, d) \in Int
  BY <1>1 DEF Dist
<1>3. /\ \/ Dist(a, c) < Dist(a, d)
         \/ /\ Dist(a, c) = Dist(a, d)
            /\ c.ts < d.ts \/ (c.ts = d.ts /\ c.id <= d.id)
      /\ \/ Dist(a, d) < Dist(a, c)
         \/ /\ Dist(a, d) = Dist(a, c)
            /\ d.ts < c.ts \/ (d.ts = c.ts /\ d.id <= c.id)
  BY <1>1 DEF NearestTo
<1>. QED
  BY <1>1, <1>2, <1>3

\* Whatever candidates a rule looks at, it takes the nearest that qualifies.
LEMMA EvaluateFinds ==
  ASSUME NEW code, NEW a, IsEvent(a), a.ts >= 1, a.type = Rule(code).anchor,
         NEW E, \A c \in E : IsEvent(c), NEW cands \in Seq(E),
         \A k, l \in DOMAIN cands : k < l => Earlier(cands[k], cands[l])
  PROVE  LET C == {c \in ToSet(cands) : Qualifies(code, a, c)}
         IN  /\ C = {} => Evaluate(code, a, cands) = <<>>
             /\ C # {} => \E c \in NearestTo(a, C) : Evaluate(code, a, cands) = <<c>>
<1> DEFINE Q == {i \in DOMAIN cands : Qualifies(code, a, cands[i])}
           C == {c \in ToSet(cands) : Qualifies(code, a, c)}
<1>1. a.ts \in Int /\ \A c \in E : c.ts \in Int /\ c.id \in Nat
  BY DEF IsEvent
<1>2. Evaluate(code, a, cands) = Nearest(a, cands, Q)
  <2>1. ~ (a.ts <= 0 \/ a.type # Rule(code).anchor)
    BY <1>1
  <2>. QED
    BY <2>1 DEF Evaluate, Qualifies
<1>3. C = {cands[q] : q \in Q}
  BY DEF ToSet
<1>4. Q \in SUBSET (1 .. Len(cands))
  OBVIOUS
<1>5. Q = {} <=> C = {}
  BY <1>3
<1> HIDE DEF Q, C
<1>6. /\ Q = {} => Nearest(a, cands, Q) = <<>>
      /\ Q # {} => \E c \in NearestTo(a, {cands[q] : q \in Q}) : Nearest(a, cands, Q) = <<c>>
  BY <1>1, <1>4, FirstIsNearestTo
<1>. QED
  BY <1>2, <1>3, <1>5, <1>6 DEF C

\* A rule's parts: it never looks for a burst, and only bruteforce starts from one.
LEMMA RuleParts ==
  ASSUME NEW code \in PairCodes
  PROVE  /\ Rule(code).consequent # Burst
         /\ code # "bruteforce" => Rule(code).anchor # Burst
         /\ code # "copy-delete"
<1>1. CASE code = "relocate"
  BY <1>1 DEF Rule, Burst
<1>2. CASE code = "persist"
  BY <1>2 DEF Rule, Burst
<1>3. CASE code = "bruteforce"
  BY <1>3 DEF Rule, Burst
<1>4. CASE code = "logon-malware"
  BY <1>4 DEF Rule, Burst
<1>5. CASE code = "exfil-stage"
  BY <1>5 DEF Rule, Burst
<1>6. CASE code = "regconfirm"
  BY <1>6 DEF Rule, Burst
<1>7. CASE code = "lateral-move"
  BY <1>7 DEF Rule, Burst
<1>. QED
  BY <1>1, <1>2, <1>3, <1>4, <1>5, <1>6, <1>7 DEF PairCodes

\* The index leads an anchor to the positions that share an entity with it.
LEMMA PositionsShare ==
  ASSUME NEW a, NEW cands, NEW x
  PROVE  EntityCandidatePositions(a, BuildEntityIndex(cands), x)
            = {i \in DOMAIN cands : SharesEntity(a, cands[i])} \ {x}
<1> DEFINE index == BuildEntityIndex(cands)
           hits == UNION {index[e] : e \in ToSet(a.ents) \cap DOMAIN index}
<1>1. /\ DOMAIN index = UNION {ToSet(cands[i].ents) : i \in DOMAIN cands}
      /\ \A e \in DOMAIN index : index[e] = {i \in DOMAIN cands : e \in ToSet(cands[i].ents)}
  BY DEF BuildEntityIndex
<1> HIDE DEF index
<1>2. hits = {i \in DOMAIN cands : SharesEntity(a, cands[i])}
  <2>1. ASSUME NEW i \in hits PROVE i \in DOMAIN cands /\ SharesEntity(a, cands[i])
    <3>1. PICK e \in ToSet(a.ents) \cap DOMAIN index : i \in index[e]
      OBVIOUS
    <3>. QED
      BY <1>1, <3>1 DEF SharesEntity
  <2>2. ASSUME NEW i \in DOMAIN cands, SharesEntity(a, cands[i]) PROVE i \in hits
    <3>1. PICK e \in ToSet(a.ents) : e \in ToSet(cands[i].ents)
      BY <2>2 DEF SharesEntity
    <3>2. e \in DOMAIN index /\ i \in index[e]
      BY <1>1, <3>1
    <3>. QED
      BY <3>1, <3>2
  <2> HIDE DEF hits
  <2>. QED
    BY <2>1, <2>2
<1> HIDE DEF hits
<1>3. EntityCandidatePositions(a, index, x) = hits \ {x}
  BY DEF EntityCandidatePositions, hits
<1>. QED
  BY <1>2, <1>3 DEF index

\* A pair is a finding.
LEMMA PairIsFinding ==
  ASSUME NEW code \in Code, NEW a, IsEvent(a), NEW c, IsEvent(c)
  PROVE  /\ Pair(code, a, c) \in Finding
         /\ Pair(code, a, c).code = code
         /\ Pair(code, a, c).members[1][1] = a.id
         /\ Pair(code, a, c).members[2][1] = c.id
<1>1. a.id \in Nat /\ c.id \in Nat /\ a.ts \in Int /\ c.ts \in Int
  BY DEF IsEvent
<1> DEFINE x == <<a.id, "anchor">>
           y == <<c.id, "consequent">>
           m == <<x, y>>
           first == IF a.ts <= c.ts THEN a.ts ELSE c.ts
           last == IF a.ts <= c.ts THEN c.ts ELSE a.ts
<1>2. x \in Nat \X Role /\ y \in Nat \X Role
  BY <1>1 DEF Role
<1>3. first \in Int /\ last \in Int
  BY <1>1
<1>4. x[1] = a.id /\ y[1] = c.id
  OBVIOUS
<1>5. Pair(code, a, c) = [code |-> code, members |-> m, first |-> first, last |-> last]
  BY DEF Pair
<1> HIDE DEF x, y, first, last
<1>6. m \in Seq(Nat \X Role) /\ m[1] = x /\ m[2] = y
  BY <1>2
<1> HIDE DEF m
<1>. QED
  BY <1>3, <1>4, <1>5, <1>6 DEF Finding

\* The pairs of a rule: every anchor that has a consequent, with its nearest.
PairsOf(code, events, S) ==
    /\ \A f \in S : \E a \in Anchors(code, events) :
          \E c \in NearestTo(a, Consequents(code, a, events)) : f = Pair(code, a, c)
    /\ \A a \in Anchors(code, events) :
          \A c \in NearestTo(a, Consequents(code, a, events)) :
             \E f \in S : \E d \in NearestTo(a, Consequents(code, a, events)) :
                f = Pair(code, a, d) /\ d.id = c.id

\* The indexed rules.
LEMMA PairRuleFinds ==
  ASSUME NEW events, Timeline(events), NEW code \in PairCodes
  PROVE  /\ RunPairRule(code, Inputs(events)) \in Seq(Finding)
         /\ PairsOf(code, events, ToSet(RunPairRule(code, Inputs(events))))
         /\ \A a \in Anchors(code, events) : IsEvent(a)
         /\ \A a \in Anchors(code, events) :
               \A c \in Consequents(code, a, events) : IsEvent(c)
<1> DEFINE evs == Inputs(events)
           rule == Rule(code)
           anchors == Project(code, evs, rule.anchor)
           cands == Project(code, evs, rule.consequent)
           index == BuildEntityIndex(cands)
           exclude(i) == IF SelfJoin(code) THEN i ELSE 0
           reduced(i) == IF code = "bruteforce" THEN cands
                         ELSE ReducedCandidates(anchors[i], index, cands, exclude(i))
           best(i) == Evaluate(code, anchors[i], reduced(i))
           fired(i) == IF best(i) = <<>> THEN <<>> ELSE <<Pair(code, anchors[i], best(i)[1])>>
           all == [i \in DOMAIN anchors |-> fired(i)]
           C(a) == Consequents(code, a, events)
<1>1. RunPairRule(code, evs) = FlattenSeq(all)
  BY DEF RunPairRule
<1>2. /\ Readable(evs)
      /\ \A e, f \in ToSet(evs) : e.id = f.id => e.ts = f.ts
  BY InputsAreReadable DEF Readable
<1>3. /\ rule.consequent # Burst /\ code # "copy-delete" /\ code \in Code
      /\ code # "bruteforce" => rule.anchor # Burst
  BY RuleParts DEF PairCodes, Code
<1>4. /\ anchors \in Seq(ToSet(anchors)) /\ Len(anchors) \in Nat
      /\ DOMAIN anchors = 1 .. Len(anchors)
      /\ \A e \in ToSet(anchors) :
            /\ IsEvent(e) /\ e.type = rule.anchor /\ e.ts >= 1
            /\ \E x \in ToSet(evs) : x.id = e.id /\ x.ts = e.ts
  BY <1>2, ProjectFacts
<1>5. /\ cands \in Seq(ToSet(cands)) /\ Len(cands) \in Nat /\ DOMAIN cands = 1 .. Len(cands)
      /\ \A e \in ToSet(cands) :
            /\ IsEvent(e) /\ e.type = rule.consequent /\ e.ts >= 1
            /\ \E x \in ToSet(evs) : x.id = e.id /\ x.ts = e.ts
      /\ \A k, l \in DOMAIN cands : k < l => Earlier(cands[k], cands[l])
  BY <1>2, <1>3, ProjectFacts
<1>6. /\ Anchors(code, events) = ToSet(anchors)
      /\ \A a : C(a) = {c \in ToSet(cands) :
                          /\ c.id # a.id
                          /\ WithinWindow(rule, a, c)
                          /\ Admits(rule.scope, a.host, c.host)
                          /\ SharesEntity(a, c)
                          /\ Guard(code, a, c)}
  BY <1>3 DEF Anchors, Consequents
<1>7. SelfJoin(code) => anchors = cands
  BY DEF SelfJoin
<1> HIDE DEF evs, rule, anchors, cands
<1>8. ASSUME NEW a \in ToSet(anchors), NEW c \in ToSet(cands), WithinWindow(rule, a, c)
      PROVE  c.id # a.id
  <2>1. c.ts # a.ts
    <3>1. IF rule.ordered THEN c.ts > a.ts ELSE c.ts # a.ts
      BY <1>8 DEF WithinWindow
    <3>2. c.ts \in Int /\ a.ts \in Int
      BY <1>4, <1>5 DEF IsEvent
    <3>. QED
      BY <3>1, <3>2
  <2>2. PICK x \in ToSet(evs) : x.id = a.id /\ x.ts = a.ts
    BY <1>4
  <2>3. PICK y \in ToSet(evs) : y.id = c.id /\ y.ts = c.ts
    BY <1>5
  <2>. QED
    BY <1>2, <2>1, <2>2, <2>3
<1>9. ASSUME NEW i \in DOMAIN anchors
      PROVE  /\ reduced(i) \in Seq(ToSet(cands))
             /\ \A k, l \in DOMAIN reduced(i) : k < l => Earlier(reduced(i)[k], reduced(i)[l])
             /\ {c \in ToSet(reduced(i)) : Qualifies(code, anchors[i], c)} = C(anchors[i])
  <2> DEFINE a == anchors[i]
             shared == {j \in DOMAIN cands : SharesEntity(a, cands[j])}
             P == shared \ {exclude(i)}
  <2>1. a \in ToSet(anchors)
    BY DEF ToSet
  <2>2. \A c \in ToSet(cands) : Qualifies(code, a, c) <=> c \in C(a)
    <3> SUFFICES ASSUME NEW c \in ToSet(cands) PROVE Qualifies(code, a, c) <=> c \in C(a)
      OBVIOUS
    <3>1. c.type = rule.consequent /\ c.ts > 0
      <4>1. c.ts \in Int /\ c.ts >= 1 /\ c.type = rule.consequent
        BY <1>5 DEF IsEvent
      <4>. QED
        BY <4>1
    <3>2. WithinWindow(rule, a, c) => c.id # a.id
      BY <1>8, <2>1
    <3>. QED
      BY <1>6, <3>1, <3>2 DEF Qualifies, rule
  <2>3. C(a) \subseteq ToSet(cands)
    BY <1>6
  <2>4. CASE code = "bruteforce"
    <3>1. reduced(i) = cands
      BY <2>4
    <3>. QED
      BY <1>5, <2>2, <2>3, <3>1
  <2>5. CASE code # "bruteforce"
    <3>1. reduced(i) = At(cands, P)
      <4>1. reduced(i) = ReducedCandidates(a, index, cands, exclude(i))
        BY <2>5
      <4> DEFINE x == exclude(i)
      <4> HIDE DEF x, a
      <4>2. EntityCandidatePositions(a, index, x)
               = {j \in DOMAIN cands : SharesEntity(a, cands[j])} \ {x}
        BY PositionsShare
      <4>3. ReducedCandidates(a, index, cands, x) = At(cands, P)
        BY <4>2 DEF ReducedCandidates, x
      <4>. QED
        BY <4>1, <4>3 DEF a, x
    <3>2. P \in SUBSET (1 .. Len(cands))
      BY <1>5
    <3>3. \A c \in C(a) : \E p \in P : c = cands[p]
      <4> SUFFICES ASSUME NEW c \in C(a) PROVE \E p \in P : c = cands[p]
        OBVIOUS
      <4>1. PICK p \in DOMAIN cands : c = cands[p]
        BY <2>3 DEF ToSet
      <4>2. SharesEntity(a, c) /\ c.id # a.id
        BY <1>6
      <4>3. p # exclude(i)
        <5>1. CASE SelfJoin(code)
          BY <1>7, <4>1, <4>2, <5>1
        <5>2. CASE ~ SelfJoin(code)
          BY <1>5, <5>2
        <5>. QED
          BY <5>1, <5>2
      <4>4. p \in shared
        BY <4>1, <4>2
      <4>. QED
        BY <4>1, <4>3, <4>4
    <3> HIDE DEF P, a
    <3>4. \A p, q \in P : p < q => Earlier(cands[p], cands[q])
      BY <1>5, <3>2
    <3>5. /\ At(cands, P) \in Seq(ToSet(cands))
          /\ ToSet(At(cands, P)) = {cands[p] : p \in P}
          /\ \A k, l \in DOMAIN At(cands, P) :
                k < l => Earlier(At(cands, P)[k], At(cands, P)[l])
      <4> DEFINE X == ToSet(cands)
      <4>1. cands \in Seq(X)
        BY <1>5
      <4> HIDE DEF X
      <4>2. At(cands, P) \in Seq(X) /\ ToSet(At(cands, P)) = {cands[p] : p \in P}
        BY <3>2, <4>1, AtIsSequence
      <4>3. \A k, l \in DOMAIN At(cands, P) :
               k < l => Earlier(At(cands, P)[k], At(cands, P)[l])
        BY <3>2, <3>4, <4>1, AtKeepsOrder
      <4>. QED
        BY <4>2, <4>3 DEF X
    <3>6. ToSet(At(cands, P)) \subseteq ToSet(cands)
      BY <1>5, <3>2, <3>5 DEF ToSet
    <3>7. {c \in ToSet(At(cands, P)) : Qualifies(code, a, c)} = C(a)
      <4> HIDE DEF C
      <4>. QED
        BY <2>2, <2>3, <3>3, <3>5, <3>6
    <3> HIDE DEF C, reduced
    <3>. QED
      BY <3>1, <3>5, <3>7 DEF a
  <2>. QED
    BY <2>4, <2>5
<1> HIDE DEF reduced
<1>10. \A a \in ToSet(anchors) : \A c \in C(a) : IsEvent(a) /\ IsEvent(c)
  BY <1>4, <1>5, <1>6
<1> HIDE DEF C
<1>11. ASSUME NEW i \in DOMAIN anchors
       PROVE  /\ C(anchors[i]) = {} => best(i) = <<>>
              /\ C(anchors[i]) # {} =>
                   \E c \in NearestTo(anchors[i], C(anchors[i])) : best(i) = <<c>>
  <2>1. anchors[i] \in ToSet(anchors)
    BY DEF ToSet
  <2>2. IsEvent(anchors[i]) /\ anchors[i].ts >= 1 /\ anchors[i].type = Rule(code).anchor
    BY <1>4, <2>1 DEF rule
  <2>3. \A c \in ToSet(cands) : IsEvent(c)
    BY <1>5
  <2>. QED
    BY <1>9, <2>2, <2>3, EvaluateFinds
<1> HIDE DEF best
<1>12. ASSUME NEW i \in DOMAIN anchors
       PROVE  /\ fired(i) \in Seq(Finding)
              /\ \A f \in ToSet(fired(i)) :
                    \E c \in NearestTo(anchors[i], C(anchors[i])) : f = Pair(code, anchors[i], c)
              /\ C(anchors[i]) # {} =>
                    \E c \in NearestTo(anchors[i], C(anchors[i])) :
                       Pair(code, anchors[i], c) \in ToSet(fired(i))
  <2>1. anchors[i] \in ToSet(anchors)
    BY DEF ToSet
  <2>2. CASE C(anchors[i]) = {}
    <3>1. fired(i) = <<>> /\ ToSet(<<>>) = {} /\ <<>> \in Seq(Finding)
      BY <1>11, <2>2 DEF ToSet
    <3>. QED
      BY <2>2, <3>1
  <2>3. CASE C(anchors[i]) # {}
    <3>1. PICK c \in NearestTo(anchors[i], C(anchors[i])) : best(i) = <<c>>
      BY <1>11, <2>3
    <3> DEFINE f == Pair(code, anchors[i], c)
    <3>2. <<c>> # <<>> /\ <<c>>[1] = c
      OBVIOUS
    <3>3. fired(i) = <<f>>
      BY <3>1, <3>2
    <3>4. c \in C(anchors[i])
      BY <3>1 DEF NearestTo
    <3>5. f \in Finding
      BY <1>3, <1>10, <2>1, <3>4, PairIsFinding
    <3> HIDE DEF f, fired
    <3>6. fired(i) \in Seq(Finding) /\ ToSet(fired(i)) = {f}
      BY <3>3, <3>5, Single
    <3>. QED
      BY <3>1, <3>6 DEF f
  <2>. QED
    BY <2>2, <2>3
<1>13. all \in [1 .. Len(anchors) -> Seq(Finding)] /\ \A i \in DOMAIN anchors : all[i] = fired(i)
  BY <1>4, <1>12
<1> HIDE DEF all, fired
<1>14. /\ FlattenSeq(all) \in Seq(Finding)
       /\ ToSet(FlattenSeq(all)) = UNION {ToSet(all[i]) : i \in 1 .. Len(anchors)}
  BY <1>4, <1>13, FlattenIsSequence
<1> DEFINE S == ToSet(FlattenSeq(all))
<1>15. S = UNION {ToSet(fired(i)) : i \in DOMAIN anchors}
  BY <1>4, <1>13, <1>14
<1> HIDE DEF S
<1>16. \A f \in S : \E a \in ToSet(anchors) : \E c \in NearestTo(a, C(a)) : f = Pair(code, a, c)
  <2> SUFFICES ASSUME NEW f \in S
               PROVE  \E a \in ToSet(anchors) : \E c \in NearestTo(a, C(a)) : f = Pair(code, a, c)
    OBVIOUS
  <2>1. PICK i \in DOMAIN anchors : f \in ToSet(fired(i))
    BY <1>15
  <2>2. anchors[i] \in ToSet(anchors)
    BY DEF ToSet
  <2>. QED
    BY <1>12, <2>1, <2>2
<1>17. ASSUME NEW a \in ToSet(anchors), NEW c \in NearestTo(a, C(a))
       PROVE  \E f \in S : \E d \in NearestTo(a, C(a)) : f = Pair(code, a, d) /\ d.id = c.id
  <2>1. PICK i \in DOMAIN anchors : a = anchors[i]
    BY DEF ToSet
  <2>2. c \in C(a)
    BY <1>17 DEF NearestTo
  <2>3. PICK d \in NearestTo(a, C(a)) : Pair(code, a, d) \in ToSet(fired(i))
    BY <1>12, <2>1, <2>2
  <2>4. a.ts \in Int /\ \A x \in C(a) : x.ts \in Int /\ x.id \in Nat
    BY <1>4, <1>10 DEF IsEvent
  <2>5. d.id = c.id
    BY <2>3, <2>4, NearestToIsOne
  <2>6. Pair(code, a, d) \in S
    BY <1>15, <2>3
  <2>. QED
    BY <2>3, <2>5, <2>6
<1>18. PairsOf(code, events, S)
  BY <1>6, <1>16, <1>17 DEF PairsOf, C
<1>. QED
  BY <1>1, <1>4, <1>6, <1>10, <1>14, <1>18 DEF S, C, evs

-------------------------------------------------------------------------------
\* Copy-delete.

\* Below a time lie the first of the sorted times, as many as the partition point.
LEMMA PartitionIsPrefix ==
  ASSUME NEW n \in Nat, NEW ts \in [1 .. n -> Int], NEW t \in Int,
         \A i, j \in 1 .. n : i < j => ts[i] <= ts[j]
  PROVE  /\ PartitionPoint(ts, t) \in 0 .. n
         /\ \A i \in 1 .. n : ts[i] < t <=> i <= PartitionPoint(ts, t)
<1> DEFINE below == {i \in 1 .. n : ts[i] < t}
           late == {k \in 0 .. n : k = n \/ ~ (ts[k + 1] < t)}
<1>1. late \in SUBSET Nat /\ n \in late
  OBVIOUS
<1>2. PICK k \in late : \A j \in late : k <= j
  <2> HIDE DEF late
  <2>. QED
    BY <1>1, LeastOf
<1>3. k \in 0 .. n /\ (k < n => ~ (ts[k + 1] < t))
  BY <1>2
<1>4. \A i \in 1 .. n : ts[i] < t <=> i <= k
  <2> SUFFICES ASSUME NEW i \in 1 .. n PROVE ts[i] < t <=> i <= k
    OBVIOUS
  <2>1. ASSUME i <= k PROVE ts[i] < t
    <3>1. i - 1 \in 0 .. n /\ i - 1 < k /\ i - 1 # n
      BY <1>3, <2>1
    <3>2. i - 1 \notin late
      <4> HIDE DEF late
      <4>. QED
        BY <1>1, <1>2, <3>1
    <3>3. ts[(i - 1) + 1] < t
      BY <3>1, <3>2
    <3>. QED
      BY <3>3
  <2>2. ASSUME ~ (i <= k) PROVE ~ (ts[i] < t)
    <3>1. k < n /\ k + 1 \in 1 .. n /\ k + 1 <= i
      BY <1>3, <2>2
    <3>2. ~ (ts[k + 1] < t) /\ ts[k + 1] \in Int /\ ts[i] \in Int
      BY <1>3, <3>1
    <3>3. ts[k + 1] <= ts[i]
      BY <3>1, <3>2
    <3>. QED
      BY <3>2, <3>3
  <2>. QED
    BY <2>1, <2>2
<1>5. below = 1 .. k
  BY <1>3, <1>4
<1>6. Cardinality(1 .. k) = k
  <2>1. 1 \in Int /\ k \in Int /\ k \in Nat
    BY <1>3
  <2>2. Cardinality(1 .. k) = IF 1 > k THEN 0 ELSE k - 1 + 1
    BY <2>1, FS_Interval
  <2>. QED
    BY <2>1, <2>2
<1>7. PartitionPoint(ts, t) = k
  BY <1>5, <1>6 DEF PartitionPoint
<1>. QED
  BY <1>3, <1>4, <1>7

\* A slice of a sequence: its elements, in their order.
LEMMA Slice ==
  ASSUME NEW X, NEW s \in Seq(X), NEW lo \in 0 .. Len(s), NEW hi \in 0 .. Len(s),
         \A k, l \in DOMAIN s : k < l => Earlier(s[k], s[l])
  PROVE  LET w == SubSeq(s, lo + 1, hi)
         IN  /\ w \in Seq(X)
             /\ ToSet(w) = {s[i] : i \in {j \in DOMAIN s : lo < j /\ j <= hi}}
             /\ \A k, l \in DOMAIN w : k < l => Earlier(w[k], w[l])
<1> DEFINE w == SubSeq(s, lo + 1, hi)
           m == IF lo < hi THEN hi - lo ELSE 0
<1>1. Len(s) \in Nat /\ DOMAIN s = 1 .. Len(s) /\ m \in Nat
  OBVIOUS
<1>2. /\ w \in Seq(X) /\ DOMAIN w = 1 .. m
      /\ \A i \in 1 .. m : w[i] = s[lo + i]
  <2>1. w \in Seq(X)
    BY <1>1
  <2>2. Len(w) = m
    BY <1>1
  <2>3. \A i \in 1 .. m : w[i] = s[lo + i]
    BY <1>1
  <2>. QED
    BY <2>1, <2>2, <2>3
<1>3. \A i \in 1 .. m : lo + i \in DOMAIN s /\ lo < lo + i /\ lo + i <= hi
  BY <1>1
<1>4. \A j \in DOMAIN s : lo < j /\ j <= hi => j - lo \in 1 .. m /\ lo + (j - lo) = j
  BY <1>1
<1> HIDE DEF w, m
<1>5. ToSet(w) = {s[i] : i \in {j \in DOMAIN s : lo < j /\ j <= hi}}
  <2>1. ASSUME NEW x \in ToSet(w) PROVE \E j \in DOMAIN s : lo < j /\ j <= hi /\ x = s[j]
    <3>1. PICK i \in 1 .. m : x = s[lo + i]
      BY <1>2 DEF ToSet
    <3>. QED
      BY <1>3, <3>1
  <2>2. ASSUME NEW j \in DOMAIN s, lo < j, j <= hi PROVE s[j] \in ToSet(w)
    <3>1. j - lo \in DOMAIN w /\ w[j - lo] = s[j]
      BY <1>2, <1>4, <2>2
    <3>. QED
      BY <3>1 DEF ToSet
  <2>. QED
    BY <2>1, <2>2
<1>6. ASSUME NEW k \in 1 .. m, NEW l \in 1 .. m, k < l PROVE Earlier(w[k], w[l])
  <2>1. lo + k < lo + l /\ lo + k \in DOMAIN s /\ lo + l \in DOMAIN s
    BY <1>1, <1>3, <1>6
  <2>. QED
    BY <1>2, <2>1
<1>. QED
  BY <1>2, <1>5, <1>6 DEF w

\* The sliced scan finds what a scan of everything would.
LEMMA CopyDeleteFinds ==
  ASSUME NEW events, Timeline(events)
  PROVE  /\ RunRule("copy-delete", Inputs(events)) \in Seq(Finding)
         /\ PairsOf("copy-delete", events, ToSet(RunRule("copy-delete", Inputs(events))))
         /\ \A a \in Anchors("copy-delete", events) : IsEvent(a)
         /\ \A a \in Anchors("copy-delete", events) :
               \A c \in Consequents("copy-delete", a, events) : IsEvent(c)
<1> DEFINE evs == Inputs(events)
           code == "copy-delete"
           deletes == OfType(evs, "FileDelete")
           creates == OfType(evs, "FileCreate")
           S == {e \in ToSet(creates) : e.ts > 0}
           sorted == ByTime(S)
           ts == [i \in DOMAIN sorted |-> sorted[i].ts]
           lo(d) == PartitionPoint(ts, d.ts - HalfHour)
           hi(d) == PartitionPoint(ts, d.ts + HalfHour + 1)
           window(d) == SubSeq(sorted, lo(d) + 1, hi(d))
           Q(d) == {i \in DOMAIN window(d) : /\ d.host = window(d)[i].host
                                             /\ CopyGuards(d.path, window(d)[i].path)}
           best(d) == Nearest(d, window(d), Q(d))
           fired(d) == IF d.ts <= 0 \/ best(d) = <<>> THEN <<>> ELSE <<Pair(code, d, best(d)[1])>>
           all == [i \in DOMAIN deletes |-> fired(deletes[i])]
           C(a) == Consequents(code, a, events)
<1>1. RunRule(code, evs) = FlattenSeq(all)
  <2>1. RunRule(code, evs) = CopyDeletePairs(deletes, creates)
    BY DEF RunRule
  <2>2. CopyDeletePairs(deletes, creates) = FlattenSeq(all)
    <3> HIDE DEF deletes, creates
    <3>. QED
      BY DEF CopyDeletePairs
  <2>. QED
    BY <2>1, <2>2
<1>2. /\ Readable(evs)
      /\ ToSet(evs) = {e \in ToSet(events) : ~ MemoryRow(e)} \cup ToSet(BurstAnchors(events))
      /\ \A b \in ToSet(BurstAnchors(events)) : b.type = Burst
  BY InputsAreReadable, BurstAnchorFacts
<1>3. \A e \in ToSet(evs) : IsEvent(e) /\ e.ts >= 1
  BY <1>2 DEF Readable
<1>4. /\ deletes \in Seq(ToSet(deletes))
      /\ ToSet(deletes) = {e \in ToSet(evs) : e.type = "FileDelete"}
  BY <1>2, OfTypeFacts
<1>5. /\ creates \in Seq(ToSet(creates))
      /\ ToSet(creates) = {e \in ToSet(evs) : e.type = "FileCreate"}
  BY <1>2, OfTypeFacts
<1>6. /\ Anchors(code, events) = ToSet(deletes)
      /\ \A a : C(a) = {c \in ToSet(creates) :
                          Dist(a, c) <= HalfHour /\ a.host = c.host /\ CopyGuards(a.path, c.path)}
  BY DEF Anchors, Consequents
<1>7. HalfHour \in Nat
  BY WindowsAssumption
<1> HIDE DEF evs, deletes, creates
<1>8. S = ToSet(creates) /\ \A c \in ToSet(creates) : IsEvent(c)
  <2>1. \A c \in ToSet(creates) : IsEvent(c) /\ c.ts >= 1 /\ c.ts \in Int
    BY <1>3, <1>5 DEF IsEvent
  <2>. QED
    BY <2>1
<1>9. Timed(S)
  <2>1. IsFiniteSet(ToSet(creates))
    BY <1>5, ElementsFinite
  <2>2. \A e \in ToSet(creates) : e \in ToSet(events)
    BY <1>2, <1>5 DEF Burst
  <2>3. \A e, f \in ToSet(creates) : e.id = f.id => e = f
    BY <2>2 DEF Timeline
  <2>. QED
    BY <1>8, <2>1, <2>3 DEF Timed, IsEvent
<1> HIDE DEF S
<1>10. /\ sorted \in Seq(S) /\ ToSet(sorted) = S
       /\ \A k, l \in DOMAIN sorted : k < l => Earlier(sorted[k], sorted[l])
  BY <1>9, ByTimeInOrder
<1> HIDE DEF sorted
<1>11. Len(sorted) \in Nat /\ DOMAIN sorted = 1 .. Len(sorted) /\ \A i \in DOMAIN sorted : sorted[i] \in S
  BY <1>10
<1>12. /\ ts \in [1 .. Len(sorted) -> Int]
       /\ \A i, j \in 1 .. Len(sorted) : i < j => ts[i] <= ts[j]
  <2>1. \A i \in DOMAIN sorted : sorted[i].ts \in Int
    BY <1>9, <1>11 DEF Timed
  <2>. QED
    BY <1>10, <1>11, <2>1 DEF Earlier
<1>13. ASSUME NEW d \in ToSet(deletes)
       PROVE  /\ window(d) \in Seq(S)
              /\ ToSet(window(d)) = {c \in S : Dist(d, c) <= HalfHour}
              /\ \A k, l \in DOMAIN window(d) : k < l => Earlier(window(d)[k], window(d)[l])
  <2>1. d.ts \in Int /\ d.ts - HalfHour \in Int /\ d.ts + HalfHour + 1 \in Int
    BY <1>3, <1>4, <1>7 DEF IsEvent
  <2>2. /\ lo(d) \in 0 .. Len(sorted) /\ hi(d) \in 0 .. Len(sorted)
        /\ \A i \in 1 .. Len(sorted) : ts[i] < d.ts - HalfHour <=> i <= lo(d)
        /\ \A i \in 1 .. Len(sorted) : ts[i] < d.ts + HalfHour + 1 <=> i <= hi(d)
    <3> HIDE DEF ts
    <3>. QED
      BY <1>11, <1>12, <2>1, PartitionIsPrefix
  <2> DEFINE l == lo(d)
             h == hi(d)
  <2> HIDE DEF l, h
  <2>3. /\ SubSeq(sorted, l + 1, h) \in Seq(S)
        /\ ToSet(SubSeq(sorted, l + 1, h)) = {sorted[i] : i \in {j \in DOMAIN sorted : l < j /\ j <= h}}
        /\ \A k, m \in DOMAIN SubSeq(sorted, l + 1, h) :
              k < m => Earlier(SubSeq(sorted, l + 1, h)[k], SubSeq(sorted, l + 1, h)[m])
    <3>1. l \in 0 .. Len(sorted) /\ h \in 0 .. Len(sorted)
      BY <2>2 DEF l, h
    <3>. QED
      BY <1>10, <3>1, Slice
  <2>4. \A i \in DOMAIN sorted : l < i /\ i <= h <=> Dist(d, sorted[i]) <= HalfHour
    <3> SUFFICES ASSUME NEW i \in 1 .. Len(sorted)
                 PROVE  l < i /\ i <= h <=> Dist(d, sorted[i]) <= HalfHour
      BY <1>11
    <3>1. ts[i] = sorted[i].ts /\ ts[i] \in Int
      BY <1>11, <1>12
    <3>2. l \in Nat /\ h \in Nat
      BY <1>11, <2>2 DEF l, h
    <3>3. ts[i] < d.ts - HalfHour <=> i <= l
      BY <2>2 DEF l
    <3>4. ts[i] < d.ts + HalfHour + 1 <=> i <= h
      BY <2>2 DEF h
    <3> HIDE DEF ts
    <3>5. Dist(d, sorted[i]) <= HalfHour <=> ~ (ts[i] < d.ts - HalfHour) /\ ts[i] < d.ts + HalfHour + 1
      BY <1>7, <2>1, <3>1 DEF Dist
    <3>. QED
      BY <1>11, <3>2, <3>3, <3>4, <3>5
  <2>5. {sorted[i] : i \in {j \in DOMAIN sorted : l < j /\ j <= h}} = {c \in S : Dist(d, c) <= HalfHour}
    <3>1. \A c \in S : \E i \in DOMAIN sorted : c = sorted[i]
      BY <1>10 DEF ToSet
    <3>. QED
      BY <1>11, <2>4, <3>1
  <2>6. window(d) = SubSeq(sorted, l + 1, h)
    BY DEF l, h
  <2> HIDE DEF window
  <2>. QED
    BY <2>3, <2>5, <2>6
<1> HIDE DEF window, ts
<1>14. \A a \in ToSet(deletes) : IsEvent(a) /\ a.ts \in Int /\ a.ts > 0
  <2>1. \A a \in ToSet(deletes) : IsEvent(a) /\ a.ts >= 1
    BY <1>3, <1>4
  <2>. QED
    BY <2>1 DEF IsEvent
<1>15. ASSUME NEW d \in ToSet(deletes)
       PROVE  /\ C(d) = {} => best(d) = <<>>
              /\ C(d) # {} => \E c \in NearestTo(d, C(d)) : best(d) = <<c>>
  <2> DEFINE w == window(d)
             P == Q(d)
  <2>1. /\ w \in Seq(S) /\ ToSet(w) = {c \in S : Dist(d, c) <= HalfHour}
        /\ \A k, l \in DOMAIN w : k < l => Earlier(w[k], w[l])
    BY <1>13
  <2>2. P \in SUBSET (1 .. Len(w))
    BY <2>1
  <2>3. C(d) = {w[q] : q \in P}
    <3>1. \A c \in ToSet(w) : \E i \in DOMAIN w : c = w[i]
      BY DEF ToSet
    <3>2. \A i \in DOMAIN w : w[i] \in ToSet(w)
      BY DEF ToSet
    <3>3. \A c : c \in C(d) <=> c \in ToSet(w) /\ d.host = c.host /\ CopyGuards(d.path, c.path)
      BY <1>6, <1>8, <2>1
    <3> HIDE DEF C, w
    <3>4. \A c : c \in C(d) <=> \E q \in DOMAIN w : /\ c = w[q] /\ d.host = w[q].host
                                                  /\ CopyGuards(d.path, w[q].path)
      BY <3>1, <3>2, <3>3
    <3>. QED
      BY <3>4 DEF w
  <2>4. P = {} <=> C(d) = {}
    BY <2>3
  <2>5. d.ts \in Int /\ \A c \in S : c.ts \in Int /\ c.id \in Nat
    BY <1>9, <1>14 DEF Timed
  <2>6. best(d) = Nearest(d, w, P)
    OBVIOUS
  <2> HIDE DEF w, P, best, C
  <2>7. /\ P = {} => Nearest(d, w, P) = <<>>
        /\ P # {} => \E c \in NearestTo(d, {w[q] : q \in P}) : Nearest(d, w, P) = <<c>>
    BY <2>1, <2>2, <2>5, FirstIsNearestTo
  <2>. QED
    BY <2>3, <2>4, <2>6, <2>7
<1> HIDE DEF best
<1>16. \A a : \A c \in C(a) : IsEvent(c)
  BY <1>6, <1>8
<1> HIDE DEF C
<1>17. ASSUME NEW a \in ToSet(deletes)
       PROVE  /\ fired(a) \in Seq(Finding)
              /\ \A f \in ToSet(fired(a)) : \E c \in NearestTo(a, C(a)) : f = Pair(code, a, c)
              /\ C(a) # {} => \E c \in NearestTo(a, C(a)) : Pair(code, a, c) \in ToSet(fired(a))
  <2>1. ~ (a.ts <= 0)
    BY <1>14
  <2>2. CASE C(a) = {}
    <3>1. fired(a) = <<>> /\ ToSet(<<>>) = {} /\ <<>> \in Seq(Finding)
      BY <1>15, <2>2 DEF ToSet
    <3>. QED
      BY <2>2, <3>1
  <2>3. CASE C(a) # {}
    <3>1. PICK c \in NearestTo(a, C(a)) : best(a) = <<c>>
      BY <1>15, <2>3
    <3> DEFINE f == Pair(code, a, c)
    <3>2. <<c>> # <<>> /\ <<c>>[1] = c
      OBVIOUS
    <3>3. fired(a) = <<f>>
      BY <2>1, <3>1, <3>2
    <3>4. c \in C(a) /\ IsEvent(a) /\ IsEvent(c) /\ code \in Code
      BY <1>14, <1>16, <3>1 DEF NearestTo, Code
    <3>5. f \in Finding
      BY <3>4, PairIsFinding
    <3> HIDE DEF f, fired
    <3>6. fired(a) \in Seq(Finding) /\ ToSet(fired(a)) = {f}
      BY <3>3, <3>5, Single
    <3>. QED
      BY <3>1, <3>6 DEF f
  <2>. QED
    BY <2>2, <2>3
<1>18. DOMAIN deletes = 1 .. Len(deletes) /\ Len(deletes) \in Nat
  BY <1>4
<1>19. \A i \in DOMAIN deletes : deletes[i] \in ToSet(deletes)
  BY DEF ToSet
<1>20. all \in [1 .. Len(deletes) -> Seq(Finding)] /\ \A i \in DOMAIN deletes : all[i] = fired(deletes[i])
  BY <1>17, <1>18, <1>19
<1> HIDE DEF all, fired
<1>21. /\ FlattenSeq(all) \in Seq(Finding)
       /\ ToSet(FlattenSeq(all)) = UNION {ToSet(all[i]) : i \in 1 .. Len(deletes)}
  BY <1>18, <1>20, FlattenIsSequence
<1> DEFINE F == ToSet(FlattenSeq(all))
<1>22. F = UNION {ToSet(fired(deletes[i])) : i \in DOMAIN deletes}
  BY <1>18, <1>20, <1>21
<1> HIDE DEF F
<1>23. \A f \in F : \E a \in ToSet(deletes) : \E c \in NearestTo(a, C(a)) : f = Pair(code, a, c)
  <2> SUFFICES ASSUME NEW f \in F
               PROVE  \E a \in ToSet(deletes) : \E c \in NearestTo(a, C(a)) : f = Pair(code, a, c)
    OBVIOUS
  <2>1. PICK i \in DOMAIN deletes : f \in ToSet(fired(deletes[i]))
    BY <1>22
  <2>. QED
    BY <1>17, <1>19, <2>1
<1>24. ASSUME NEW a \in ToSet(deletes), NEW c \in NearestTo(a, C(a))
       PROVE  \E f \in F : \E d \in NearestTo(a, C(a)) : f = Pair(code, a, d) /\ d.id = c.id
  <2>1. PICK i \in DOMAIN deletes : a = deletes[i]
    BY DEF ToSet
  <2>2. c \in C(a)
    BY <1>24 DEF NearestTo
  <2>3. PICK d \in NearestTo(a, C(a)) : Pair(code, a, d) \in ToSet(fired(a))
    BY <1>17, <2>2
  <2>4. a.ts \in Int /\ \A x \in C(a) : x.ts \in Int /\ x.id \in Nat
    BY <1>14, <1>16 DEF IsEvent
  <2>5. d.id = c.id
    BY <2>3, <2>4, NearestToIsOne
  <2>6. Pair(code, a, d) \in F
    BY <1>22, <2>1, <2>3
  <2>. QED
    BY <2>3, <2>5, <2>6
<1>25. PairsOf(code, events, F)
  BY <1>6, <1>23, <1>24 DEF PairsOf, C
<1>. QED
  BY <1>1, <1>6, <1>14, <1>16, <1>21, <1>25 DEF F, C, evs

-------------------------------------------------------------------------------
\* The rules over groups of connections.

\* The rows a table holds, the fronts of bursts aside, are told apart by their ids.
LEMMA RowsAreTimed ==
  ASSUME NEW events, Timeline(events),
         NEW S \in SUBSET {e \in ToSet(Inputs(events)) : e.type # Burst}
  PROVE  Timed(S) /\ \A e \in S : IsEvent(e)
<1>1. /\ Readable(Inputs(events))
      /\ ToSet(Inputs(events)) = {e \in ToSet(events) : ~ MemoryRow(e)} \cup ToSet(BurstAnchors(events))
      /\ \A b \in ToSet(BurstAnchors(events)) : b.type = Burst
  BY InputsAreReadable, BurstAnchorFacts
<1>2. IsFiniteSet(ToSet(Inputs(events)))
  BY <1>1, ElementsFinite DEF Readable
<1>3. \A e \in S : e \in ToSet(Inputs(events)) /\ e \in ToSet(events)
  BY <1>1
<1>4. IsFiniteSet(S)
  BY <1>2, <1>3, FS_Subset
<1>5. \A e \in S : IsEvent(e)
  BY <1>1, <1>3 DEF Readable
<1>6. \A e, f \in S : e.id = f.id => e = f
  BY <1>3 DEF Timeline
<1>. QED
  BY <1>4, <1>5, <1>6 DEF Timed, IsEvent

LEMMA GroupIsFinding ==
  ASSUME NEW code \in Code, NEW E, \A e \in E : IsEvent(e),
         NEW conns \in Seq(E), conns # <<>>
  PROVE  Group(code, conns) \in Finding /\ Group(code, conns).code = code
<1> DEFINE members == [i \in DOMAIN conns |-> <<conns[i].id, "supporting">>]
<1>1. Len(conns) \in Nat /\ DOMAIN conns = 1 .. Len(conns) /\ Len(conns) > 0
  OBVIOUS
<1>2. \A i \in 1 .. Len(conns) : conns[i] \in E
  OBVIOUS
<1>3. \A i \in 1 .. Len(conns) : conns[i].id \in Nat /\ conns[i].ts \in Int
  BY <1>2 DEF IsEvent
<1>4. members \in [1 .. Len(conns) -> Nat \X Role]
  BY <1>1, <1>3 DEF Role
<1>5. members \in Seq(Nat \X Role)
  BY <1>1, <1>4, SequenceOf
<1> HIDE DEF members
<1>6. conns[1].ts \in Int /\ conns[Len(conns)].ts \in Int
  BY <1>1, <1>3
<1>7. Group(code, conns) =
         [code |-> code, members |-> members, first |-> conns[1].ts, last |-> conns[Len(conns)].ts]
  BY DEF Group, members
<1>. QED
  BY <1>5, <1>6, <1>7 DEF Finding

\* What the network rules group: some connections to an address, in order.
LEMMA ConnectionsAreEvents ==
  ASSUME NEW events, Timeline(events)
  PROVE  LET evs == Inputs(events)
             C == ToSet(Connections(evs))
         IN  /\ Connections(evs) \in Seq(C)
             /\ Timed(C) /\ \A e \in C : IsEvent(e)
             /\ IsFiniteSet(ToSet(evs))
             /\ IsFiniteSet(Destinations(Connections(evs)))
             /\ \A ip : /\ ConnectionsTo(evs, ip) \in Seq(C)
                        /\ ToSet(ConnectionsTo(evs, ip)) = {e \in C : ip \in Named(e, "ip")}
             /\ \A ip, h : OnHost(ConnectionsTo(evs, ip), h) \in Seq(C)
<1> DEFINE evs == Inputs(events)
           typed == OfType(evs, "NetworkConnect")
           P == {i \in DOMAIN typed : typed[i].ts > 0}
           conns == Connections(evs)
           C == ToSet(conns)
<1>1. Readable(evs)
  BY InputsAreReadable
<1>2. typed \in Seq(ToSet(typed)) /\ ToSet(typed) = {e \in ToSet(evs) : e.type = "NetworkConnect"}
  BY <1>1, OfTypeFacts
<1>3. conns = At(typed, P)
  BY DEF Connections, Where
<1> HIDE DEF evs, conns
<1>4. DOMAIN typed = 1 .. Len(typed) /\ P \in SUBSET (1 .. Len(typed))
  BY <1>2
<1>5. conns \in Seq(ToSet(typed)) /\ C = {typed[p] : p \in P}
  <2> HIDE DEF typed, P
  <2>. QED
    BY <1>2, <1>3, <1>4, AtIsSequence
<1>6. C \in SUBSET {e \in ToSet(evs) : e.type # Burst}
  <2>1. \A p \in P : typed[p] \in ToSet(typed)
    BY DEF ToSet
  <2>2. \A e \in ToSet(typed) : e \in ToSet(evs) /\ e.type # Burst
    BY <1>2 DEF Burst
  <2> HIDE DEF typed, P, C
  <2>. QED
    BY <1>5, <2>1, <2>2
<1> HIDE DEF typed, P
<1>7. Timed(C) /\ \A e \in C : IsEvent(e)
  BY <1>6, RowsAreTimed DEF evs
<1>8. conns \in Seq(C) /\ DOMAIN conns = 1 .. Len(conns) /\ Len(conns) \in Nat
      /\ \A i \in DOMAIN conns : conns[i] \in C
  <2>1. DOMAIN conns = 1 .. Len(conns) /\ Len(conns) \in Nat
    BY <1>5
  <2>2. \A i \in 1 .. Len(conns) : conns[i] \in C
    BY <2>1 DEF ToSet
  <2>3. conns \in [1 .. Len(conns) -> C]
    BY <1>5, <2>1, <2>2
  <2>. QED
    BY <2>1, <2>2, <2>3, SequenceOf
<1>9. IsFiniteSet(ToSet(evs))
  BY <1>1, ElementsFinite DEF Readable
<1> HIDE DEF C
<1>10. \A e \in C : IsFiniteSet(Named(e, "ip"))
  <2> SUFFICES ASSUME NEW e \in C PROVE IsFiniteSet(Named(e, "ip"))
    OBVIOUS
  <2>1. e.ents \in Seq(ToSet(e.ents))
    BY <1>7 DEF IsEvent
  <2>2. IsFiniteSet(ToSet(e.ents))
    BY <2>1, ElementsFinite
  <2>3. Named(e, "ip") \in SUBSET ToSet(e.ents)
    BY DEF Named
  <2>. QED
    BY <2>2, <2>3, FS_Subset
<1>11. IsFiniteSet(Destinations(conns))
  <2> DEFINE f == [i \in DOMAIN conns |-> Named(conns[i], "ip")]
             T == {f[i] : i \in DOMAIN conns}
  <2>1. IsFiniteSet(DOMAIN conns)
    BY <1>8, FS_Interval
  <2>2. IsFiniteSet(T)
    <3> HIDE DEF f
    <3>1. DOMAIN f = DOMAIN conns
      BY DEF f
    <3>. QED
      BY <2>1, <3>1, ImageIsFinite
  <2>3. \A t \in T : IsFiniteSet(t)
    BY <1>8, <1>10
  <2>4. Destinations(conns) = UNION T
    BY DEF Destinations
  <2> HIDE DEF T
  <2>. QED
    BY <2>2, <2>3, <2>4, FS_UNION
<1>12. ASSUME NEW ip
       PROVE  /\ ConnectionsTo(evs, ip) \in Seq(C)
              /\ ToSet(ConnectionsTo(evs, ip)) = {e \in C : ip \in Named(e, "ip")}
  <2> DEFINE S == {e \in C : ip \in Named(e, "ip")}
  <2>1. ConnectionsTo(evs, ip) = ByTime(S)
    BY DEF ConnectionsTo, C, conns
  <2>2. S \in SUBSET C
    OBVIOUS
  <2>3. Timed(S)
    BY <1>7, <2>2, FS_Subset DEF Timed
  <2> HIDE DEF S
  <2>4. ByTime(S) \in Seq(S) /\ ToSet(ByTime(S)) = S
    BY <2>3, ByTimeInOrder
  <2>5. ByTime(S) \in Seq(C)
    BY <2>2, <2>4
  <2>. QED
    BY <2>1, <2>4, <2>5 DEF S
<1>13. ASSUME NEW ip, NEW h PROVE OnHost(ConnectionsTo(evs, ip), h) \in Seq(C)
  <2> DEFINE s == ConnectionsTo(evs, ip)
             Q == {i \in DOMAIN s : s[i].host = h}
  <2>1. OnHost(s, h) = At(s, Q)
    BY DEF OnHost, Where
  <2>2. s \in Seq(C)
    BY <1>12
  <2> HIDE DEF s
  <2>3. Q \in SUBSET (1 .. Len(s))
    BY <2>2
  <2> HIDE DEF Q
  <2>4. At(s, Q) \in Seq(C)
    BY <2>2, <2>3, AtIsSequence
  <2>. QED
    BY <2>1, <2>4 DEF s
<1>. QED
  BY <1>7, <1>8, <1>9, <1>11, <1>12, <1>13 DEF conns, C, evs

\* Findings of one rule.
Of(code, s) == s \in Seq(Finding) /\ \A f \in ToSet(s) : f.code = code

LEMMA GroupsFound ==
  ASSUME NEW code \in Code, NEW E, \A e \in E : IsEvent(e),
         NEW G, IsFiniteSet(G), \A g \in G : g \in Seq(E) /\ g # <<>>
  PROVE  Of(code, SetToSeq({Group(code, g) : g \in G}))
<1> DEFINE f == [g \in G |-> Group(code, g)]
           F == {f[g] : g \in G}
<1>1. IsFiniteSet(F)
  <2>1. DOMAIN f = G
    OBVIOUS
  <2> HIDE DEF f
  <2>. QED
    BY <2>1, ImageIsFinite
<1>2. \A x \in F : x \in Finding /\ x.code = code
  BY GroupIsFinding
<1>3. F = {Group(code, g) : g \in G}
  OBVIOUS
<1> HIDE DEF F
<1>4. SetToSeq(F) \in Seq(F) /\ ToSet(SetToSeq(F)) = F
  BY <1>1, SetAsSequence
<1>5. SetToSeq(F) \in Seq(Finding)
  BY <1>2, <1>4
<1>. QED
  BY <1>2, <1>3, <1>4, <1>5 DEF Of

LEMMA SharedIocFinds ==
  ASSUME NEW events, Timeline(events)
  PROVE  Of("shared-ioc", SharedIoc(Inputs(events)))
<1> DEFINE evs == Inputs(events)
           C == ToSet(Connections(evs))
           hosts(ip) == {e.host : e \in ToSet(ConnectionsTo(evs, ip))}
           shared == {ip \in Destinations(Connections(evs)) :
                         Cardinality(hosts(ip)) >= 2 /\ ip \notin CloudIps}
           to == [ip \in shared |-> ConnectionsTo(evs, ip)]
           G == {to[ip] : ip \in shared}
<1>1. /\ \A e \in C : IsEvent(e)
      /\ IsFiniteSet(Destinations(Connections(evs)))
      /\ \A ip : ConnectionsTo(evs, ip) \in Seq(C)
  BY ConnectionsAreEvents
<1>2. SharedIoc(evs) = SetToSeq({Group("shared-ioc", ConnectionsTo(evs, ip)) : ip \in shared})
  BY DEF SharedIoc
<1> HIDE DEF evs, C
<1>3. \A ip \in shared : ConnectionsTo(evs, ip) # <<>>
  <2> SUFFICES ASSUME NEW ip \in shared, ConnectionsTo(evs, ip) = <<>> PROVE FALSE
    OBVIOUS
  <2>1. hosts(ip) = {}
    BY DEF ToSet
  <2>2. Cardinality(hosts(ip)) = 0
    BY <2>1, FS_EmptySet
  <2>. QED
    BY <2>2
<1>4. IsFiniteSet(shared)
  <2>1. shared \in SUBSET Destinations(Connections(evs))
    OBVIOUS
  <2> HIDE DEF shared
  <2>. QED
    BY <1>1, <2>1, FS_Subset
<1> HIDE DEF shared
<1>5. IsFiniteSet(G)
  <2>1. DOMAIN to = shared
    OBVIOUS
  <2> HIDE DEF to
  <2>. QED
    BY <1>4, <2>1, ImageIsFinite
<1>6. \A g \in G : g \in Seq(C) /\ g # <<>>
  BY <1>1, <1>3
<1>7. {Group("shared-ioc", ConnectionsTo(evs, ip)) : ip \in shared} = {Group("shared-ioc", g) : g \in G}
  OBVIOUS
<1> HIDE DEF G
<1>8. "shared-ioc" \in Code
  BY DEF Code
<1>9. Of("shared-ioc", SetToSeq({Group("shared-ioc", g) : g \in G}))
  BY <1>1, <1>5, <1>6, <1>8, GroupsFound
<1>. QED
  BY <1>2, <1>7, <1>9 DEF evs

LEMMA BeaconingFinds ==
  ASSUME NEW events, Timeline(events)
  PROVE  Of("beaconing", Beaconing(Inputs(events)))
<1> DEFINE evs == Inputs(events)
           C == ToSet(Connections(evs))
           D == Destinations(Connections(evs))
           H == {e.host : e \in ToSet(evs)}
           of == [k \in D \X H |-> OnHost(ConnectionsTo(evs, k[1]), k[2])]
           K == {of[k] : k \in D \X H}
           G == {c \in K \ {<<>>} : AssessPeriodicity(c)}
<1>1. /\ \A e \in C : IsEvent(e)
      /\ IsFiniteSet(D) /\ IsFiniteSet(ToSet(evs))
      /\ \A ip, h : OnHost(ConnectionsTo(evs, ip), h) \in Seq(C)
  BY ConnectionsAreEvents
<1>2. Beaconing(evs) = SetToSeq({Group("beaconing", g) : g \in G})
  <2> DEFINE on(ip, h) == OnHost(ConnectionsTo(evs, ip), h)
             L == {on(ip, h) : ip \in D, h \in H}
  <2>1. K = L
    <3>1. \A k \in D \X H : k[1] \in D /\ k[2] \in H /\ of[k] = on(k[1], k[2])
      OBVIOUS
    <3>2. \A ip \in D, h \in H : <<ip, h>> \in D \X H /\ of[<<ip, h>>] = on(ip, h)
      OBVIOUS
    <3> HIDE DEF D, H, of, on
    <3>3. K \subseteq L
      BY <3>1
    <3>4. L \subseteq K
      <4> SUFFICES ASSUME NEW x \in L PROVE x \in K
        OBVIOUS
      <4>2. PICK ip \in D, h \in H : x = on(ip, h)
        OBVIOUS
      <4> DEFINE k == <<ip, h>>
      <4>1. k \in D \X H /\ of[k] = on(ip, h)
        BY <3>2
      <4> HIDE DEF k
      <4>. QED
        BY <4>1, <4>2
    <3>. QED
      BY <3>3, <3>4
  <2> HIDE DEF K
  <2>. QED
    BY <2>1 DEF Beaconing, L
<1> HIDE DEF evs, C
<1>3. IsFiniteSet(H)
  <2> DEFINE f == [e \in ToSet(evs) |-> e.host]
  <2>1. DOMAIN f = ToSet(evs) /\ H = {f[e] : e \in ToSet(evs)}
    OBVIOUS
  <2> HIDE DEF f, H
  <2>. QED
    BY <1>1, <2>1, ImageIsFinite
<1> HIDE DEF D, H
<1>4. IsFiniteSet(D \X H)
  BY <1>1, <1>3, FS_Product
<1>5. IsFiniteSet(K)
  <2>1. DOMAIN of = D \X H
    OBVIOUS
  <2> HIDE DEF of
  <2>. QED
    BY <1>4, <2>1, ImageIsFinite
<1>6. \A g \in K : g \in Seq(C)
  BY <1>1
<1> HIDE DEF K
<1>7. G \in SUBSET K /\ \A g \in G : g \in Seq(C) /\ g # <<>>
  BY <1>6
<1> HIDE DEF G
<1>8. IsFiniteSet(G) /\ "beaconing" \in Code
  BY <1>5, <1>7, FS_Subset DEF Code
<1>. QED
  BY <1>1, <1>2, <1>7, <1>8, GroupsFound DEF evs

LEMMA NetworkRiskFinds ==
  ASSUME NEW events, Timeline(events)
  PROVE  Of("network-risk", NetworkRisk(Inputs(events)))
<1> DEFINE evs == Inputs(events)
           C == ToSet(Connections(evs))
           D == Destinations(Connections(evs))
           H == {e.host : e \in C}
           short == ShortLivedProcesses(evs)
           conns(h, ip) == OnHost(ConnectionsTo(evs, ip), h)
           signals(h, ip) ==
               {s \in {"beacon", "unknown", "short"} :
                  \/ s = "beacon" /\ AssessPeriodicity(conns(h, ip))
                  \/ s = "unknown" /\ ip \notin CloudIps
                  \/ s = "short" /\ \E e \in ToSet(conns(h, ip)) :
                                       \E p \in Named(e, "proc") : <<h, p>> \in short}
           keys == {<<e.host, ip>> : e \in C, ip \in D}
           risky == {k \in keys : /\ conns(k[1], k[2]) # <<>>
                                  /\ Cardinality(signals(k[1], k[2])) >= 2}
           of == [k \in risky |-> conns(k[1], k[2])]
           G == {of[k] : k \in risky}
<1>1. /\ Timed(C) /\ \A e \in C : IsEvent(e)
      /\ IsFiniteSet(D)
      /\ \A h, ip : conns(h, ip) \in Seq(C)
  BY ConnectionsAreEvents
<1>2. NetworkRisk(evs) = SetToSeq({Group("network-risk", conns(k[1], k[2])) : k \in risky})
  BY DEF NetworkRisk
<1> HIDE DEF evs, C, D, conns, signals, short
<1>3. IsFiniteSet(H)
  <2> DEFINE f == [e \in C |-> e.host]
  <2>1. DOMAIN f = C /\ H = {f[e] : e \in C} /\ IsFiniteSet(C)
    BY <1>1 DEF Timed
  <2> HIDE DEF f, H
  <2>. QED
    BY <2>1, ImageIsFinite
<1>4. IsFiniteSet(H \X D)
  BY <1>1, <1>3, FS_Product
<1>5. risky \in SUBSET (H \X D) /\ \A k \in risky : conns(k[1], k[2]) # <<>>
  OBVIOUS
<1> HIDE DEF H, risky
<1>6. IsFiniteSet(risky)
  BY <1>4, <1>5, FS_Subset
<1>7. IsFiniteSet(G)
  <2>1. DOMAIN of = risky
    OBVIOUS
  <2> HIDE DEF of
  <2>. QED
    BY <1>6, <2>1, ImageIsFinite
<1>8. \A g \in G : g \in Seq(C) /\ g # <<>>
  BY <1>1, <1>5
<1>9. {Group("network-risk", conns(k[1], k[2])) : k \in risky} = {Group("network-risk", g) : g \in G}
  OBVIOUS
<1> HIDE DEF G
<1>10. "network-risk" \in Code
  BY DEF Code
<1>11. Of("network-risk", SetToSeq({Group("network-risk", g) : g \in G}))
  BY <1>1, <1>7, <1>8, <1>10, GroupsFound
<1>. QED
  BY <1>2, <1>9, <1>11 DEF evs

-------------------------------------------------------------------------------
\* The memory rules.

\* A finite set of times has an earliest and a latest.
LEMMA Extremes ==
  ASSUME NEW T \in SUBSET Int, IsFiniteSet(T), T # {}
  PROVE  /\ \E t \in T : \A u \in T : t <= u
         /\ \E t \in T : \A u \in T : t >= u
<1> DEFINE R == {p \in Int \X Int : p[1] < p[2]}
           Q == {p \in Int \X Int : p[1] > p[2]}
<1>1. Orders(R, T) /\ Orders(Q, T)
  BY DEF Orders
<1>2. \A x, y \in T : (<<x, y>> \in R <=> x < y) /\ (<<x, y>> \in Q <=> x > y)
  OBVIOUS
<1> HIDE DEF R, Q
<1>3. Cardinality(T) \in Nat /\ Cardinality(T) # 0
  BY FS_EmptySet, FS_CardinalityType
<1>4. 1 \in 1 .. Cardinality(T) /\ 1 - 1 = 0
  BY <1>3
<1>5. PICK t \in T : Cardinality(Before(R, T, t)) = 0
  <2>1. \A k \in 1 .. Cardinality(T) : \E x \in T : Cardinality(Before(R, T, x)) = k - 1
    BY <1>1, EveryRank
  <2>. QED
    BY <1>4, <2>1
<1>6. PICK v \in T : Cardinality(Before(Q, T, v)) = 0
  <2>1. \A k \in 1 .. Cardinality(T) : \E x \in T : Cardinality(Before(Q, T, x)) = k - 1
    BY <1>1, EveryRank
  <2>. QED
    BY <1>4, <2>1
<1>7. Before(R, T, t) = {} /\ Before(Q, T, v) = {}
  <2>1. Before(R, T, t) \in SUBSET T /\ Before(Q, T, v) \in SUBSET T
    BY DEF Before
  <2>. QED
    BY <1>5, <1>6, <2>1, FS_Subset, FS_EmptySet
<1>8. \A u \in T : ~ (u < t) /\ ~ (u > v)
  BY <1>2, <1>7 DEF Before
<1>. QED
  BY <1>8

\* A finding of these rows in these roles.
IsFiring(f, code, events, roles) ==
    /\ f \in Finding /\ f.code = code
    /\ f.members = [i \in 1 .. Len(events) |-> <<events[i].id, roles[i]>>]

LEMMA MemoryIsFinding ==
  ASSUME NEW code \in Code, NEW E, \A e \in E : IsEvent(e),
         NEW events \in Seq(E), events # <<>>, NEW roles \in Seq(Role), Len(roles) = Len(events)
  PROVE  IsFiring(MemoryFiring(code, events, roles), code, events, roles)
<1> DEFINE members == [i \in 1 .. Len(events) |-> <<events[i].id, roles[i]>>]
           T == {r.ts : r \in ToSet(events)}
<1>1. /\ Len(events) \in Nat /\ DOMAIN events = 1 .. Len(events) /\ Len(events) > 0
      /\ \A i \in 1 .. Len(events) : events[i] \in E /\ roles[i] \in Role
  OBVIOUS
<1>2. members \in [1 .. Len(events) -> Nat \X Role]
  BY <1>1 DEF IsEvent
<1>3. members \in Seq(Nat \X Role)
  BY <1>1, <1>2, SequenceOf
<1> HIDE DEF members
<1>4. IsFiniteSet(ToSet(events)) /\ ToSet(events) \in SUBSET E
  BY ElementsFinite
<1>5. IsFiniteSet(T)
  <2> DEFINE g == [r \in ToSet(events) |-> r.ts]
  <2>1. DOMAIN g = ToSet(events) /\ T = {g[r] : r \in ToSet(events)}
    OBVIOUS
  <2> HIDE DEF g, T
  <2>. QED
    BY <1>4, <2>1, ImageIsFinite
<1>6. T \in SUBSET Int /\ T # {}
  <2>1. events[1] \in ToSet(events)
    BY <1>1 DEF ToSet
  <2>. QED
    BY <1>4, <2>1 DEF IsEvent
<1> HIDE DEF T
<1>7. Earliest(ToSet(events)) \in Int /\ Latest(ToSet(events)) \in Int
  <2>1. /\ Earliest(ToSet(events)) = CHOOSE t \in T : \A u \in T : t <= u
        /\ Latest(ToSet(events)) = CHOOSE t \in T : \A u \in T : t >= u
    BY DEF Earliest, Latest, T
  <2>2. /\ \E t \in T : \A u \in T : t <= u
        /\ \E t \in T : \A u \in T : t >= u
    BY <1>5, <1>6, Extremes
  <2>. QED
    BY <1>6, <2>1, <2>2
<1>8. MemoryFiring(code, events, roles) =
         [code |-> code, members |-> members,
          first |-> Earliest(ToSet(events)), last |-> Latest(ToSet(events))]
  BY <1>1 DEF MemoryFiring, members
<1>. QED
  BY <1>3, <1>7, <1>8 DEF Finding, members, IsFiring

\* Findings of an anchor with each of its hits.
LEMMA PairWithEach ==
  ASSUME NEW code \in Code, NEW E, \A e \in E : IsEvent(e), NEW a \in E, NEW hits \in Seq(E)
  PROVE  Of(code, [i \in DOMAIN hits |-> MemoryFiring(code, <<a, hits[i]>>, PairRoles)])
<1> DEFINE s == [i \in DOMAIN hits |-> MemoryFiring(code, <<a, hits[i]>>, PairRoles)]
<1>1. Len(hits) \in Nat /\ DOMAIN hits = 1 .. Len(hits) /\ \A i \in 1 .. Len(hits) : hits[i] \in E
  OBVIOUS
<1>2. PairRoles \in Seq(Role) /\ Len(PairRoles) = 2
  BY DEF PairRoles, Role
<1>3. ASSUME NEW i \in 1 .. Len(hits) PROVE s[i] \in Finding /\ s[i].code = code
  <2> DEFINE two == <<a, hits[i]>>
  <2>1. two \in Seq(E) /\ two # <<>> /\ Len(two) = 2
    BY <1>1
  <2>2. s[i] = MemoryFiring(code, two, PairRoles)
    BY <1>1
  <2> HIDE DEF two, s
  <2>3. Len(PairRoles) = Len(two)
    BY <1>2, <2>1
  <2> DEFINE f == MemoryFiring(code, two, PairRoles)
  <2>4. IsFiring(f, code, two, PairRoles)
    BY <1>2, <2>1, <2>3, MemoryIsFinding
  <2>. QED
    BY <2>2, <2>4 DEF IsFiring
<1>4. DOMAIN s = 1 .. Len(hits)
  BY <1>1
<1> HIDE DEF s
<1>5. s \in Seq(Finding)
  <2>1. s \in [1 .. Len(hits) -> Finding]
    BY <1>3, <1>4 DEF s
  <2>. QED
    BY <1>1, <2>1, SequenceOf
<1>6. \A f \in ToSet(s) : f.code = code
  BY <1>3, <1>4 DEF ToSet
<1>. QED
  BY <1>5, <1>6 DEF Of, s

LEMMA FlattenFindings ==
  ASSUME NEW n \in Nat, NEW s \in [1 .. n -> Seq(Finding)]
  PROVE  /\ FlattenSeq(s) \in Seq(Finding)
         /\ ToSet(FlattenSeq(s)) = UNION {ToSet(s[i]) : i \in 1 .. n}
BY FlattenIsSequence, Zenon

LEMMA FlattenOf ==
  ASSUME NEW code, NEW n \in Nat, NEW s, DOMAIN s = 1 .. n, s = [i \in 1 .. n |-> s[i]],
         \A i \in 1 .. n : Of(code, s[i])
  PROVE  Of(code, FlattenSeq(s))
<1>1. s \in [1 .. n -> Seq(Finding)]
  BY DEF Of
<1>2. /\ FlattenSeq(s) \in Seq(Finding)
      /\ ToSet(FlattenSeq(s)) = UNION {ToSet(s[i]) : i \in 1 .. n}
  BY <1>1, FlattenFindings
<1>. QED
  BY <1>2 DEF Of

\* What an anchor makes with the rows of a sequence that suit it.
LEMMA InjectedC2Finds ==
  ASSUME NEW E, \A e \in E : IsEvent(e), NEW mem \in Seq(E)
  PROVE  Of("injected-c2", InjectedC2Pairs(mem))
<1> DEFINE I == {i \in DOMAIN mem : mem[i].type = "MemoryInjection"}
           injections == At(mem, I)
           N == {i \in DOMAIN mem : IsEstablishedExternal(mem[i])}
           conns == At(mem, N)
           H(inj) == {i \in DOMAIN conns : inj.host = conns[i].host /\ SharesProcess(inj, conns[i])}
           hits(inj) == At(conns, H(inj))
           fired(inj) == [i \in DOMAIN hits(inj) |->
                             MemoryFiring("injected-c2", <<inj, hits(inj)[i]>>, PairRoles)]
           all == [i \in DOMAIN injections |-> fired(injections[i])]
<1>1. InjectedC2Pairs(mem) = FlattenSeq(all)
  BY DEF InjectedC2Pairs, OfType, Where
<1>2. I \in SUBSET (1 .. Len(mem)) /\ N \in SUBSET (1 .. Len(mem))
  OBVIOUS
<1> HIDE DEF I, N
<1>3. injections \in Seq(E) /\ conns \in Seq(E)
  BY <1>2, AtIsSequence
<1> HIDE DEF injections, conns
<1>4. ASSUME NEW inj \in E PROVE Of("injected-c2", fired(inj))
  <2>1. H(inj) \in SUBSET (1 .. Len(conns))
    BY <1>3
  <2> HIDE DEF H
  <2>2. hits(inj) \in Seq(E)
    BY <1>3, <2>1, AtIsSequence
  <2>3. "injected-c2" \in Code
    BY DEF Code
  <2> HIDE DEF hits
  <2>. QED
    BY <2>2, <2>3, PairWithEach
<1> HIDE DEF fired
<1>5. /\ Len(injections) \in Nat /\ DOMAIN all = 1 .. Len(injections)
      /\ all = [i \in 1 .. Len(injections) |-> all[i]]
      /\ \A i \in 1 .. Len(injections) : Of("injected-c2", all[i])
  BY <1>3, <1>4
<1> HIDE DEF all
<1>. QED
  BY <1>1, <1>5, FlattenOf

LEMMA DiskFileFinds ==
  ASSUME NEW E, \A e \in E : IsEvent(e), NEW mem \in Seq(E), NEW disk \in Seq(E)
  PROVE  Of("disk-file-running", ProcDiskMatches(mem, disk))
<1> DEFINE X == {i \in DOMAIN mem : mem[i].type = "ProcessExec"}
           execs == At(mem, X)
           P == {i \in DOMAIN execs : ProcessNames(execs[i]) # <<>>}
           procs == At(execs, P)
           N == {i \in DOMAIN disk : disk[i].type = "FileCreate" /\ ~ MemoryRow(disk[i])}
           creates == At(disk, N)
           H(p) == {i \in DOMAIN creates : creates[i].path.stem = ImageStem(p)}
           hits(p) == At(creates, H(p))
           fired(p) == [i \in DOMAIN hits(p) |->
                           MemoryFiring("disk-file-running", <<p, hits(p)[i]>>, PairRoles)]
           all == [i \in DOMAIN procs |-> fired(procs[i])]
<1>1. ProcDiskMatches(mem, disk) = FlattenSeq(all)
  BY DEF ProcDiskMatches, OfType, Where
<1>2. X \in SUBSET (1 .. Len(mem)) /\ N \in SUBSET (1 .. Len(disk))
  OBVIOUS
<1> HIDE DEF X, N
<1>3. execs \in Seq(E) /\ creates \in Seq(E)
  BY <1>2, AtIsSequence
<1> HIDE DEF execs, creates
<1>4. P \in SUBSET (1 .. Len(execs))
  BY <1>3
<1> HIDE DEF P
<1>5. procs \in Seq(E)
  BY <1>3, <1>4, AtIsSequence
<1> HIDE DEF procs
<1>6. ASSUME NEW p \in E PROVE Of("disk-file-running", fired(p))
  <2>1. H(p) \in SUBSET (1 .. Len(creates))
    BY <1>3
  <2> HIDE DEF H
  <2>2. hits(p) \in Seq(E)
    BY <1>3, <2>1, AtIsSequence
  <2>3. "disk-file-running" \in Code
    BY DEF Code
  <2> HIDE DEF hits
  <2>. QED
    BY <2>2, <2>3, PairWithEach
<1> HIDE DEF fired
<1>7. /\ Len(procs) \in Nat /\ DOMAIN all = 1 .. Len(procs)
      /\ all = [i \in 1 .. Len(procs) |-> all[i]]
      /\ \A i \in 1 .. Len(procs) : Of("disk-file-running", all[i])
  BY <1>5, <1>6
<1> HIDE DEF all
<1>. QED
  BY <1>1, <1>7, FlattenOf

-------------------------------------------------------------------------------
\* Migration chains.

Migrations == {"proc-migration", "proc-migration-degraded"}

\* The rows at the positions of those in T are the rows in T.
LEMMA AtSelects ==
  ASSUME NEW S, NEW s \in Seq(S), NEW T, NEW P \in SUBSET (DOMAIN s),
         \A i \in DOMAIN s : i \in P <=> s[i] \in T
  PROVE  /\ At(s, P) \in Seq(S) /\ ToSet(At(s, P)) = ToSet(s) \cap T
         /\ At(s, P) = <<>> <=> ToSet(s) \cap T = {}
<1>1. P \in SUBSET (1 .. Len(s)) /\ DOMAIN s = 1 .. Len(s)
  OBVIOUS
<1>2. {s[p] : p \in P} = ToSet(s) \cap T
  BY DEF ToSet
<1>3. P = {} <=> {s[p] : p \in P} = {}
  OBVIOUS
<1>4. /\ At(s, P) \in Seq(S) /\ ToSet(At(s, P)) = {s[p] : p \in P}
      /\ At(s, P) = <<>> <=> P = {}
  BY <1>1, AtIsSequence
<1>. QED
  BY <1>2, <1>3, <1>4

\* What is found of each row, flattened, is what is found of any of them.
LEMMA FlattenEach ==
  ASSUME NEW X, NEW s \in Seq(X), NEW g \in [X -> Seq(Finding)],
         NEW all \in [DOMAIN s -> Seq(Finding)], \A i \in DOMAIN s : all[i] = g[s[i]]
  PROVE  /\ FlattenSeq(all) \in Seq(Finding)
         /\ \A f : f \in ToSet(FlattenSeq(all)) <=> \E x \in ToSet(s) : f \in ToSet(g[x])
<1> DEFINE n == Len(s)
<1>1. n \in Nat /\ DOMAIN s = 1 .. n
  OBVIOUS
<1>2. all \in [1 .. n -> Seq(Finding)] /\ \A i \in 1 .. n : all[i] = g[s[i]]
  BY <1>1
<1>3. \A x : x \in ToSet(s) <=> \E i \in 1 .. n : x = s[i]
  BY <1>1 DEF ToSet
<1> HIDE DEF n
<1>4. /\ FlattenSeq(all) \in Seq(Finding)
      /\ ToSet(FlattenSeq(all)) = UNION {ToSet(all[i]) : i \in 1 .. n}
  BY <1>1, <1>2, FlattenFindings
<1>5. \A f : f \in ToSet(FlattenSeq(all)) <=> \E i \in 1 .. n : f \in ToSet(all[i])
  BY <1>4
<1>6. ASSUME NEW f
      PROVE  (\E i \in 1 .. n : f \in ToSet(all[i])) <=> \E x \in ToSet(s) : f \in ToSet(g[x])
  <2>1. ASSUME NEW i \in 1 .. n, f \in ToSet(all[i])
        PROVE  \E x \in ToSet(s) : f \in ToSet(g[x])
    <3>1. s[i] \in ToSet(s) /\ f \in ToSet(g[s[i]])
      BY <1>2, <1>3, <2>1
    <3>. QED
      BY <3>1
  <2>2. ASSUME NEW x \in ToSet(s), f \in ToSet(g[x])
        PROVE  \E i \in 1 .. n : f \in ToSet(all[i])
    <3>1. PICK i \in 1 .. n : x = s[i]
      BY <1>3
    <3>2. all[i] = g[x]
      BY <1>2, <3>1
    <3>. QED
      BY <2>2, <3>2
  <2>. QED
    BY <2>1, <2>2
<1>. QED
  BY <1>4, <1>5, <1>6

Memory(events) == Where(events, MemoryRow)

LEMMA MemoryRows ==
  ASSUME NEW events, Timeline(events)
  PROVE  /\ Memory(events) \in Seq(ToSet(events))
         /\ ToSet(Memory(events)) = {e \in ToSet(events) : MemoryRow(e)}
<1> DEFINE E == ToSet(events)
           T == {e \in E : MemoryRow(e)}
           P == {i \in DOMAIN events : MemoryRow(events[i])}
<1>1. events \in Seq(E) /\ Memory(events) = At(events, P)
  BY DEF Timeline, Memory, Where
<1>2. P \in SUBSET (DOMAIN events) /\ \A i \in DOMAIN events : i \in P <=> events[i] \in T
  BY DEF ToSet
<1>3. ToSet(events) \cap T = T
  OBVIOUS
<1> HIDE DEF T, E, P
<1>4. At(events, P) \in Seq(E) /\ ToSet(At(events, P)) = ToSet(events) \cap T
  BY <1>1, <1>2, AtSelects
<1>. QED
  BY <1>1, <1>2, <1>3, <1>4 DEF T, E

\* The rows of one type, and the processes, of a dump.
LEMMA RowsOfType ==
  ASSUME NEW events, Timeline(events), NEW type
  PROVE  LET s == OfType(Memory(events), type)
         IN s \in Seq(ToSet(events)) /\ ToSet(s) = Dumped(type, events)
<1> DEFINE E == ToSet(events)
           mem == Memory(events)
           T == {e \in E : e.type = type}
           P == {i \in DOMAIN mem : mem[i].type = type}
<1>1. mem \in Seq(E) /\ ToSet(mem) = {e \in E : MemoryRow(e)}
  BY MemoryRows
<1>2. OfType(mem, type) = At(mem, P)
  BY DEF OfType, Where
<1> HIDE DEF mem
<1>3. P \in SUBSET (DOMAIN mem) /\ \A i \in DOMAIN mem : i \in P <=> mem[i] \in T
  BY <1>1
<1>4. ToSet(mem) \cap T = Dumped(type, events)
  BY <1>1 DEF Dumped
<1> HIDE DEF T, E, P
<1>5. At(mem, P) \in Seq(E) /\ ToSet(At(mem, P)) = ToSet(mem) \cap T
  BY <1>1, <1>3, AtSelects
<1>. QED
  BY <1>1, <1>2, <1>3, <1>4, <1>5 DEF E, mem

LEMMA ProcessRows ==
  ASSUME NEW events, Timeline(events), NEW h
  PROVE  LET s == ProcRows(Memory(events), h)
         IN s \in Seq(ToSet(events)) /\ ToSet(s) = Processes(h, events)
<1> DEFINE E == ToSet(events)
           listed == OfType(Memory(events), "ProcessExec")
           T == {e \in E : e.host = h /\ NoValue \notin {e.pid, e.ppid, e.threads}}
           P == {i \in DOMAIN listed :
                   /\ listed[i].host = h
                   /\ NoValue \notin {listed[i].pid, listed[i].ppid, listed[i].threads}}
<1>1. listed \in Seq(E) /\ ToSet(listed) = Dumped("ProcessExec", events)
  BY RowsOfType
<1>2. ProcRows(Memory(events), h) = At(listed, P)
  BY DEF ProcRows, Where
<1> HIDE DEF listed
<1>3. P \in SUBSET (DOMAIN listed) /\ \A i \in DOMAIN listed : i \in P <=> listed[i] \in T
  BY <1>1
<1>4. ToSet(listed) \cap T = Processes(h, events)
  BY <1>1 DEF Dumped, Processes
<1> HIDE DEF T, E, P
<1>5. At(listed, P) \in Seq(E) /\ ToSet(At(listed, P)) = ToSet(listed) \cap T
  BY <1>1, <1>3, AtSelects
<1>. QED
  BY <1>1, <1>2, <1>3, <1>4, <1>5 DEF E

LEMMA OrphanRows ==
  ASSUME NEW events, Timeline(events), NEW h
  PROVE  LET s == DeadOrphans(Memory(events), h)
         IN  /\ s \in Seq(ToSet(events))
             /\ ToSet(s) = {d \in Processes(h, events) :
                              d.threads = 0 /\ \A p \in Processes(h, events) : p.pid # d.ppid}
<1> DEFINE E == ToSet(events)
           listed == ProcRows(Memory(events), h)
           pids == {p.pid : p \in ToSet(listed)}
           T == {e \in E : e.threads = 0 /\ e.ppid \notin pids}
           P == {i \in DOMAIN listed : listed[i].threads = 0 /\ listed[i].ppid \notin pids}
<1>1. listed \in Seq(E) /\ ToSet(listed) = Processes(h, events)
  BY ProcessRows
<1>2. DeadOrphans(Memory(events), h) = At(listed, P)
  BY DEF DeadOrphans, Where
<1> HIDE DEF listed
<1>3. P \in SUBSET (DOMAIN listed) /\ \A i \in DOMAIN listed : i \in P <=> listed[i] \in T
  BY <1>1
<1>4. ToSet(listed) \cap T
        = {d \in Processes(h, events) : d.threads = 0 /\ \A p \in Processes(h, events) : p.pid # d.ppid}
  <2>1. Processes(h, events) \subseteq E
    BY DEF Processes, Dumped
  <2>2. \A d : d.ppid \notin pids <=> \A p \in Processes(h, events) : p.pid # d.ppid
    BY <1>1
  <2> HIDE DEF pids, E
  <2>. QED
    BY <1>1, <2>1, <2>2
<1> HIDE DEF T, E, P, pids
<1>5. At(listed, P) \in Seq(E) /\ ToSet(At(listed, P)) = ToSet(listed) \cap T
  BY <1>1, <1>3, AtSelects
<1>. QED
  BY <1>1, <1>2, <1>3, <1>4, <1>5 DEF E

LEMMA InjectionRows ==
  ASSUME NEW events, Timeline(events), NEW h
  PROVE  LET s == LiveInjections(Memory(events), h)
         IN  /\ s \in Seq(ToSet(events))
             /\ ToSet(s) = {i \in Dumped("MemoryInjection", events) :
                              /\ i.host = h
                              /\ \E p \in Processes(h, events) : p.pid = i.pid /\ p.threads > 0}
<1> DEFINE E == ToSet(events)
           listed == OfType(Memory(events), "MemoryInjection")
           live == {p.pid : p \in {q \in ToSet(ProcRows(Memory(events), h)) : q.threads > 0}}
           T == {e \in E : e.host = h /\ e.pid \in live}
           P == {i \in DOMAIN listed : listed[i].host = h /\ listed[i].pid \in live}
<1>1. listed \in Seq(E) /\ ToSet(listed) = Dumped("MemoryInjection", events)
  BY RowsOfType
<1>2. LiveInjections(Memory(events), h) = At(listed, P)
  BY DEF LiveInjections, Where
<1>3. ToSet(ProcRows(Memory(events), h)) = Processes(h, events)
  BY ProcessRows
<1> HIDE DEF listed
<1>4. P \in SUBSET (DOMAIN listed) /\ \A i \in DOMAIN listed : i \in P <=> listed[i] \in T
  BY <1>1
<1>5. ToSet(listed) \cap T
        = {i \in Dumped("MemoryInjection", events) :
             i.host = h /\ \E p \in Processes(h, events) : p.pid = i.pid /\ p.threads > 0}
  <2>1. Dumped("MemoryInjection", events) \subseteq E
    BY DEF Dumped
  <2>2. \A i : i.pid \in live <=> \E p \in Processes(h, events) : p.pid = i.pid /\ p.threads > 0
    BY <1>3
  <2> HIDE DEF live, E
  <2>. QED
    BY <1>1, <2>1, <2>2
<1> HIDE DEF T, E, P, live
<1>6. At(listed, P) \in Seq(E) /\ ToSet(At(listed, P)) = ToSet(listed) \cap T
  BY <1>1, <1>4, AtSelects
<1>. QED
  BY <1>1, <1>2, <1>4, <1>5, <1>6 DEF E

LEMMA SocketRows ==
  ASSUME NEW events, Timeline(events), NEW p
  PROVE  LET s == ConnectionsOf(Memory(events), p.host, p.pid)
         IN s \in Seq(ToSet(events)) /\ ToSet(s) = Sockets(p, events)
<1> DEFINE E == ToSet(events)
           listed == OfType(Memory(events), "NetworkConnect")
           T == {e \in E : e.host = p.host /\ e.pid = p.pid /\ Named(e, "ip") # {}}
           P == {i \in DOMAIN listed : /\ listed[i].host = p.host /\ listed[i].pid = p.pid
                                       /\ Named(listed[i], "ip") # {}}
<1>1. listed \in Seq(E) /\ ToSet(listed) = Dumped("NetworkConnect", events)
  BY RowsOfType
<1>2. ConnectionsOf(Memory(events), p.host, p.pid) = At(listed, P)
  BY DEF ConnectionsOf, Where
<1> HIDE DEF listed
<1>3. P \in SUBSET (DOMAIN listed) /\ \A i \in DOMAIN listed : i \in P <=> listed[i] \in T
  BY <1>1
<1>4. ToSet(listed) \cap T = Sockets(p, events)
  BY <1>1 DEF Dumped, Sockets
<1> HIDE DEF T, E, P
<1>5. At(listed, P) \in Seq(E) /\ ToSet(At(listed, P)) = ToSet(listed) \cap T
  BY <1>1, <1>3, AtSelects
<1>. QED
  BY <1>1, <1>2, <1>3, <1>4, <1>5 DEF E

\* A chain of four rows, or of three: its members and its code.
ChainFrom(f, d, i) ==
    /\ f \in Finding /\ f.code \in Migrations
    /\ f.members[1][1] = d.id /\ f.members[2][1] = i.id

LEMMA StrongMembers ==
  ASSUME NEW E, \A e \in E : IsEvent(e), NEW d \in E, NEW i \in E, NEW c \in E, NEW s \in E
  PROVE  LET f == StrongChain(d, i, c, s)
         IN  /\ ChainFrom(f, d, i) /\ f.code = "proc-migration"
             /\ f.members[Len(f.members)][1] = c.id /\ f.members[3][1] = s.id
<1> DEFINE listed == <<d, i, s, c>>
           roles == <<"anchor", "consequent", "supporting", "supporting">>
           f == MemoryFiring("proc-migration", listed, roles)
<1>1. /\ listed \in Seq(E) /\ listed # <<>> /\ Len(listed) = 4
      /\ listed[1] = d /\ listed[2] = i /\ listed[3] = s /\ listed[4] = c
  OBVIOUS
<1>2. roles \in Seq(Role) /\ Len(roles) = 4
  BY DEF Role
<1>3. "proc-migration" \in Code
  BY DEF Code
<1>4. StrongChain(d, i, c, s) = f
  BY DEF StrongChain
<1> HIDE DEF listed, roles
<1>5. IsFiring(f, "proc-migration", listed, roles)
  <2>1. Len(roles) = Len(listed)
    BY <1>1, <1>2
  <2>. QED
    BY <1>1, <1>2, <1>3, <2>1, MemoryIsFinding
<1> HIDE DEF f
<1>6. /\ f \in Finding /\ f.code = "proc-migration"
      /\ f.members = [k \in 1 .. 4 |-> <<listed[k].id, roles[k]>>]
  BY <1>1, <1>5 DEF IsFiring
<1>7. f.members \in Seq(Nat \X Role)
  BY <1>6 DEF Finding
<1>8. Len(f.members) = 4
  BY <1>6, <1>7
<1>. QED
  BY <1>1, <1>4, <1>6, <1>8 DEF ChainFrom, Migrations

LEMMA DegradedMembers ==
  ASSUME NEW E, \A e \in E : IsEvent(e), NEW d \in E, NEW i \in E, NEW c \in E
  PROVE  LET f == DegradedChain(d, i, c)
         IN  /\ ChainFrom(f, d, i) /\ f.code = "proc-migration-degraded"
             /\ f.members[Len(f.members)][1] = c.id
<1> DEFINE listed == <<d, i, c>>
           roles == <<"anchor", "consequent", "supporting">>
           f == MemoryFiring("proc-migration-degraded", listed, roles)
<1>1. /\ listed \in Seq(E) /\ listed # <<>> /\ Len(listed) = 3
      /\ listed[1] = d /\ listed[2] = i /\ listed[3] = c
  OBVIOUS
<1>2. roles \in Seq(Role) /\ Len(roles) = 3
  BY DEF Role
<1>3. "proc-migration-degraded" \in Code
  BY DEF Code
<1>4. DegradedChain(d, i, c) = f
  BY DEF DegradedChain
<1> HIDE DEF listed, roles
<1>5. IsFiring(f, "proc-migration-degraded", listed, roles)
  <2>1. Len(roles) = Len(listed)
    BY <1>1, <1>2
  <2>. QED
    BY <1>1, <1>2, <1>3, <2>1, MemoryIsFinding
<1> HIDE DEF f
<1>6. /\ f \in Finding /\ f.code = "proc-migration-degraded"
      /\ f.members = [k \in 1 .. 3 |-> <<listed[k].id, roles[k]>>]
  BY <1>1, <1>5 DEF IsFiring
<1>7. f.members \in Seq(Nat \X Role)
  BY <1>6 DEF Finding
<1>8. Len(f.members) = 3
  BY <1>6, <1>7
<1>. QED
  BY <1>1, <1>4, <1>6, <1>8 DEF ChainFrom, Migrations

\* The scan of a live process's sockets ends with a chain if and only if one of
\* them ties it to the dead process, and the chain shows why.
LEMMA ChainIsOfTied ==
  ASSUME NEW events, Timeline(events),
         NEW d \in ToSet(events), NEW i \in ToSet(events), i.host = d.host
  PROVE  LET s == ChainOf(Memory(events), d.host, d, i)
         IN  /\ s \in Seq(Finding)
             /\ \A f \in ToSet(s) :
                   f.code \in Migrations /\ i.pid # d.pid /\ Shows(f, d, i, events)
             /\ i.pid # d.pid /\ Tied(d, i, events) => ToSet(s) # {}
<1> DEFINE E == ToSet(events)
           of == ConnectionsOf(Memory(events), d.host, d.pid)
           mine == ConnectionsOf(Memory(events), d.host, i.pid)
           W(c) == {r \in E : RemoteEndpoint(r) = RemoteEndpoint(c)}
           V(c) == {k \in DOMAIN of : RemoteEndpoint(of[k]) = RemoteEndpoint(c)}
           deadConns(c) == At(of, V(c))
           yields(c) == deadConns(c) # <<>> \/ SameImageStem(d, i)
           Y == {c \in E : yields(c)}
           Z == {k \in DOMAIN mine : yields(mine[k])}
           hits == At(mine, Z)
           s == ChainOf(Memory(events), d.host, d, i)
<1>1. s = IF i.pid = d.pid \/ hits = <<>> THEN <<>>
          ELSE IF deadConns(hits[1]) # <<>>
          THEN <<StrongChain(d, i, hits[1], deadConns(hits[1])[1])>>
          ELSE <<DegradedChain(d, i, hits[1])>>
  BY DEF ChainOf, Where
<1>2. /\ of \in Seq(E) /\ ToSet(of) = Sockets(d, events)
      /\ mine \in Seq(E) /\ ToSet(mine) = Sockets(i, events)
  BY SocketRows
<1>3. \A e \in E : IsEvent(e)
  BY DEF Timeline
<1>4. Sockets(d, events) \subseteq E /\ Sockets(i, events) \subseteq E
  BY DEF Sockets, Dumped
<1> HIDE DEF of, mine, s, E
<1>5. ASSUME NEW c \in E
      PROVE  /\ deadConns(c) \in Seq(E)
             /\ ToSet(deadConns(c)) = {r \in Sockets(d, events) : RemoteEndpoint(r) = RemoteEndpoint(c)}
             /\ deadConns(c) # <<>> <=> Meets(d, c, events)
  <2>1. V(c) \in SUBSET (DOMAIN of) /\ \A k \in DOMAIN of : k \in V(c) <=> of[k] \in W(c)
    BY <1>2
  <2>2. ToSet(of) \cap W(c) = {r \in Sockets(d, events) : RemoteEndpoint(r) = RemoteEndpoint(c)}
    BY <1>2, <1>4
  <2> HIDE DEF V, W
  <2>3. /\ deadConns(c) \in Seq(E) /\ ToSet(deadConns(c)) = ToSet(of) \cap W(c)
        /\ deadConns(c) = <<>> <=> ToSet(of) \cap W(c) = {}
    BY <1>2, <2>1, AtSelects
  <2> HIDE DEF deadConns
  <2>. QED
    BY <2>2, <2>3 DEF Meets
<1> HIDE DEF deadConns
<1>6. /\ hits \in Seq(E)
      /\ ToSet(hits) = {c \in Sockets(i, events) : Meets(d, c, events) \/ SameImageStem(d, i)}
      /\ hits = <<>> <=> ~Tied(d, i, events)
  <2>1. Z \in SUBSET (DOMAIN mine) /\ \A k \in DOMAIN mine : k \in Z <=> mine[k] \in Y
    BY <1>2
  <2>2. ToSet(mine) \cap Y = {c \in Sockets(i, events) : Meets(d, c, events) \/ SameImageStem(d, i)}
    BY <1>2, <1>4, <1>5
  <2> HIDE DEF Y, Z
  <2>3. /\ hits \in Seq(E) /\ ToSet(hits) = ToSet(mine) \cap Y
        /\ hits = <<>> <=> ToSet(mine) \cap Y = {}
    BY <1>2, <2>1, AtSelects
  <2> HIDE DEF hits
  <2>. QED
    BY <2>2, <2>3 DEF Tied
<1> HIDE DEF hits
<1>7. ASSUME NEW f, s = <<f>>, f \in Finding, f.code \in Migrations, i.pid # d.pid, Shows(f, d, i, events)
      PROVE  /\ s \in Seq(Finding)
             /\ \A g \in ToSet(s) : g.code \in Migrations /\ i.pid # d.pid /\ Shows(g, d, i, events)
             /\ ToSet(s) # {}
  <2>1. ToSet(s) = {f}
    BY <1>7, Single
  <2>2. s \in Seq(Finding)
    BY <1>7
  <2>. QED
    BY <1>7, <2>1, <2>2
<1>8. CASE i.pid = d.pid \/ hits = <<>>
  <2>1. s = <<>>
    BY <1>1, <1>8
  <2>2. s \in Seq(Finding) /\ ToSet(s) = {}
    BY <2>1 DEF ToSet
  <2>. QED
    BY <1>6, <1>8, <2>2 DEF s
<1>9. CASE i.pid # d.pid /\ hits # <<>>
  <2> DEFINE c == hits[1]
  <2>1. c \in ToSet(hits) /\ c \in E
    BY <1>6, <1>9 DEF ToSet
  <2>2. c \in Sockets(i, events) /\ (Meets(d, c, events) \/ SameImageStem(d, i))
    BY <1>6, <2>1
  <2>3. s = IF deadConns(c) # <<>> THEN <<StrongChain(d, i, c, deadConns(c)[1])>>
            ELSE <<DegradedChain(d, i, c)>>
    BY <1>1, <1>9
  <2> HIDE DEF c
  <2>4. CASE deadConns(c) # <<>>
    <3> DEFINE r == deadConns(c)[1]
               f == StrongChain(d, i, c, r)
    <3>1. r \in ToSet(deadConns(c)) /\ r \in E
      BY <1>5, <2>1, <2>4 DEF ToSet
    <3>2. r \in Sockets(d, events) /\ RemoteEndpoint(r) = RemoteEndpoint(c)
      BY <1>5, <2>1, <3>1
    <3>3. s = <<f>>
      BY <2>3, <2>4
    <3> HIDE DEF r
    <3>4. /\ ChainFrom(f, d, i) /\ f.code = "proc-migration"
          /\ f.members[Len(f.members)][1] = c.id /\ f.members[3][1] = r.id
      <4>1. d \in E /\ i \in E
        BY DEF E
      <4>. QED
        BY <1>3, <2>1, <3>1, <4>1, StrongMembers
    <3> HIDE DEF f
    <3>5. f \in Finding /\ f.code \in Migrations /\ Shows(f, d, i, events)
      BY <2>2, <3>2, <3>4 DEF ChainFrom, Shows
    <3>. QED
      BY <1>7, <1>9, <3>3, <3>5 DEF s
  <2>5. CASE deadConns(c) = <<>>
    <3> DEFINE f == DegradedChain(d, i, c)
    <3>1. ~Meets(d, c, events) /\ SameImageStem(d, i)
      BY <1>5, <2>1, <2>2, <2>5
    <3>2. s = <<f>>
      BY <2>3, <2>5
    <3>3. /\ ChainFrom(f, d, i) /\ f.code = "proc-migration-degraded"
          /\ f.members[Len(f.members)][1] = c.id
      <4>1. d \in E /\ i \in E
        BY DEF E
      <4>. QED
        BY <1>3, <2>1, <4>1, DegradedMembers
    <3> HIDE DEF f
    <3>4. f \in Finding /\ f.code \in Migrations /\ Shows(f, d, i, events)
      BY <2>2, <3>1, <3>3 DEF ChainFrom, Shows
    <3>. QED
      BY <1>7, <1>9, <3>2, <3>4 DEF s
  <2>. QED
    BY <2>4, <2>5
<1>. QED
  BY <1>8, <1>9

\* All the chains: those of the migrations that a socket ties together.
LEMMA ChainsAreOfTied ==
  ASSUME NEW events, Timeline(events)
  PROVE  LET s == ProcMigrationChains(Memory(events))
         IN  /\ s \in Seq(Finding)
             /\ \A f \in ToSet(s) :
                   /\ f.code \in Migrations
                   /\ \E d, i \in ToSet(events) : Migrated(d, i, events) /\ Shows(f, d, i, events)
             /\ \A d, i \in ToSet(events) :
                   Migrated(d, i, events) /\ Tied(d, i, events)
                     => \E f \in ToSet(s) : Shows(f, d, i, events)
<1> DEFINE E == ToSet(events)
           mem == Memory(events)
           H == {e.host : e \in ToSet(mem)}
           hosts == SetToSeq(H)
           D(h) == DeadOrphans(mem, h)
           I(h) == LiveInjections(mem, h)
           perDead(h, d) == FlattenSeq([j \in DOMAIN I(h) |-> ChainOf(mem, h, d, I(h)[j])])
           perHost(h) == FlattenSeq([j \in DOMAIN D(h) |-> perDead(h, D(h)[j])])
           s == FlattenSeq([k \in DOMAIN hosts |-> perHost(hosts[k])])
<1>1. ProcMigrationChains(mem) = s
  BY DEF ProcMigrationChains
<1>2. /\ mem \in Seq(E) /\ ToSet(mem) = {e \in E : MemoryRow(e)}
  BY MemoryRows
<1>3. ASSUME NEW h
      PROVE  /\ D(h) \in Seq(ToSet(D(h))) /\ I(h) \in Seq(ToSet(I(h)))
             /\ \A d \in ToSet(D(h)), i \in ToSet(I(h)) :
                   /\ d \in E /\ i \in E /\ d.host = h /\ i.host = h
                   /\ d.pid # i.pid => Migrated(d, i, events)
             /\ \A d, i : Migrated(d, i, events) /\ d.host = h => d \in ToSet(D(h)) /\ i \in ToSet(I(h))
  <2>1. /\ D(h) \in Seq(E)
        /\ ToSet(D(h)) = {d \in Processes(h, events) :
                            d.threads = 0 /\ \A p \in Processes(h, events) : p.pid # d.ppid}
    BY OrphanRows
  <2>2. /\ I(h) \in Seq(E)
        /\ ToSet(I(h)) = {i \in Dumped("MemoryInjection", events) :
                            /\ i.host = h
                            /\ \E p \in Processes(h, events) : p.pid = i.pid /\ p.threads > 0}
    BY InjectionRows
  <2> HIDE DEF D, I
  <2>3. D(h) \in Seq(ToSet(D(h))) /\ I(h) \in Seq(ToSet(I(h)))
    BY <2>1, <2>2 DEF ToSet
  <2>4. /\ \A p \in Processes(h, events) : p \in E /\ p.host = h
        /\ \A i \in Dumped("MemoryInjection", events) : i \in E
    BY DEF Processes, Dumped
  <2>5. ASSUME NEW d \in ToSet(D(h)), NEW i \in ToSet(I(h))
        PROVE  d \in E /\ i \in E /\ d.host = h /\ i.host = h /\ (d.pid # i.pid => Migrated(d, i, events))
    <3>1. d \in Processes(h, events) /\ d \in E /\ d.host = h /\ i \in E /\ i.host = h
      BY <2>1, <2>2, <2>4
    <3> HIDE DEF E
    <3>. QED
      BY <2>1, <2>2, <3>1 DEF Migrated
  <2>6. ASSUME NEW d, NEW i, Migrated(d, i, events), d.host = h
        PROVE  d \in ToSet(D(h)) /\ i \in ToSet(I(h))
    BY <2>1, <2>2, <2>6 DEF Migrated
  <2>. QED
    BY <2>3, <2>5, <2>6
<1>4. ASSUME NEW h, NEW d \in ToSet(D(h)), NEW i \in ToSet(I(h))
      PROVE  /\ ChainOf(mem, h, d, i) \in Seq(Finding)
             /\ \A f \in ToSet(ChainOf(mem, h, d, i)) :
                   f.code \in Migrations /\ i.pid # d.pid /\ Shows(f, d, i, events)
             /\ i.pid # d.pid /\ Tied(d, i, events) => ToSet(ChainOf(mem, h, d, i)) # {}
  <2>1. d \in E /\ i \in E /\ d.host = h /\ i.host = h
    BY <1>3
  <2> HIDE DEF D, I
  <2>. QED
    BY <2>1, ChainIsOfTied
<1> HIDE DEF D, I, mem, H
<1>5. ASSUME NEW h, NEW d \in ToSet(D(h))
      PROVE  /\ perDead(h, d) \in Seq(Finding)
             /\ \A f : f \in ToSet(perDead(h, d))
                         <=> \E i \in ToSet(I(h)) : f \in ToSet(ChainOf(mem, h, d, i))
  <2> DEFINE g == [i \in ToSet(I(h)) |-> ChainOf(mem, h, d, i)]
             all == [j \in DOMAIN I(h) |-> ChainOf(mem, h, d, I(h)[j])]
  <2>1. g \in [ToSet(I(h)) -> Seq(Finding)] /\ \A i \in ToSet(I(h)) : g[i] = ChainOf(mem, h, d, i)
    BY <1>4
  <2>2. \A j \in DOMAIN I(h) : I(h)[j] \in ToSet(I(h))
    BY DEF ToSet
  <2>3. all \in [DOMAIN I(h) -> Seq(Finding)] /\ \A j \in DOMAIN I(h) : all[j] = g[I(h)[j]]
    BY <1>4, <2>2
  <2>4. I(h) \in Seq(ToSet(I(h)))
    BY <1>3
  <2>5. perDead(h, d) = FlattenSeq(all)
    OBVIOUS
  <2> HIDE DEF g, all
  <2>6. /\ FlattenSeq(all) \in Seq(Finding)
        /\ \A f : f \in ToSet(FlattenSeq(all)) <=> \E i \in ToSet(I(h)) : f \in ToSet(g[i])
    BY <2>1, <2>3, <2>4, FlattenEach
  <2> HIDE DEF perDead
  <2>. QED
    BY <2>1, <2>5, <2>6
<1> HIDE DEF perDead
<1>6. ASSUME NEW h
      PROVE  /\ perHost(h) \in Seq(Finding)
             /\ \A f : f \in ToSet(perHost(h)) <=> \E d \in ToSet(D(h)) : f \in ToSet(perDead(h, d))
  <2> DEFINE g == [d \in ToSet(D(h)) |-> perDead(h, d)]
             all == [j \in DOMAIN D(h) |-> perDead(h, D(h)[j])]
  <2>1. g \in [ToSet(D(h)) -> Seq(Finding)] /\ \A d \in ToSet(D(h)) : g[d] = perDead(h, d)
    BY <1>5
  <2>2. \A j \in DOMAIN D(h) : D(h)[j] \in ToSet(D(h))
    BY DEF ToSet
  <2>3. all \in [DOMAIN D(h) -> Seq(Finding)] /\ \A j \in DOMAIN D(h) : all[j] = g[D(h)[j]]
    BY <1>5, <2>2
  <2>4. D(h) \in Seq(ToSet(D(h)))
    BY <1>3
  <2>5. perHost(h) = FlattenSeq(all)
    OBVIOUS
  <2> HIDE DEF g, all
  <2>6. /\ FlattenSeq(all) \in Seq(Finding)
        /\ \A f : f \in ToSet(FlattenSeq(all)) <=> \E d \in ToSet(D(h)) : f \in ToSet(g[d])
    BY <2>1, <2>3, <2>4, FlattenEach
  <2> HIDE DEF perHost
  <2>. QED
    BY <2>1, <2>5, <2>6
<1> HIDE DEF perHost
<1>7. hosts \in Seq(H) /\ ToSet(hosts) = H
  <2> DEFINE g == [e \in ToSet(mem) |-> e.host]
  <2>1. DOMAIN g = ToSet(mem) /\ H = {g[e] : e \in ToSet(mem)} /\ IsFiniteSet(ToSet(mem))
    BY <1>2, ElementsFinite DEF H
  <2> HIDE DEF g
  <2>2. IsFiniteSet(H)
    BY <2>1, ImageIsFinite
  <2>. QED
    BY <2>2, SetAsSequence
<1> HIDE DEF hosts
<1>8. /\ s \in Seq(Finding)
      /\ \A f : f \in ToSet(s) <=> \E h \in H : f \in ToSet(perHost(h))
  <2> DEFINE g == [h \in H |-> perHost(h)]
             all == [k \in DOMAIN hosts |-> perHost(hosts[k])]
  <2>1. g \in [H -> Seq(Finding)] /\ \A h \in H : g[h] = perHost(h)
    BY <1>6
  <2>2. \A k \in DOMAIN hosts : hosts[k] \in H
    BY <1>7
  <2>3. all \in [DOMAIN hosts -> Seq(Finding)] /\ \A k \in DOMAIN hosts : all[k] = g[hosts[k]]
    BY <1>6, <2>2
  <2> HIDE DEF g, all
  <2>4. /\ FlattenSeq(all) \in Seq(Finding)
        /\ \A f : f \in ToSet(FlattenSeq(all)) <=> \E h \in ToSet(hosts) : f \in ToSet(g[h])
    BY <1>7, <2>1, <2>3, FlattenEach
  <2>. QED
    BY <1>7, <2>1, <2>4 DEF all
<1> HIDE DEF s
<1>9. \A f : f \in ToSet(s) <=>
         \E h \in H : \E d \in ToSet(D(h)), i \in ToSet(I(h)) : f \in ToSet(ChainOf(mem, h, d, i))
  <2>1. \A f : f \in ToSet(s) <=> \E h \in H : \E d \in ToSet(D(h)) : f \in ToSet(perDead(h, d))
    BY <1>6, <1>8
  <2>2. \A h : \A d \in ToSet(D(h)) : \A f :
           f \in ToSet(perDead(h, d)) <=> \E i \in ToSet(I(h)) : f \in ToSet(ChainOf(mem, h, d, i))
    BY <1>5
  <2>. QED
    BY <2>1, <2>2
<1>10. ASSUME NEW f \in ToSet(s)
       PROVE  /\ f.code \in Migrations
              /\ \E d, i \in E : Migrated(d, i, events) /\ Shows(f, d, i, events)
  <2>1. PICK h \in H : \E d \in ToSet(D(h)), i \in ToSet(I(h)) : f \in ToSet(ChainOf(mem, h, d, i))
    BY <1>9
  <2>2. PICK d \in ToSet(D(h)), i \in ToSet(I(h)) : f \in ToSet(ChainOf(mem, h, d, i))
    BY <2>1
  <2>3. f.code \in Migrations /\ i.pid # d.pid /\ Shows(f, d, i, events)
    BY <1>4, <2>2
  <2>4. d \in E /\ i \in E /\ Migrated(d, i, events)
    BY <1>3, <2>3
  <2>. QED
    BY <2>3, <2>4
<1>11. ASSUME NEW d \in E, NEW i \in E, Migrated(d, i, events), Tied(d, i, events)
       PROVE  \E f \in ToSet(s) : Shows(f, d, i, events)
  <2> DEFINE h == d.host
  <2>1. d \in ToSet(D(h)) /\ i \in ToSet(I(h)) /\ i.pid # d.pid
    BY <1>3, <1>11 DEF Migrated
  <2>2. d \in ToSet(mem)
    BY <1>2, <1>11 DEF Migrated, Processes, Dumped
  <2>3. h \in H
    BY <2>2 DEF H
  <2> HIDE DEF h
  <2>4. PICK f : f \in ToSet(ChainOf(mem, h, d, i)) /\ Shows(f, d, i, events)
    BY <1>4, <1>11, <2>1
  <2>. QED
    BY <1>9, <2>1, <2>3, <2>4
<1>. QED
  BY <1>1, <1>8, <1>10, <1>11 DEF mem, E

-------------------------------------------------------------------------------
\* All a pass finds.

DiskCodes == PairCodes \cup {"copy-delete", "beaconing", "network-risk", "shared-ioc"}

LEMMA RuleFinds ==
  ASSUME NEW events, Timeline(events), NEW code \in DiskCodes
  PROVE  Of(code, RunRule(code, Inputs(events)))
<1> DEFINE evs == Inputs(events)
           s == RunRule(code, evs)
<1>1. ASSUME s \in Seq(Finding), PairsOf(code, events, ToSet(s)) PROVE Of(code, s)
  <2>1. \A f \in ToSet(s) : f.code = code
    <3> HIDE DEF s
    <3>. QED
      BY <1>1 DEF PairsOf, Pair
  <2>. QED
    BY <1>1, <2>1 DEF Of
<1>2. CASE code \in PairCodes
  <2>1. s = RunPairRule(code, evs)
    BY <1>2 DEF RunRule, PairCodes
  <2>. QED
    BY <1>1, <1>2, <2>1, PairRuleFinds
<1>3. CASE code = "copy-delete"
  BY <1>1, <1>3, CopyDeleteFinds
<1>4. CASE code = "beaconing"
  BY <1>4, BeaconingFinds DEF RunRule
<1>5. CASE code = "network-risk"
  BY <1>5, NetworkRiskFinds DEF RunRule
<1>6. CASE code = "shared-ioc"
  BY <1>6, SharedIocFinds DEF RunRule
<1>. QED
  BY <1>2, <1>3, <1>4, <1>5, <1>6 DEF DiskCodes

\* The rules that scan the disk, one after another.
LEMMA DiskFinds ==
  ASSUME NEW events, Timeline(events)
  PROVE  LET s == FlattenSeq([i \in DOMAIN DiskRules |-> RunRule(DiskRules[i], Inputs(events))])
         IN  /\ s \in Seq(Finding)
             /\ \A f \in ToSet(s) : f.code \in DiskCodes
             /\ \A code \in DiskCodes :
                   {f \in ToSet(s) : f.code = code} = ToSet(RunRule(code, Inputs(events)))
<1> DEFINE found(code) == RunRule(code, Inputs(events))
           all == [i \in DOMAIN DiskRules |-> RunRule(DiskRules[i], Inputs(events))]
           s == FlattenSeq(all)
<1>1. /\ DOMAIN DiskRules = 1 .. 11
      /\ \A i \in 1 .. 11 : DiskRules[i] \in DiskCodes
      /\ \A code \in DiskCodes : \E i \in 1 .. 11 : DiskRules[i] = code
  <2>1. DOMAIN DiskRules = 1 .. 11
    BY DEF DiskRules
  <2>2. \A i \in 1 .. 11 : DiskRules[i] \in DiskCodes
    <3> SUFFICES ASSUME NEW i \in 1 .. 11 PROVE DiskRules[i] \in DiskCodes
      OBVIOUS
    <3>1. i \in {1, 2, 3, 4, 5, 6, 7, 8, 9, 10, 11}
      OBVIOUS
    <3>. QED
      BY <3>1 DEF DiskRules, DiskCodes, PairCodes
  <2>3. \A code \in DiskCodes :
           code \in {DiskRules[i] : i \in {1, 2, 3, 4, 5, 6, 7, 8, 9, 10, 11}}
    BY DEF DiskRules, DiskCodes, PairCodes
  <2>. QED
    BY <2>1, <2>2, <2>3
<1>2. \A code \in DiskCodes : Of(code, found(code))
  BY RuleFinds
<1>3. \A i \in 1 .. 11 : all[i] = found(DiskRules[i])
  BY <1>1
<1> HIDE DEF found
<1>4. all \in [1 .. 11 -> Seq(Finding)]
  <2>1. \A i \in 1 .. 11 : all[i] \in Seq(Finding)
    BY <1>1, <1>2, <1>3 DEF Of
  <2>2. DOMAIN all = 1 .. 11 /\ all = [i \in DOMAIN all |-> all[i]]
    BY <1>1
  <2> HIDE DEF all
  <2>. QED
    BY <2>1, <2>2
<1> HIDE DEF all
<1>5. s \in Seq(Finding) /\ ToSet(s) = UNION {ToSet(all[i]) : i \in 1 .. 11}
  BY <1>4, FlattenIsSequence
<1> HIDE DEF s
<1>6. ASSUME NEW f \in ToSet(s)
      PROVE  f.code \in DiskCodes /\ f \in ToSet(found(f.code))
  <2>1. PICK i \in 1 .. 11 : f \in ToSet(all[i])
    BY <1>5
  <2>2. DiskRules[i] \in DiskCodes /\ f \in ToSet(found(DiskRules[i]))
    BY <1>1, <1>3, <2>1
  <2>3. f.code = DiskRules[i]
    BY <1>2, <2>2 DEF Of
  <2>. QED
    BY <2>2, <2>3
<1>7. ASSUME NEW code \in DiskCodes
      PROVE  {f \in ToSet(s) : f.code = code} = ToSet(found(code))
  <2>1. PICK i \in 1 .. 11 : DiskRules[i] = code
    BY <1>1
  <2>2. ToSet(found(code)) \subseteq ToSet(s)
    BY <1>3, <1>5, <2>1
  <2>3. \A f \in ToSet(found(code)) : f.code = code
    BY <1>2 DEF Of
  <2>. QED
    BY <1>6, <2>2, <2>3
<1>. QED
  BY <1>5, <1>6, <1>7 DEF s, all, found

\* What a pass finds in a timeline: findings, those of each rule and the chains.
LEMMA PassFinds ==
  ASSUME NEW events, Timeline(events)
  PROVE  /\ AllFindings(events) \in Seq(Finding)
         /\ \A code \in DiskCodes :
               {f \in ToSet(AllFindings(events)) : f.code = code}
                  = ToSet(RunRule(code, Inputs(events)))
         /\ {f \in ToSet(AllFindings(events)) : f.code \in Migrations}
               = ToSet(ProcMigrationChains(Memory(events)))
<1> DEFINE memory == Memory(events)
           inputs == Inputs(events)
           E == ToSet(events)
           F == ToSet(events) \cup ToSet(inputs)
           disk == FlattenSeq([i \in DOMAIN DiskRules |-> RunRule(DiskRules[i], inputs)])
           c2 == InjectedC2Pairs(memory)
           running == ProcDiskMatches(memory, inputs)
           chains == ProcMigrationChains(memory)
           others == c2 \o running
           first == disk \o others
<1>1. AllFindings(events) = disk \o (c2 \o running \o chains)
  BY DEF AllFindings, RunMemoryRules, Inputs, Memory
<1>3. /\ events \in Seq(E) /\ \A e \in E : IsEvent(e) /\ e.ts >= 1
      /\ \A e, f \in E : e.id = f.id => e = f
      /\ \A k, l \in DOMAIN events : k < l => Earlier(events[k], events[l])
  BY DEF Timeline
<1>4. Readable(inputs)
  BY InputsAreReadable
<1>5. inputs \in Seq(ToSet(inputs)) /\ \A e \in F : IsEvent(e)
  BY <1>3, <1>4 DEF Readable
<1>6. disk \in Seq(Finding) /\ (\A f \in ToSet(disk) : f.code \in DiskCodes)
      /\ \A code \in DiskCodes :
            {f \in ToSet(disk) : f.code = code} = ToSet(RunRule(code, inputs))
  BY DiskFinds
<1> HIDE DEF memory, inputs, E, disk
<1>9. memory \in Seq(E)
  BY MemoryRows DEF E, memory
<1>10. memory \in Seq(F) /\ inputs \in Seq(F)
  BY <1>5, <1>9 DEF E
<1>11. chains \in Seq(Finding) /\ \A f \in ToSet(chains) : f.code \in Migrations
  BY ChainsAreOfTied DEF memory
<1> HIDE DEF F
<1>12. Of("injected-c2", c2) /\ Of("disk-file-running", running)
  BY <1>5, <1>10, InjectedC2Finds, DiskFileFinds
<1> HIDE DEF c2, running, chains
<1>13. /\ others \in Seq(Finding) /\ ToSet(others) = ToSet(c2) \cup ToSet(running)
  BY <1>12, ConcatIsBoth DEF Of
<1> HIDE DEF others
<1>14. first \in Seq(Finding) /\ ToSet(first) = ToSet(disk) \cup ToSet(others)
  BY <1>6, <1>13, ConcatIsBoth
<1>15. AllFindings(events) = first \o chains
  <2>1. chains \in Seq(Finding)
    BY <1>11
  <2>2. AllFindings(events) = disk \o (others \o chains)
    BY <1>1 DEF others
  <2> HIDE DEF first
  <2>3. \A x, y, z \in Seq(Finding) : x \o (y \o z) = (x \o y) \o z
    OBVIOUS
  <2>. QED
    BY <1>6, <1>13, <2>1, <2>2, <2>3 DEF first
<1> HIDE DEF first
<1>16. \A f \in ToSet(others) : f.code \in {"injected-c2", "disk-file-running"}
  BY <1>12, <1>13 DEF Of
<1>17. /\ \A code \in DiskCodes : code \notin Migrations /\ code \notin {"injected-c2", "disk-file-running"}
       /\ "injected-c2" \notin Migrations /\ "disk-file-running" \notin Migrations
  BY DEF DiskCodes, PairCodes, Migrations
<1>18. \A f \in ToSet(first) : f.code \notin Migrations
  BY <1>6, <1>14, <1>16, <1>17
<1>19. AllFindings(events) \in Seq(Finding)
       /\ ToSet(AllFindings(events)) = ToSet(first) \cup ToSet(chains)
  BY <1>11, <1>14, <1>15, ConcatIsBoth
<1>20. ASSUME NEW code \in DiskCodes
       PROVE  {f \in ToSet(AllFindings(events)) : f.code = code} = {f \in ToSet(disk) : f.code = code}
  <2>1. \A f \in ToSet(chains) : f.code # code
    BY <1>11, <1>17
  <2>2. \A f \in ToSet(others) : f.code # code
    BY <1>16, <1>17
  <2>. QED
    BY <1>14, <1>19, <2>1, <2>2
<1>21. \A code \in DiskCodes :
          {f \in ToSet(AllFindings(events)) : f.code = code} = ToSet(RunRule(code, inputs))
  BY <1>6, <1>20
<1>22. {f \in ToSet(AllFindings(events)) : f.code \in Migrations} = ToSet(chains)
  BY <1>11, <1>18, <1>19
<1>. QED
  BY <1>19, <1>21, <1>22 DEF inputs, chains, memory

-------------------------------------------------------------------------------
USE PassAssumption

\* A prefix agrees with the whole at each of its positions.
LEMMA PrefixIsPointwise ==
  ASSUME NEW S, NEW s \in Seq(S), NEW t \in Seq(S)
  PROVE  IsPrefix(s, t) <=> Len(s) <= Len(t) /\ \A i \in 1 .. Len(s) : s[i] = t[i]
<1> SUFFICES ASSUME Len(s) <= Len(t)
             PROVE  SubSeq(s, 1, Len(s)) = SubSeq(t, 1, Len(s))
                        <=> \A i \in 1 .. Len(s) : s[i] = t[i]
  BY DEF IsPrefix
<1> DEFINE u == SubSeq(t, 1, Len(s))
<1>1. SubSeq(s, 1, Len(s)) = s
  BY SubSeqFull
<1>2. /\ Len(s) \in Nat /\ Len(t) \in Nat
      /\ \A i \in 1 .. Len(s) : t[i] \in S
  OBVIOUS
<1>3. u \in Seq(S) /\ Len(u) = Len(s) /\ \A i \in 1 .. Len(s) : u[i] = t[i]
  BY <1>2, SubSeqProperties
<1> HIDE DEF u
<1>4. (\A i \in 1 .. Len(s) : s[i] = t[i]) => s = u
  BY <1>3, SeqEqual
<1>. QED
  BY <1>1, <1>3, <1>4 DEF u

\* The empty list is a prefix of any; a prefix that falls short may take the
\* next element; and one that is as long as the whole is the whole.
LEMMA PrefixGrows ==
  ASSUME NEW S, NEW s \in Seq(S), NEW t \in Seq(S)
  PROVE  /\ IsPrefix(<<>>, t)
         /\ IsPrefix(s, t) /\ Len(s) < Len(t) =>
                /\ t[Len(s) + 1] \in S
                /\ IsPrefix(Append(s, t[Len(s) + 1]), t)
         /\ IsPrefix(s, t) /\ ~ (Len(s) < Len(t)) => s = t
<1>1. IsPrefix(<<>>, t)
  <2>1. <<>> \in Seq(S) /\ Len(<<>>) = 0 /\ Len(t) \in Nat
    BY EmptySeq
  <2> DEFINE none == <<>>
  <2> HIDE DEF none
  <2>2. none \in Seq(S) /\ Len(none) = 0
    BY <2>1 DEF none
  <2>3. Len(none) <= Len(t) /\ \A i \in 1 .. Len(none) : none[i] = t[i]
    BY <2>1, <2>2
  <2>4. IsPrefix(none, t)
    BY <2>2, <2>3, PrefixIsPointwise
  <2>. QED
    BY <2>4 DEF none
<1>2. ASSUME IsPrefix(s, t), Len(s) < Len(t)
      PROVE  t[Len(s) + 1] \in S /\ IsPrefix(Append(s, t[Len(s) + 1]), t)
  <2> DEFINE u == Append(s, t[Len(s) + 1])
  <2>1. t[Len(s) + 1] \in S
    BY <1>2
  <2>2. /\ u \in Seq(S) /\ Len(u) = Len(s) + 1
        /\ \A i \in 1 .. Len(s) : u[i] = s[i]
        /\ u[Len(s) + 1] = t[Len(s) + 1]
    BY <2>1
  <2> HIDE DEF u
  <2>3. Len(u) <= Len(t) /\ \A i \in 1 .. Len(u) : u[i] = t[i]
    BY <1>2, <2>2, PrefixIsPointwise
  <2>4. IsPrefix(u, t)
    BY <2>2, <2>3, PrefixIsPointwise
  <2>. QED
    BY <2>1, <2>4 DEF u
<1>3. ASSUME IsPrefix(s, t), ~ (Len(s) < Len(t)) PROVE s = t
  <2>1. Len(s) = Len(t) /\ \A i \in 1 .. Len(s) : s[i] = t[i]
    BY <1>3, PrefixIsPointwise
  <2>. QED
    BY <2>1, SeqEqual
<1>. QED
  BY <1>1, <1>2, <1>3

PInv == PersistTypeOK /\ RowsArePrefix /\ LoopAgrees /\ OpenInPass

\* What the types say of one row and of what it is of.
LEMMA RowTypes ==
  ASSUME PersistTypeOK
  PROVE  /\ Len(rows) \in Nat /\ DOMAIN rows = 1 .. Len(rows) /\ Pass \in Nat
         /\ \A k \in 1 .. Len(rows) :
               rows[k].pass \in Nat /\ rows[k].nth \in Nat /\ rows[k].members \in Seq(Nat \X Role)
         /\ \A p \in 1 .. Pass :
               /\ firings[p] \in Seq(Finding)
               /\ Len(firings[p]) \in Nat /\ DOMAIN firings[p] = 1 .. Len(firings[p])
               /\ \A n \in 1 .. Len(firings[p]) : firings[p][n].members \in Seq(Nat \X Role)
<1>1. rows \in Seq(Row) /\ firings \in Seq(Seq(Finding))
  BY DEF PersistTypeOK
<1>2. \A k \in 1 .. Len(rows) : rows[k] \in Row
  BY <1>1
<1>3. \A p \in 1 .. Pass : firings[p] \in Seq(Finding)
  BY <1>1 DEF Pass
<1>4. \A p \in 1 .. Pass : \A n \in 1 .. Len(firings[p]) : firings[p][n] \in Finding
  BY <1>3
<1>5. \A f \in Finding : f.members \in Seq(Nat \X Role)
  BY DEF Finding
<1>6. Len(rows) \in Nat /\ DOMAIN rows = 1 .. Len(rows) /\ Pass \in Nat
  BY <1>1 DEF Pass
<1>7. \A k \in 1 .. Len(rows) :
        rows[k].pass \in Nat /\ rows[k].nth \in Nat /\ rows[k].members \in Seq(Nat \X Role)
  BY <1>2 DEF Row
<1>8. ASSUME NEW p \in 1 .. Pass
      PROVE  /\ Len(firings[p]) \in Nat /\ DOMAIN firings[p] = 1 .. Len(firings[p])
             /\ \A n \in 1 .. Len(firings[p]) : firings[p][n].members \in Seq(Nat \X Role)
  <2>1. firings[p] \in Seq(Finding)
    BY <1>3
  <2>. QED
    BY <2>1, <1>4, <1>5
<1>. QED
  BY <1>3, <1>6, <1>7, <1>8

\* A new pass begins: the rows are of earlier ones.
LEMMA BeginStep ==
  ASSUME PInv, NEW found \in Seq(Finding), Begin(found)
  PROVE  PInv'
<1> USE DEF PInv
<1>1. /\ phase' = "persist" /\ firings' = Append(firings, found) /\ stored' = 0
      /\ rows' = rows /\ open' = open /\ phase = "idle"
  BY DEF Begin
<1>2. PersistTypeOK'
  BY <1>1 DEF PersistTypeOK
<1>3. /\ Pass' = Pass + 1 /\ Pass \in Nat
      /\ \A p \in 1 .. Pass : firings'[p] = firings[p]
  BY <1>1 DEF PersistTypeOK, Pass
<1>4. RowsArePrefix'
  <2>1. \A k \in DOMAIN rows : rows[k].pass \in 1 .. Pass' /\ firings'[rows[k].pass] = firings[rows[k].pass]
    BY <1>3 DEF RowsArePrefix
  <2>. QED
    BY <1>1, <1>3, <2>1 DEF RowsArePrefix
<1>5. open' = FALSE
  BY <1>1 DEF OpenInPass, PersistTypeOK
<1>6. LoopAgrees'
  <2>1. found \in Seq(Finding) /\ firings'[Pass'] = found /\ Len(found) \in Nat
    BY <1>1, <1>3 DEF PersistTypeOK, Pass
  <2>2. Len(rows) > 0 => rows[Len(rows)].pass \in 1 .. Pass
    BY RowTypes DEF RowsArePrefix
  <2>. QED
    BY <1>1, <1>3, <1>5, <2>1, <2>2 DEF LoopAgrees
<1>7. OpenInPass'
  BY <1>5 DEF OpenInPass
<1>. QED
  BY <1>2, <1>4, <1>6, <1>7

\* A row is inserted after the pass's last one, which is complete.
LEMMA InsertRowStep ==
  ASSUME PInv, InsertRow
  PROVE  PInv'
<1> USE DEF PInv
<1> DEFINE n == Len(rows)
           new == [pass |-> Pass, nth |-> stored + 1, members |-> <<>>]
           found == firings[Pass][stored + 1].members
<1>1. /\ phase = "persist" /\ ~open /\ stored < Len(firings[Pass]) /\ stored' = stored + 1
      /\ rows' = Append(rows, new) /\ open' = (found # <<>>)
      /\ phase' = phase /\ firings' = firings
  BY DEF InsertRow
<1>2. /\ stored \in Nat /\ Pass \in 1 .. Pass /\ Pass' = Pass /\ stored + 1 \in DOMAIN firings[Pass]
      /\ found \in Seq(Nat \X Role) /\ n \in Nat
  <2>1. stored \in Nat /\ Pass > 0
    BY <1>1 DEF PersistTypeOK, LoopAgrees
  <2>2. Pass \in 1 .. Pass /\ n \in Nat
    BY <2>1, RowTypes
  <2>3. stored + 1 \in 1 .. Len(firings[Pass])
    BY <1>1, <2>1, <2>2, RowTypes
  <2>. QED
    BY <1>1, <2>1, <2>2, <2>3, RowTypes DEF Pass
<1>3. new \in Row
  BY <1>2, EmptySeq DEF Row
<1>4. PersistTypeOK'
  BY <1>1, <1>2, <1>3 DEF PersistTypeOK
<1>5. /\ Len(rows') = n + 1 /\ DOMAIN rows' = 1 .. (n + 1) /\ DOMAIN rows = 1 .. n
      /\ \A k \in 1 .. n : rows'[k] = rows[k]
      /\ rows'[n + 1] = new
  <2> HIDE DEF new
  <2>. QED
    BY <1>1, <1>3 DEF PersistTypeOK
<1>6. /\ new.pass = Pass /\ new.nth = stored + 1 /\ new.members = <<>>
      /\ IsPrefix(new.members, found)
  BY <1>2, PrefixGrows
<1>7. /\ IF n > 0 /\ rows[n].pass = Pass THEN stored = rows[n].nth ELSE stored = 0
      /\ stored > 0 => rows[n].members = firings[Pass][stored].members
  BY <1>1 DEF LoopAgrees
<1>8. n > 0 => rows[n].nth > 0 /\ rows[n].pass \in 1 .. Pass
  BY <1>2, RowTypes DEF RowsArePrefix
<1> HIDE DEF new, found
<1>9. RowsArePrefix'
  <2> SUFFICES ASSUME NEW k \in 1 .. (n + 1)
               PROVE  LET r == rows'[k]
                          follows == k > 1 /\ rows'[k - 1].pass = r.pass
                          all == firings[r.pass][r.nth].members
                      IN  /\ r.pass \in 1 .. Pass /\ r.nth \in DOMAIN firings[r.pass]
                          /\ r.nth = IF follows THEN rows'[k - 1].nth + 1 ELSE 1
                          /\ k > 1 => rows'[k - 1].pass <= r.pass
                          /\ IsPrefix(r.members, all)
                          /\ k < n + 1 /\ rows'[k + 1].pass = r.pass => r.members = all
    BY <1>1, <1>2, <1>5 DEF RowsArePrefix
  <2>1. CASE k < n
    <3>1. k \in 1 .. n /\ k + 1 \in 1 .. n /\ (k > 1 => k - 1 \in 1 .. n)
      BY <1>2, <2>1
    <3>. QED
      BY <1>5, <2>1, <3>1 DEF RowsArePrefix
  <2>2. CASE k = n
    <3>1. n \in 1 .. n /\ (n > 1 => n - 1 \in 1 .. n)
      BY <1>2, <2>2
    <3>2. rows'[n + 1].pass = rows[n].pass => rows[n].members = firings[Pass][rows[n].nth].members
      BY <1>5, <1>6, <1>7, <1>8, <3>1, RowTypes
    <3>. QED
      BY <1>5, <1>6, <2>2, <3>1, <3>2 DEF RowsArePrefix
  <2>3. CASE k = n + 1
    <3>1. n > 0 => n \in 1 .. n
      BY <1>2
    <3>2. rows'[k] = new /\ (k > 1 => rows'[k - 1] = rows[n])
      BY <1>2, <1>5, <2>3, <3>1
    <3>3. stored + 1 = IF k > 1 /\ rows'[k - 1].pass = Pass THEN rows'[k - 1].nth + 1 ELSE 1
      BY <1>2, <1>7, <2>3, <3>2
    <3>4. k > 1 => rows'[k - 1].pass <= Pass
      BY <1>2, <1>8, <2>3, <3>2
    <3>. QED
      BY <1>2, <1>6, <2>3, <3>2, <3>3, <3>4 DEF found
  <2>. QED
    BY <1>2, <2>1, <2>2, <2>3
<1>10. LoopAgrees'
  <2>1. /\ Len(<<>>) = 0
        /\ found # <<>> => 0 < Len(found)
    BY <1>2, EmptySeq
  <2>2. /\ Pass' = Pass /\ Pass > 0 /\ firings' = firings /\ stored' = stored + 1
        /\ stored' <= Len(firings[Pass]) /\ stored' > 0
    BY <1>1, <1>2, RowTypes
  <2>3. /\ Len(rows') > 0 /\ rows'[Len(rows')].pass = Pass
        /\ rows'[Len(rows')].nth = stored' /\ rows'[Len(rows')].members = <<>>
    BY <1>2, <1>5, <1>6, <2>2
  <2>4. IF open' THEN Len(<<>>) < Len(firings[Pass][stored'].members)
        ELSE <<>> = firings[Pass][stored'].members
    BY <1>1, <2>1, <2>2 DEF found
  <2>. QED
    BY <2>2, <2>3, <2>4 DEF LoopAgrees
<1>11. OpenInPass'
  BY <1>1 DEF OpenInPass
<1>. QED
  BY <1>4, <1>9, <1>10, <1>11

\* The open row, the last of the table, takes the next member of its finding.
LEMMA InsertMemberStep ==
  ASSUME PInv, InsertMember
  PROVE  PInv'
<1> USE DEF PInv
<1> DEFINE n == Len(rows)
           have == rows[n].members
           all == firings[Pass][stored].members
           more == Append(have, all[Len(have) + 1])
<1>1. /\ open /\ rows' = [rows EXCEPT ![n].members = more]
      /\ open' = (Len(have) + 1 < Len(all))
      /\ phase' = phase /\ firings' = firings /\ stored' = stored
  BY DEF InsertMember
<1>2. /\ phase = "persist" /\ stored > 0 /\ stored \in Nat /\ stored <= Len(firings[Pass])
      /\ n > 0 /\ rows[n].pass = Pass /\ stored = rows[n].nth
      /\ Len(have) < Len(all) /\ Pass > 0
  BY <1>1 DEF LoopAgrees, OpenInPass, PersistTypeOK
<1>3. /\ n \in 1 .. n /\ DOMAIN rows = 1 .. n /\ Pass' = Pass /\ Pass \in 1 .. Pass
      /\ rows[n] \in Row
      /\ have \in Seq(Nat \X Role) /\ all \in Seq(Nat \X Role)
  <2>1. Pass' = Pass
    BY <1>1 DEF Pass
  <2>2. n \in 1 .. n /\ DOMAIN rows = 1 .. n /\ Pass \in 1 .. Pass
    BY <1>2, RowTypes
  <2>3. rows[n] \in Row
    BY <2>2 DEF PersistTypeOK
  <2>4. stored \in 1 .. Len(firings[Pass])
    BY <1>2, <2>2, RowTypes
  <2>. QED
    BY <2>1, <2>2, <2>3, <2>4, RowTypes
<1>4. IsPrefix(have, all)
  BY <1>2, <1>3 DEF RowsArePrefix
<1>5. /\ more \in Seq(Nat \X Role) /\ Len(more) = Len(have) + 1 /\ Len(have) \in Nat
      /\ IsPrefix(more, all)
  <2>1. all[Len(have) + 1] \in Nat \X Role /\ IsPrefix(more, all)
    <3> HIDE DEF have, all
    <3>. QED
      BY <1>2, <1>3, <1>4, PrefixGrows
  <2>. QED
    BY <1>3, <2>1
<1> HIDE DEF more
<1>6. /\ rows' \in Seq(Row) /\ Len(rows') = n /\ DOMAIN rows' = 1 .. n
      /\ \A k \in 1 .. n : /\ rows'[k].pass = rows[k].pass /\ rows'[k].nth = rows[k].nth
                           /\ k # n => rows'[k] = rows[k]
      /\ rows'[n].members = more
  <2>1. rows \in Seq(Row)
    BY DEF PersistTypeOK
  <2>2. [rows[n] EXCEPT !.members = more] \in Row
    BY <1>3, <1>5 DEF Row
  <2>3. rows' = [rows EXCEPT ![n] = [rows[n] EXCEPT !.members = more]]
    BY <1>1
  <2>4. /\ rows' \in Seq(Row) /\ Len(rows') = n /\ DOMAIN rows' = 1 .. n
        /\ rows'[n] = [rows[n] EXCEPT !.members = more]
        /\ \A k \in 1 .. n : k # n => rows'[k] = rows[k]
    <3> DEFINE row == [rows[n] EXCEPT !.members = more]
    <3> HIDE DEF row
    <3>1. row \in Row /\ rows' = [rows EXCEPT ![n] = row]
      BY <2>2, <2>3 DEF row
    <3>2. rows' \in Seq(Row) /\ Len(rows') = n /\ DOMAIN rows' = 1 .. n
      BY <1>3, <2>1, <3>1
    <3>3. rows'[n] = row /\ \A k \in 1 .. n : k # n => rows'[k] = rows[k]
      BY <1>3, <3>1
    <3>. QED
      BY <3>2, <3>3 DEF row
  <2>5. rows'[n].members = more /\ rows'[n].pass = rows[n].pass /\ rows'[n].nth = rows[n].nth
    BY <1>3, <2>4 DEF Row
  <2>. QED
    BY <2>4, <2>5
<1>7. PersistTypeOK'
  BY <1>1, <1>6 DEF PersistTypeOK
<1>8. RowsArePrefix'
  <2> SUFFICES ASSUME NEW k \in 1 .. n
               PROVE  LET r == rows'[k]
                          follows == k > 1 /\ rows'[k - 1].pass = r.pass
                          found == firings[r.pass][r.nth].members
                      IN  /\ r.pass \in 1 .. Pass /\ r.nth \in DOMAIN firings[r.pass]
                          /\ r.nth = IF follows THEN rows'[k - 1].nth + 1 ELSE 1
                          /\ k > 1 => rows'[k - 1].pass <= r.pass
                          /\ IsPrefix(r.members, found)
                          /\ k < n /\ rows'[k + 1].pass = r.pass => r.members = found
    <3>1. firings' = firings /\ Pass' = Pass /\ Len(rows') = n /\ DOMAIN rows' = 1 .. n
      BY <1>1, <1>3, <1>6
    <3> HIDE DEF have, all, n
    <3>. QED
      BY <3>1 DEF RowsArePrefix
  <2>1. (k > 1 => k - 1 \in 1 .. n) /\ (k < n => k + 1 \in 1 .. n)
    BY <1>3
  <2>2. IsPrefix(rows'[k].members, firings[rows[k].pass][rows[k].nth].members)
    BY <1>2, <1>3, <1>5, <1>6 DEF RowsArePrefix
  <2>3. CASE k = n
    <3>1. /\ rows'[k].pass = rows[k].pass /\ rows'[k].nth = rows[k].nth
          /\ k \in DOMAIN rows
      BY <1>3, <1>6
    <3>3. n \in Nat /\ ~ (k < n)
      <4>1. n \in Nat
        BY RowTypes
      <4> HIDE DEF n
      <4>. QED
        BY <2>3, <4>1
    <3>2. k > 1 => rows'[k - 1].pass = rows[k - 1].pass /\ rows'[k - 1].nth = rows[k - 1].nth
      BY <1>6, <2>1
    <3>. QED
      BY <2>2, <3>1, <3>2, <3>3 DEF RowsArePrefix
  <2>4. CASE k # n
    <3>1. rows'[k] = rows[k] /\ k \in DOMAIN rows
      BY <1>3, <1>6, <2>4
    <3>2. k > 1 => rows'[k - 1].pass = rows[k - 1].pass /\ rows'[k - 1].nth = rows[k - 1].nth
      BY <1>6, <2>1
    <3>3. k < n => rows'[k + 1].pass = rows[k + 1].pass
      BY <1>6, <2>1
    <3>. QED
      BY <3>1, <3>2, <3>3 DEF RowsArePrefix
  <2>. QED
    BY <2>3, <2>4
<1>9. LoopAgrees'
  <2>1. ~ open' => more = all
    <3>1. ~ open' => ~ (Len(more) < Len(all))
      BY <1>1, <1>5
    <3> HIDE DEF all
    <3>. QED
      BY <1>3, <1>5, <3>1, PrefixGrows
  <2>2. open' => Len(more) < Len(all)
    BY <1>1, <1>5
  <2>. QED
    BY <1>1, <1>2, <1>3, <1>6, <2>1, <2>2 DEF LoopAgrees
<1>10. OpenInPass'
  BY <1>1, <1>2 DEF OpenInPass
<1>. QED
  BY <1>7, <1>8, <1>9, <1>10

\* The pass ends, with every finding stored or cut off.
LEMMA EndStep ==
  ASSUME PInv, Finish \/ CutOff
  PROVE  PInv'
<1> USE DEF PInv
<1>1. /\ phase' = "idle" /\ firings' = firings /\ stored' = stored /\ rows' = rows
      /\ open' = FALSE
  BY DEF Finish, CutOff, PersistTypeOK
<1>2. PersistTypeOK'
  BY <1>1 DEF PersistTypeOK
<1>3. RowsArePrefix'
  BY <1>1 DEF RowsArePrefix, Pass
<1>4. LoopAgrees' /\ OpenInPass'
  BY <1>1 DEF LoopAgrees, OpenInPass
<1>. QED
  BY <1>2, <1>3, <1>4

\* Types, rows and loop agree in every state.
LEMMA PersistInvariant == PersistSpec => []PInv
<1>1. PersistInit => PInv
  <2> SUFFICES ASSUME PersistInit PROVE PInv
    OBVIOUS
  <2>1. rows = <<>> /\ firings = <<>> /\ stored = 0 /\ open = FALSE /\ phase = "idle"
    BY DEF PersistInit
  <2>2. PersistTypeOK
    BY <2>1, EmptySeq DEF PersistTypeOK
  <2>3. DOMAIN rows = {}
    BY <2>1
  <2>. QED
    BY <2>1, <2>2, <2>3 DEF PInv, RowsArePrefix, LoopAgrees, OpenInPass
<1>2. PInv /\ [PersistNext]_persistVars => PInv'
  <2> SUFFICES ASSUME PInv, [PersistNext]_persistVars PROVE PInv'
    OBVIOUS
  <2>1. CASE \E found \in Seq(Finding) : Begin(found)
    BY <2>1, BeginStep
  <2>2. CASE InsertRow
    BY <2>2, InsertRowStep
  <2>3. CASE InsertMember
    BY <2>3, InsertMemberStep
  <2>4. CASE Finish \/ CutOff
    BY <2>4, EndStep
  <2>5. CASE UNCHANGED persistVars
    BY <2>5 DEF persistVars, PInv, PersistTypeOK, RowsArePrefix, LoopAgrees, OpenInPass, Pass
  <2>. QED
    BY <2>1, <2>2, <2>3, <2>4, <2>5 DEF PersistNext
<1>. QED
  BY <1>1, <1>2, PTL DEF PersistSpec

\* PersistTypeOK: the correlations table and the loop that fills it keep their
\* types, whatever the passes find.
THEOREM PersistTypeCorrect == PersistSpec => []PersistTypeOK
<1>1. PInv => PersistTypeOK
  BY DEF PInv
<1>. QED
  BY <1>1, PersistInvariant, PTL

\* RowsArePrefix: wherever passes are cut off, and whatever they found, the
\* table holds a prefix of each pass's findings, complete but for its last row.
THEOREM RowsAlwaysPrefix == PersistSpec => []RowsArePrefix
<1>1. PInv => RowsArePrefix
  BY DEF PInv
<1>. QED
  BY <1>1, PersistInvariant, PTL

-------------------------------------------------------------------------------
\* The evidence is never more than what the scenario brings.
LEMMA EvidenceInvariant == Spec => []OneEvidence
<1>1. Init => OneEvidence
  BY DEF Init, OneEvidence
<1>2. OneEvidence /\ [Next]_vars => OneEvidence'
  <2> SUFFICES ASSUME OneEvidence, [Next]_vars PROVE OneEvidence'
    OBVIOUS
  <2>1. CASE \E e \in arriving : Store(e)
    <3>1. timeline' \cup arriving' = timeline \cup arriving
      BY <2>1 DEF Store
    <3>. QED
      BY <3>1 DEF OneEvidence
  <2>2. CASE Match \/ StoreFinding \/ EndPass \/ UNCHANGED vars
    <3>1. UNCHANGED <<arriving, timeline>>
      BY <2>2 DEF Match, StoreFinding, EndPass, vars
    <3>. QED
      BY <3>1 DEF OneEvidence
  <2>. QED
    BY <2>1, <2>2 DEF Next
<1>. QED
  BY <1>1, <1>2, PTL DEF Spec

\* What a pass fetches is a timeline, and what it makes of one are findings.
LEMMA FetchedFinds ==
  ASSUME OneEvidence, NEW table \in SUBSET timeline
  PROVE  /\ Timeline(FetchEvents(table))
         /\ ToSet(FetchEvents(table)) = {e \in table : e.ts >= 1}
         /\ \A e \in table : IsEvent(e) /\ e.type # Burst
         /\ AllFindings(FetchEvents(table)) \in Seq(Finding)
<1>1. PICK evidence \in Scenarios : timeline \cup arriving = evidence
  BY DEF OneEvidence
<1>2. table \in SUBSET evidence
  BY <1>1
<1>3. \A e \in table : IsEvent(e) /\ e.type # Burst
  BY <1>2, EvidenceAssumption DEF Burst
<1>4. Timeline(FetchEvents(table)) /\ ToSet(FetchEvents(table)) = {e \in table : e.ts >= 1}
  BY <1>2, FetchedInOrder
<1>. QED
  BY <1>3, <1>4, PassFinds

\* A step of the correlation pass is one of PersistPass or leaves what that is
\* about alone.
LEMMA PassStep == OneEvidence /\ [Next]_vars => [PersistNext]_persistVars
<1> SUFFICES ASSUME OneEvidence, [Next]_vars PROVE [PersistNext]_persistVars
  OBVIOUS
<1>1. CASE \E e \in arriving : Store(e)
  BY <1>1 DEF Store
<1>2. CASE Match
  <2>1. Begin(AllFindings(fetched')) /\ fetched' = FetchEvents(timeline)
    BY <1>2 DEF Match
  <2>2. AllFindings(FetchEvents(timeline)) \in Seq(Finding)
    BY FetchedFinds
  <2>. QED
    BY <2>1, <2>2 DEF PersistNext
<1>3. CASE StoreFinding \/ EndPass
  BY <1>3 DEF StoreFinding, EndPass, PersistNext
<1>4. CASE UNCHANGED vars
  BY <1>4 DEF vars
<1>. QED
  BY <1>1, <1>2, <1>3, <1>4 DEF Next

\* However evidence arrives between the passes, and whatever the rules make of
\* it, the correlation pass writes as PersistPass does.
THEOREM PassImplementsPersist == Spec => PersistSpec
<1>1. Init => PersistInit
  BY DEF Init
<1>. QED
  BY <1>1, EvidenceInvariant, PassStep, PTL DEF Spec, PersistSpec

\* RowsArePrefix, of the pass with its rules.
THEOREM PassRowsAlwaysPrefix == Spec => []RowsArePrefix
  BY PassImplementsPersist, RowsAlwaysPrefix, PTL

-------------------------------------------------------------------------------
\* What a pass persists is what it found in the timeline.

FInv == PersistTypeOK /\ FoundInTimeline

LEMMA FoundStep ==
  ASSUME FInv, PersistTypeOK', [Next]_vars
  PROVE  FoundInTimeline'
<1> USE DEF FInv
<1>1. CASE \E e \in arriving : Store(e)
  <2>1. /\ phase = "idle" /\ timeline \subseteq timeline' /\ phase' = phase /\ firings' = firings
    BY <1>1 DEF Store, persistVars
  <2>2. Pass' = Pass
    BY <2>1 DEF Pass
  <2>3. SUBSET timeline \subseteq SUBSET timeline'
    BY <2>1
  <2>. QED
    BY <2>1, <2>2, <2>3 DEF FoundInTimeline
<1>2. CASE Match
  <2> DEFINE found == AllFindings(fetched')
  <2>1. fetched' = FetchEvents(timeline) /\ Begin(found) /\ timeline' = timeline
    BY <1>2 DEF Match
  <2> HIDE DEF found
  <2>2. firings' = Append(firings, found) /\ firings \in Seq(Seq(Finding))
    BY <2>1 DEF Begin, PersistTypeOK
  <2>3. firings' \in Seq(Seq(Finding))
    BY DEF PersistTypeOK
  <2>4. Len(firings') = Len(firings) + 1 /\ firings'[Len(firings) + 1] = found /\ Len(firings) \in Nat
    BY <2>2
  <2>5. Pass' > 0 /\ firings'[Pass'] = found
    BY <2>4 DEF Pass
  <2>6. found = AllFindings(FetchEvents(timeline)) /\ timeline \in SUBSET timeline'
    BY <2>1 DEF found
  <2>7. found = AllFindings(fetched') /\ fetched' = FetchEvents(timeline')
    BY <2>1 DEF found
  <2>. QED
    BY <2>5, <2>6, <2>7 DEF FoundInTimeline
<1>3. CASE StoreFinding
  <2>1. phase = "persist" \/ open
    BY <1>3 DEF StoreFinding, InsertRow, InsertMember
  <2>2. /\ phase' = phase /\ firings' = firings /\ timeline' = timeline /\ fetched' = fetched
    BY <1>3 DEF StoreFinding, InsertRow, InsertMember
  <2>3. Pass' = Pass
    BY <2>2 DEF Pass
  <2>. QED
    BY <2>2, <2>3 DEF FoundInTimeline
<1>4. CASE EndPass
  <2>1. /\ phase' = "idle" /\ firings' = firings /\ timeline' = timeline
    BY <1>4 DEF EndPass, Finish, CutOff
  <2>2. Pass' = Pass
    BY <2>1 DEF Pass
  <2>. QED
    BY <2>1, <2>2 DEF FoundInTimeline
<1>5. CASE UNCHANGED vars
  <2>1. /\ phase' = phase /\ firings' = firings /\ timeline' = timeline /\ fetched' = fetched
    BY <1>5 DEF vars, persistVars
  <2>2. Pass' = Pass
    BY <2>1 DEF Pass
  <2>. QED
    BY <2>1, <2>2 DEF FoundInTimeline
<1>. QED
  BY <1>1, <1>2, <1>3, <1>4, <1>5 DEF Next

\* FoundInTimeline: whatever evidence arrives between the passes, a pass
\* persists what it found in the whole timeline.
THEOREM AlwaysFoundInTimeline == Spec => []FoundInTimeline
<1>1. Init => FoundInTimeline
  <2> SUFFICES ASSUME Init PROVE FoundInTimeline
    OBVIOUS
  <2>1. phase = "idle" /\ firings = <<>>
    BY DEF Init, PersistInit
  <2>2. Pass = 0
    BY <2>1 DEF Pass
  <2>. QED
    BY <2>1, <2>2 DEF FoundInTimeline
<1>2. PersistTypeOK /\ PersistTypeOK' /\ FoundInTimeline /\ [Next]_vars => FoundInTimeline'
  BY FoundStep DEF FInv
<1>3. Spec => []PersistTypeOK
  BY PassImplementsPersist, PersistTypeCorrect, PTL
<1>. QED
  BY <1>1, <1>2, <1>3, PTL DEF Spec

-------------------------------------------------------------------------------
\* The pairings.

\* The findings of one rule in all that a pass finds.
LEMMA PairsFound ==
  ASSUME NEW events, Timeline(events), NEW code \in PairCodes \cup {"copy-delete"}
  PROVE  /\ PairsOf(code, events, {g \in ToSet(AllFindings(events)) : g.code = code})
         /\ \A a \in Anchors(code, events) : IsEvent(a)
         /\ \A a \in Anchors(code, events) :
               \A c \in Consequents(code, a, events) : IsEvent(c)
<1>1. code \in DiskCodes
  BY DEF DiskCodes
<1>2. {g \in ToSet(AllFindings(events)) : g.code = code} = ToSet(RunRule(code, Inputs(events)))
  BY <1>1, PassFinds
<1>3. CASE code \in PairCodes
  <2>1. RunRule(code, Inputs(events)) = RunPairRule(code, Inputs(events))
    BY <1>3 DEF RunRule, PairCodes
  <2>. QED
    BY <1>2, <1>3, <2>1, PairRuleFinds
<1>4. CASE code = "copy-delete"
  BY <1>2, <1>4, CopyDeleteFinds
<1>. QED
  BY <1>3, <1>4

LEMMA NearestOfFound ==
  ASSUME NEW events, Timeline(events), NEW code \in PairCodes \cup {"copy-delete"}
  PROVE  {<<f.members[1][1], f.members[2][1]>> :
              f \in {g \in ToSet(AllFindings(events)) : g.code = code}}
            = UNION {{<<a.id, c.id>> : c \in NearestTo(a, Consequents(code, a, events))} :
                        a \in Anchors(code, events)}
<1> DEFINE S == {g \in ToSet(AllFindings(events)) : g.code = code}
           N(a) == NearestTo(a, Consequents(code, a, events))
           ids(f) == <<f.members[1][1], f.members[2][1]>>
           near(a) == {<<a.id, c.id>> : c \in N(a)}
           L == {ids(f) : f \in S}
           R == UNION {near(a) : a \in Anchors(code, events)}
<1>1. /\ PairsOf(code, events, S)
      /\ \A a \in Anchors(code, events) : IsEvent(a) /\ \A c \in Consequents(code, a, events) : IsEvent(c)
  BY PairsFound
<1>2. \A f \in S : \E a \in Anchors(code, events) : \E c \in N(a) : f = Pair(code, a, c)
  BY <1>1 DEF PairsOf
<1>3. \A a \in Anchors(code, events) : \A c \in N(a) :
         \E f \in S : \E d \in N(a) : f = Pair(code, a, d) /\ d.id = c.id
  BY <1>1 DEF PairsOf
<1>4. \A a, c : ids(Pair(code, a, c)) = <<a.id, c.id>>
  BY DEF Pair
<1> HIDE DEF S, N, ids
<1>5. L \subseteq R
  <2> SUFFICES ASSUME NEW f \in S PROVE ids(f) \in R
    OBVIOUS
  <2>1. PICK a \in Anchors(code, events) : \E c \in N(a) : f = Pair(code, a, c)
    BY <1>2
  <2>2. PICK c \in N(a) : f = Pair(code, a, c)
    BY <2>1
  <2>3. ids(f) \in near(a)
    BY <1>4, <2>2
  <2> HIDE DEF near
  <2>. QED
    BY <2>3
<1>6. R \subseteq L
  <2> SUFFICES ASSUME NEW x \in R PROVE x \in L
    OBVIOUS
  <2>1. PICK a \in Anchors(code, events) : x \in near(a)
    OBVIOUS
  <2>2. PICK c \in N(a) : x = <<a.id, c.id>>
    BY <2>1
  <2>3. PICK f \in S : \E d \in N(a) : f = Pair(code, a, d) /\ d.id = c.id
    BY <1>3
  <2>4. PICK d \in N(a) : f = Pair(code, a, d) /\ d.id = c.id
    BY <2>3
  <2>5. x = ids(f)
    BY <1>4, <2>2, <2>4
  <2>. QED
    BY <2>5
<1>7. L = R
  BY <1>5, <1>6
<1>. QED
  BY <1>7 DEF S, N, ids

\* NearestIsFound: whatever the evidence, each rule pairs each of its anchors
\* with the nearest consequent within its window, and pairs nothing else.
THEOREM AlwaysNearestIsFound == Spec => []NearestIsFound
<1>1. OneEvidence /\ FoundInTimeline => NearestIsFound
  <2> SUFFICES ASSUME OneEvidence, FoundInTimeline, Matched,
                      NEW code \in PairCodes \cup {"copy-delete"}
               PROVE  {<<f.members[1][1], f.members[2][1]>> :
                          f \in {g \in Findings(Pass) : g.code = code}}
                      = UNION {{<<a.id, c.id>> : c \in NearestTo(a, Consequents(code, a, fetched))} :
                                  a \in Anchors(code, fetched)}
    BY DEF NearestIsFound
  <2>1. fetched = FetchEvents(timeline) /\ firings[Pass] = AllFindings(fetched)
    BY DEF Matched, FoundInTimeline
  <2>2. Timeline(fetched)
    BY <2>1, FetchedFinds
  <2>3. Findings(Pass) = ToSet(AllFindings(fetched))
    BY <2>1 DEF Findings
  <2>. QED
    BY <2>2, <2>3, NearestOfFound
<1>. QED
  BY <1>1, EvidenceInvariant, AlwaysFoundInTimeline, PTL

-------------------------------------------------------------------------------
\* Bursts.

\* As many rows as a run has places.
LEMMA RunIsSet ==
  ASSUME NEW D, \A e \in D : e.ts \in Int /\ e.id \in Nat, NEW r, RunOf(D, r)
  PROVE  /\ Len(r) \in Nat /\ Len(r) > 0 /\ DOMAIN r = 1 .. Len(r)
         /\ Last(r) = r[Len(r)]
         /\ \A i \in 1 .. Len(r) : r[i] \in D
         /\ Cardinality(ToSet(r)) = Len(r)
<1>1. r \in Seq(D) /\ r # <<>> /\ \A j, k \in DOMAIN r : j < k => Earlier(r[j], r[k])
  BY DEF RunOf
<1>2. Len(r) \in Nat /\ Len(r) > 0 /\ DOMAIN r = 1 .. Len(r) /\ Last(r) = r[Len(r)]
      /\ \A i \in 1 .. Len(r) : r[i] \in D
  BY <1>1 DEF Last
<1>3. \A j, k \in 1 .. Len(r) : r[j] = r[k] => j = k
  <2> SUFFICES ASSUME NEW j \in 1 .. Len(r), NEW k \in 1 .. Len(r), r[j] = r[k] PROVE j = k
    OBVIOUS
  <2>1. ~ Earlier(r[j], r[k]) /\ ~ Earlier(r[k], r[j])
    BY <1>2 DEF Earlier
  <2>. QED
    BY <1>1, <1>2, <2>1
<1> DEFINE T == ToSet(r)
<1>4. r \in [1 .. Len(r) -> T] /\ \A t \in T : \E i \in 1 .. Len(r) : r[i] = t
  BY <1>1, <1>2 DEF ToSet
<1> HIDE DEF T
<1>5. r \in Bijection(1 .. Len(r), T)
  BY <1>3, <1>4 DEF Bijection, Injection, Surjection, IsInjective
<1>6. ExistsBijection(1 .. Len(r), T)
  BY <1>5 DEF ExistsBijection
<1>7. IsFiniteSet(1 .. Len(r)) /\ Cardinality(1 .. Len(r)) = Len(r)
  BY <1>2, FS_Interval
<1>8. Cardinality(T) = Len(r)
  BY <1>6, <1>7, FS_Bijection
<1>. QED
  BY <1>2, <1>8 DEF T

LEMMA BurstOfFound ==
  ASSUME NEW events, Timeline(events), \A e \in ToSet(events) : e.type # Burst,
         NEW f \in {g \in ToSet(AllFindings(events)) : g.code = "bruteforce"}
  PROVE  LET event(id) == CHOOSE e \in ToSet(events) : e.id = id
             last == event(f.members[1][1])
             success == event(f.members[2][1])
         IN  \E entity \in ToSet(success.ents) :
             \E run \in SUBSET {e \in ToSet(events) :
                            e.type = "LogonFailure" /\ entity \in ToSet(e.ents)} :
                 /\ last \in run /\ Cardinality(run) >= BurstThreshold
                 /\ \A e \in run : e.ts <= last.ts
                 /\ \A e \in run \ {last} :
                       \E g \in run : /\ g.ts - e.ts \in 0 .. BurstWindow
                                      /\ g.ts > e.ts \/ g.id > e.id
<1> DEFINE code == "bruteforce"
           E == ToSet(events)
           evs == Inputs(events)
           event(id) == CHOOSE e \in E : e.id = id
<1>1. PICK a \in Anchors(code, events) :
         \E c \in NearestTo(a, Consequents(code, a, events)) : f = Pair(code, a, c)
  <2>1. code \in PairCodes \cup {"copy-delete"}
    BY DEF PairCodes
  <2>. QED
    BY <2>1, PairsFound DEF PairsOf
<1>2. PICK c \in NearestTo(a, Consequents(code, a, events)) : f = Pair(code, a, c)
  BY <1>1
<1>3. f.members[1][1] = a.id /\ f.members[2][1] = c.id
  BY <1>2 DEF Pair
<1>4. \A id : \A e \in E : e.id = id => event(id) = e
  BY DEF Timeline
<1>5. \A e \in E : IsEvent(e)
  BY DEF Timeline
<1>6. /\ Readable(evs)
      /\ ToSet(evs) = {e \in E : ~ MemoryRow(e)} \cup ToSet(BurstAnchors(events))
      /\ \A b \in ToSet(BurstAnchors(events)) : b.type = Burst /\ \E r : Behind(events, b, r)
  BY InputsAreReadable, BurstAnchorFacts
<1>7. /\ Anchors(code, events) = {Joined(code, e) : e \in {x \in ToSet(evs) : x.type = Burst}}
      /\ c \in {Joined(code, e) : e \in {x \in ToSet(evs) : x.type = "LogonSuccess"}}
      /\ SharesEntity(a, c)
  <2>1. Rule(code).anchor = Burst /\ Rule(code).consequent = "LogonSuccess"
    BY DEF Rule, Burst
  <2>2. /\ ToSet(Project(code, evs, Burst)) = {Joined(code, e) : e \in {x \in ToSet(evs) : x.type = Burst}}
        /\ ToSet(Project(code, evs, "LogonSuccess"))
              = {Joined(code, e) : e \in {x \in ToSet(evs) : x.type = "LogonSuccess"}}
    BY <1>6, ProjectFacts
  <2>3. c \in Consequents(code, a, events)
    BY <1>2 DEF NearestTo
  <2>. QED
    BY <2>1, <2>2, <2>3 DEF Anchors, Consequents
<1>8. \A e : Joined(code, e) = e
  BY DEF Joined
<1> HIDE DEF event, evs, E
<1>9. a \in ToSet(BurstAnchors(events))
  <2>1. a \in ToSet(evs) /\ a.type = Burst
    BY <1>7, <1>8
  <2>. QED
    BY <1>6, <2>1 DEF E
<1>10. c \in E
  <2>1. c \in ToSet(evs) /\ c.type # Burst
    BY <1>7, <1>8 DEF Burst
  <2>. QED
    BY <1>6, <2>1
<1>11. PICK r : Behind(events, a, r)
  BY <1>6, <1>9
<1>12. PICK x : a.ents = <<x>> /\ \A i \in DOMAIN r : x \in ToSet(r[i].ents)
  BY <1>11 DEF Behind
<1>13. x \in ToSet(c.ents)
  <2>1. ToSet(a.ents) = {x}
    BY <1>12, Single
  <2>. QED
    BY <1>7, <2>1 DEF SharesEntity
<1> DEFINE D == Failures(events)
           F == {e \in E : e.type = "LogonFailure" /\ x \in ToSet(e.ents)}
           run == ToSet(r)
           last == Last(r)
<1>14. \A e \in D : e \in E /\ e.type = "LogonFailure" /\ e.ts \in Int /\ e.id \in Nat
  <2>1. ToSet(OfType(events, "LogonFailure")) = {e \in E : e.type = "LogonFailure"}
    <3> DEFINE P == {i \in DOMAIN events : events[i].type = "LogonFailure"}
    <3>1. OfType(events, "LogonFailure") = At(events, P)
      BY DEF OfType, Where
    <3>2. events \in Seq(E)
      BY DEF Timeline, E
    <3>3. P \in SUBSET (1 .. Len(events)) /\ DOMAIN events = 1 .. Len(events)
      BY <3>2
    <3>4. {events[p] : p \in P} = {e \in E : e.type = "LogonFailure"}
      BY DEF E, ToSet
    <3> HIDE DEF P
    <3>5. ToSet(At(events, P)) = {events[p] : p \in P}
      BY <3>2, <3>3, AtIsSequence
    <3>. QED
      BY <3>1, <3>4, <3>5
  <2>. QED
    BY <1>5, <2>1 DEF Failures, IsEvent
<1> HIDE DEF D
<1>15. RunOf(D, r) /\ Len(r) >= BurstThreshold /\ a.id = last.id
  BY <1>11 DEF Behind, D
<1>16. /\ Len(r) \in Nat /\ Len(r) > 0 /\ DOMAIN r = 1 .. Len(r)
       /\ last = r[Len(r)]
       /\ \A i \in 1 .. Len(r) : r[i] \in D
       /\ Cardinality(run) = Len(r)
  BY <1>14, <1>15, RunIsSet
<1>17. /\ \A j, k \in 1 .. Len(r) : j < k => Earlier(r[j], r[k])
       /\ \A j \in 1 .. Len(r) : j + 1 \in 1 .. Len(r) => r[j + 1].ts - r[j].ts <= BurstWindow
  BY <1>15, <1>16 DEF RunOf
<1>18. \A e \in run : \E i \in 1 .. Len(r) : e = r[i]
  BY <1>16 DEF ToSet
<1>19. \A i \in 1 .. Len(r) : r[i] \in run
  BY <1>16 DEF ToSet
<1> HIDE DEF run, last
<1>20. last \in run /\ Len(r) \in 1 .. Len(r)
  BY <1>16, <1>19
<1>21. run \in SUBSET F
  BY <1>12, <1>14, <1>16, <1>18
<1>22. event(f.members[1][1]) = last /\ event(f.members[2][1]) = c
  <2>1. last \in E
    BY <1>20, <1>21
  <2>. QED
    BY <1>3, <1>4, <1>10, <1>15, <2>1
<1>23. \A i \in 1 .. Len(r) : r[i].ts \in Int /\ r[i].id \in Nat
  BY <1>14, <1>16
<1>24. \A e \in run : e.ts <= last.ts
  <2> SUFFICES ASSUME NEW i \in 1 .. Len(r) PROVE r[i].ts <= last.ts
    BY <1>18
  <2> DEFINE n == Len(r)
  <2>1. n \in Nat /\ i \in 1 .. n /\ n \in 1 .. n /\ last = r[n]
    BY <1>16, <1>20
  <2>2. r[i].ts \in Int /\ r[n].ts \in Int /\ (i < n => Earlier(r[i], r[n]))
    BY <1>17, <1>23, <2>1
  <2> HIDE DEF n
  <2>3. i = n \/ i < n
    BY <2>1
  <2>. QED
    BY <2>1, <2>2, <2>3 DEF Earlier
<1>25. ASSUME NEW e \in run \ {last}
       PROVE  \E g \in run : /\ g.ts - e.ts \in 0 .. BurstWindow
                             /\ g.ts > e.ts \/ g.id > e.id
  <2>1. PICK i \in 1 .. Len(r) : e = r[i]
    BY <1>18
  <2>2. i # Len(r)
    BY <1>16, <1>25, <2>1
  <2>3. i + 1 \in 1 .. Len(r) /\ i < i + 1
    <3> DEFINE n == Len(r)
    <3>1. n \in Nat /\ i \in 1 .. n /\ i # n
      BY <1>16, <2>2
    <3> HIDE DEF n
    <3>2. i + 1 \in 1 .. n /\ i < i + 1
      BY <3>1
    <3>. QED
      BY <3>2 DEF n
  <2> DEFINE g == r[i + 1]
  <2>4. Earlier(e, g) /\ g.ts - e.ts <= BurstWindow /\ g \in run
    BY <1>17, <1>19, <2>1, <2>3
  <2>5. g.ts \in Int /\ g.id \in Nat /\ e.ts \in Int /\ e.id \in Nat
    BY <1>23, <2>1, <2>3
  <2>6. BurstWindow \in Nat
    BY WindowsAssumption
  <2> HIDE DEF g
  <2>. QED
    BY <2>4, <2>5, <2>6 DEF Earlier
<1>26. \E run0 \in SUBSET F :
          /\ last \in run0 /\ Cardinality(run0) >= BurstThreshold
          /\ \A e \in run0 : e.ts <= last.ts
          /\ \A e \in run0 \ {last} :
                \E g \in run0 : /\ g.ts - e.ts \in 0 .. BurstWindow
                                /\ g.ts > e.ts \/ g.id > e.id
  BY <1>15, <1>16, <1>20, <1>21, <1>24, <1>25
<1>. QED
  BY <1>13, <1>22, <1>26 DEF event, E

\* BurstBehindBruteforce: every brute-force finding of every pass has a burst
\* behind it.
THEOREM AlwaysBurstBehindBruteforce == Spec => []BurstBehindBruteforce
<1>1. OneEvidence /\ FoundInTimeline => BurstBehindBruteforce
  <2> SUFFICES ASSUME OneEvidence, FoundInTimeline, Matched PROVE BurstBehindBruteforce
    BY DEF BurstBehindBruteforce
  <2>1. fetched = FetchEvents(timeline) /\ firings[Pass] = AllFindings(fetched)
    BY DEF Matched, FoundInTimeline
  <2>2. Timeline(fetched) /\ \A e \in ToSet(fetched) : e.type # Burst
    BY <2>1, FetchedFinds
  <2>3. Findings(Pass) = ToSet(AllFindings(fetched))
    BY <2>1 DEF Findings
  <2>. QED
    BY <2>2, <2>3, BurstOfFound DEF BurstBehindBruteforce
<1>. QED
  BY <1>1, EvidenceInvariant, AlwaysFoundInTimeline, PTL

-------------------------------------------------------------------------------
\* Chains.

\* TiedPairsAreReported: every pass reports each migration that a socket ties
\* together, and no chain but of such a migration, with members that show it.
THEOREM AlwaysTiedPairsAreReported == Spec => []TiedPairsAreReported
<1>1. OneEvidence /\ FoundInTimeline => TiedPairsAreReported
  <2> SUFFICES ASSUME OneEvidence, FoundInTimeline, Matched PROVE TiedPairsAreReported
    BY DEF TiedPairsAreReported
  <2>1. fetched = FetchEvents(timeline) /\ firings[Pass] = AllFindings(fetched)
    BY DEF Matched, FoundInTimeline
  <2>2. Timeline(fetched)
    BY <2>1, FetchedFinds
  <2>3. {f \in Findings(Pass) : f.code \in {"proc-migration", "proc-migration-degraded"}}
          = ToSet(ProcMigrationChains(Memory(fetched)))
    BY <2>1, <2>2, PassFinds DEF Findings, Migrations
  <2>. QED
    BY <2>2, <2>3, ChainsAreOfTied DEF TiedPairsAreReported
<1>. QED
  BY <1>1, EvidenceInvariant, AlwaysFoundInTimeline, PTL

-------------------------------------------------------------------------------
\* What more evidence does to a pairing.

\* Of any events some are nearest.
LEMMA SomeAreNearest ==
  ASSUME NEW a, IsEvent(a), NEW C, C # {}, \A c \in C : IsEvent(c) /\ c.ts >= 1
  PROVE  NearestTo(a, C) # {}
<1>1. \A c \in C : Dist(a, c) \in Nat /\ c.ts \in Nat /\ c.id \in Nat
  <2> SUFFICES ASSUME NEW c \in C PROVE Dist(a, c) \in Nat /\ c.ts \in Nat /\ c.id \in Nat
    OBVIOUS
  <2>1. a.ts \in Int /\ c.ts \in Int /\ c.ts >= 1 /\ c.id \in Nat
    BY DEF IsEvent
  <2>. QED
    BY <2>1 DEF Dist
<1> DEFINE dist == {Dist(a, c) : c \in C}
<1>2. PICK d \in dist : \A e \in dist : d <= e
  <2>1. dist \in SUBSET Nat /\ dist # {}
    BY <1>1
  <2> HIDE DEF dist
  <2>. QED
    BY <2>1, LeastOf
<1> DEFINE D == {c \in C : Dist(a, c) = d}
           times == {c.ts : c \in D}
<1>3. PICK t \in times : \A u \in times : t <= u
  <2>1. times \in SUBSET Nat /\ times # {}
    BY <1>1, <1>2
  <2> HIDE DEF times
  <2>. QED
    BY <2>1, LeastOf
<1> DEFINE T == {c \in D : c.ts = t}
           names == {c.id : c \in T}
<1>4. PICK n \in names : \A m \in names : n <= m
  <2>1. names \in SUBSET Nat /\ names # {}
    BY <1>1, <1>3
  <2> HIDE DEF names
  <2>. QED
    BY <2>1, LeastOf
<1>5. PICK c \in T : c.id = n
  BY <1>4
<1>6. ASSUME NEW e \in C
      PROVE  \/ Dist(a, c) < Dist(a, e)
             \/ /\ Dist(a, c) = Dist(a, e)
                /\ c.ts < e.ts \/ (c.ts = e.ts /\ c.id <= e.id)
  <2>1. d <= Dist(a, e) /\ d \in Nat /\ Dist(a, e) \in Nat
    BY <1>1, <1>2
  <2>2. CASE Dist(a, e) = d
    <3>1. e \in D /\ t <= e.ts /\ t \in Nat /\ e.ts \in Nat
      BY <1>1, <1>3, <2>2
    <3>2. e.ts = t => e \in T /\ n <= e.id
      BY <1>4, <3>1
    <3>. QED
      BY <1>5, <2>2, <3>1, <3>2
  <2>. QED
    BY <1>5, <2>1, <2>2
<1>. QED
  BY <1>5, <1>6 DEF NearestTo

LEMMA PairsAreKept ==
  ASSUME NEW old, Timeline(old), NEW new, Timeline(new), ToSet(old) \subseteq ToSet(new),
         NEW code \in PairCodes \ {"bruteforce"},
         NEW f \in {g \in ToSet(AllFindings(old)) : g.code = code}
  PROVE  \E g \in ToSet(AllFindings(new)) :
            /\ g.code = f.code /\ g.members[1] = f.members[1]
            /\ g.last - g.first <= f.last - f.first
<1>1. code \in PairCodes \cup {"copy-delete"} /\ code \in PairCodes /\ code # "copy-delete"
  BY DEF PairCodes
<1>2. PICK a \in Anchors(code, old) :
         \E c \in NearestTo(a, Consequents(code, a, old)) : f = Pair(code, a, c)
  BY <1>1, PairsFound DEF PairsOf
<1>3. PICK c \in NearestTo(a, Consequents(code, a, old)) : f = Pair(code, a, c)
  BY <1>2
<1>4. Rule(code).anchor # Burst /\ Rule(code).consequent # Burst
  BY RuleParts
<1>5. \A type : type # Burst =>
         ToSet(Project(code, Inputs(old), type)) \subseteq ToSet(Project(code, Inputs(new), type))
  <2> SUFFICES ASSUME NEW type, type # Burst
               PROVE  ToSet(Project(code, Inputs(old), type)) \subseteq ToSet(Project(code, Inputs(new), type))
    OBVIOUS
  <2>1. \A events : Timeline(events) =>
           /\ Readable(Inputs(events))
           /\ ToSet(Inputs(events)) =
                 {e \in ToSet(events) : ~ MemoryRow(e)} \cup ToSet(BurstAnchors(events))
           /\ \A b \in ToSet(BurstAnchors(events)) : b.type = Burst
    BY InputsAreReadable, BurstAnchorFacts
  <2>2. \A e \in ToSet(Inputs(old)) : e.type = type => e \in ToSet(Inputs(new))
    BY <2>1
  <2>3. /\ ToSet(Project(code, Inputs(old), type))
              = {Joined(code, e) : e \in {x \in ToSet(Inputs(old)) : x.type = type}}
        /\ ToSet(Project(code, Inputs(new), type))
              = {Joined(code, e) : e \in {x \in ToSet(Inputs(new)) : x.type = type}}
    BY <2>1, ProjectFacts
  <2>. QED
    BY <2>2, <2>3
<1>6. a \in Anchors(code, new) /\ c \in Consequents(code, a, new)
  <2>1. c \in Consequents(code, a, old)
    BY <1>3 DEF NearestTo
  <2>. QED
    BY <1>1, <1>4, <1>5, <2>1 DEF Anchors, Consequents
<1> DEFINE C == Consequents(code, a, new)
<1>7. IsEvent(a) /\ \A e \in C : IsEvent(e) /\ e.ts >= 1
  <2>1. IsEvent(a) /\ \A e \in C : IsEvent(e)
    BY <1>1, <1>6, PairsFound
  <2>2. \A e \in C : e.ts >= 1
    <3>1. \A e \in ToSet(Project(code, Inputs(new), Rule(code).consequent)) : e.ts >= 1
      BY InputsAreReadable, ProjectFacts
    <3>. QED
      BY <1>1, <3>1 DEF Consequents
  <2>. QED
    BY <2>1, <2>2
<1>8. PICK d0 \in NearestTo(a, C) : TRUE
  BY <1>6, <1>7, SomeAreNearest
<1>9. PICK g \in {h \in ToSet(AllFindings(new)) : h.code = code} :
         \E d \in NearestTo(a, C) : g = Pair(code, a, d)
  BY <1>1, <1>6, <1>8, PairsFound DEF PairsOf
<1>10. PICK d \in NearestTo(a, C) : g = Pair(code, a, d)
  BY <1>9
<1>11. d \in C /\ Dist(a, d) <= Dist(a, c)
  <2>1. d \in C /\ (Dist(a, d) < Dist(a, c) \/ Dist(a, d) = Dist(a, c))
    BY <1>6, <1>10 DEF NearestTo
  <2>2. Dist(a, d) \in Int /\ Dist(a, c) \in Int
    <3>1. a.ts \in Int /\ c.ts \in Int /\ d.ts \in Int
      BY <1>6, <1>7, <2>1 DEF IsEvent
    <3>. QED
      BY <3>1 DEF Dist
  <2>. QED
    BY <2>1, <2>2
<1>12. ASSUME NEW e \in C
       PROVE  Pair(code, a, e).last - Pair(code, a, e).first = Dist(a, e)
  <2>1. a.ts \in Int /\ e.ts \in Int
    BY <1>7 DEF IsEvent
  <2>2. /\ Pair(code, a, e).first = IF a.ts <= e.ts THEN a.ts ELSE e.ts
        /\ Pair(code, a, e).last = IF a.ts <= e.ts THEN e.ts ELSE a.ts
    BY DEF Pair
  <2>. QED
    BY <2>1, <2>2 DEF Dist
<1>13. /\ g.code = f.code /\ g.members[1] = f.members[1]
       /\ g \in ToSet(AllFindings(new))
  BY <1>3, <1>9, <1>10 DEF Pair
<1>14. g.last - g.first <= f.last - f.first
  BY <1>3, <1>6, <1>10, <1>11, <1>12
<1>. QED
  BY <1>13, <1>14

\* MoreEvidenceKeepsPairs: whatever the evidence and whenever it arrives, no
\* pass takes a pairing from an anchor that the last one paired.
THEOREM AlwaysKeepsPairs == Spec => MoreEvidenceKeepsPairs
<1> DEFINE Kept ==
        Match /\ Pass > 0 =>
            \A f \in {g \in Findings(Pass) : g.code \in PairCodes \ {"bruteforce"}} :
                \E g \in ToSet(firings'[Pass + 1]) :
                    /\ g.code = f.code /\ g.members[1] = f.members[1]
                    /\ g.last - g.first <= f.last - f.first
<1>1. PersistTypeOK /\ OneEvidence /\ FoundInTimeline /\ [Next]_vars => [Kept]_vars
  <2> SUFFICES ASSUME PersistTypeOK, OneEvidence, FoundInTimeline, Match, Pass > 0,
                      NEW f \in {g \in Findings(Pass) : g.code \in PairCodes \ {"bruteforce"}}
               PROVE  \E g \in ToSet(firings'[Pass + 1]) :
                         /\ g.code = f.code /\ g.members[1] = f.members[1]
                         /\ g.last - g.first <= f.last - f.first
    OBVIOUS
  <2>1. PICK seen \in SUBSET timeline : firings[Pass] = AllFindings(FetchEvents(seen))
    BY DEF FoundInTimeline
  <2> DEFINE old == FetchEvents(seen)
             new == FetchEvents(timeline)
  <2>2. Timeline(old) /\ Timeline(new) /\ ToSet(old) \subseteq ToSet(new)
    <3>1. Timeline(old) /\ ToSet(old) = {e \in seen : e.ts >= 1}
      BY FetchedFinds
    <3>2. Timeline(new) /\ ToSet(new) = {e \in timeline : e.ts >= 1}
      BY FetchedFinds
    <3>. QED
      BY <3>1, <3>2
  <2>3. firings'[Pass + 1] = AllFindings(new)
    <3> DEFINE found == AllFindings(fetched')
    <3>1. fetched' = new /\ Begin(found)
      BY DEF Match
    <3> HIDE DEF found
    <3>2. firings' = Append(firings, found) /\ firings \in Seq(Seq(Finding))
      BY <3>1 DEF Begin, PersistTypeOK
    <3>3. firings'[Len(firings) + 1] = found
      BY <3>2
    <3>. QED
      BY <3>1, <3>3 DEF found, Pass
  <2>4. f \in ToSet(AllFindings(old))
    BY <2>1 DEF Findings
  <2> HIDE DEF old, new
  <2>5. \E g \in ToSet(AllFindings(new)) :
           /\ g.code = f.code /\ g.members[1] = f.members[1]
           /\ g.last - g.first <= f.last - f.first
    <3> DEFINE code == f.code
    <3>1. code \in PairCodes \ {"bruteforce"} /\ f \in {g \in ToSet(AllFindings(old)) : g.code = code}
      BY <2>4
    <3> HIDE DEF code
    <3>. QED
      BY <2>2, <3>1, PairsAreKept
  <2>. QED
    BY <2>3, <2>5
<1>2. Spec => []PersistTypeOK
  BY PassImplementsPersist, PersistTypeCorrect, PTL
<1>. QED
  BY <1>1, <1>2, EvidenceInvariant, AlwaysFoundInTimeline, PTL DEF Spec, MoreEvidenceKeepsPairs

-------------------------------------------------------------------------------
\* The temporal rules.

\* A claim of absence claims nothing else.
Shaped(rule) ==
    /\ rule.discrepancy \in Seq({rule.discrepancy[k] : k \in DOMAIN rule.discrepancy})
    /\ rule.absent # {} => rule.sequence = <<>> /\ rule.discrepancy = <<>>

LEMMA RulesOfThreeShapes ==
  ASSUME NEW anchor, NEW within, NEW sequence, NEW filter, NEW type, NEW direction
  PROVE  /\ Shaped(With(anchor, within, sequence))
         /\ Shaped(Without(anchor, within, filter))
         /\ Shaped(Against(anchor, within, type, direction))
<1>1. Shaped(With(anchor, within, sequence))
  BY DEF Shaped, With, TemporalRule
<1>2. Shaped(Without(anchor, within, filter))
  BY DEF Shaped, Without, TemporalRule
<1>3. Shaped(Against(anchor, within, type, direction))
  <2> DEFINE x == [role |-> "path", type |-> type, source |-> "MFT", words |-> {},
                   gap |-> MinGap, direction |-> direction]
             s == <<x>>
  <2>1. /\ Against(anchor, within, type, direction).discrepancy = s
        /\ Against(anchor, within, type, direction).absent = {}
    BY DEF Against, TemporalRule
  <2> HIDE DEF x
  <2>2. s \in Seq({s[k] : k \in DOMAIN s})
    OBVIOUS
  <2> HIDE DEF s
  <2>. QED
    BY <2>1, <2>2 DEF Shaped
<1>. QED
  BY <1>1, <1>2, <1>3

LEMMA BundledAreShaped ==
  \A name \in DOMAIN BundledTemporalRules : Shaped(BundledTemporalRules[name])
<1>1. \A name \in DOMAIN FirstRules : Shaped(FirstRules[name])
  <2>1. /\ Shaped(FirstRules.hollow_process)
        /\ Shaped(FirstRules.boot_log_predates_mft)
        /\ Shaped(FirstRules.born_after_modify)
        /\ Shaped(FirstRules.ran_then_deleted)
        /\ Shaped(FirstRules.pam_hook_artifact)
    BY RulesOfThreeShapes DEF FirstRules
  <2>2. DOMAIN FirstRules =
           {"hollow_process", "boot_log_predates_mft", "born_after_modify",
            "ran_then_deleted", "pam_hook_artifact"}
    BY DEF FirstRules
  <2>. QED
    BY <2>1, <2>2
<1>2. \A name \in DOMAIN DamageRules : Shaped(DamageRules[name])
  <2>1. /\ Shaped(DamageRules.sam_hive_copy)
        /\ Shaped(DamageRules.failures_then_success)
        /\ Shaped(DamageRules.exec_predates_birth)
        /\ Shaped(DamageRules.amcache_predates_birth)
        /\ Shaped(DamageRules.dropper_deleted)
        /\ Shaped(DamageRules.shadow_copy_deletion)
        /\ Shaped(DamageRules.backup_catalog_deleted)
        /\ Shaped(DamageRules.mass_file_modify)
    BY RulesOfThreeShapes DEF DamageRules
  <2>2. DOMAIN DamageRules =
           {"sam_hive_copy", "failures_then_success", "exec_predates_birth",
            "amcache_predates_birth", "dropper_deleted", "shadow_copy_deletion",
            "backup_catalog_deleted", "mass_file_modify"}
    BY DEF DamageRules
  <2>. QED
    BY <2>1, <2>2
<1>3. \A name \in DOMAIN FootholdRules : Shaped(FootholdRules[name])
  <2>1. /\ Shaped(FootholdRules.service_start_exec)
        /\ Shaped(FootholdRules.task_run_exec)
        /\ Shaped(FootholdRules.crontab_near_exec)
        /\ Shaped(FootholdRules.task_without_logon)
        /\ Shaped(FootholdRules.new_account_then_logon)
        /\ Shaped(FootholdRules.exec_without_log)
        /\ Shaped(FootholdRules.network_logon_service)
        /\ Shaped(FootholdRules.remote_task_run)
        /\ Shaped(FootholdRules.service_install_start)
    BY RulesOfThreeShapes DEF FootholdRules
  <2>2. DOMAIN FootholdRules =
           {"service_start_exec", "task_run_exec", "crontab_near_exec",
            "task_without_logon", "new_account_then_logon", "exec_without_log",
            "network_logon_service", "remote_task_run", "service_install_start"}
    BY DEF FootholdRules
  <2>. QED
    BY <2>1, <2>2
<1>. QED
  BY <1>1, <1>2, <1>3 DEF BundledTemporalRules

\* The events that answer a filter of a rule about anchor a.
Answers(a, within, filter, E) ==
    {e \in E : e.id # a.id /\ Dist(a, e) <= within /\ FilterMatches(e, filter)}

\* Event e contradicts anchor a, as a clause of the rule has it.
Refutes(e, rule, a) ==
    \E k \in DOMAIN rule.discrepancy : \E r \in ToSet(a.ents) :
        /\ r[1] = rule.discrepancy[k].role /\ r \in ToSet(e.ents)
        /\ e.id # a.id /\ FilterMatches(e, rule.discrepancy[k])
        /\ Contradicts(rule.discrepancy[k], a, e)

\* What a rule claims of anchor a, by a scan of the events E.
Claims(rule, a, E) ==
    /\ FilterMatches(a, rule.anchor)
    /\ \A k \in DOMAIN rule.sequence : Answers(a, rule.within, rule.sequence[k], E) # {}
    /\ \A filter \in rule.absent : Answers(a, rule.within, filter, E) = {}
    /\ rule.discrepancy # <<>> => \E e \in E : Refutes(e, rule, a)

\* A filter over the window has no result when no event answers it.
LEMMA AnswersFound ==
  ASSUME NEW events, events \in Seq(ToSet(events)), NEW a, NEW within, NEW filter
  PROVE  Where(Around(a, within, events), LAMBDA e : FilterMatches(e, filter)) = <<>>
            <=> Answers(a, within, filter, ToSet(events)) = {}
<1> DEFINE E == ToSet(events)
           P == {i \in DOMAIN events : events[i].id # a.id /\ Dist(a, events[i]) <= within}
           near == At(events, P)
           Q == {i \in DOMAIN near : FilterMatches(near[i], filter)}
<1>1. Around(a, within, events) = near
  BY DEF Around, Where
<1>2. /\ near \in Seq(E) /\ DOMAIN near = 1 .. Len(near)
      /\ ToSet(near) = {events[p] : p \in P}
  <2>1. events \in Seq(E) /\ P \in SUBSET (1 .. Len(events))
    OBVIOUS
  <2> HIDE DEF E, P
  <2>. QED
    BY <2>1, AtIsSequence
<1>3. {events[p] : p \in P} = {e \in E : e.id # a.id /\ Dist(a, e) <= within}
  BY DEF ToSet
<1> HIDE DEF near, E, P
<1>4. Where(near, LAMBDA e : FilterMatches(e, filter)) = At(near, Q)
  BY DEF Where
<1>5. Q = {} <=> Answers(a, within, filter, E) = {}
  <2>1. Q = {} <=> \A e \in ToSet(near) : ~ FilterMatches(e, filter)
    BY DEF ToSet
  <2>2. \A e : e \in ToSet(near) <=> e \in E /\ e.id # a.id /\ Dist(a, e) <= within
    BY <1>2, <1>3
  <2>3. (\A e \in ToSet(near) : ~ FilterMatches(e, filter))
           <=> Answers(a, within, filter, E) = {}
    <3> HIDE DEF Q
    <3>. QED
      BY <2>2 DEF Answers
  <2>. QED
    BY <2>1, <2>3
<1>6. At(near, Q) = <<>> <=> Q = {}
  <2>1. Q \in SUBSET (1 .. Len(near))
    BY <1>2
  <2> HIDE DEF Q
  <2>. QED
    BY <1>2, <2>1, AtIsSequence
<1>. QED
  BY <1>1, <1>4, <1>5, <1>6 DEF E

\* What is picked from the events: events, at the positions they are picked by.
LEMMA PickedEvents ==
  ASSUME NEW events, events \in Seq(ToSet(events)), NEW P \in SUBSET (DOMAIN events)
  PROVE  /\ At(events, P) \in Seq(ToSet(events)) /\ ToSet(At(events, P)) = {events[p] : p \in P}
         /\ Len(At(events, P)) \in Nat /\ DOMAIN At(events, P) = 1 .. Len(At(events, P))
<1> DEFINE E == ToSet(events)
<1>1. events \in Seq(E) /\ P \in SUBSET (1 .. Len(events))
  OBVIOUS
<1> HIDE DEF E
<1>. QED
  BY <1>1, AtIsSequence DEF E

\* A rule about contradictory times finds one when an event contradicts the
\* anchor, wherever it is.
LEMMA ContradictionFound ==
  ASSUME NEW events, events \in Seq(ToSet(events)), NEW a, IsEvent(a),
         NEW rule, Shaped(rule)
  PROVE  FirstContradiction(rule, a, events) = <<>>
            <=> \A e \in ToSet(events) : ~ Refutes(e, rule, a)
<1> DEFINE E == ToSet(events)
           clauses == rule.discrepancy
           X == {clauses[k] : k \in DOMAIN clauses} \X E
           refsOf(k) == Where(a.ents, LAMBDA r : r[1] = clauses[k].role)
           sharing(k, r) == Where(events, LAMBDA e :
                               /\ e.id # a.id
                               /\ FilterMatches(e, clauses[k])
                               /\ r \in ToSet(e.ents))
           with(k, r) == {e \in E : e.id # a.id /\ FilterMatches(e, clauses[k]) /\ r \in ToSet(e.ents)}
           pairsWith(k, r) == [j \in DOMAIN sharing(k, r) |-> <<clauses[k], sharing(k, r)[j]>>]
           ofRef(k) == [i \in DOMAIN refsOf(k) |-> pairsWith(k, refsOf(k)[i])]
           ofClause == [k \in DOMAIN clauses |-> FlattenSeq(ofRef(k))]
           all == Compared(rule, a, events)
<1>1. all = FlattenSeq(ofClause)
  BY DEF Compared
<1>2. /\ DOMAIN clauses = 1 .. Len(clauses) /\ Len(clauses) \in Nat
  BY DEF Shaped
<1>3. ASSUME NEW k \in DOMAIN clauses
      PROVE  /\ refsOf(k) \in Seq(ToSet(a.ents))
             /\ ToSet(refsOf(k)) = {r \in ToSet(a.ents) : r[1] = clauses[k].role}
  <2> DEFINE P == {i \in DOMAIN a.ents : a.ents[i][1] = clauses[k].role}
             refs == a.ents
  <2>1. refsOf(k) = At(refs, P)
    BY DEF Where
  <2>2. refs \in Seq(ToSet(refs)) /\ P \in SUBSET (1 .. Len(refs))
    BY DEF IsEvent
  <2>3. {refs[p] : p \in P} = {r \in ToSet(refs) : r[1] = clauses[k].role}
    BY DEF ToSet
  <2> HIDE DEF P, refs, refsOf
  <2>4. At(refs, P) \in Seq(ToSet(refs)) /\ ToSet(At(refs, P)) = {refs[p] : p \in P}
    BY <2>2, AtIsSequence
  <2>. QED
    BY <2>1, <2>3, <2>4 DEF refs
<1>4. ASSUME NEW k \in DOMAIN clauses, NEW r
      PROVE  /\ pairsWith(k, r) \in Seq(X)
             /\ ToSet(pairsWith(k, r)) = {<<clauses[k], e>> : e \in with(k, r)}
  <2> DEFINE P == {i \in DOMAIN events : /\ events[i].id # a.id
                                         /\ FilterMatches(events[i], clauses[k])
                                         /\ r \in ToSet(events[i].ents)}
             es == At(events, P)
  <2>1. sharing(k, r) = es
    BY DEF Where
  <2>2. {events[p] : p \in P} = with(k, r)
    BY DEF ToSet
  <2>3. events \in Seq(E) /\ P \in SUBSET (1 .. Len(events))
    OBVIOUS
  <2>4. clauses[k] \in {clauses[l] : l \in DOMAIN clauses}
    OBVIOUS
  <2> HIDE DEF P, E, sharing, with
  <2>5. /\ es \in Seq(E) /\ ToSet(es) = {events[p] : p \in P}
        /\ Len(es) \in Nat /\ DOMAIN es = 1 .. Len(es)
    <3>1. /\ At(events, P) \in Seq(E) /\ ToSet(At(events, P)) = {events[p] : p \in P}
          /\ Len(At(events, P)) \in Nat /\ DOMAIN At(events, P) = 1 .. Len(At(events, P))
      <4> HIDE DEF clauses, X, refsOf, ofRef, ofClause, all, pairsWith
      <4>1. P \in SUBSET (DOMAIN events)
        BY <2>3
      <4>. QED
        BY <4>1, PickedEvents DEF E
    <3>. QED
      BY <3>1
  <2> HIDE DEF es
  <2> DEFINE n == Len(es)
             t == [j \in 1 .. n |-> <<clauses[k], es[j]>>]
  <2>6. pairsWith(k, r) = t
    BY <2>1, <2>5
  <2> HIDE DEF pairsWith
  <2>7. \A j \in 1 .. n : es[j] \in E
    BY <2>5 DEF ToSet
  <2>8. t \in [1 .. n -> X]
    BY <2>4, <2>7
  <2>9. ToSet(es) = {es[j] : j \in 1 .. n}
    BY <2>5 DEF ToSet
  <2> HIDE DEF X
  <2>10. n \in Nat
    BY <2>5
  <2> HIDE DEF n
  <2>11. t \in Seq(X) /\ ToSet(t) = {t[j] : j \in 1 .. n}
    BY <2>8, <2>10, SequenceOf DEF ToSet
  <2>12. {t[j] : j \in 1 .. n} = {<<clauses[k], e>> : e \in ToSet(es)}
    BY <2>9
  <2>. QED
    BY <2>2, <2>5, <2>6, <2>11, <2>12
<1> HIDE DEF pairsWith
<1>5. ASSUME NEW k \in DOMAIN clauses
      PROVE  /\ FlattenSeq(ofRef(k)) \in Seq(X)
             /\ \A p : p \in ToSet(FlattenSeq(ofRef(k))) <=>
                  \E r \in ToSet(a.ents) : /\ r[1] = clauses[k].role
                                           /\ \E e \in with(k, r) : p = <<clauses[k], e>>
  <2> DEFINE refs == refsOf(k)
             n == Len(refs)
             s == [i \in 1 .. n |-> pairsWith(k, refs[i])]
  <2>1. refs \in Seq(ToSet(a.ents)) /\ ToSet(refs) = {r \in ToSet(a.ents) : r[1] = clauses[k].role}
    BY <1>3
  <2> HIDE DEF refsOf
  <2>2. n \in Nat /\ DOMAIN refs = 1 .. n
    BY <2>1
  <2>3. ofRef(k) = s
    BY <2>2
  <2>4. s \in [1 .. n -> Seq(X)]
    BY <1>4
  <2> HIDE DEF n, refs, X, ofRef
  <2> HIDE DEF with
  <2>5. /\ FlattenSeq(s) \in Seq(X)
        /\ ToSet(FlattenSeq(s)) = UNION {ToSet(s[i]) : i \in 1 .. n}
    <3> HIDE DEF s
    <3>1. FlattenSeq(s) \in Seq(X)
      BY <2>2, <2>4, FlattenIsSequence, SMTT(20)
    <3>2. ToSet(FlattenSeq(s)) = UNION {ToSet(s[i]) : i \in 1 .. n}
      BY <2>2, <2>4, FlattenIsSequence, ZenonT(20)
    <3>. QED
      BY <3>1, <3>2
  <2>6. ASSUME NEW p
        PROVE  p \in ToSet(FlattenSeq(s)) <=> \E i \in 1 .. n : \E e \in with(k, refs[i]) : p = <<clauses[k], e>>
    <3>1. \A i \in 1 .. n : ToSet(s[i]) = {<<clauses[k], e>> : e \in with(k, refs[i])}
      BY <1>4
    <3> HIDE DEF s
    <3>2. p \in ToSet(FlattenSeq(s)) <=> \E i \in 1 .. n : p \in ToSet(s[i])
      BY <2>5
    <3>. QED
      BY <3>1, <3>2
  <2>7. ToSet(refs) = {refs[i] : i \in 1 .. n}
    BY <2>2 DEF ToSet
  <2>8. ASSUME NEW r
        PROVE (r \in ToSet(a.ents) /\ r[1] = clauses[k].role) <=> \E i \in 1 .. n : r = refs[i]
    BY <2>1, <2>7
  <2>9. ASSUME NEW p
        PROVE  (\E i \in 1 .. n : \E e \in with(k, refs[i]) : p = <<clauses[k], e>>)
                 <=> \E r \in ToSet(a.ents) :
                        r[1] = clauses[k].role /\ \E e \in with(k, r) : p = <<clauses[k], e>>
    <3> HIDE DEF clauses
    <3>. QED
      BY <2>8
  <2> HIDE DEF s, clauses
  <2>. QED
    BY <2>3, <2>5, <2>6, <2>9
<1> HIDE DEF ofRef, with
<1>6. /\ all \in Seq(X)
      /\ \A p : p \in ToSet(all) <=>
           \E k \in DOMAIN clauses : \E r \in ToSet(a.ents) :
              r[1] = clauses[k].role /\ \E e \in with(k, r) : p = <<clauses[k], e>>
  <2> DEFINE n == Len(clauses)
  <2>1. n \in Nat /\ DOMAIN clauses = 1 .. n
    BY <1>2
  <2> HIDE DEF n, X, clauses
  <2>2. ofClause \in [1 .. n -> Seq(X)] /\ \A k \in 1 .. n : ofClause[k] = FlattenSeq(ofRef(k))
    BY <1>5, <2>1
  <2> HIDE DEF ofClause
  <2>3. /\ FlattenSeq(ofClause) \in Seq(X)
        /\ ToSet(FlattenSeq(ofClause)) = UNION {ToSet(ofClause[k]) : k \in 1 .. n}
    BY <2>1, <2>2, FlattenIsSequence
  <2>4. \A p : p \in ToSet(FlattenSeq(ofClause)) <=> \E k \in 1 .. n : p \in ToSet(FlattenSeq(ofRef(k)))
    BY <2>2, <2>3
  <2>5. ASSUME NEW k \in 1 .. n, NEW p
        PROVE  p \in ToSet(FlattenSeq(ofRef(k))) <=>
                  \E r \in ToSet(a.ents) : /\ r[1] = clauses[k].role
                                           /\ \E e \in with(k, r) : p = <<clauses[k], e>>
    BY <1>5, <2>1
  <2> HIDE DEF all
  <2>. QED
    BY <1>1, <2>1, <2>3, <2>4, <2>5
<1> HIDE DEF all, ofClause
<1> DEFINE P == {i \in DOMAIN all : Contradicts(all[i][1], a, all[i][2])}
           hits == At(all, P)
<1>7. FirstContradiction(rule, a, events) = IF hits = <<>> THEN <<>> ELSE <<hits[1][2]>>
  BY DEF FirstContradiction, Where, all
<1>8. FirstContradiction(rule, a, events) = <<>> <=> hits = <<>>
  <2> HIDE DEF hits
  <2>. QED
    BY <1>7
<1>9. hits = <<>> <=> P = {}
  <2>1. P \in SUBSET (1 .. Len(all))
    BY <1>6
  <2> HIDE DEF P, X
  <2>. QED
    BY <1>6, <2>1, AtIsSequence
<1>10. P = {} <=> \A p \in ToSet(all) : ~ Contradicts(p[1], a, p[2])
  BY DEF ToSet
<1>11. (\A p \in ToSet(all) : ~ Contradicts(p[1], a, p[2]))
         <=> \A k \in DOMAIN clauses : \A r \in ToSet(a.ents) :
                r[1] = clauses[k].role => \A e \in with(k, r) : ~ Contradicts(clauses[k], a, e)
  <2> HIDE DEF clauses, P, hits, E, X
  <2>1. ASSUME NEW k \in DOMAIN clauses, NEW r \in ToSet(a.ents), r[1] = clauses[k].role,
               NEW e \in with(k, r)
        PROVE  <<clauses[k], e>> \in ToSet(all)
    BY <1>6, <2>1
  <2>2. ASSUME NEW p \in ToSet(all)
        PROVE  \E k \in DOMAIN clauses : \E r \in ToSet(a.ents) :
                  r[1] = clauses[k].role /\ \E e \in with(k, r) : p = <<clauses[k], e>>
    BY <1>6
  <2>3. ASSUME \A p \in ToSet(all) : ~ Contradicts(p[1], a, p[2]),
               NEW k \in DOMAIN clauses, NEW r \in ToSet(a.ents), r[1] = clauses[k].role,
               NEW e \in with(k, r)
        PROVE  ~ Contradicts(clauses[k], a, e)
    <3>1. ~ Contradicts(<<clauses[k], e>>[1], a, <<clauses[k], e>>[2])
      BY <2>1, <2>3
    <3>. QED
      BY <3>1
  <2>4. ASSUME \A k \in DOMAIN clauses : \A r \in ToSet(a.ents) :
                 r[1] = clauses[k].role => \A e \in with(k, r) : ~ Contradicts(clauses[k], a, e),
               NEW p \in ToSet(all)
        PROVE  ~ Contradicts(p[1], a, p[2])
    <3>1. PICK k \in DOMAIN clauses, r \in ToSet(a.ents) :
             r[1] = clauses[k].role /\ \E e \in with(k, r) : p = <<clauses[k], e>>
      BY <2>2
    <3>2. PICK e \in with(k, r) : p = <<clauses[k], e>>
      BY <3>1
    <3>3. ~ Contradicts(clauses[k], a, e) /\ p[1] = clauses[k] /\ p[2] = e
      BY <2>4, <3>1, <3>2
    <3>. QED
      BY <3>3
  <2>. QED
    BY <2>3, <2>4
<1>. QED
  BY <1>8, <1>9, <1>10, <1>11 DEF Refutes, with

\* What a rule finds is what it claims, by a scan of everything it reads.
LEMMA TemporalFinds ==
  ASSUME NEW events, events \in Seq(ToSet(events)), \A e \in ToSet(events) : IsEvent(e),
         NEW rule, Shaped(rule)
  PROVE  {f.anchor : f \in ToSet(EvaluateTemporal(rule, events))}
            = {a.id : a \in {e \in ToSet(events) : Claims(rule, e, ToSet(events))}}
<1> DEFINE E == ToSet(events)
           anchors == Where(events, LAMBDA e : FilterMatches(e, rule.anchor))
           matches(a, filter) ==
               Where(Around(a, rule.within, events), LAMBDA e : FilterMatches(e, filter))
           contradiction(a) == FirstContradiction(rule, a, events)
           fires(a) ==
               /\ \A k \in DOMAIN rule.sequence : matches(a, rule.sequence[k]) # <<>>
               /\ \A filter \in rule.absent : matches(a, filter) = <<>>
               /\ rule.discrepancy # <<>> => contradiction(a) # <<>>
           firing == Where(anchors, fires)
           matched(a) == [k \in DOMAIN rule.sequence |-> matches(a, rule.sequence[k])[1].id]
                         \o [k \in DOMAIN contradiction(a) |-> contradiction(a)[k].id]
           found == [i \in DOMAIN firing |->
                        [anchor |-> firing[i].id, matched |-> matched(firing[i])]]
<1>1. EvaluateTemporal(rule, events) = found
  BY DEF EvaluateTemporal
<1>2. /\ anchors \in Seq(E) /\ DOMAIN anchors = 1 .. Len(anchors)
      /\ ToSet(anchors) = {e \in E : FilterMatches(e, rule.anchor)}
  <2> DEFINE P == {i \in DOMAIN events : FilterMatches(events[i], rule.anchor)}
  <2>1. anchors = At(events, P)
    BY DEF Where
  <2>2. {events[p] : p \in P} = {e \in E : FilterMatches(e, rule.anchor)}
    BY DEF ToSet
  <2>3. events \in Seq(E) /\ P \in SUBSET (1 .. Len(events))
    OBVIOUS
  <2> HIDE DEF P, E, anchors, matches, contradiction, fires, firing, matched, found
  <2>4. /\ At(events, P) \in Seq(E) /\ ToSet(At(events, P)) = {events[p] : p \in P}
        /\ DOMAIN At(events, P) = 1 .. Len(At(events, P))
    BY <2>3, AtIsSequence
  <2>. QED
    BY <2>1, <2>2, <2>4
<1> HIDE DEF anchors, matched
<1>3. ASSUME NEW a \in E
      PROVE  FilterMatches(a, rule.anchor) /\ fires(a) <=> Claims(rule, a, E)
  <2>1. \A filter : matches(a, filter) = <<>> <=> Answers(a, rule.within, filter, E) = {}
    BY AnswersFound
  <2>2. contradiction(a) = <<>> <=> \A e \in E : ~ Refutes(e, rule, a)
    BY ContradictionFound
  <2> HIDE DEF matches, contradiction, E
  <2>. QED
    BY <2>1, <2>2 DEF Claims
<1> HIDE DEF matches, contradiction
<1>4. DOMAIN firing = 1 .. Len(firing) /\ ToSet(firing) = {a \in ToSet(anchors) : fires(a)}
  <2> DEFINE P == {i \in DOMAIN anchors : fires(anchors[i])}
  <2>1. firing = At(anchors, P)
    BY DEF Where
  <2>2. {anchors[p] : p \in P} = {a \in ToSet(anchors) : fires(a)}
    <3> HIDE DEF fires
    <3>. QED
      BY DEF ToSet
  <2>3. P \in SUBSET (1 .. Len(anchors))
    BY <1>2
  <2> HIDE DEF P, E, fires, firing
  <2>4. /\ ToSet(At(anchors, P)) = {anchors[p] : p \in P}
        /\ DOMAIN At(anchors, P) = 1 .. Len(At(anchors, P))
    BY <1>2, <2>3, AtIsSequence
  <2>. QED
    BY <2>1, <2>2, <2>4
<1> HIDE DEF firing, fires
<1>5. {f.anchor : f \in ToSet(found)} = {a.id : a \in ToSet(firing)}
  <2>1. DOMAIN found = DOMAIN firing /\ \A i \in DOMAIN firing : found[i].anchor = firing[i].id
    OBVIOUS
  <2>2. ToSet(found) = {found[i] : i \in DOMAIN firing}
    BY <2>1 DEF ToSet
  <2> HIDE DEF found
  <2>3. {f.anchor : f \in ToSet(found)} = {firing[i].id : i \in DOMAIN firing}
    BY <2>1, <2>2
  <2>4. {a.id : a \in ToSet(firing)} = {firing[i].id : i \in DOMAIN firing}
    BY DEF ToSet
  <2>. QED
    BY <2>3, <2>4
<1> HIDE DEF found
<1>6. ToSet(firing) = {a \in E : Claims(rule, a, E)}
  BY <1>2, <1>3, <1>4
<1>. QED
  BY <1>1, <1>5, <1>6 DEF E

\* More events answer more and contradict more.
LEMMA ClaimsGrow ==
  ASSUME NEW E, NEW F, E \subseteq F, NEW rule, Shaped(rule), NEW a \in E
  PROVE  /\ rule.absent = {} /\ Claims(rule, a, E) => Claims(rule, a, F)
         /\ rule.absent # {} /\ Claims(rule, a, F) => Claims(rule, a, E)
<1>1. \A within, filter : Answers(a, within, filter, E) \subseteq Answers(a, within, filter, F)
  BY DEF Answers
<1>2. rule.absent # {} => DOMAIN rule.sequence = {} /\ rule.discrepancy = <<>>
  BY DEF Shaped
<1>. QED
  BY <1>1, <1>2 DEF Claims

\* So the narrative of a larger timeline takes nothing back.
LEMMA NarrativeGrows ==
  ASSUME NEW old, old \in Seq(ToSet(old)), NEW new, new \in Seq(ToSet(new)),
         ToSet(old) \subseteq ToSet(new), \A e \in ToSet(new) : IsEvent(e),
         \A e, f \in ToSet(new) : e.id = f.id => e = f,
         ToSet(old) = timeline
  PROVE  NothingTakenBack(Narrative(old), Narrative(new))
<1> SUFFICES ASSUME NEW name \in DOMAIN BundledTemporalRules
             PROVE  IF BundledTemporalRules[name].absent = {}
                    THEN Narrative(old)[name] \subseteq Narrative(new)[name]
                    ELSE Narrative(new)[name] \cap {e.id : e \in timeline}
                            \subseteq Narrative(old)[name]
  BY DEF NothingTakenBack
<1> DEFINE rule == BundledTemporalRules[name]
           E == ToSet(old)
           F == ToSet(new)
<1>1. Shaped(rule)
  BY BundledAreShaped
<1>2. /\ Narrative(old)[name] = {f.anchor : f \in ToSet(EvaluateTemporal(rule, old))}
      /\ Narrative(new)[name] = {f.anchor : f \in ToSet(EvaluateTemporal(rule, new))}
  BY DEF Narrative
<1>3. \A e \in E : IsEvent(e)
  OBVIOUS
<1> HIDE DEF rule
<1>4. /\ Narrative(old)[name] = {a.id : a \in {e \in E : Claims(rule, e, E)}}
      /\ Narrative(new)[name] = {a.id : a \in {e \in F : Claims(rule, e, F)}}
  BY <1>1, <1>2, <1>3, TemporalFinds
<1>5. \A a \in E : /\ rule.absent = {} /\ Claims(rule, a, E) => Claims(rule, a, F)
                   /\ rule.absent # {} /\ Claims(rule, a, F) => Claims(rule, a, E)
  BY <1>1, ClaimsGrow
<1>6. rule.absent = {} => Narrative(old)[name] \subseteq Narrative(new)[name]
  BY <1>4, <1>5
<1>7. ASSUME rule.absent # {}, NEW id \in Narrative(new)[name], id \in {e.id : e \in timeline}
      PROVE  id \in Narrative(old)[name]
  <2>1. PICK a \in F : a.id = id /\ Claims(rule, a, F)
    BY <1>4
  <2>2. PICK e \in E : e.id = id
    BY <1>7
  <2>3. a = e
    BY <2>1, <2>2
  <2>. QED
    BY <1>4, <1>5, <1>7, <2>1, <2>2, <2>3
<1>. QED
  BY <1>6, <1>7 DEF rule

\* Of the evidence, in the order of time: the rows, told apart by their ids.
LEMMA InOrderOfTime ==
  ASSUME NEW evidence \in Scenarios, NEW table \in SUBSET evidence
  PROVE  /\ ByTime(table) \in Seq(ToSet(ByTime(table))) /\ ToSet(ByTime(table)) = table
         /\ \A e \in table : IsEvent(e)
         /\ \A e, f \in table : e.id = f.id => e = f
<1>1. /\ IsFiniteSet(evidence) /\ \A e \in evidence : IsEvent(e)
      /\ \A e, f \in evidence : e.id = f.id => e = f
  BY EvidenceAssumption
<1>2. IsFiniteSet(table)
  BY <1>1, FS_Subset
<1>3. Timed(table)
  BY <1>1, <1>2 DEF Timed, IsEvent
<1>4. ByTime(table) \in Seq(table) /\ ToSet(ByTime(table)) = table
  BY <1>3, ByTimeInOrder
<1>. QED
  BY <1>1, <1>4

\* NarrativeIsMonotone: whatever evidence arrives, the narrative takes back
\* nothing but a claim of absence, and makes none of an older anchor.
THEOREM AlwaysNarrativeMonotone == Spec => NarrativeIsMonotone
<1> DEFINE Kept == Pass = 0 /\ timeline' # timeline =>
                      NothingTakenBack(Narrative(ByTime(timeline)), Narrative(ByTime(timeline')))
<1>1. OneEvidence /\ OneEvidence' /\ [Next]_vars => [Kept]_vars
  <2> SUFFICES ASSUME OneEvidence, OneEvidence', Next
               PROVE  NothingTakenBack(Narrative(ByTime(timeline)), Narrative(ByTime(timeline')))
    OBVIOUS
  <2>1. timeline \subseteq timeline'
    <3>1. CASE \E e \in arriving : Store(e)
      BY <3>1 DEF Store
    <3>2. CASE Match \/ StoreFinding \/ EndPass
      BY <3>2 DEF Match, StoreFinding, EndPass
    <3>. QED
      BY <3>1, <3>2 DEF Next
  <2> DEFINE later == timeline'
  <2>2. PICK evidence \in Scenarios : later \cup arriving' = evidence
    BY DEF OneEvidence
  <2> HIDE DEF later
  <2>3. timeline \in SUBSET evidence /\ later \in SUBSET evidence
    BY <2>1, <2>2 DEF later
  <2> DEFINE old == ByTime(timeline)
             new == ByTime(later)
  <2>4. old \in Seq(ToSet(old)) /\ ToSet(old) = timeline
    BY <2>3, InOrderOfTime
  <2>5. /\ new \in Seq(ToSet(new)) /\ ToSet(new) = later
        /\ \A e \in later : IsEvent(e)
        /\ \A e, f \in later : e.id = f.id => e = f
    BY <2>3, InOrderOfTime
  <2> HIDE DEF old, new
  <2>6. ToSet(old) \subseteq ToSet(new)
    BY <2>1, <2>4, <2>5 DEF later
  <2>7. NothingTakenBack(Narrative(old), Narrative(new))
    BY <2>4, <2>5, <2>6, NarrativeGrows
  <2>. QED
    BY <2>7 DEF old, new, later
<1>. QED
  BY <1>1, EvidenceInvariant, PTL DEF Spec, NarrativeIsMonotone

===============================================================================
