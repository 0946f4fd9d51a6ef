----------------------------- MODULE UnpackProofs -----------------------------
(***************************************************************************)
(* What is unpacked is whole: an image copied out of an archive is all     *)
(* there or an error and leaves the reserve (SpillVolume), a read in a     *)
(* DEFLATE member returns the member's bytes (DeflateSeek), and however    *)
(* many threads read members of one .tar.bz2 through one cursor and one    *)
(* cache, each of them reads its member like a plain file: BzSeek          *)
(* implements PlainReader.  And what the threads of the pool that reads the*)
(* sources hold is what they work on (SourcePool).                         *)
(***************************************************************************)
EXTENDS SourcePool, SpillVolume, BzSeek, DeflateSeek,
        SequenceTheorems, WellFoundedInduction, TLAPS

\* A set of numbers that is not empty has a least one.
LEMMA LeastOf ==
  ASSUME NEW T \in SUBSET Nat, T # {}
  PROVE  \E m \in T : \A k \in T : m <= k
<1>1. PICK m \in T : \A k \in T : ~ (<<k, m>> \in OpToRel(<, Nat))
  BY NatLessThanWellFounded, WFMin
<1>2. \A k \in T : ~ (k < m)
  BY <1>1 DEF OpToRel
<1>. QED
  BY <1>2

-------------------------------------------------------------------------------
\* Decoding a DEFLATE stream.

\* A table each of whose entries is given or is an earlier one exists.
LEMMA TableExists ==
  ASSUME NEW n \in Nat, NEW back \in [1 .. n -> Nat], \A i \in 1 .. n : back[i] < i,
         NEW given \in [1 .. n -> Nat]
  PROVE  \E f \in [1 .. n -> Nat] :
            \A i \in 1 .. n : f[i] = IF back[i] = 0 THEN given[i] ELSE f[i - back[i]]
<1> DEFINE Value(f, i) == IF back[i] = 0 THEN given[i] ELSE f[i - back[i]]
           UpTo(m) == \E f \in [1 .. m -> Nat] : \A i \in 1 .. m : f[i] = Value(f, i)
           without == {m \in 0 .. n : ~ UpTo(m)}
<1>1. without = {}
  <2> SUFFICES ASSUME without # {} PROVE FALSE
    OBVIOUS
  <2>1. without \in SUBSET Nat
    OBVIOUS
  <2> HIDE DEF without
  <2>2. PICK m \in without : \A k \in without : m <= k
    BY <2>1, LeastOf
  <2> USE DEF without
  <2>3. m \in 0 .. n /\ ~ UpTo(m)
    BY <2>2
  <2>4. m # 0
    <3>1. UpTo(0)
      <4> DEFINE f == [i \in 1 .. 0 |-> 0]
      <4>1. f \in [1 .. 0 -> Nat] /\ \A i \in 1 .. 0 : f[i] = Value(f, i)
        OBVIOUS
      <4>. QED
        BY <4>1
    <3>. QED
      BY <2>3, <3>1
  <2>5. m \in 1 .. n /\ m - 1 \in 0 .. n
    BY <2>3, <2>4
  <2>6. UpTo(m - 1)
    <3> HIDE DEF UpTo
    <3>1. m - 1 \notin without
      <4> HIDE DEF without
      <4>. QED
        BY <2>2, <2>5
    <3>. QED
      BY <2>5, <3>1
  <2>7. PICK f \in [1 .. (m - 1) -> Nat] : \A i \in 1 .. (m - 1) : f[i] = Value(f, i)
    BY <2>6
  <2> DEFINE new == Value(f, m)
             g == [i \in 1 .. m |-> IF i = m THEN new ELSE f[i]]
  <2>8. new \in Nat
    <3>1. m \in 1 .. n /\ back[m] \in Nat /\ back[m] < m /\ given[m] \in Nat
      BY <2>5
    <3>2. CASE back[m] = 0
      BY <3>1, <3>2
    <3>3. CASE back[m] # 0
      <4> DEFINE d == back[m]
      <4>1. m - d \in 1 .. (m - 1)
        <5>1. m \in Nat /\ d \in Nat /\ d < m /\ d # 0
          BY <3>1, <3>3
        <5> HIDE DEF d
        <5>. QED
          BY <5>1
      <4> DEFINE j == m - back[m]
      <4>2. f[m - back[m]] \in Nat
        <5>1. j \in 1 .. (m - 1)
          BY <4>1
        <5> HIDE DEF j
        <5>2. f[j] \in Nat
          BY <2>7, <5>1
        <5>. QED
          BY <5>2 DEF j
      <4>. QED
        BY <3>3, <4>2
    <3>. QED
      BY <3>2, <3>3
  <2> HIDE DEF new
  <2>9. /\ g \in [1 .. m -> Nat] /\ g[m] = new
        /\ \A i \in 1 .. (m - 1) : g[i] = f[i]
    BY <2>5, <2>7, <2>8
  <2> HIDE DEF g
  <2>10. ASSUME NEW i \in 1 .. m PROVE g[i] = Value(g, i)
    <3>1. back[i] \in Nat /\ back[i] < i /\ i \in 1 .. n
      BY <2>5
    <3>2. back[i] # 0 => i - back[i] \in 1 .. (m - 1)
      BY <2>5, <3>1
    <3>3. Value(g, i) = Value(f, i)
      BY <2>9, <3>2
    <3>4. CASE i = m
      BY <2>9, <3>3, <3>4 DEF new
    <3>5. CASE i # m
      <4>1. i \in 1 .. (m - 1)
        BY <2>5, <3>5
      <4>. QED
        BY <2>7, <2>9, <3>3, <4>1
    <3>. QED
      BY <3>4, <3>5
  <2>11. UpTo(m)
    BY <2>9, <2>10
  <2>. QED
    BY <2>3, <2>11
<1>2. UpTo(n)
  <2> HIDE DEF UpTo
  <2>. QED
    BY <1>1
<1>. QED
  BY <1>2

\* What the whole stream decodes to: a literal, or what was decoded dist back.
LEMMA DecodedIs ==
  ASSUME DefTypeOK
  PROVE  /\ Decoded \in [1 .. Len(coded.dists) -> Nat]
         /\ \A i \in 1 .. Len(coded.dists) :
               Decoded[i] = IF coded.dists[i] = 0 THEN i ELSE Decoded[i - coded.dists[i]]
<1> DEFINE n == Len(coded.dists)
           dists == coded.dists
           given == [i \in 1 .. n |-> i]
           Table(f) == [i \in 1 .. n |-> IF dists[i] = 0 THEN i ELSE f[i - dists[i]]]
<1>1. /\ n \in Nat /\ dists \in [1 .. n -> Nat] /\ \A i \in 1 .. n : dists[i] < i
      /\ given \in [1 .. n -> Nat]
  <2>1. dists \in Seq(0 .. Window) /\ \A i \in DOMAIN dists : dists[i] < i
    BY DEF DefTypeOK
  <2>2. n \in Nat /\ dists \in [1 .. n -> 0 .. Window] /\ DOMAIN dists = 1 .. n
    BY <2>1, LenProperties
  <2>. QED
    BY <2>1, <2>2
<1>2. PICK f \in [1 .. n -> Nat] :
         \A i \in 1 .. n : f[i] = IF dists[i] = 0 THEN given[i] ELSE f[i - dists[i]]
  <2> HIDE DEF n, dists, given
  <2>. QED
    BY <1>1, TableExists
<1>3. f = Table(f)
  BY <1>2
<1>4. Decoded = CHOOSE g : g = Table(g)
  BY DEF Decoded
<1> HIDE DEF Table
<1>5. Decoded = Table(Decoded)
  BY <1>3, <1>4, Zenon
<1> USE DEF Table
<1>6. \A i \in 1 .. n : Decoded[i] = IF dists[i] = 0 THEN i ELSE Decoded[i - dists[i]]
  BY <1>5
<1>7. Decoded \in [1 .. n -> Nat]
  <2>1. \A i \in 1 .. n : Decoded[i] \in Nat
    <3> DEFINE bad == {i \in 1 .. n : Decoded[i] \notin Nat}
    <3> SUFFICES ASSUME bad # {} PROVE FALSE
      OBVIOUS
    <3>1. bad \in SUBSET Nat
      OBVIOUS
    <3> HIDE DEF bad
    <3>2. PICK i \in bad : \A k \in bad : i <= k
      BY <3>1, LeastOf
    <3> USE DEF bad
    <3>3. i \in 1 .. n /\ Decoded[i] \notin Nat /\ dists[i] \in Nat /\ dists[i] < i
      BY <1>1, <3>2
    <3>4. dists[i] # 0 /\ Decoded[i] = Decoded[i - dists[i]]
      BY <1>6, <3>3
    <3>5. i - dists[i] \in 1 .. n /\ i - dists[i] < i
      BY <3>3, <3>4
    <3>6. i - dists[i] \in bad
      BY <3>3, <3>4, <3>5
    <3> HIDE DEF bad
    <3>. QED
      BY <3>1, <3>2, <3>5, <3>6
  <2>2. Decoded = [i \in 1 .. n |-> Decoded[i]]
    BY <1>5
  <2>. QED
    BY <2>1, <2>2
<1>. QED
  BY <1>6, <1>7

\* What the stream's parts are.
LEMMA StreamParts ==
  ASSUME DefTypeOK
  PROVE  /\ Len(coded.dists) \in Nat /\ total \in Nat /\ total <= Len(coded.dists)
         /\ \A i \in 1 .. Len(coded.dists) :
               coded.dists[i] \in Nat /\ coded.dists[i] <= Window /\ coded.dists[i] < i
         /\ cursor \in Nat /\ Window <= cursor /\ cursor <= Window + Segment
         /\ Window \in Nat \ {0} /\ Segment \in Nat \ {0} /\ Window + Segment \in Nat
         /\ Len(checkpoints) \in Nat /\ DOMAIN checkpoints = 1 .. Len(checkpoints)
<1>1. Window \in Nat \ {0} /\ Segment \in Nat \ {0}
  BY DeflateAssumption
<1>2. /\ Len(coded.dists) \in Nat /\ DOMAIN coded.dists = 1 .. Len(coded.dists)
      /\ coded.dists \in [1 .. Len(coded.dists) -> 0 .. Window]
  <2>1. coded.dists \in Seq(0 .. Window)
    BY DEF DefTypeOK
  <2>. QED
    BY <2>1, LenProperties
<1>3. \A i \in 1 .. Len(coded.dists) : coded.dists[i] \in 0 .. Window /\ coded.dists[i] < i
  BY <1>2 DEF DefTypeOK
<1>4. \A d \in 0 .. Window : d \in Nat /\ d <= Window
  BY <1>1
<1>5. Len(checkpoints) \in Nat /\ DOMAIN checkpoints = 1 .. Len(checkpoints)
  BY DEF DefTypeOK
<1>6. total \in 0 .. Len(coded.dists) /\ cursor \in Window .. Window + Segment
  BY DEF DefTypeOK
<1>7. /\ cursor \in Nat /\ Window <= cursor /\ cursor <= Window + Segment
      /\ Window + Segment \in Nat
  BY <1>1, <1>6
<1>. QED
  BY <1>1, <1>2, <1>3, <1>4, <1>5, <1>6, <1>7

\* Decoding on from a checkpoint's window gives what the whole stream decodes to.
LEMMA OutputIsDecoded ==
  ASSUME DefTypeOK, NEW cp, HoldsWindow(cp), NEW end \in cp.at .. total
  PROVE  \A i \in 1 .. Len(cp.window) + end - cp.at :
            Output(cp, end)[i] = Decoded[cp.at - Len(cp.window) + i]
<1> DEFINE dists == coded.dists
           all == Len(coded.dists)
           wlen == Len(cp.window)
           n == wlen + end - cp.at
           base == cp.at - wlen
           out == Output(cp, end)
<1>1. /\ all \in Nat /\ Window \in Nat \ {0}
      /\ \A i \in 1 .. all : dists[i] \in Nat /\ dists[i] <= Window /\ dists[i] < i
  BY StreamParts
<1>0. /\ cp.at \in Nat /\ wlen = Smaller(cp.at, Window)
      /\ \A k \in 1 .. wlen : cp.window[k] = Decoded[base + k]
  BY DEF HoldsWindow
<1>2. /\ cp.at \in Nat /\ end \in Nat /\ cp.at <= end /\ end <= all
      /\ wlen \in Nat /\ base \in Nat /\ n \in Nat /\ wlen <= n /\ base + n = end
      /\ base = 0 \/ wlen = Window
  <2>1. cp.at \in Nat /\ end \in Nat /\ cp.at <= end /\ end <= all
    BY <1>0, StreamParts
  <2>2. wlen = Smaller(cp.at, Window)
    BY <1>0
  <2> HIDE DEF all, wlen
  <2>3. wlen \in Nat /\ wlen <= cp.at /\ (wlen = cp.at \/ wlen = Window)
    BY <1>1, <2>1, <2>2 DEF Smaller
  <2>. QED
    BY <2>1, <2>3
<1>3. /\ \A i \in 1 .. all : Decoded[i] \in Nat
      /\ \A i \in 1 .. all : Decoded[i] = IF dists[i] = 0 THEN i ELSE Decoded[i - dists[i]]
  BY DecodedIs
<1> DEFINE back == [i \in 1 .. n |-> IF i > wlen THEN dists[base + i] ELSE 0]
           given == [i \in 1 .. n |-> IF i > wlen THEN base + i ELSE Decoded[base + i]]
<1>4. \A i \in 1 .. n :
         /\ base + i \in 1 .. all /\ cp.at + i - wlen = base + i
         /\ i > wlen => dists[base + i] < i
  <2>. HIDE DEF n, all, wlen, dists
  <2>0. \A i \in 1 .. n : cp.at + i - wlen = base + i
    BY <1>2
  <2> HIDE DEF base
  <2> SUFFICES ASSUME NEW i \in 1 .. n
               PROVE  /\ base + i \in 1 .. all
                      /\ i > wlen => dists[base + i] < i
    BY <2>0
  <2>1. base + i \in 1 .. all
    BY <1>1, <1>2
  <2>2. /\ dists[base + i] \in Nat /\ dists[base + i] <= Window /\ dists[base + i] < base + i
    BY <1>1, <2>1
  <2>3. ASSUME i > wlen PROVE dists[base + i] < i
    <3>1. CASE base = 0
      BY <2>2, <3>1
    <3>2. CASE wlen = Window
      BY <1>1, <1>2, <2>2, <2>3, <3>2
    <3>. QED
      BY <1>2, <3>1, <3>2
  <2>. QED
    BY <2>1, <2>3
<1>5. /\ back \in [1 .. n -> Nat] /\ given \in [1 .. n -> Nat]
      /\ \A i \in 1 .. n : back[i] < i
  <2>1. \A i \in 1 .. n :
           /\ base + i \in Nat /\ Decoded[base + i] \in Nat /\ dists[base + i] \in Nat
           /\ 0 < i
    <3> HIDE DEF base, n, all, dists, wlen
    <3>1. \A i \in 1 .. n : base + i \in 1 .. all
      BY <1>4
    <3>2. \A i \in 1 .. n : base + i \in Nat /\ 0 < i
      BY <1>2
    <3>. QED
      BY <1>1, <1>3, <3>1, <3>2
  <2>2. \A i \in 1 .. n : i > wlen => dists[base + i] < i
    BY <1>4
  <2> HIDE DEF base, n, wlen, dists
  <2>. QED
    BY <2>1, <2>2
<1>6. PICK f \in [1 .. n -> Nat] :
         \A i \in 1 .. n : f[i] = IF back[i] = 0 THEN given[i] ELSE f[i - back[i]]
  <2>1. n \in Nat
    BY <1>2
  <2>2. back \in [1 .. n -> Nat] /\ given \in [1 .. n -> Nat]
    BY <1>5
  <2>3. \A i \in 1 .. n : back[i] < i
    BY <1>5
  <2> HIDE DEF n, back, given
  <2>. QED
    BY <2>1, <2>2, <2>3, TableExists, ZenonT(40)
<1> DEFINE Table(g) ==
      [i \in 1 .. n |->
          LET symbol == cp.at + i - wlen
          IN  IF i <= wlen THEN cp.window[i]
              ELSE IF dists[symbol] = 0 THEN symbol
              ELSE IF dists[symbol] < i THEN g[i - dists[symbol]]
              ELSE NoByte]
<1>7. f = Table(f)
  <2>1. ASSUME NEW i \in 1 .. n
        PROVE  (IF back[i] = 0 THEN given[i] ELSE f[i - back[i]]) = Table(f)[i]
    <3>1. /\ cp.at + i - wlen = base + i
          /\ i > wlen => dists[base + i] < i
          /\ i > wlen <=> ~ (i <= wlen)
      <4> HIDE DEF base, n, all, wlen, dists
      <4>1. i > wlen <=> ~ (i <= wlen)
        BY <1>2
      <4>. QED
        BY <1>4, <4>1
    <3>2. i <= wlen => cp.window[i] = Decoded[base + i]
      <4>1. i <= wlen => i \in 1 .. wlen
        BY <1>2
      <4>. QED
        BY <1>0, <4>1
    <3> HIDE DEF n, wlen, base, dists
    <3>. QED
      BY <3>1, <3>2
  <2>2. \A i \in 1 .. n : f[i] = Table(f)[i]
    BY <1>6, <2>1
  <2>3. Table(f) = [i \in 1 .. n |-> Table(f)[i]]
    OBVIOUS
  <2>4. f = [i \in 1 .. n |-> f[i]]
    OBVIOUS
  <2> HIDE DEF n, back, given, Table
  <2>. QED
    BY <2>2, <2>3, <2>4
<1>8. out = CHOOSE g : g = Table(g)
  BY DEF Output
<1> HIDE DEF Table, out
<1>9. out = Table(out)
  BY <1>7, <1>8, Zenon
<1> USE DEF Table
<1> DEFINE bad == {i \in 1 .. n : out[i] # Decoded[base + i]}
<1>10. bad = {}
  <2> SUFFICES ASSUME bad # {} PROVE FALSE
    OBVIOUS
  <2>1. bad \in SUBSET Nat
    OBVIOUS
  <2> HIDE DEF bad
  <2>2. PICK i \in bad : \A k \in bad : i <= k
    BY <2>1, LeastOf
  <2>3. i \in 1 .. n /\ out[i] # Decoded[base + i]
    BY <2>2 DEF bad
  <2>4. /\ cp.at + i - wlen = base + i /\ base + i \in 1 .. all
        /\ i > wlen => dists[base + i] < i
    <3> HIDE DEF base, n, all, wlen, dists
    <3>. QED
      BY <1>4, <2>3
  <2>5. out[i] = IF i <= wlen THEN cp.window[i]
                 ELSE IF dists[base + i] = 0 THEN base + i
                 ELSE IF dists[base + i] < i THEN out[i - dists[base + i]]
                 ELSE NoByte
    BY <1>9, <2>3, <2>4
  <2>6. ~ (i <= wlen)
    <3>1. i <= wlen => i \in 1 .. wlen
      BY <1>2, <2>3
    <3>2. i <= wlen => out[i] = Decoded[base + i]
      BY <1>0, <2>5, <3>1
    <3>. QED
      BY <2>3, <3>2
  <2>7. dists[base + i] < i /\ dists[base + i] \in Nat
    <3>1. i > wlen
      BY <1>2, <2>3, <2>6
    <3>. QED
      BY <1>1, <2>4, <3>1
  <2>8. dists[base + i] # 0
    BY <1>3, <2>3, <2>4, <2>5, <2>6
  <2> DEFINE j == i - dists[base + i]
  <2>9. /\ j \in 1 .. n /\ j < i /\ base + j = (base + i) - dists[base + i]
    <3> DEFINE d == dists[base + i]
    <3>1. d \in Nat \ {0} /\ d < i
      BY <2>7, <2>8
    <3> HIDE DEF d
    <3>2. i - d \in 1 .. n /\ i - d < i
      <4> HIDE DEF n
      <4>. QED
        BY <1>2, <2>3, <3>1
    <3>3. base + (i - d) = (base + i) - d
      <4> HIDE DEF n, base
      <4>. QED
        BY <1>2, <2>3, <3>1
    <3>. QED
      BY <3>2, <3>3 DEF d
  <2>10. out[i] = out[j]
    BY <2>5, <2>6, <2>7, <2>8
  <2>11. Decoded[base + i] = Decoded[base + j]
    BY <1>3, <2>4, <2>8, <2>9
  <2>12. j \in bad
    BY <2>3, <2>9, <2>10, <2>11 DEF bad
  <2>13. ~ (i <= j)
    <3>1. i \in Nat /\ j \in Nat
      BY <2>3, <2>9
    <3>. QED
      BY <2>9, <3>1
  <2>. QED
    BY <2>2, <2>12, <2>13
<1>. QED
  BY <1>10 DEF out

-------------------------------------------------------------------------------
\* Building the index.

DInv == DefTypeOK /\ BufferIsTail /\ WindowsReach /\ BuiltToTheEnd

LEMMA DInvInit == DefInit => DInv
<1> SUFFICES ASSUME DefInit PROVE DInv
  OBVIOUS
<1>0. PICK n \in 0 .. MaxLen :
         \E dists \in [1 .. n -> 0 .. Window] : \E ends \in SUBSET (1 .. n - 1) :
             /\ \A i \in 1 .. n : dists[i] < i
             /\ coded = [dists |-> dists, ends |-> ends]
  BY DEF DefInit
<1>1. PICK dists \in [1 .. n -> 0 .. Window] : \E ends \in SUBSET (1 .. n - 1) :
         /\ \A i \in 1 .. n : dists[i] < i
         /\ coded = [dists |-> dists, ends |-> ends]
  BY <1>0
<1>9. PICK ends \in SUBSET (1 .. n - 1) :
         /\ \A i \in 1 .. n : dists[i] < i
         /\ coded = [dists |-> dists, ends |-> ends]
  BY <1>1
<1>2. Window \in Nat \ {0} /\ Segment \in Nat \ {0} /\ n \in Nat /\ interval \in Nat
  BY DeflateAssumption DEF DefInit
<1>3. /\ dists \in Seq(0 .. Window) /\ Len(dists) = n /\ DOMAIN dists = 1 .. n
      /\ ends \in SUBSET Nat
  BY <1>2
<1>4. coded \in [dists : Seq(0 .. Window), ends : SUBSET Nat] /\ coded.dists = dists
  BY <1>3, <1>9
<1>5. DefTypeOK
  <2>1. buf \in [1 .. Window + Segment -> Nat]
    BY DEF DefInit, NoByte
  <2>2. cursor \in Window .. Window + Segment /\ total \in 0 .. n
    BY <1>2 DEF DefInit
  <2>3. checkpoints \in Seq([at : Nat, window : Seq(Nat)])
    <3>1. <<>> \in Seq(Nat)
      OBVIOUS
    <3>2. [at |-> 0, window |-> <<>>] \in [at : Nat, window : Seq(Nat)]
      BY <3>1
    <3>. QED
      BY <3>2 DEF DefInit
  <2>. QED
    BY <1>2, <1>3, <1>4, <1>9, <2>1, <2>2, <2>3 DEF DefTypeOK, DefInit
<1>6. BufferIsTail
  <2>1. total = 0 /\ cursor = Window
    BY DEF DefInit
  <2>. QED
    BY <1>2, <2>1 DEF BufferIsTail
<1>7. WindowsReach
  <2>1. checkpoints = <<[at |-> 0, window |-> <<>>]>> /\ total = 0
    BY DEF DefInit
  <2>2. /\ checkpoints # <<>> /\ DOMAIN checkpoints = {1} /\ Len(<<>>) = 0
        /\ checkpoints[1] = [at |-> 0, window |-> <<>>]
    BY <2>1
  <2>3. Smaller(0, Window) = 0
    BY <1>2 DEF Smaller
  <2>4. HoldsWindow(checkpoints[1])
    BY <2>1, <2>2, <2>3 DEF HoldsWindow
  <2>. QED
    BY <2>2, <2>4 DEF WindowsReach
<1>8. BuiltToTheEnd
  BY DEF DefInit, BuiltToTheEnd
<1>. QED
  BY <1>5, <1>6, <1>7, <1>8 DEF DInv

\* A step that decodes nothing leaves what is decoded and what has been kept of it.
LEMMA SameStream ==
  ASSUME UNCHANGED coded
  PROVE  Decoded' = Decoded
BY DEF Decoded

LEMMA CheckpointsKept ==
  ASSUME DefTypeOK, WindowsReach, UNCHANGED <<coded, checkpoints>>,
         total' \in Nat, total <= total'
  PROVE  WindowsReach'
<1>1. Decoded' = Decoded
  BY SameStream
<1>2. ASSUME NEW i \in DOMAIN checkpoints PROVE HoldsWindow(checkpoints[i])'
  <2>1. HoldsWindow(checkpoints[i])
    BY DEF WindowsReach
  <2>2. total \in Nat /\ 0 .. total \subseteq 0 .. total'
    BY StreamParts
  <2>. QED
    BY <1>1, <2>1, <2>2 DEF HoldsWindow
<1>. QED
  BY <1>2 DEF WindowsReach

LEMMA InflateStep ==
  ASSUME DInv, Inflate
  PROVE  DInv'
<1> DEFINE dists == coded.dists
           all == Len(coded.dists)
           dist == dists[total + 1]
           byte == IF dist = 0 THEN total + 1 ELSE buf[cursor + 1 - dist]
<1>1. /\ DefTypeOK /\ BufferIsTail /\ WindowsReach
      /\ total < all /\ cursor < Window + Segment /\ ~ built
      /\ buf' = [buf EXCEPT ![cursor + 1] = byte] /\ cursor' = cursor + 1
      /\ total' = total + 1 /\ atBoundary' = (total + 1 \in coded.ends)
      /\ UNCHANGED <<coded, interval, checkpoints, built>>
  BY DEF DInv, Inflate
<1>2. /\ all \in Nat /\ total \in Nat /\ cursor \in Nat /\ Window <= cursor
      /\ Window \in Nat \ {0} /\ Segment \in Nat \ {0}
      /\ total + 1 \in 1 .. all /\ cursor + 1 \in 1 .. Window + Segment
      /\ dist \in Nat /\ dist <= Window /\ dist < total + 1
  <2>1. /\ all \in Nat /\ total \in Nat /\ cursor \in Nat /\ Window <= cursor
        /\ Window \in Nat \ {0} /\ Segment \in Nat \ {0}
    BY <1>1, StreamParts
  <2>2. total + 1 \in 1 .. all /\ cursor + 1 \in 1 .. Window + Segment
    <3> HIDE DEF all
    <3>. QED
      BY <1>1, <2>1
  <2>. QED
    BY <1>1, <2>1, <2>2, StreamParts
<1>3. /\ \A i \in 1 .. all : Decoded[i] = IF dists[i] = 0 THEN i ELSE Decoded[i - dists[i]]
      /\ Decoded' = Decoded
  BY <1>1, DecodedIs, SameStream
<1> HIDE DEF dist
<1>4. byte = Decoded[total + 1] /\ byte \in Nat
  <2>1. Decoded[total + 1] = IF dist = 0 THEN total + 1 ELSE Decoded[(total + 1) - dist]
    <3> DEFINE s == total + 1
    <3>1. s \in 1 .. all
      BY <1>2
    <3> HIDE DEF s
    <3>2. Decoded[s] = IF dists[s] = 0 THEN s ELSE Decoded[s - dists[s]]
      BY <1>3, <3>1
    <3>3. dists[s] = dist
      BY DEF s, dist
    <3> HIDE DEF dists
    <3>4. Decoded[s] = IF dist = 0 THEN s ELSE Decoded[s - dist]
      BY <3>2, <3>3
    <3>. QED
      BY <3>4 DEF s
  <2>2. CASE dist = 0
    BY <1>2, <2>1, <2>2
  <2>3. CASE dist # 0
    <3> DEFINE i == cursor + 1 - dist
    <3>1. /\ i \in 1 .. cursor /\ total - cursor + i = (total + 1) - dist
          /\ total - cursor + i >= 1 /\ i \in 1 .. Window + Segment
      BY <1>2, <2>3
    <3>2. buf[i] = Decoded[total - cursor + i]
      <4> HIDE DEF i
      <4>. QED
        BY <1>1, <3>1 DEF BufferIsTail
    <3>3. buf[i] \in Nat
      <4> HIDE DEF i
      <4>. QED
        BY <1>1, <3>1 DEF DefTypeOK
    <3>. QED
      BY <2>1, <2>3, <3>1, <3>2, <3>3
  <2>. QED
    BY <2>2, <2>3
<1> HIDE DEF byte
<1>5. buf \in [1 .. Window + Segment -> Nat] /\ buf' \in [1 .. Window + Segment -> Nat]
  BY <1>1, <1>4 DEF DefTypeOK
<1>6. DefTypeOK'
  <2>1. cursor' \in Window .. Window + Segment /\ total' \in 0 .. all
    <3> HIDE DEF all
    <3>. QED
      BY <1>1, <1>2
  <2>2. atBoundary' \in BOOLEAN
    BY <1>1
  <2>. QED
    BY <1>1, <1>5, <2>1, <2>2 DEF DefTypeOK
<1>7. BufferIsTail'
  <2> SUFFICES ASSUME NEW i \in 1 .. cursor', total' - cursor' + i >= 1
               PROVE  buf'[i] = Decoded[total' - cursor' + i]
    BY <1>3 DEF BufferIsTail
  <2>1. total' - cursor' + i = total - cursor + i /\ i \in 1 .. cursor + 1 /\ i \in Nat
    BY <1>1, <1>2
  <2>2. CASE i = cursor + 1
    <3>1. total - cursor + i = total + 1
      BY <1>2, <2>2
    <3>2. buf'[i] = byte
      BY <1>1, <1>2, <1>5, <2>2
    <3>. QED
      BY <1>4, <2>1, <3>1, <3>2
  <2>3. CASE i # cursor + 1
    <3>1. i \in 1 .. cursor /\ i \in 1 .. Window + Segment
      BY <1>2, <2>1, <2>3
    <3>2. buf'[i] = buf[i]
      BY <1>1, <1>5, <2>3, <3>1
    <3>. QED
      BY <1>1, <2>1, <3>1, <3>2 DEF BufferIsTail
  <2>. QED
    BY <2>2, <2>3
<1>8. WindowsReach'
  <2>1. total' \in Nat /\ total <= total'
    BY <1>1, <1>2
  <2>. QED
    BY <1>1, <2>1, CheckpointsKept
<1>9. BuiltToTheEnd'
  BY <1>1 DEF BuiltToTheEnd
<1>. QED
  BY <1>6, <1>7, <1>8, <1>9 DEF DInv


LEMMA BoundaryStep ==
  ASSUME DInv, Boundary
  PROVE  DInv'
<1>1. /\ DefTypeOK /\ BufferIsTail /\ WindowsReach /\ BuiltToTheEnd
      /\ UNCHANGED <<coded, interval, buf, cursor, total, built>> /\ atBoundary' = FALSE
  BY DEF DInv, Boundary
<1>2. Decoded' = Decoded
  BY <1>1, SameStream
<1>3. BufferIsTail' /\ BuiltToTheEnd'
  BY <1>1, <1>2 DEF BufferIsTail, BuiltToTheEnd
<1>4. /\ total \in Nat /\ cursor \in Nat /\ Window \in Nat \ {0} /\ Window <= cursor
      /\ cursor <= Window + Segment
      /\ buf \in [1 .. Window + Segment -> Nat] /\ Window + Segment \in Nat
      /\ checkpoints \in Seq([at : Nat, window : Seq(Nat)])
  BY <1>1, StreamParts DEF DefTypeOK
<1>5. CASE UNCHANGED checkpoints
  <2>1. WindowsReach'
    BY <1>1, <1>4, <1>5, CheckpointsKept
  <2>2. DefTypeOK'
    BY <1>1, <1>5 DEF DefTypeOK
  <2>. QED
    BY <1>3, <2>1, <2>2 DEF DInv
<1>6. CASE ~ UNCHANGED checkpoints
  <2> DEFINE reach == Smaller(total, Window)
             window == SubSeq(buf, cursor - reach + 1, cursor)
             cp == [at |-> total, window |-> window]
  <2>1. checkpoints' = Append(checkpoints, cp)
    BY <1>6 DEF Boundary
  <2>2. reach \in Nat /\ reach <= total /\ reach <= Window /\ reach <= cursor
    BY <1>4 DEF Smaller
  <2>3. /\ window \in Seq(Nat) /\ Len(window) = reach
        /\ \A k \in 1 .. reach : window[k] = buf[cursor - reach + k]
    <3>1. buf \in Seq(Nat) /\ Len(buf) = Window + Segment
      BY <1>4
    <3> DEFINE first == cursor - reach + 1
    <3>2. /\ first \in 1 .. Len(buf) + 1 /\ cursor \in first - 1 .. Len(buf)
          /\ cursor - first + 1 = reach /\ first \in Nat
          /\ \A k \in 1 .. reach : first + k - 1 = cursor - reach + k
      <4> HIDE DEF reach
      <4>. QED
        BY <1>4, <2>2, <3>1
    <3> HIDE DEF first, reach
    <3>3. /\ window = SubSeq(buf, first, cursor)
      BY DEF first
    <3> HIDE DEF window
    <3>4. /\ window \in Seq(Nat) /\ Len(window) = cursor - first + 1
          /\ \A k \in 1 .. cursor - first + 1 : window[k] = buf[first + k - 1]
      <4>1. first \in Int /\ cursor \in Int /\ \A i \in first .. cursor : buf[i] \in Nat
        BY <1>4, <3>1, <3>2
      <4>2. first <= cursor \/ cursor - first + 1 = 0
        BY <1>4, <3>1, <3>2
      <4>. QED
        BY <3>3, <4>1, <4>2, SubSeqProperties
    <3>. QED
      BY <3>2, <3>4
  <2>4. HoldsWindow(cp)
    <3> HIDE DEF window
    <3>1. cp.at = total /\ cp.window = window /\ total \in 0 .. total
      BY <1>4
    <3>2. ASSUME NEW k \in 1 .. reach PROVE window[k] = Decoded[total - reach + k]
      <4> DEFINE i == cursor - reach + k
      <4>1. /\ i \in 1 .. cursor /\ total - cursor + i = total - reach + k
            /\ total - cursor + i >= 1
        <5> HIDE DEF reach
        <5>. QED
          BY <1>4, <2>2
      <4>2. buf[i] = Decoded[total - cursor + i]
        <5> HIDE DEF i
        <5>. QED
          BY <1>1, <4>1 DEF BufferIsTail
      <4>. QED
        BY <2>3, <4>1, <4>2
    <3> HIDE DEF cp
    <3>. QED
      BY <2>3, <3>1, <3>2 DEF HoldsWindow
  <2>5. cp \in [at : Nat, window : Seq(Nat)]
    BY <1>4, <2>3
  <2> HIDE DEF cp
  <2>6. /\ checkpoints' \in Seq([at : Nat, window : Seq(Nat)])
        /\ Len(checkpoints') = Len(checkpoints) + 1 /\ Len(checkpoints) \in Nat
        /\ DOMAIN checkpoints' = 1 .. Len(checkpoints) + 1
        /\ \A i \in 1 .. Len(checkpoints) : checkpoints'[i] = checkpoints[i]
        /\ checkpoints'[Len(checkpoints) + 1] = cp
    BY <1>4, <2>1, <2>5, AppendProperties
  <2>7. DefTypeOK'
    BY <1>1, <2>6 DEF DefTypeOK
  <2>8. WindowsReach'
    <3>1. /\ checkpoints # <<>> /\ checkpoints[1].at = 0 /\ Len(checkpoints) >= 1
          /\ DOMAIN checkpoints = 1 .. Len(checkpoints)
      BY <1>1, <1>4 DEF WindowsReach
    <3>2. ASSUME NEW i \in 1 .. Len(checkpoints) + 1 PROVE HoldsWindow(checkpoints'[i])
      <4>1. CASE i \in 1 .. Len(checkpoints)
        BY <1>1, <2>6, <3>1, <4>1 DEF WindowsReach
      <4>2. CASE i = Len(checkpoints) + 1
        BY <2>4, <2>6, <4>2
      <4>. QED
        BY <2>6, <4>1, <4>2
    <3>3. \A i \in DOMAIN checkpoints' : HoldsWindow(checkpoints[i])'
      BY <1>1, <1>2, <2>6, <3>2 DEF HoldsWindow
    <3>4. checkpoints' # <<>> /\ checkpoints'[1].at = 0
      BY <2>6, <3>1
    <3>. QED
      BY <3>3, <3>4 DEF WindowsReach
  <2>. QED
    BY <1>3, <2>7, <2>8 DEF DInv
<1>. QED
  BY <1>5, <1>6

LEMMA SlideStep ==
  ASSUME DInv, Slide
  PROVE  DInv'
<1>1. /\ DefTypeOK /\ BufferIsTail /\ WindowsReach /\ BuiltToTheEnd
      /\ cursor = Window + Segment /\ cursor' = Window
      /\ buf' = [i \in DOMAIN buf |-> IF i <= Window THEN buf[i + cursor - Window] ELSE buf[i]]
      /\ UNCHANGED <<coded, interval, total, atBoundary, checkpoints, built>>
  BY DEF DInv, Slide
<1>2. /\ total \in Nat /\ cursor \in Nat /\ Window \in Nat \ {0} /\ Segment \in Nat \ {0}
      /\ buf \in [1 .. Window + Segment -> Nat]
  BY <1>1, StreamParts DEF DefTypeOK
<1>3. Decoded' = Decoded
  BY <1>1, SameStream
<1>4. DefTypeOK'
  <2>1. buf' \in [1 .. Window + Segment -> Nat]
    <3>1. \A i \in 1 .. Window : i + cursor - Window \in 1 .. Window + Segment
      BY <1>1, <1>2
    <3>2. \A i \in 1 .. Window + Segment : i <= Window => i \in 1 .. Window
      BY <1>2
    <3>. QED
      BY <1>1, <1>2, <3>1, <3>2
  <2>2. cursor' \in Window .. Window + Segment
    BY <1>1, <1>2
  <2>. QED
    BY <1>1, <2>1, <2>2 DEF DefTypeOK
<1>5. BufferIsTail'
  <2> SUFFICES ASSUME NEW i \in 1 .. Window, total - Window + i >= 1
               PROVE  buf'[i] = Decoded[total - Window + i]
    BY <1>1, <1>3 DEF BufferIsTail
  <2> DEFINE j == i + cursor - Window
  <2>1. /\ j \in 1 .. cursor /\ total - cursor + j = total - Window + i
        /\ i <= Window /\ i \in 1 .. Window + Segment
    BY <1>1, <1>2
  <2>2. buf'[i] = buf[j]
    BY <1>1, <1>2, <2>1
  <2> HIDE DEF j
  <2>. QED
    BY <1>1, <2>1, <2>2 DEF BufferIsTail
<1>6. WindowsReach'
  BY <1>1, <1>2, CheckpointsKept
<1>7. BuiltToTheEnd'
  BY <1>1 DEF BuiltToTheEnd
<1>. QED
  BY <1>4, <1>5, <1>6, <1>7 DEF DInv

LEMMA DInvStep == DInv /\ [DefNext]_defVars => DInv'
<1> SUFFICES ASSUME DInv, [DefNext]_defVars PROVE DInv'
  OBVIOUS
<1>1. ASSUME UNCHANGED <<coded, interval, buf, cursor, total, atBoundary, checkpoints>>,
             DefTypeOK',
             UNCHANGED built \/ total = Len(coded.dists)
      PROVE  DInv'
  <2>1. Decoded' = Decoded /\ total \in Nat /\ DefTypeOK
    BY <1>1, SameStream, StreamParts DEF DInv
  <2>2. WindowsReach' /\ BufferIsTail'
    BY <1>1, <2>1, CheckpointsKept DEF DInv, BufferIsTail
  <2>3. BuiltToTheEnd'
    BY <1>1 DEF DInv, BuiltToTheEnd
  <2>. QED
    BY <1>1, <2>2, <2>3 DEF DInv
<1>2. CASE UNCHANGED defVars
  <2>1. DefTypeOK'
    BY <1>2 DEF DInv, DefTypeOK, defVars
  <2>. QED
    BY <1>1, <1>2, <2>1 DEF defVars
<1>3. CASE Done
  <2>1. DefTypeOK'
    BY <1>3 DEF DInv, DefTypeOK, Done
  <2>. QED
    BY <1>1, <1>3, <2>1 DEF Done
<1>. QED
  BY <1>2, <1>3, InflateStep, BoundaryStep, SlideStep DEF DefNext

-------------------------------------------------------------------------------
\* Reads.

\* There is a last checkpoint at or before every offset.
LEMMA CheckpointChosen ==
  ASSUME DefTypeOK, WindowsReach, NEW offset \in Nat
  PROVE  \E i \in DOMAIN checkpoints :
            /\ checkpoints[i].at <= offset
            /\ i = Len(checkpoints) \/ checkpoints[i + 1].at > offset
<1> DEFINE late == {i \in DOMAIN checkpoints : checkpoints[i].at > offset}
<1>1. /\ Len(checkpoints) \in Nat \ {0} /\ DOMAIN checkpoints = 1 .. Len(checkpoints)
      /\ checkpoints[1].at = 0
      /\ \A i \in 1 .. Len(checkpoints) : checkpoints[i].at \in Nat
  <2> DEFINE Checkpoint == [at : Nat, window : Seq(Nat)]
  <2>1. checkpoints \in Seq(Checkpoint) /\ checkpoints # <<>> /\ checkpoints[1].at = 0
    BY DEF DefTypeOK, WindowsReach
  <2> HIDE DEF Checkpoint
  <2>2. /\ Len(checkpoints) \in Nat /\ DOMAIN checkpoints = 1 .. Len(checkpoints)
        /\ Len(checkpoints) # 0
        /\ \A i \in 1 .. Len(checkpoints) : checkpoints[i] \in Checkpoint
    BY <2>1
  <2>3. \A c \in Checkpoint : c.at \in Nat
    BY DEF Checkpoint
  <2>. QED
    BY <2>1, <2>2, <2>3
<1>2. CASE late = {}
  <2>1. Len(checkpoints) \in DOMAIN checkpoints
    BY <1>1
  <2>2. ~ (checkpoints[Len(checkpoints)].at > offset)
    BY <1>2, <2>1
  <2>. QED
    BY <1>1, <2>1, <2>2
<1>3. CASE late # {}
  <2>1. late \in SUBSET Nat
    BY <1>1
  <2> HIDE DEF late
  <2>2. PICK m \in late : \A k \in late : m <= k
    BY <1>3, <2>1, LeastOf
  <2> USE DEF late
  <2>3. m \in 1 .. Len(checkpoints) /\ checkpoints[m].at > offset /\ m # 1
    BY <1>1, <2>2
  <2>4. m - 1 \in 1 .. Len(checkpoints) /\ (m - 1) + 1 = m /\ ~ (m <= m - 1)
    BY <1>1, <2>3
  <2>5. m - 1 \notin late
    <3> HIDE DEF late
    <3>. QED
      BY <2>2, <2>4
  <2>6. checkpoints[m - 1].at <= offset
    BY <1>1, <2>4, <2>5
  <2>. QED
    BY <1>1, <2>3, <2>4, <2>6
<1>. QED
  BY <1>2, <1>3

\* A read answers what the whole stream decodes to.
LEMMA ReadAnswers ==
  ASSUME DInv, built, NEW offset \in Nat, NEW n \in Nat
  PROVE  ReadAt(offset, n) =
            [i \in 1 .. Smaller(offset + n, Len(coded.dists)) - offset |-> Decoded[offset + i]]
<1> DEFINE all == Len(coded.dists)
           end == Smaller(offset + n, total)
           At(i) == /\ checkpoints[i].at <= offset
                    /\ i = Len(checkpoints) \/ checkpoints[i + 1].at > offset
           which == CHOOSE i \in DOMAIN checkpoints : At(i)
           cp == checkpoints[which]
           data == [i \in 1 .. Smaller(offset + n, all) - offset |-> Decoded[offset + i]]
<1>1. DefTypeOK /\ WindowsReach /\ total = all /\ all \in Nat
  BY StreamParts DEF DInv, BuiltToTheEnd
<1>2. CASE offset >= total \/ n = 0
  <2>1. Smaller(offset + n, all) - offset \in Int /\ Smaller(offset + n, all) - offset <= 0
    <3> HIDE DEF all
    <3>. QED
      BY <1>1, <1>2 DEF Smaller
  <2>2. 1 .. Smaller(offset + n, all) - offset = {}
    <3> DEFINE m == Smaller(offset + n, all) - offset
    <3> HIDE DEF m
    <3>1. m \in Int /\ m <= 0
      BY <2>1 DEF m
    <3>2. 1 .. m = {}
      BY <3>1
    <3>. QED
      BY <3>2 DEF m
  <2>3. data = <<>>
    BY <2>2
  <2>. QED
    BY <1>2, <2>3 DEF ReadAt
<1>3. CASE ~ (offset >= total \/ n = 0)
  <2>1. which \in DOMAIN checkpoints /\ cp.at <= offset
    <3>1. \E i \in DOMAIN checkpoints : At(i)
      BY <1>1, CheckpointChosen
    <3> HIDE DEF At
    <3>2. which \in DOMAIN checkpoints /\ At(which)
      BY <3>1
    <3>. QED
      BY <3>2 DEF At
  <2>2. HoldsWindow(cp)
    BY <1>1, <2>1 DEF WindowsReach
  <2>3. ReadAt(offset, n) = [i \in 1 .. end - offset |->
                                Output(cp, end)[Len(cp.window) + offset - cp.at + i]]
    BY <1>3 DEF ReadAt
  <2> HIDE DEF cp, which
  <2>4. /\ cp.at \in Nat /\ end \in cp.at .. total /\ end \in Nat /\ offset < end
        /\ Len(cp.window) \in Nat /\ Len(cp.window) <= cp.at
    <3>1. cp.at \in Nat /\ Len(cp.window) = Smaller(cp.at, Window) /\ Window \in Nat
      BY <1>1, <2>2, StreamParts DEF HoldsWindow
    <3>2. end \in Nat /\ offset < end /\ end <= total
      <4> HIDE DEF all
      <4>. QED
        BY <1>1, <1>3 DEF Smaller
    <3> HIDE DEF end, all
    <3>3. end \in cp.at .. total
      BY <1>1, <2>1, <3>1, <3>2
    <3>. QED
      BY <3>1, <3>2, <3>3 DEF Smaller
  <2> HIDE DEF end
  <2>5. \A i \in 1 .. Len(cp.window) + end - cp.at :
           Output(cp, end)[i] = Decoded[cp.at - Len(cp.window) + i]
    BY <1>1, <2>2, <2>4, OutputIsDecoded
  <2>6. ASSUME NEW i \in 1 .. end - offset
        PROVE  Output(cp, end)[Len(cp.window) + offset - cp.at + i] = Decoded[offset + i]
    <3> DEFINE wlen == Len(cp.window)
               k == wlen + offset - cp.at + i
    <3>1. k \in 1 .. wlen + end - cp.at /\ cp.at - wlen + k = offset + i
      <4>1. wlen \in Nat /\ wlen <= cp.at
        BY <2>4
      <4> DEFINE w == wlen
                 a == cp.at
      <4>2. w \in Nat /\ a \in Nat /\ w <= a /\ a <= offset /\ end \in Nat /\ offset < end
        BY <2>1, <2>4, <4>1
      <4> HIDE DEF w, a
      <4>3. /\ w + offset - a + i \in 1 .. w + end - a
            /\ a - w + (w + offset - a + i) = offset + i
        BY <4>2
      <4>. QED
        BY <4>3 DEF w, a
    <3> HIDE DEF k
    <3>2. Output(cp, end)[k] = Decoded[cp.at - wlen + k]
      BY <2>5, <3>1
    <3>. QED
      BY <3>1, <3>2 DEF k
  <2>7. end = Smaller(offset + n, all)
    BY <1>1 DEF end
  <2>. QED
    BY <2>3, <2>6, <2>7
<1>. QED
  BY <1>2, <1>3

\* The index keeps its types, and the buffer and windows hold what they stand for.
THEOREM IndexAlwaysHolds == DefSpec => []DInv
BY DInvInit, DInvStep, PTL DEF DefSpec

\* AnswersAreData: for every stream, however it is cut into blocks and wherever
\* the checkpoints fall, a read of a DEFLATE member returns its bytes.
THEOREM AnswersAlwaysData == DefSpec => []AnswersAreData
<1>1. DInv => AnswersAreData
  <2> SUFFICES ASSUME DInv, built, NEW offset \in 0 .. Len(coded.dists) + 1,
                      NEW n \in 0 .. Len(coded.dists) + 1
               PROVE  ReadAt(offset, n) =
                        [i \in 1 .. Smaller(offset + n, Len(coded.dists)) - offset |->
                            Decoded[offset + i]]
    BY DEF AnswersAreData
  <2>1. offset \in Nat /\ n \in Nat
    BY StreamParts DEF DInv
  <2>. QED
    BY <2>1, ReadAnswers
<1>. QED
  BY <1>1, IndexAlwaysHolds, PTL

-------------------------------------------------------------------------------
\* Copying images out of archives.

USE SpillAssumption

\* One of finitely many numbers is the largest.
LEMMA LargestOf ==
  ASSUME NEW len \in Nat \ {0}, NEW f \in [1 .. len -> Nat]
  PROVE  \E i \in 1 .. len : \A j \in 1 .. len : f[j] <= f[i]
<1> DEFINE Largest(n) == \E i \in 1 .. n : \A j \in 1 .. n : f[j] <= f[i]
           without == {n \in 1 .. len : ~ Largest(n)}
<1>1. without = {}
  <2> SUFFICES ASSUME without # {} PROVE FALSE
    OBVIOUS
  <2>1. without \in SUBSET Nat
    OBVIOUS
  <2> HIDE DEF without
  <2>2. PICK n \in without : \A k \in without : n <= k
    BY <2>1, LeastOf
  <2> USE DEF without
  <2>3. n \in 1 .. len /\ ~ Largest(n)
    BY <2>2
  <2>4. n # 1
    BY <2>3
  <2>5. n - 1 \in 1 .. len
    BY <2>3, <2>4
  <2>6. Largest(n - 1)
    <3>1. n - 1 \notin without
      <4> HIDE DEF without
      <4>. QED
        BY <2>2, <2>3, <2>5
    <3> HIDE DEF Largest
    <3>. QED
      BY <3>1, <2>5
  <2>7. PICK i \in 1 .. (n - 1) : \A j \in 1 .. (n - 1) : f[j] <= f[i]
    BY <2>6
  <2> HIDE DEF without, Largest
  <2>8. /\ n \in 1 .. n /\ i \in 1 .. n /\ i \in 1 .. len
        /\ f[n] \in Nat /\ f[i] \in Nat
    BY <2>3, <2>5, <2>7
  <2>9. ASSUME NEW j \in 1 .. n PROVE f[j] \in Nat /\ (f[j] <= f[i] \/ j = n)
    BY <2>3, <2>7
  <2>10. \E k \in 1 .. n : \A j \in 1 .. n : f[j] <= f[k]
    <3>1. CASE f[n] <= f[i]
      BY <2>8, <2>9, <3>1
    <3>2. CASE f[i] <= f[n]
      <4>1. \A a, b, c \in Nat : a <= b /\ b <= c => a <= c
        OBVIOUS
      <4>2. ASSUME NEW j \in 1 .. n PROVE f[j] <= f[n]
        <5>1. CASE j = n
          BY <2>8, <5>1
        <5>2. CASE f[j] <= f[i]
          BY <2>8, <2>9, <3>2, <4>1, <5>2
        <5>. QED
          BY <2>9, <5>1, <5>2
      <4>. QED
        BY <2>8, <4>2
    <3>3. f[n] <= f[i] \/ f[i] <= f[n]
      BY <2>8
    <3>. QED
      BY <3>1, <3>2, <3>3
  <2>. QED
    BY <2>3, <2>10 DEF Largest
<1>2. Largest(len)
  <2> HIDE DEF Largest
  <2>. QED
    BY <1>1
<1>. QED
  BY <1>2

\* Among the entries of an archive that has any there is a largest one.
LEMMA LargestEntry ==
  ASSUME NEW es \in Seq(Entry), es # <<>>
  PROVE  /\ DOMAIN es = 1 .. Len(es) /\ Len(es) \in Nat
         /\ \A i \in DOMAIN es : es[i] \in Entry
         /\ \E i \in DOMAIN es : \A j \in DOMAIN es : es[j].declared <= es[i].declared
<1> DEFINE f == [i \in 1 .. Len(es) |-> es[i].declared]
<1>1. Len(es) \in Nat \ {0} /\ DOMAIN es = 1 .. Len(es)
  BY EmptySeq
<1>2. \A i \in DOMAIN es : es[i] \in Entry
  BY <1>1
<1>3. f \in [1 .. Len(es) -> Nat]
  BY <1>1, <1>2 DEF Entry
<1>4. \E i \in 1 .. Len(es) : \A j \in 1 .. Len(es) : f[j] <= f[i]
  <2> HIDE DEF f
  <2>. QED
    BY <1>1, <1>3, LargestOf
<1>. QED
  BY <1>1, <1>2, <1>4

\* find_image_entry: an archive without an entry has none, and any other has
\* one of its entries.
LEMMA ImageEntryIsEntry ==
  ASSUME NEW es \in Seq(Entry)
  PROVE  FindImageEntry(es) \in Seq(Entry)
<1> DEFINE images == {i \in DOMAIN es : es[i].image}
           largest == {i \in DOMAIN es : \A j \in DOMAIN es : es[j].declared <= es[i].declared}
           among == IF images # {} THEN images ELSE largest
           first == CHOOSE i \in among : \A j \in among : i <= j
<1>1. CASE es = <<>>
  BY <1>1 DEF FindImageEntry
<1>2. CASE es # <<>>
  <2>1. among \in SUBSET Nat /\ among # {} /\ among \subseteq DOMAIN es
    BY <1>2, LargestEntry
  <2> HIDE DEF among
  <2>2. first \in among
    BY <2>1, LeastOf
  <2>3. es[first] \in Entry
    <3>1. first \in DOMAIN es
      BY <2>1, <2>2
    <3> HIDE DEF first
    <3>. QED
      BY <1>2, <3>1, LargestEntry
  <2>4. FindImageEntry(es) = <<es[first]>>
    BY <1>2 DEF FindImageEntry, among
  <2>. QED
    BY <2>3, <2>4
<1>. QED
  BY <1>1, <1>2

Source ==
    [pc : {"idle", "temp", "decide", "copy", "open", "failed"},
     kind : {"zip", "stream", "bzip2"}, todo : Seq(Entry), plan : 0 .. Ram,
     temp : 0 .. Volume, cap : Nat, cur : Backing, held : Seq(Backing)]

\* The cap of a stream's entry is a size.
LEMMA CapIsSize ==
  ASSUME NEW e \in Entry, NEW plan \in 0 .. Ram, NEW temp \in 0 .. Volume
  PROVE  SpillCap(e, plan, temp) \in Nat
<1>1. RamThreshold(plan) \in Nat
  <2>1. plan \div 4 \in Int
    BY DEF RamThreshold
  <2>. QED
    BY <2>1 DEF RamThreshold
<1>. QED
  BY <1>1 DEF SpillCap, Entry
\* Types, and what WholeOrError and SpoolKeepsReserve rest on, together.
SInv == SpillTypeOK /\ ZipWithinCap /\ WholeOrError

\* A step of one source that leaves it in a good state keeps the invariant.
LEMMA OneSource ==
  ASSUME SInv, NEW s \in Sources, NEW me \in Source,
         source' = [source EXCEPT ![s] = me],
         me.kind = "zip" /\ me.pc = "copy" =>
             /\ me.cap = me.cur.entry.declared /\ me.cur.size <= me.cap + 1
             /\ me.cur.how = "spool" => me.temp >= me.cap + TempReserve,
         \A i \in DOMAIN me.held : me.held[i].size = me.held[i].entry.actual
  PROVE  SInv'
<1>1. source \in [Sources -> Source] /\ source' \in [Sources -> Source]
  BY DEF SInv, SpillTypeOK, Source
<1>2. SpillTypeOK'
  BY <1>1 DEF SpillTypeOK, Source
<1>3. \A t \in Sources : source'[t] = IF t = s THEN me ELSE source[t]
  BY <1>1
<1>4. ZipWithinCap'
  BY <1>3 DEF SInv, ZipWithinCap
<1>5. WholeOrError'
  BY <1>3 DEF SInv, WholeOrError
<1>. QED
  BY <1>2, <1>4, <1>5 DEF SInv

\* An open that has not begun is a good state.
LEMMA IdleSource ==
  /\ Idle \in Source /\ Idle.pc = "idle" /\ Idle.held = <<>>
  /\ NoEntry \in Entry /\ Nothing \in Backing
BY DEF Idle, Source, Nothing, NoEntry, Backing, Entry

\* An open that fails drops everything.
LEMMA FailStep ==
  ASSUME SInv, NEW s \in Sources, Fail(s)
  PROVE  SInv'
<1> DEFINE me == [Idle EXCEPT !.pc = "failed"]
<1>1. me \in Source /\ me.pc = "failed" /\ me.held = <<>>
  BY IdleSource DEF Idle, Source
<1>2. source' = [source EXCEPT ![s] = me]
  BY DEF Fail
<1>3. \A i \in DOMAIN me.held : me.held[i].size = me.held[i].entry.actual
  BY <1>1
<1>4. ~ (me.kind = "zip" /\ me.pc = "copy")
  BY <1>1
<1> HIDE DEF me
<1>. QED
  BY <1>1, <1>2, <1>3, <1>4, OneSource

\* Every step keeps the types, the caps and the backings.
LEMMA SpillStep == SInv /\ [SpillNext]_spillVars => SInv'
<1> SUFFICES ASSUME SInv, [SpillNext]_spillVars PROVE SInv'
  OBVIOUS
<1>0. ASSUME NEW s \in Sources
      PROVE  /\ source[s] \in Source
             /\ \A i \in DOMAIN source[s].held : source[s].held[i] \in Backing
             /\ \A i \in DOMAIN source[s].held :
                    source[s].held[i].size = source[s].held[i].entry.actual
  BY DEF SInv, SpillTypeOK, Source, WholeOrError
<1>1. ASSUME NEW s \in Sources, NEW a \in Archives, Open(s, a) PROVE SInv'
  <2>1. PICK available \in 0 .. Ram : source' = [source EXCEPT ![s] =
             [Idle EXCEPT !.pc = IF a.kind = "bzip2" THEN "open" ELSE "temp",
                          !.kind = a.kind, !.plan = available,
                          !.todo = IF a.kind = "zip" THEN FindImageEntry(a.entries)
                                   ELSE a.entries]]
    BY <1>1 DEF Open
  <2> DEFINE me == [Idle EXCEPT !.pc = IF a.kind = "bzip2" THEN "open" ELSE "temp",
                                !.kind = a.kind, !.plan = available,
                                !.todo = IF a.kind = "zip" THEN FindImageEntry(a.entries)
                                         ELSE a.entries]
  <2>2. a.kind \in {"zip", "stream", "bzip2"} /\ a.entries \in Seq(Entry)
    OBVIOUS
  <2>3. me \in Source /\ me.pc # "copy" /\ me.held = <<>>
    BY <2>2, IdleSource, ImageEntryIsEntry DEF Source
  <2>4. source' = [source EXCEPT ![s] = me]
    BY <2>1
  <2>5. \A i \in DOMAIN me.held : me.held[i].size = me.held[i].entry.actual
    BY <2>3
  <2> HIDE DEF me
  <2>. QED
    BY <2>3, <2>4, <2>5, OneSource
<1>2. ASSUME NEW s \in Sources, ProbeTemp(s) PROVE SInv'
  <2>1. PICK free \in 0 .. Volume :
            source' = [source EXCEPT ![s].temp = free, ![s].pc = "decide"]
    BY <1>2 DEF ProbeTemp
  <2> DEFINE me == [source[s] EXCEPT !.temp = free, !.pc = "decide"]
  <2>2. me \in Source /\ me.pc = "decide" /\ me.held = source[s].held
    BY <1>0 DEF Source
  <2>3. source' = [source EXCEPT ![s] = me]
    BY <2>1
  <2> HIDE DEF me
  <2>. QED
    BY <1>0, <2>2, <2>3, OneSource
<1>3. ASSUME NEW s \in Sources, PassOver(s) PROVE SInv'
  <2> DEFINE me == [source[s] EXCEPT !.todo = Tail(source[s].todo)]
  <2>1. source[s].todo # <<>> /\ source' = [source EXCEPT ![s] = me] /\ source[s].pc = "decide"
    BY <1>3 DEF PassOver
  <2>2. Tail(source[s].todo) \in Seq(Entry)
    BY <1>0, <2>1 DEF Source
  <2>3. me \in Source /\ me.pc = "decide" /\ me.held = source[s].held
    BY <1>0, <2>1, <2>2 DEF Source
  <2> HIDE DEF me
  <2>. QED
    BY <1>0, <2>1, <2>3, OneSource
<1>4. ASSUME NEW s \in Sources, Decide(s) PROVE SInv'
  <2> DEFINE e == Head(source[s].todo)
             how == IF source[s].kind = "zip"
                    THEN DecideBacking(e, source[s].plan, source[s].temp)
                    ELSE SpillEntry(e, source[s].plan, source[s].temp)
             cap == IF source[s].kind = "zip" THEN e.declared
                    ELSE SpillCap(e, source[s].plan, source[s].temp)
             open == [source[s] EXCEPT !.pc = "open"]
             copy == [source[s] EXCEPT !.pc = "copy", !.todo = Tail(source[s].todo),
                                       !.cap = cap,
                                       !.cur = [how |-> how, entry |-> e, size |-> 0]]
  <2>1. /\ source[s].todo # <<>>
        /\ \/ Fail(s)
           \/ source' = [source EXCEPT ![s] = open]
           \/ how \in {"ram", "spool"} /\ source' = [source EXCEPT ![s] = copy]
    BY <1>4 DEF Decide
  <2>2. e \in Entry /\ Tail(source[s].todo) \in Seq(Entry)
    BY <1>0, <2>1 DEF Source
  <2>3. CASE source' = [source EXCEPT ![s] = open]
    <3>1. open \in Source /\ open.pc = "open" /\ open.held = source[s].held
      BY <1>0 DEF Source
    <3> HIDE DEF open
    <3>. QED
      BY <1>0, <2>3, <3>1, OneSource
  <2>4. CASE how \in {"ram", "spool"} /\ source' = [source EXCEPT ![s] = copy]
    <3>1. cap \in Nat /\ (source[s].kind = "zip" => cap = e.declared)
      BY <1>0, <2>2, CapIsSize DEF Source, Entry
    <3>2. source[s].kind = "zip" /\ how = "spool" => source[s].temp >= cap + TempReserve
      BY DEF DecideBacking
    <3> HIDE DEF e, how, cap
    <3>3. [how |-> how, entry |-> e, size |-> 0] \in Backing
      BY <2>2, <2>4 DEF Backing
    <3>4. /\ copy \in Source /\ copy.held = source[s].held /\ copy.kind = source[s].kind
          /\ copy.cap = cap /\ copy.temp = source[s].temp
          /\ copy.cur = [how |-> how, entry |-> e, size |-> 0]
      BY <1>0, <2>2, <3>1, <3>3 DEF Source
    <3>5. copy.kind = "zip" =>
             /\ copy.cap = copy.cur.entry.declared /\ copy.cur.size <= copy.cap + 1
             /\ copy.cur.how = "spool" => copy.temp >= copy.cap + TempReserve
      BY <3>1, <3>2, <3>4
    <3> HIDE DEF copy
    <3>. QED
      BY <1>0, <2>4, <3>4, <3>5, OneSource
  <2>. QED
    BY <2>1, <2>3, <2>4, FailStep
<1>5. ASSUME NEW s \in Sources, Copy(s) PROVE SInv'
  <2> DEFINE more == [source[s].cur EXCEPT !.size = source[s].cur.size + 1]
             me == [source[s] EXCEPT !.cur = more]
  <2>1. /\ source[s].pc = "copy" /\ source[s].cur.size <= source[s].cap
        /\ Fail(s) \/ source' = [source EXCEPT ![s] = me]
    <3>1. CASE DiskUse(s, more) - DiskUse(s, source[s].cur) > Free
      BY <1>5, <3>1 DEF Copy
    <3>2. CASE ~ (DiskUse(s, more) - DiskUse(s, source[s].cur) > Free)
      <4>1. source' = [source EXCEPT ![s].cur = more]
        BY <1>5, <3>2 DEF Copy
      <4>2. source[s].pc = "copy" /\ source[s].cur.size <= source[s].cap
        BY <1>5 DEF Copy
      <4>. QED
        BY <4>1, <4>2
    <3>. QED
      BY <3>1, <3>2
  <2>2. source[s].cur \in Backing /\ source[s].cap \in Nat
    BY <1>0 DEF Source
  <2>3. /\ more \in Backing /\ more.size = source[s].cur.size + 1
        /\ more.size <= source[s].cap + 1
        /\ more.how = source[s].cur.how /\ more.entry = source[s].cur.entry
    <3> DEFINE cur == source[s].cur
               size == cur.size
    <3>1. size \in Nat /\ size + 1 \in Nat /\ size + 1 <= source[s].cap + 1
      BY <2>1, <2>2 DEF Backing
    <3>2. more = [cur EXCEPT !.size = size + 1] /\ cur \in Backing
      BY <2>2
    <3> HIDE DEF more, cur, size
    <3>3. /\ more \in Backing /\ more.size = size + 1
          /\ more.how = cur.how /\ more.entry = cur.entry
      BY <3>1, <3>2 DEF Backing
    <3>. QED
      BY <3>1, <3>3 DEF cur, size
  <2> HIDE DEF more
  <2>4. /\ me \in Source /\ me.held = source[s].held /\ me.kind = source[s].kind
        /\ me.cap = source[s].cap /\ me.temp = source[s].temp /\ me.cur = more
    BY <1>0, <2>3 DEF Source
  <2>5. me.kind = "zip" =>
           /\ me.cap = me.cur.entry.declared /\ me.cur.size <= me.cap + 1
           /\ me.cur.how = "spool" => me.temp >= me.cap + TempReserve
    BY <2>1, <2>3, <2>4 DEF SInv, ZipWithinCap
  <2> HIDE DEF me
  <2>6. source' = [source EXCEPT ![s] = me] => SInv'
    BY <1>0, <2>1, <2>4, <2>5, OneSource
  <2>. QED
    BY <1>0, <2>1, <2>6, FailStep
<1>6. ASSUME NEW s \in Sources, Copied(s) PROVE SInv'
  <2> DEFINE me == [source[s] EXCEPT !.pc = "decide",
                                     !.held = Append(source[s].held, source[s].cur),
                                     !.cur = Nothing]
  <2>1. CASE source[s].cur.size > source[s].cap
    BY <1>6, <2>1, FailStep DEF Copied
  <2>2. CASE ~ (source[s].cur.size > source[s].cap)
    <3>1. source' = [source EXCEPT ![s] = me]
      BY <1>6, <2>2 DEF Copied
    <3>2. source[s].cur.size = source[s].cur.entry.actual
      BY <1>6, <2>2 DEF Copied
    <3>3. source[s].held \in Seq(Backing) /\ source[s].cur \in Backing
      BY <1>0 DEF Source
    <3> DEFINE all == Append(source[s].held, source[s].cur)
    <3>4. /\ all \in Seq(Backing)
          /\ \A i \in DOMAIN all : \/ i \in DOMAIN source[s].held /\ all[i] = source[s].held[i]
                                   \/ all[i] = source[s].cur
      BY <3>3
    <3>5. /\ me \in Source /\ me.pc = "decide" /\ me.held = all
      <4>1. me = [source[s] EXCEPT !.pc = "decide", !.held = all, !.cur = Nothing]
        OBVIOUS
      <4> HIDE DEF all, me
      <4>. QED
        BY <1>0, <3>4, <4>1, IdleSource DEF Source
    <3> HIDE DEF all, me
    <3>6. \A i \in DOMAIN me.held : me.held[i].size = me.held[i].entry.actual
      BY <1>0, <3>2, <3>4, <3>5
    <3>. QED
      BY <3>1, <3>5, <3>6, OneSource
  <2>. QED
    BY <2>1, <2>2
<1>7. ASSUME NEW s \in Sources, FirstEntry(s) PROVE SInv'
  <2> DEFINE me == [source[s] EXCEPT !.pc = "open", !.held = <<Head(source[s].held)>>]
  <2>1. CASE source[s].held = <<>>
    BY <1>7, <2>1, FailStep DEF FirstEntry
  <2>2. CASE source[s].held # <<>>
    <3>1. source' = [source EXCEPT ![s] = me]
      BY <1>7, <2>2 DEF FirstEntry
    <3>2. source[s].held \in Seq(Backing)
      BY <1>0 DEF Source
    <3>3. /\ Head(source[s].held) \in Backing
          /\ Head(source[s].held).size = Head(source[s].held).entry.actual
      BY <1>0, <2>2, <3>2
    <3>4. me \in Source /\ me.pc = "open" /\ me.held = <<Head(source[s].held)>>
      <4> DEFINE first == <<Head(source[s].held)>>
      <4>1. first \in Seq(Backing)
        BY <3>3
      <4> HIDE DEF first
      <4>2. [source[s] EXCEPT !.pc = "open", !.held = first] \in Source
        BY <1>0, <4>1 DEF Source
      <4>3. /\ [source[s] EXCEPT !.pc = "open", !.held = first].pc = "open"
            /\ [source[s] EXCEPT !.pc = "open", !.held = first].held = first
        BY <1>0 DEF Source
      <4>. QED
        BY <4>2, <4>3 DEF first
    <3>5. \A i \in DOMAIN me.held : me.held[i].size = me.held[i].entry.actual
      BY <3>3, <3>4
    <3> HIDE DEF me
    <3>. QED
      BY <3>1, <3>4, <3>5, OneSource
  <2>. QED
    BY <2>1, <2>2
<1>8. ASSUME NEW s \in Sources, Drop(s) PROVE SInv'
  <2>1. source' = [source EXCEPT ![s] = Idle]
    BY <1>8 DEF Drop
  <2>2. \A i \in DOMAIN Idle.held : Idle.held[i].size = Idle.held[i].entry.actual
    BY IdleSource
  <2>. QED
    BY <2>1, <2>2, IdleSource, OneSource
<1>9. CASE UNCHANGED spillVars
  BY <1>9 DEF spillVars, SInv, SpillTypeOK, ZipWithinCap, WholeOrError
<1>. QED
  BY <1>1, <1>2, <1>3, <1>4, <1>5, <1>6, <1>7, <1>8, <1>9 DEF SpillNext, Opening

\* Types, caps and backings are right in every state.
LEMMA SpillInvariant == SpillSpec => []SInv
<1>1. SpillInit => SInv
  <2> SUFFICES ASSUME SpillInit PROVE SInv
    OBVIOUS
  <2>1. source = [s \in Sources |-> Idle]
    BY DEF SpillInit
  <2>2. \A s \in Sources : source[s] = Idle
    BY <2>1
  <2>3. SpillTypeOK
    BY <2>1, IdleSource DEF SpillTypeOK, Source
  <2>4. ZipWithinCap
    BY <2>2, IdleSource DEF ZipWithinCap
  <2>5. WholeOrError
    BY <2>2, IdleSource DEF WholeOrError
  <2>. QED
    BY <2>3, <2>4, <2>5 DEF SInv
<1>. QED
  BY <1>1, SpillStep, PTL DEF SpillSpec

\* What fits above the reserve leaves the reserve.
LEMMA RoomAboveReserve ==
  ASSUME NEW size \in Nat, NEW cap \in Nat, NEW temp \in Nat, NEW reserve \in Nat,
         size <= cap + 1, temp >= cap + reserve
  PROVE  size <= temp - reserve + 1
OBVIOUS

\* SpillTypeOK: every open keeps its types, whatever the archives hold.
THEOREM SpillTypeCorrect == SpillSpec => []SpillTypeOK
<1>1. SInv => SpillTypeOK
  BY DEF SInv
<1>. QED
  BY <1>1, SpillInvariant, PTL

\* WholeOrError: a backing that is handed out holds all of its entry, whatever
\* the header declared and however full the volume is.
THEOREM BackingsAlwaysWhole == SpillSpec => []WholeOrError
<1>1. SInv => WholeOrError
  BY DEF SInv
<1>. QED
  BY <1>1, SpillInvariant, PTL

\* SpoolKeepsReserve: a zip entry spooled to the volume leaves the reserve of
\* what was free when it was decided on, up to the one unit a lying header costs.
THEOREM ReserveAlwaysKept == SpillSpec => []SpoolKeepsReserve
<1>1. SInv => SpoolKeepsReserve
  <2> SUFFICES ASSUME SInv, NEW s \in Sources, source[s].kind = "zip", source[s].pc = "copy"
               PROVE  DiskUse(s, source[s].cur) <= IF source[s].temp < TempReserve THEN 0
                                                ELSE source[s].temp - TempReserve + 1
    BY DEF SpoolKeepsReserve
  <2>1. /\ source[s].cap \in Nat /\ source[s].temp \in Nat
        /\ source[s].cur.size \in Nat /\ TempReserve \in Nat
    BY DEF SInv, SpillTypeOK, Backing
  <2>2. /\ source[s].cur.size <= source[s].cap + 1
        /\ source[s].cur.how = "spool" => source[s].temp >= source[s].cap + TempReserve
    BY DEF SInv, ZipWithinCap
  <2>3. CASE OnDisk(s, source[s].cur)
    <3>1. source[s].cur.how = "spool" /\ DiskUse(s, source[s].cur) = source[s].cur.size
      BY <2>3 DEF OnDisk, DiskUse
    <3>2. source[s].temp >= source[s].cap + TempReserve
      BY <2>2, <3>1
    <3>3. ~ (source[s].temp < TempReserve)
      BY <2>1, <3>2
    <3>4. source[s].cur.size <= source[s].temp - TempReserve + 1
      BY <2>1, <2>2, <3>2, RoomAboveReserve
    <3>. QED
      BY <3>1, <3>3, <3>4
  <2>4. CASE ~ OnDisk(s, source[s].cur)
    <3>1. DiskUse(s, source[s].cur) = 0
      BY <2>4 DEF DiskUse
    <3>. QED
      BY <2>1, <3>1
  <2>. QED
    BY <2>3, <2>4
<1>. QED
  BY <1>1, SpillInvariant, PTL

HIDE SpillAssumption

-------------------------------------------------------------------------------
\* Pieces of the stream.

\* Cutting the stream gives a piece of it.
LEMMA PieceOfStream ==
  ASSUME NEW from \in Nat, NEW to \in from .. Len(Stream)
  PROVE  IsPiece(SubSeq(Stream, from + 1, to), from, to)
<1>1. Stream \in Seq(Units) /\ Len(Stream) \in Nat
  BY LayoutAssumption
<1> DEFINE piece == SubSeq(Stream, from + 1, to)
<1>2. piece \in Seq(Units) /\ Len(piece) = to - from
  BY <1>1
<1>3. \A i \in 1 .. to - from : piece[i] = Stream[from + i]
  BY <1>1
<1>. QED
  BY <1>2, <1>3 DEF IsPiece

\* Cutting a piece gives a piece.
LEMMA PieceOfPiece ==
  ASSUME NEW from \in Nat, NEW to \in Nat, NEW units, IsPiece(units, from, to),
         NEW lo \in from .. to, NEW hi \in lo .. to
  PROVE  IsPiece(SubSeq(units, lo - from + 1, hi - from), lo, hi)
<1> DEFINE piece == SubSeq(units, lo - from + 1, hi - from)
<1>1. /\ units \in Seq(Units) /\ Len(units) = to - from
      /\ \A i \in 1 .. to - from : units[i] = Stream[from + i]
  BY DEF IsPiece
<1>2. piece \in Seq(Units) /\ Len(piece) = hi - lo
  <2> DEFINE a == lo - from + 1
             b == hi - from
  <2>1. a \in 1 .. Len(units) + 1 /\ b \in a - 1 .. Len(units) /\ b - a + 1 = hi - lo
    BY <1>1
  <2>2. units \in Seq(Units) /\ piece = SubSeq(units, a, b)
    BY <1>1
  <2> HIDE DEF a, b, piece
  <2>3. piece \in Seq(Units) /\ Len(piece) = b - a + 1
    BY <2>1, <2>2
  <2>. QED
    BY <2>1, <2>3
<1>3. ASSUME NEW i \in 1 .. hi - lo PROVE piece[i] = Stream[lo + i]
  <2>1. piece[i] = units[lo - from + i]
    BY <1>1
  <2>2. lo - from + i \in 1 .. to - from /\ from + (lo - from + i) = lo + i
    OBVIOUS
  <2> HIDE DEF piece
  <2>. QED
    BY <1>1, <2>1, <2>2
<1>. QED
  BY <1>2, <1>3 DEF IsPiece

\* What two sequences behind one another are.
LEMMA Joined ==
  ASSUME NEW S, NEW u \in Seq(S), NEW v \in Seq(S)
  PROVE  /\ u \o v \in Seq(S) /\ Len(u \o v) = Len(u) + Len(v)
         /\ \A i \in 1 .. Len(u) : (u \o v)[i] = u[i]
         /\ \A i \in 1 .. Len(v) : (u \o v)[Len(u) + i] = v[i]
<1>1. /\ u \o v \in Seq(S) /\ Len(u \o v) = Len(u) + Len(v)
      /\ \A i \in 1 .. Len(u) + Len(v) :
            (u \o v)[i] = IF i <= Len(u) THEN u[i] ELSE v[i - Len(u)]
  BY ConcatProperties
<1> DEFINE w == u \o v
<1> HIDE DEF w
<1>2. ASSUME NEW i \in 1 .. Len(v) PROVE w[Len(u) + i] = v[i]
  <2>1. Len(u) + i \in 1 .. Len(u) + Len(v) /\ ~(Len(u) + i <= Len(u)) /\ Len(u) + i - Len(u) = i
    OBVIOUS
  <2>. QED
    BY <1>1, <2>1 DEF w
<1>3. \A i \in 1 .. Len(u) : w[i] = u[i]
  <2>1. \A i \in 1 .. Len(u) : i \in 1 .. Len(u) + Len(v) /\ i <= Len(u)
    OBVIOUS
  <2>. QED
    BY <1>1, <2>1 DEF w
<1>. QED
  BY <1>1, <1>2, <1>3 DEF w

\* A sequence with all its elements in a set is a sequence over that set.
LEMMA SequenceInto ==
  ASSUME NEW S, NEW K, NEW u \in Seq(S), \A n \in 1 .. Len(u) : u[n] \in K
  PROVE  u \in Seq(K)
<1>1. u = [n \in 1 .. Len(u) |-> u[n]] /\ Len(u) \in Nat
  OBVIOUS
<1>2. u \in [1 .. Len(u) -> K]
  BY <1>1
<1>. QED
  BY <1>1, <1>2

\* Two pieces that follow one another make a piece.
LEMMA PieceJoined ==
  ASSUME NEW from \in Nat, NEW mid \in Nat, NEW to \in Nat, from <= mid, mid <= to,
         NEW u, NEW v, IsPiece(u, from, mid), IsPiece(v, mid, to)
  PROVE  IsPiece(u \o v, from, to)
<1>1. /\ u \in Seq(Units) /\ Len(u) = mid - from
      /\ v \in Seq(Units) /\ Len(v) = to - mid
      /\ \A i \in 1 .. mid - from : u[i] = Stream[from + i]
      /\ \A i \in 1 .. to - mid : v[i] = Stream[mid + i]
  BY DEF IsPiece
<1> DEFINE w == u \o v
<1>2. /\ w \in Seq(Units) /\ Len(w) = to - from
      /\ \A i \in 1 .. mid - from : w[i] = u[i]
      /\ \A i \in 1 .. to - mid : w[mid - from + i] = v[i]
  <2>1. u \in Seq(Units) /\ v \in Seq(Units)
    BY <1>1
  <2>2. /\ w \in Seq(Units) /\ Len(w) = Len(u) + Len(v)
        /\ \A i \in 1 .. Len(u) : w[i] = u[i]
        /\ \A i \in 1 .. Len(v) : w[Len(u) + i] = v[i]
    <3>1. w \in Seq(Units) /\ Len(w) = Len(u) + Len(v)
      BY <2>1, Joined
    <3>2. \A i \in 1 .. Len(u) : w[i] = u[i]
      BY <2>1, Joined
    <3>3. \A i \in 1 .. Len(v) : w[Len(u) + i] = v[i]
      BY <2>1, Joined
    <3>. QED
      BY <3>1, <3>2, <3>3
  <2> HIDE DEF w
  <2>. QED
    BY <1>1, <2>2
<1> HIDE DEF w
<1>3. ASSUME NEW i \in 1 .. to - from PROVE w[i] = Stream[from + i]
  <2>1. CASE i <= mid - from
    BY <1>1, <1>2, <2>1
  <2>2. CASE i > mid - from
    <3> DEFINE j == i - (mid - from)
    <3>1. j \in 1 .. to - mid /\ mid + j = from + i /\ mid - from + j = i
      BY <2>2
    <3> HIDE DEF j
    <3>2. w[mid - from + j] = v[j] /\ v[j] = Stream[mid + j]
      BY <1>1, <1>2, <3>1
    <3>. QED
      BY <3>1, <3>2
  <2>. QED
    BY <2>1, <2>2
<1>4. IsPiece(w, from, to)
  BY <1>2, <1>3 DEF IsPiece
<1>. QED
  BY <1>4 DEF w

\* A piece within a member's window is that part of its file.
LEMMA PieceOfFile ==
  ASSUME NEW t \in Readers, NEW pos \in Nat, NEW n \in Nat, NEW units,
         pos + n <= MemberWindow(t).len,
         IsPiece(units, MemberWindow(t).base + pos, MemberWindow(t).base + pos + n)
  PROVE  units = SubSeq(Contents(FileOf[t]), pos + 1, pos + n)
<1> DEFINE base == MemberWindow(t).base
           len == MemberWindow(t).len
           data == Contents(FileOf[t])
           part == SubSeq(data, pos + 1, pos + n)
<1>1. /\ base \in Nat /\ len \in Nat /\ base + len <= Len(Stream)
      /\ data = SubSeq(Stream, base + 1, base + len)
  BY LayoutAssumption
<1> HIDE DEF base, len, data
<1>2. IsPiece(data, base, base + len)
  BY <1>1, PieceOfStream
<1>3. IsPiece(part, base + pos, base + pos + n)
  <2>1. pos + n <= len
    BY DEF len
  <2>2. /\ pos = (base + pos) - base /\ pos + n = (base + pos + n) - base
        /\ base + pos \in base .. base + len /\ base + pos + n \in base + pos .. base + len
    BY <1>1, <2>1
  <2>. QED
    BY <1>1, <1>2, <2>2, PieceOfPiece
<1> HIDE DEF part
<1>4. /\ units \in Seq(Units) /\ part \in Seq(Units) /\ Len(units) = n /\ Len(part) = n
      /\ \A i \in 1 .. n : units[i] = part[i]
  <2>1. (base + pos + n) - (base + pos) = n
    BY <1>1
  <2>. QED
    BY <1>3, <2>1 DEF IsPiece, base
<1>5. units = part
  BY <1>4
<1>. QED
  BY <1>5 DEF part, data, base, len

\* A member's window is as long as its file.
LEMMA WindowIsFile ==
  ASSUME NEW t \in Readers
  PROVE  /\ Contents(FileOf[t]) \in Seq(Units) /\ MemberWindow(t).len \in Nat
         /\ Len(Contents(FileOf[t])) = MemberWindow(t).len
<1> DEFINE w == MemberWindow(t)
           data == Contents(FileOf[t])
<1>1. /\ w.base \in Nat /\ w.len \in Nat /\ w.base + w.len <= Len(Stream)
      /\ data = SubSeq(Stream, w.base + 1, w.base + w.len)
      /\ Len(Stream) \in Nat
  BY LayoutAssumption
<1> HIDE DEF w, data
<1>2. IsPiece(data, w.base, w.base + w.len)
  BY <1>1, PieceOfStream
<1>3. (w.base + w.len) - w.base = w.len
  BY <1>1
<1>. QED
  BY <1>1, <1>2, <1>3 DEF IsPiece, w, data

\* Where the blocks lie.
LEMMA BlockBounds ==
  ASSUME NEW k \in Blocks
  PROVE  /\ k \in Nat /\ k + 1 \in 1 .. Len(BlockLens) + 1
         /\ BlockStart[k] \in Nat /\ BlockStart[k + 1] \in Nat
         /\ BlockStart[k] <= BlockStart[k + 1] /\ BlockStart[k + 1] <= Len(Stream)
<1>1. /\ BlockLens \in Seq(Nat) /\ Len(Stream) \in Nat
      /\ \A j \in 1 .. Len(BlockLens) + 1 : BlockStart[j] \in 0 .. Len(Stream)
      /\ \A j \in Blocks : BlockStart[j] <= BlockStart[j + 1]
  BY LayoutAssumption
<1>2. Blocks = 1 .. Len(BlockLens) /\ Len(BlockLens) \in Nat
  BY <1>1 DEF Blocks
<1>3. k \in Nat /\ k \in 1 .. Len(BlockLens) + 1 /\ k + 1 \in 1 .. Len(BlockLens) + 1
  BY <1>2
<1>. QED
  BY <1>1, <1>3

-------------------------------------------------------------------------------
\* One read.

\* What a read takes of a block is the stream's from the later of the block's start
\* and its own to the earlier of their ends.
LEMMA SliceIsPiece ==
  ASSUME NEW k, NEW units, IsBlock(k, units), NEW at \in Nat, NEW end \in Nat,
         at < end, at < BlockStart[k + 1], BlockStart[k] < end
  PROVE  LET from == IF at > BlockStart[k] THEN at ELSE BlockStart[k]
             to == IF end < BlockStart[k + 1] THEN end ELSE BlockStart[k + 1]
         IN  /\ IsPiece(SliceOf(k, units, at, end), from, to)
             /\ from \in Nat /\ to \in Nat /\ from <= to
<1> DEFINE first == BlockStart[k]
           next == BlockStart[k + 1]
           from == IF at > first THEN at ELSE first
           to == IF end < next THEN end ELSE next
<1>1. /\ k \in Blocks /\ IsPiece(units, first, next)
  BY DEF IsBlock
<1>2. first \in Nat /\ next \in Nat /\ first <= next
  BY <1>1, BlockBounds
<1>3. SliceOf(k, units, at, end) = SubSeq(units, from - first + 1, to - first)
  BY DEF SliceOf
<1>4. at < next /\ first < end
  OBVIOUS
<1> HIDE DEF first, next
<1>5. from \in first .. next /\ to \in from .. next
  BY <1>2, <1>4
<1> HIDE DEF from, to
<1>6. IsPiece(SubSeq(units, from - first + 1, to - first), from, to)
  BY <1>1, <1>2, <1>5, PieceOfPiece
<1>7. from \in Nat /\ to \in Nat /\ from <= to
  BY <1>2, <1>5
<1>. QED
  BY <1>3, <1>6, <1>7 DEF from, to, first, next

\* What a thread is after a block has been delivered: at the next block, or done
\* with the next bytes of its file.
Quiet(t, me) == me.pos = reader[t].pos /\ me.last = reader[t].last
Served(t, me) ==
  LET n == Len(me.last.bytes)
      pos == reader[t].pos
  IN  /\ n \in Nat \ {0} /\ me.pos = pos + n /\ pos + n <= MemberWindow(t).len
      /\ me.last = Result("read", SubSeq(Contents(FileOf[t]), pos + 1, pos + n))
Goes(t, me) == me \in ReaderType /\ (me.pc # "idle" => Reads(t, me))

LEMMA DeliveredGoes ==
  ASSUME BzTypeOK, NEW t \in Readers, Reads(t, reader[t]),
         NEW units, IsBlock(reader[t].block, units)
  PROVE  LET me == Delivered(t, units)
         IN  /\ Goes(t, me) /\ me.pc \in {"idle", "lookup"}
             /\ Quiet(t, me) \/ Served(t, me)
<1> DEFINE me == reader[t]
           w == MemberWindow(t)
           at == w.base + me.pos
           k == me.block
           from == IF at > BlockStart[k] THEN at ELSE BlockStart[k]
           to == IF me.end < BlockStart[k + 1] THEN me.end ELSE BlockStart[k + 1]
           got == me.got \o SliceOf(k, units, at, me.end)
           going == [me EXCEPT !.pc = "lookup", !.got = got, !.block = k + 1, !.decoded = <<>>]
           done == [me EXCEPT !.pc = "idle", !.last = Result("read", got), !.pos = me.pos + Len(got),
                              !.got = <<>>, !.decoded = <<>>, !.end = 0, !.block = 0]
<1>1. /\ me \in ReaderType /\ me.pos \in Nat /\ me.end \in Nat /\ <<>> \in Seq(Units)
  BY DEF BzTypeOK, ReaderType
<1>2. /\ w.base \in Nat /\ w.len \in Nat /\ w.base + w.len <= Len(Stream)
      /\ BlockLens \in Seq(Nat) /\ Len(BlockLens) \in Nat /\ Blocks = 1 .. Len(BlockLens)
      /\ BlockStart[Len(BlockLens) + 1] = Len(Stream) /\ Len(Stream) \in Nat
  BY LayoutAssumption DEF Blocks
<1>3. /\ k \in Blocks /\ k \in Nat
      /\ at < me.end /\ me.end <= w.base + w.len
      /\ at < BlockStart[k + 1] /\ BlockStart[k] < me.end
      /\ IsPiece(me.got, at, from)
      /\ at \in Nat
      /\ BlockStart[k] \in Nat /\ BlockStart[k + 1] \in Nat
      /\ BlockStart[k] <= BlockStart[k + 1]
  <2>1. /\ k \in Blocks
        /\ at < me.end /\ me.end <= w.base + w.len
        /\ at < BlockStart[k + 1] /\ BlockStart[k] < me.end
        /\ IsPiece(me.got, at, from)
    BY DEF Reads
  <2>2. at \in Nat
    BY <1>1, <1>2
  <2>3. /\ k \in Nat /\ BlockStart[k] \in Nat /\ BlockStart[k + 1] \in Nat
        /\ BlockStart[k] <= BlockStart[k + 1]
    BY <2>1, BlockBounds
  <2>. QED
    BY <2>1, <2>2, <2>3
<1>4. /\ IsPiece(SliceOf(k, units, at, me.end), from, to)
      /\ from \in Nat /\ to \in Nat /\ from <= to
  BY <1>1, <1>3, SliceIsPiece
<1>5. at <= from /\ at < to /\ to <= me.end
  <2> HIDE DEF at, k, me, w
  <2>. QED
    BY <1>1, <1>3 DEF me
<1>6. IsPiece(got, at, to)
  <2> HIDE DEF at, from, to, k, me, w
  <2>. QED
    BY <1>3, <1>4, <1>5, PieceJoined
<1>7. got \in Seq(Units) /\ Len(got) = to - at
  BY <1>6 DEF IsPiece
<1>8. Delivered(t, units) =
        IF k < Len(BlockLens) /\ BlockStart[k + 1] < me.end THEN going ELSE done
  BY DEF Delivered, Offset
<1>9. CASE k < Len(BlockLens) /\ BlockStart[k + 1] < me.end
  <2>1. to = BlockStart[k + 1]
    <3>1. \A a, b \in Nat : b < a => (IF a < b THEN a ELSE b) = b
      OBVIOUS
    <3>2. BlockStart[k + 1] < me.end
      BY <1>9
    <3> HIDE DEF k, me
    <3>. QED
      BY <1>1, <1>3, <3>1, <3>2
  <2>2. k + 1 \in Blocks
    <3>1. k \in Nat /\ k >= 1 /\ k < Len(BlockLens)
      BY <1>2, <1>3, <1>9
    <3> HIDE DEF k
    <3>. QED
      BY <1>2, <3>1
  <2>3. BlockStart[k + 1] <= BlockStart[(k + 1) + 1] /\ BlockStart[(k + 1) + 1] \in Nat
    BY <2>2, BlockBounds
  <2>4. /\ going \in ReaderType
        /\ going.pc = "lookup" /\ going.pos = me.pos /\ going.last = me.last
        /\ going.end = me.end /\ going.block = k + 1 /\ going.got = got
    <3>1. k + 1 \in Nat /\ got \in Seq(Units)
      BY <1>3, <1>7
    <3> DEFINE next == k + 1
    <3> HIDE DEF got, w, at, from, to, k, next
    <3>2. next \in Nat
      BY <3>1 DEF next
    <3>3. going = [me EXCEPT !.pc = "lookup", !.got = got, !.block = next, !.decoded = <<>>]
      BY DEF next
    <3> HIDE DEF me, going
    <3>4. /\ going \in ReaderType
          /\ going.pc = "lookup" /\ going.pos = me.pos /\ going.last = me.last
          /\ going.end = me.end /\ going.block = next /\ going.got = got
      BY <1>1, <3>1, <3>2, <3>3 DEF ReaderType
    <3>. QED
      BY <3>4 DEF next
  <2> HIDE DEF going, got
  <2>5. /\ going.block \in Blocks /\ at < going.end /\ going.end <= w.base + w.len
        /\ BlockStart[going.block] < going.end
    BY <1>3, <1>9, <2>2, <2>4
  <2>6. at < BlockStart[going.block + 1]
    <3> HIDE DEF at, k
    <3>. QED
      BY <1>3, <2>3, <2>4
  <2>7. IsPiece(going.got, at, IF at > BlockStart[going.block] THEN at ELSE BlockStart[going.block])
    <3>1. ~ (at > BlockStart[k + 1])
      <4> HIDE DEF at, k
      <4>. QED
        BY <1>3
    <3>. QED
      BY <1>6, <2>1, <2>4, <3>1
  <2>8. Reads(t, going)
    BY <2>4, <2>5, <2>6, <2>7 DEF Reads
  <2>. QED
    BY <1>8, <1>9, <2>4, <2>8 DEF Goes, Quiet
<1>10. CASE ~ (k < Len(BlockLens) /\ BlockStart[k + 1] < me.end)
  <2>1. to = me.end
    <3>1. CASE k = Len(BlockLens)
      <4>1. BlockStart[k + 1] = Len(Stream)
        BY <1>2, <3>1
      <4>2. me.end <= w.base + w.len /\ w.base + w.len <= Len(Stream) /\ w.base + w.len \in Nat
        BY <1>2, <1>3
      <4>3. me.end <= BlockStart[k + 1]
        <5> HIDE DEF k, me, w
        <5>. QED
          BY <1>1, <1>2, <1>3, <4>1, <4>2
      <4> HIDE DEF at, k, me, w
      <4>. QED
        BY <1>1, <1>3, <4>3
    <3>2. CASE ~ (BlockStart[k + 1] < me.end)
      BY <1>1, <1>3, <3>2
    <3>. QED
      BY <1>2, <1>3, <1>10, <3>1, <3>2
  <2> DEFINE n == Len(got)
  <2>2. /\ n \in Nat \ {0} /\ at + n = me.end
    <3> HIDE DEF got, at, from
    <3>. QED
      BY <1>1, <1>3, <1>5, <1>7, <2>1
  <2>3. /\ done \in ReaderType
        /\ done.pc = "idle" /\ done.pos = me.pos + n
        /\ done.last = Result("read", got) /\ done.last.bytes = got
    <3> HIDE DEF got, w, at, from, to, k
    <3>1. me.pos + Len(got) \in Nat
      BY <1>1, <1>7
    <3>. QED
      BY <1>1, <1>7, <3>1 DEF ReaderType, Result
  <2>4. me.pos + n <= w.len
    <3>1. (w.base + me.pos) + n <= w.base + w.len
      BY <1>3, <2>2
    <3> HIDE DEF n, got, w, me
    <3>. QED
      BY <1>1, <1>2, <2>2, <3>1
  <2>5. got = SubSeq(Contents(FileOf[t]), me.pos + 1, me.pos + n)
    <3>1. IsPiece(got, w.base + me.pos, w.base + me.pos + n)
      BY <1>6, <2>1, <2>2
    <3> HIDE DEF got, n
    <3>. QED
      BY <1>1, <2>2, <2>4, <3>1, PieceOfFile
  <2> HIDE DEF got, n, done
  <2>6. Served(t, done)
    BY <2>2, <2>3, <2>4, <2>5 DEF Served, n
  <2>. QED
    BY <1>8, <1>10, <2>3, <2>6 DEF Goes
<1>. QED
  BY <1>9, <1>10

-------------------------------------------------------------------------------
\* The steps of the threads.

BInv == BzTypeOK /\ CacheIsStream /\ CursorIsOwn /\ EveryReadGoesOn

\* What a step makes of the thread that takes it.
Sought(me) == me.last = Result("seek", <<>>)
Failed(t, me) == me.pos = reader[t].pos /\ me.last = Result("fail", <<>>)
AtEnd(t, me) ==
  /\ me.pos = reader[t].pos /\ reader[t].pos >= MemberWindow(t).len
  /\ me.last = Result("read", <<>>)
Outcome(t, me) ==
  Goes(t, me) /\ (Quiet(t, me) \/ Served(t, me) \/ Sought(me) \/ Failed(t, me) \/ AtEnd(t, me))

\* A read begins at the first block that reaches past the offset.
LEMMA BeginOutcome ==
  ASSUME BInv, NEW t \in Readers, BeginRead(t)
  PROVE  \E me : reader' = [reader EXCEPT ![t] = me] /\ Outcome(t, me)
<1> DEFINE w == MemberWindow(t)
           pos == reader[t].pos
           at == w.base + pos
           left == IF pos >= w.len THEN 0 ELSE w.len - pos
<1>1. /\ reader \in [Readers -> ReaderType] /\ reader[t] \in ReaderType /\ pos \in Nat
      /\ <<>> \in Seq(Units)
  BY DEF BInv, BzTypeOK, ReaderType
<1>2. /\ w.base \in Nat /\ w.len \in Nat /\ w.base + w.len <= Len(Stream) /\ Len(Stream) \in Nat
      /\ StreamLen = Len(Stream)
      /\ \A o \in 0 .. Len(Stream) - 1 :
            \E k \in Blocks : BlockStart[k] <= o /\ o < BlockStart[k + 1]
  <2>1. w.base \in Nat /\ w.len \in Nat /\ w.base + w.len <= Len(Stream)
    BY LayoutAssumption
  <2>2. Len(Stream) \in Nat /\ StreamLen = Len(Stream)
    BY LayoutAssumption DEF StreamLen
  <2>3. \A o \in 0 .. Len(Stream) - 1 :
           \E k \in Blocks : BlockStart[k] <= o /\ o < BlockStart[k + 1]
    BY LayoutAssumption
  <2>. QED
    BY <2>1, <2>2, <2>3
<1>3. CASE left = 0
  <2> DEFINE me == [reader[t] EXCEPT !.last = Result("read", <<>>)]
  <2>1. reader' = [reader EXCEPT ![t].last = Result("read", <<>>)]
    BY <1>3 DEF BeginRead
  <2>2. reader' = [reader EXCEPT ![t] = me]
    BY <2>1
  <2>3. /\ me \in ReaderType /\ me.pc = reader[t].pc
        /\ me.pos = pos /\ me.last = Result("read", <<>>)
    BY <1>1 DEF ReaderType, Result
  <2>4. reader[t].pc = "idle"
    BY DEF BeginRead
  <2>5. pos >= w.len
    <3> HIDE DEF pos, w
    <3>. QED
      BY <1>1, <1>2, <1>3
  <2> HIDE DEF me
  <2>. QED
    BY <2>2, <2>3, <2>4, <2>5 DEF Outcome, Goes, AtEnd
<1>4. CASE left # 0
  <2>1. PICK n \in 1 .. MaxRead :
          LET want == IF n < left THEN n ELSE left
              end == Offset(t) + want
              first == CHOOSE k \in Blocks :
                           BlockStart[k] <= Offset(t) /\ Offset(t) < BlockStart[k + 1]
          IN  reader' = [reader EXCEPT ![t] =
                 [@ EXCEPT !.pc = "lookup", !.got = <<>>, !.block = first,
                           !.end = IF end < StreamLen THEN end ELSE StreamLen]]
    BY <1>4 DEF BeginRead
  <2> DEFINE want == IF n < left THEN n ELSE left
             end == at + want
             stop == IF end < StreamLen THEN end ELSE StreamLen
             first == CHOOSE k \in Blocks : BlockStart[k] <= at /\ at < BlockStart[k + 1]
             me == [reader[t] EXCEPT !.pc = "lookup", !.got = <<>>, !.block = first, !.end = stop]
  <2>2. reader' = [reader EXCEPT ![t] = me]
    BY <2>1 DEF Offset
  <2>3. /\ at \in Nat /\ at < stop /\ stop <= w.base + w.len /\ stop \in Nat
        /\ at \in 0 .. Len(Stream) - 1
    <3>1. n \in Nat \ {0}
      OBVIOUS
    <3>2. want \in Nat \ {0} /\ pos + want <= w.len
      <4> HIDE DEF pos, w
      <4>. QED
        BY <1>1, <1>2, <1>4, <3>1
    <3> HIDE DEF pos, w, want
    <3>3. at \in Nat /\ at < end /\ end <= w.base + w.len /\ end \in Nat
      BY <1>1, <1>2, <3>2, SMTT(30)
    <3>4. at < StreamLen /\ StreamLen \in Nat /\ StreamLen = Len(Stream)
      BY <1>1, <1>2, <3>3
    <3> HIDE DEF at, end
    <3>5. at < stop /\ stop <= end /\ stop \in Nat
      BY <3>3, <3>4
    <3> HIDE DEF stop
    <3>. QED
      BY <1>2, <3>3, <3>4, <3>5
  <2>4. /\ first \in Blocks /\ BlockStart[first] <= at /\ at < BlockStart[first + 1]
        /\ first \in Nat /\ BlockStart[first] \in Nat
    <3>1. \E k \in Blocks : BlockStart[k] <= at /\ at < BlockStart[k + 1]
      BY <1>2, <2>3
    <3>2. first \in Blocks /\ BlockStart[first] <= at /\ at < BlockStart[first + 1]
      <4> HIDE DEF at
      <4>. QED
        BY <3>1
    <3>. QED
      BY <3>2, BlockBounds
  <2> HIDE DEF first, stop
  <2>5. /\ me \in ReaderType /\ me.pc = "lookup" /\ me.got = <<>> /\ me.block = first
        /\ me.end = stop /\ me.pos = pos /\ me.last = reader[t].last
    BY <1>1, <2>3, <2>4 DEF ReaderType
  <2> HIDE DEF me
  <2>6. IsPiece(<<>>, at, at)
    <3>1. at - at = 0
      BY <2>3
    <3>2. 1 .. 0 = {} /\ Len(<<>>) = 0
      OBVIOUS
    <3>. QED
      BY <1>1, <3>1, <3>2 DEF IsPiece
  <2>7. (IF at > BlockStart[first] THEN at ELSE BlockStart[first]) = at
    <3> HIDE DEF at
    <3>. QED
      BY <2>3, <2>4
  <2>8. BlockStart[first] < stop
    <3> HIDE DEF at
    <3>. QED
      BY <2>3, <2>4
  <2>9. Reads(t, me)
    BY <2>3, <2>4, <2>5, <2>6, <2>7, <2>8 DEF Reads
  <2>. QED
    BY <2>2, <2>5, <2>9 DEF Outcome, Goes, Quiet
<1>. QED
  BY <1>3, <1>4

\* A block that the cache has, or that was decoded for the read, serves it.
LEMMA DeliverOutcome ==
  ASSUME BInv, NEW t \in Readers, reader[t].pc # "idle",
         NEW units, IsBlock(reader[t].block, units),
         reader' = [reader EXCEPT ![t] = Delivered(t, units)]
  PROVE  \E me : /\ reader' = [reader EXCEPT ![t] = me] /\ Outcome(t, me)
                 /\ me.pc \in {"idle", "lookup"}
BY DeliveredGoes DEF BInv, EveryReadGoesOn, Outcome

\* A change of a read's stage, or of what it has decoded, leaves it what it reads.
LEMMA StageOutcome ==
  ASSUME BInv, NEW t \in Readers, reader[t].pc # "idle",
         NEW pc \in {"decode", "read", "insert"}, NEW decoded \in Seq(Units),
         pc = "insert" => IsBlock(reader[t].block, decoded),
         reader' = [reader EXCEPT ![t].pc = pc, ![t].decoded = decoded]
  PROVE  \E me : /\ reader' = [reader EXCEPT ![t] = me] /\ Outcome(t, me)
                 /\ me.pc = pc /\ me.block = reader[t].block
<1> DEFINE me == [reader[t] EXCEPT !.pc = pc, !.decoded = decoded]
<1>1. /\ reader \in [Readers -> ReaderType] /\ reader[t] \in ReaderType
      /\ Reads(t, reader[t])
  BY DEF BInv, BzTypeOK, EveryReadGoesOn
<1>2. reader' = [reader EXCEPT ![t] = me]
  BY <1>1
<1>3. /\ me \in ReaderType /\ me.pc = pc /\ me.decoded = decoded
      /\ me.pos = reader[t].pos /\ me.last = reader[t].last /\ me.end = reader[t].end
      /\ me.block = reader[t].block /\ me.got = reader[t].got
  BY <1>1 DEF ReaderType
<1> HIDE DEF me
<1>4. Reads(t, me)
  BY <1>1, <1>3, Zenon DEF Reads
<1>. QED
  BY <1>2, <1>3, <1>4 DEF Outcome, Goes, Quiet

\* What the cache finds for a block, and what it becomes, holds the blocks it says.
LEMMA LookupOutcome ==
  ASSUME BInv, NEW t \in Readers, Lookup(t)
  PROVE  /\ \E me : /\ reader' = [reader EXCEPT ![t] = me] /\ Outcome(t, me)
                    /\ me.pc # "read"
         /\ cache' \in Seq(Nat \X Seq(Units)) /\ CacheIsStream'
         /\ UNCHANGED inner
<1> DEFINE hits == {i \in DOMAIN cache : cache[i][1] = reader[t].block}
           i == CHOOSE i \in hits : \A j \in hits : i <= j
<1>0. /\ cache \in Seq(Nat \X Seq(Units)) /\ Len(cache) \in Nat
      /\ CacheIsStream /\ UNCHANGED inner /\ reader[t].pc = "lookup"
      /\ reader \in [Readers -> ReaderType] /\ reader[t] \in ReaderType
  BY DEF BInv, BzTypeOK, Lookup
<1>1. CASE hits = {}
  <2>1. reader' = [reader EXCEPT ![t].pc = "decode"] /\ cache' = cache
    BY <1>1 DEF Lookup
  <2>2. /\ reader' = [reader EXCEPT ![t].pc = "decode", ![t].decoded = reader[t].decoded]
        /\ reader[t].decoded \in Seq(Units)
    BY <1>0, <2>1 DEF ReaderType
  <2>3. CacheIsStream'
    BY <1>0, <2>1 DEF CacheIsStream, IsBlock, IsPiece
  <2>. QED
    BY <1>0, <2>1, <2>2, <2>3, StageOutcome
<1>2. CASE hits # {}
  <2>1. /\ cache' = <<cache[i]>> \o RemoveAt(cache, i)
        /\ reader' = [reader EXCEPT ![t] = Delivered(t, cache[i][2])]
    BY <1>2 DEF Lookup
  <2>2. i \in hits
    <3>1. hits \in SUBSET Nat
      BY <1>0
    <3>2. \E m \in hits : \A j \in hits : m <= j
      <4> HIDE DEF hits
      <4>. QED
        BY <1>2, <3>1, LeastOf
    <3>. QED
      BY <3>2
  <2>3. i \in 1 .. Len(cache) /\ cache[i][1] = reader[t].block
    BY <1>0, <2>2
  <2> HIDE DEF i, hits
  <2>4. IsBlock(reader[t].block, cache[i][2])
    BY <1>0, <2>3 DEF CacheIsStream
  <2>5. \E me : /\ reader' = [reader EXCEPT ![t] = me] /\ Outcome(t, me)
                /\ me.pc \in {"idle", "lookup"}
    BY <1>0, <2>1, <2>4, DeliverOutcome
  <2>6. /\ cache' \in Seq(Nat \X Seq(Units))
        /\ \A n \in DOMAIN cache' : \E m \in DOMAIN cache : cache'[n] = cache[m]
    <3> DEFINE before == SubSeq(cache, 1, i - 1)
               after == SubSeq(cache, i + 1, Len(cache))
               one == <<cache[i]>>
    <3>1. /\ before \in Seq(Nat \X Seq(Units)) /\ after \in Seq(Nat \X Seq(Units))
          /\ one \in Seq(Nat \X Seq(Units))
          /\ \A n \in 1 .. Len(before) : before[n] \in {cache[m] : m \in DOMAIN cache}
          /\ \A n \in 1 .. Len(after) : after[n] \in {cache[m] : m \in DOMAIN cache}
          /\ \A n \in 1 .. Len(one) : one[n] \in {cache[m] : m \in DOMAIN cache}
      <4> DEFINE X == Nat \X Seq(Units)
                 n0 == Len(cache)
      <4>0. cache \in Seq(X) /\ n0 \in Nat /\ i \in 1 .. n0 /\ n0 = Len(cache)
        BY <1>0, <2>3
      <4>1. /\ before \in Seq(Nat \X Seq(Units)) /\ Len(before) = i - 1
            /\ \A n \in 1 .. i - 1 : n \in DOMAIN cache /\ before[n] = cache[n]
        <5> HIDE DEF X, n0
        <5>1. before \in Seq(X) /\ Len(before) = i - 1
          BY <4>0
        <5>2. \A n \in 1 .. i - 1 : n \in DOMAIN cache /\ before[n] = cache[n]
          BY <4>0
        <5>. QED
          BY <5>1, <5>2 DEF X
      <4>2. /\ after \in Seq(Nat \X Seq(Units)) /\ Len(after) = Len(cache) - i
            /\ \A n \in 1 .. Len(cache) - i : i + n \in DOMAIN cache /\ after[n] = cache[i + n]
        <5>1. after = SubSeq(cache, i + 1, n0)
          OBVIOUS
        <5> HIDE DEF X, n0, after
        <5>2. after \in Seq(X) /\ Len(after) = n0 - i
          BY <4>0, <5>1
        <5>3. \A n \in 1 .. n0 - i : i + n \in DOMAIN cache /\ after[n] = cache[i + n]
          BY <4>0, <5>1
        <5>. QED
          BY <4>0, <5>2, <5>3 DEF X
      <4>3. /\ one \in Seq(Nat \X Seq(Units)) /\ Len(one) = 1
            /\ one[1] = cache[i] /\ i \in DOMAIN cache
        BY <1>0, <2>3
      <4> HIDE DEF before, after, one
      <4>4. \A n \in 1 .. Len(before) : before[n] \in {cache[m] : m \in DOMAIN cache}
        BY <4>1
      <4>5. \A n \in 1 .. Len(after) : after[n] \in {cache[m] : m \in DOMAIN cache}
        BY <4>2
      <4>6. \A n \in 1 .. Len(one) : one[n] \in {cache[m] : m \in DOMAIN cache}
        BY <4>3
      <4>. QED
        BY <4>1, <4>2, <4>3, <4>4, <4>5, <4>6
    <3>2. cache' = one \o (before \o after)
      BY <2>1 DEF RemoveAt
    <3> DEFINE K == {cache[m] : m \in DOMAIN cache}
    <3>3. before \in Seq(K) /\ after \in Seq(K) /\ one \in Seq(K)
      <4> HIDE DEF before, after, one
      <4>. QED
        BY <3>1, SequenceInto
    <3>4. K \subseteq Nat \X Seq(Units)
      BY <1>0
    <3> HIDE DEF before, after, one, K
    <3>5. cache' \in Seq(K)
      BY <3>2, <3>3
    <3>6. \A n \in DOMAIN cache' : cache'[n] \in K
      BY <3>5
    <3>7. cache' \in Seq(Nat \X Seq(Units))
      <4>1. \A n \in DOMAIN cache' : cache'[n] \in Nat \X Seq(Units)
        BY <3>4, <3>6
      <4> DEFINE P == Nat \X Seq(Units)
      <4> HIDE DEF P
      <4>2. \A n \in DOMAIN cache' : cache'[n] \in P
        BY <4>1 DEF P
      <4>3. cache' \in Seq(P)
        BY <3>5, <4>2, SequenceInto
      <4>. QED
        BY <4>3 DEF P
    <3>. QED
      BY <3>6, <3>7 DEF K
  <2>7. CacheIsStream'
    BY <1>0, <2>6, SMTT(30) DEF CacheIsStream, IsBlock, IsPiece
  <2>. QED
    BY <1>0, <2>5, <2>6, <2>7
<1>. QED
  BY <1>1, <1>2

\* The cache with a block put in front, cut to its cap, holds the blocks it says.
LEMMA InsertOutcome ==
  ASSUME BInv, NEW t \in Readers, Insert(t)
  PROVE  /\ \E me : /\ reader' = [reader EXCEPT ![t] = me] /\ Outcome(t, me)
                    /\ me.pc # "read"
         /\ cache' \in Seq(Nat \X Seq(Units)) /\ CacheIsStream'
         /\ UNCHANGED inner
<1> DEFINE new == <<reader[t].block, reader[t].decoded>>
           all == <<new>> \o cache
           n == IF Len(all) > CacheCap THEN CacheCap ELSE Len(all)
<1>0. /\ cache \in Seq(Nat \X Seq(Units)) /\ Len(cache) \in Nat
      /\ CacheIsStream /\ UNCHANGED inner /\ reader[t].pc = "insert"
      /\ reader[t] \in ReaderType /\ CacheCap \in Nat \ {0}
      /\ IsBlock(reader[t].block, reader[t].decoded)
  BY BzAssumption DEF BInv, BzTypeOK, Insert, EveryReadGoesOn, Reads
<1>1. /\ cache' = SubSeq(all, 1, n)
      /\ reader' = [reader EXCEPT ![t] = Delivered(t, reader[t].decoded)]
  BY DEF Insert
<1>2. \E me : /\ reader' = [reader EXCEPT ![t] = me] /\ Outcome(t, me)
              /\ me.pc \in {"idle", "lookup"}
  BY <1>0, <1>1, DeliverOutcome
<1>3. new \in Nat \X Seq(Units)
  BY <1>0 DEF ReaderType
<1>4. /\ all \in Seq(Nat \X Seq(Units)) /\ Len(all) = Len(cache) + 1
      /\ \A j \in 1 .. Len(all) : all[j] = new \/ \E m \in DOMAIN cache : all[j] = cache[m]
  <2> HIDE DEF new
  <2>1. <<new>> \in Seq(Nat \X Seq(Units)) /\ Len(<<new>>) = 1 /\ <<new>>[1] = new
    BY <1>3
  <2>2. /\ all \in Seq(Nat \X Seq(Units)) /\ Len(all) = 1 + Len(cache)
        /\ all[1] = new
        /\ \A m \in 1 .. Len(cache) : all[1 + m] = cache[m]
    BY <1>0, <2>1, Joined
  <2> HIDE DEF all
  <2>3. ASSUME NEW j \in 1 .. Len(all) PROVE all[j] = new \/ \E m \in DOMAIN cache : all[j] = cache[m]
    <3>1. CASE j = 1
      BY <2>2, <3>1
    <3>2. CASE j # 1
      <4> DEFINE m == j - 1
      <4>1. m \in 1 .. Len(cache) /\ 1 + m = j /\ m \in DOMAIN cache
        BY <1>0, <2>2, <3>2
      <4>2. all[j] = cache[m]
        BY <2>2, <4>1
      <4>. QED
        BY <4>1, <4>2
    <3>. QED
      BY <3>1, <3>2
  <2>. QED
    BY <1>0, <2>2, <2>3
<1> HIDE DEF all
<1>5. n \in 0 .. Len(all)
  BY <1>0, <1>4
<1> HIDE DEF n
<1>6. /\ cache' \in Seq(Nat \X Seq(Units)) /\ Len(cache') = n
      /\ \A j \in 1 .. n : cache'[j] = all[j] /\ j \in 1 .. Len(all)
  BY <1>1, <1>4, <1>5
<1>7. ASSUME NEW j \in DOMAIN cache' PROVE IsBlock(cache'[j][1], cache'[j][2])
  <2>1. j \in 1 .. n
    BY <1>6
  <2>2. cache'[j] = new \/ \E m \in DOMAIN cache : cache'[j] = cache[m]
    BY <1>4, <1>6, <2>1
  <2>. QED
    BY <1>0, <2>2 DEF CacheIsStream
<1>8. CacheIsStream'
  BY <1>7 DEF CacheIsStream, IsBlock, IsPiece
<1>. QED
  BY <1>0, <1>2, <1>6, <1>8

\* Every step makes one thread go on, and keeps the cache and the cursor right.
LEMMA StepOutcome ==
  ASSUME BInv, NEW t \in Readers, BzStep(t)
  PROVE  /\ \E me : reader' = [reader EXCEPT ![t] = me] /\ Outcome(t, me)
         /\ cache' \in Seq(Nat \X Seq(Units)) /\ CacheIsStream'
         /\ inner' \in [holder : SUBSET Readers, cursor : Nat]
         /\ \A u \in Readers : reader'[u].pc = "read" =>
                inner'.holder = {u} /\ inner'.cursor = reader'[u].block
<1>0. /\ reader \in [Readers -> ReaderType] /\ reader[t] \in ReaderType
      /\ cache \in Seq(Nat \X Seq(Units))
      /\ inner \in [holder : SUBSET Readers, cursor : Nat]
      /\ CacheIsStream /\ CursorIsOwn /\ EveryReadGoesOn
      /\ <<>> \in Seq(Units)
  BY DEF BInv, BzTypeOK
<1>1. UNCHANGED cache => CacheIsStream'
  BY <1>0 DEF CacheIsStream, IsBlock, IsPiece
<1>2. ASSUME UNCHANGED inner, NEW me, reader' = [reader EXCEPT ![t] = me], me.pc # "read"
      PROVE  \A u \in Readers : reader'[u].pc = "read" =>
                inner'.holder = {u} /\ inner'.cursor = reader'[u].block
  BY <1>0, <1>2 DEF CursorIsOwn
<1>3. ASSUME reader[t].pc = "read", NEW me, reader' = [reader EXCEPT ![t] = me], me.pc # "read"
      PROVE  \A u \in Readers : reader'[u].pc # "read"
  BY <1>0, <1>3 DEF CursorIsOwn
<1>4. CASE SeekView(t)
  <2>1. PICK p \in 0 .. MemberWindow(t).len + 1 :
           reader' = [reader EXCEPT ![t].pos = p, ![t].last = Result("seek", <<>>)]
    BY <1>4 DEF SeekView
  <2>2. p \in Nat
    BY LayoutAssumption
  <2> DEFINE me == [reader[t] EXCEPT !.pos = p, !.last = Result("seek", <<>>)]
  <2>3. reader' = [reader EXCEPT ![t] = me]
    BY <1>0, <2>1
  <2>4. me \in ReaderType /\ me.pc = reader[t].pc /\ me.last = Result("seek", <<>>)
    BY <1>0, <2>2 DEF ReaderType, Result
  <2>5. reader[t].pc = "idle" /\ UNCHANGED <<cache, inner>>
    BY <1>4 DEF SeekView
  <2> HIDE DEF me
  <2>6. Outcome(t, me) /\ me.pc # "read"
    BY <2>4, <2>5 DEF Outcome, Goes, Sought
  <2>. QED
    BY <1>0, <1>1, <1>2, <2>3, <2>5, <2>6
<1>5. CASE BeginRead(t)
  <2>1. PICK me : reader' = [reader EXCEPT ![t] = me] /\ Outcome(t, me)
    BY <1>5, BeginOutcome
  <2>2. UNCHANGED <<cache, inner>> /\ reader'[t].pc # "read"
    <3>1. reader[t].pc = "idle" /\ UNCHANGED <<cache, inner>>
      BY <1>5 DEF BeginRead
    <3>2. reader'[t].pc \in {"idle", "lookup"}
      <4> DEFINE left == IF reader[t].pos >= MemberWindow(t).len THEN 0
                         ELSE MemberWindow(t).len - reader[t].pos
      <4>1. CASE left = 0
        <5>1. reader' = [reader EXCEPT ![t].last = Result("read", <<>>)]
          BY <1>5, <4>1 DEF BeginRead
        <5>. QED
          BY <1>0, <3>1, <5>1 DEF ReaderType
      <4>2. CASE left # 0
        <5>1. \E k, e : reader' = [reader EXCEPT ![t] =
                 [@ EXCEPT !.pc = "lookup", !.got = <<>>, !.block = k, !.end = e]]
          BY <1>5, <4>2 DEF BeginRead
        <5>. QED
          BY <1>0, <5>1 DEF ReaderType
      <4>. QED
        BY <4>1, <4>2
    <3>. QED
      BY <3>1, <3>2
  <2>3. me.pc # "read"
    BY <1>0, <2>1, <2>2
  <2>. QED
    BY <1>0, <1>1, <1>2, <2>1, <2>2, <2>3
<1>6. CASE Lookup(t)
  BY <1>0, <1>2, <1>6, LookupOutcome
<1>7. CASE Insert(t)
  BY <1>0, <1>2, <1>7, InsertOutcome
<1>8. CASE SeekInner(t)
  <2>1. /\ reader[t].pc = "decode" /\ inner.holder = {} /\ UNCHANGED cache
        /\ inner' = [holder |-> {t}, cursor |-> reader[t].block]
        /\ reader' = [reader EXCEPT ![t].pc = "read"]
    BY <1>8 DEF SeekInner
  <2>2. /\ reader' = [reader EXCEPT ![t].pc = "read", ![t].decoded = reader[t].decoded]
        /\ reader[t].decoded \in Seq(Units)
    BY <1>0, <2>1 DEF ReaderType
  <2>3. PICK me : /\ reader' = [reader EXCEPT ![t] = me] /\ Outcome(t, me)
                  /\ me.pc = "read" /\ me.block = reader[t].block
    BY <2>1, <2>2, StageOutcome
  <2>4. inner' \in [holder : SUBSET Readers, cursor : Nat]
    BY <1>0, <2>1 DEF ReaderType
  <2>5. ASSUME NEW u \in Readers, reader'[u].pc = "read"
        PROVE  inner'.holder = {u} /\ inner'.cursor = reader'[u].block
    <3>1. CASE u = t
      BY <1>0, <2>1, <2>3, <3>1
    <3>2. CASE u # t
      BY <1>0, <2>1, <2>3, <2>5, <3>2 DEF CursorIsOwn
    <3>. QED
      BY <3>1, <3>2
  <2>. QED
    BY <1>0, <1>1, <2>1, <2>3, <2>4, <2>5
<1>9. CASE DecodeBlock(t)
  <2> DEFINE units == BlockData(inner.cursor)
  <2>1. /\ reader[t].pc = "read" /\ UNCHANGED cache
        /\ inner' = [inner EXCEPT !.holder = @ \ {t}]
        /\ reader' = [reader EXCEPT ![t].pc = "insert", ![t].decoded = units]
    BY <1>9 DEF DecodeBlock
  <2>2. inner.cursor = reader[t].block /\ reader[t].block \in Blocks
    BY <1>0, <2>1 DEF CursorIsOwn, EveryReadGoesOn, Reads
  <2>3. IsBlock(reader[t].block, units)
    <3> DEFINE k == reader[t].block
    <3>1. /\ BlockStart[k] \in Nat /\ BlockStart[k + 1] \in BlockStart[k] .. Len(Stream)
      <4>1. /\ k \in Blocks /\ BlockStart[k] \in Nat /\ BlockStart[k + 1] \in Nat
            /\ BlockStart[k] <= BlockStart[k + 1]
        BY <2>2, BlockBounds
      <4>2. Len(Stream) \in Nat /\ BlockStart[k + 1] <= Len(Stream)
        BY <4>1, BlockBounds, LayoutAssumption
      <4>. QED
        BY <4>1, <4>2
    <3>2. IsPiece(SubSeq(Stream, BlockStart[k] + 1, BlockStart[k + 1]), BlockStart[k], BlockStart[k + 1])
      BY <3>1, PieceOfStream
    <3>. QED
      BY <2>2, <3>2 DEF IsBlock, BlockData
  <2>4. units \in Seq(Units)
    BY <2>3 DEF IsBlock, IsPiece
  <2> HIDE DEF units
  <2>5. PICK me : /\ reader' = [reader EXCEPT ![t] = me] /\ Outcome(t, me) /\ me.pc = "insert"
    BY <2>1, <2>3, <2>4, StageOutcome
  <2>6. inner' \in [holder : SUBSET Readers, cursor : Nat]
    BY <1>0, <2>1
  <2>. QED
    BY <1>0, <1>1, <1>3, <2>1, <2>5, <2>6
<1>10. CASE FailRead(t)
  <2> DEFINE me == [reader[t] EXCEPT !.pc = "idle", !.last = Result("fail", <<>>),
                                     !.got = <<>>, !.end = 0, !.block = 0]
  <2>1. /\ reader[t].pc = "read" /\ UNCHANGED cache
        /\ inner' = [inner EXCEPT !.holder = @ \ {t}]
        /\ reader' = [reader EXCEPT ![t] = me]
    BY <1>10 DEF FailRead
  <2>2. /\ me \in ReaderType /\ me.pc = "idle" /\ me.pos = reader[t].pos
        /\ me.last = Result("fail", <<>>)
    BY <1>0 DEF ReaderType, Result
  <2> HIDE DEF me
  <2>3. Outcome(t, me) /\ me.pc # "read"
    BY <2>2 DEF Outcome, Goes, Failed
  <2>4. inner' \in [holder : SUBSET Readers, cursor : Nat]
    BY <1>0, <2>1
  <2>. QED
    BY <1>0, <1>1, <1>3, <2>1, <2>3, <2>4
<1>. QED
  BY <1>4, <1>5, <1>6, <1>7, <1>8, <1>9, <1>10 DEF BzStep

-------------------------------------------------------------------------------
\* The theorems.

\* The threads begin in the invariant.
LEMMA BzInvInit == BzInit => BInv
<1> SUFFICES ASSUME BzInit PROVE BInv
  OBVIOUS
<1>1. <<>> \in Seq(Units) /\ <<>> \in Seq(Nat \X Seq(Units)) /\ DOMAIN <<>> = {}
  OBVIOUS
<1>2. BzTypeOK
  BY <1>1 DEF BzInit, BzTypeOK, ReaderType, Result, Nobody, NoCursor
<1>. QED
  BY <1>1, <1>2 DEF BzInit, BInv, CacheIsStream, CursorIsOwn, EveryReadGoesOn

\* Every step preserves it.
LEMMA BzInvStep == BInv /\ [BzNext]_bzVars => BInv'
<1> SUFFICES ASSUME BInv, [BzNext]_bzVars PROVE BInv'
  OBVIOUS
<1>1. CASE UNCHANGED bzVars
  <2>1. reader' = reader /\ cache' = cache /\ inner' = inner
    BY <1>1 DEF bzVars
  <2>2. BzTypeOK' /\ CacheIsStream' /\ CursorIsOwn'
    BY <2>1 DEF BInv, BzTypeOK, CacheIsStream, CursorIsOwn, IsBlock, IsPiece
  <2>3. EveryReadGoesOn'
    BY <2>1 DEF BInv, EveryReadGoesOn, Reads, IsBlock, IsPiece
  <2>. QED
    BY <2>2, <2>3 DEF BInv
<1>2. ASSUME NEW t \in Readers, BzStep(t) PROVE BInv'
  <2>1. PICK me : reader' = [reader EXCEPT ![t] = me] /\ Outcome(t, me)
    BY <1>2, StepOutcome
  <2>2. /\ cache' \in Seq(Nat \X Seq(Units)) /\ CacheIsStream'
        /\ inner' \in [holder : SUBSET Readers, cursor : Nat] /\ CursorIsOwn'
    BY <1>2, StepOutcome DEF CursorIsOwn
  <2>3. /\ reader \in [Readers -> ReaderType] /\ EveryReadGoesOn
        /\ me \in ReaderType /\ (me.pc # "idle" => Reads(t, me))
    BY <2>1 DEF BInv, BzTypeOK, Outcome, Goes
  <2>4. BzTypeOK'
    BY <2>1, <2>2, <2>3 DEF BzTypeOK
  <2>5. \A u \in Readers : reader'[u].pc # "idle" => Reads(u, reader'[u])
    BY <2>1, <2>3 DEF EveryReadGoesOn
  <2>6. EveryReadGoesOn'
    BY <2>5 DEF EveryReadGoesOn, Reads, IsBlock, IsPiece
  <2>. QED
    BY <2>2, <2>4, <2>6 DEF BInv
<1>. QED
  BY <1>1, <1>2 DEF BzNext

\* The invariant holds in every state.
LEMMA BzAlways == BzSpec => []BInv
BY BzInvInit, BzInvStep, PTL DEF BzSpec

\* The shared reader keeps its types, and its cache holds the blocks it says
\* (Bzip2SeekReader's block_bytes), whichever threads decoded them.
THEOREM BzTypeCorrect == BzSpec => [](BzTypeOK /\ CacheIsStream)
<1>1. BInv => BzTypeOK /\ CacheIsStream
  BY DEF BInv
<1>. QED
  BY <1>1, BzAlways, PTL

\* Reading a member through the shared file cursor and cache implements reading a
\* plain file: a read returns the member's next bytes, none only at its end, or
\* fails and moves nothing, whatever the other threads do between its steps.
THEOREM ReadersImplementPlain == BzSpec => ReadsLikePlainFile
<1>1. BzInit => Plain!ReaderInit
  BY DEF BzInit, Plain!ReaderInit, Result
<1>2. ASSUME BInv, [BzNext]_bzVars
      PROVE  [Plain!ReaderNext]_(Plain!readerVars)
  <2> DEFINE pos == [u \in Readers |-> reader[u].pos]
             last == [u \in Readers |-> reader[u].last]
             data == [u \in Readers |-> Contents(FileOf[u])]
  <2>1. CASE UNCHANGED bzVars
    BY <2>1 DEF bzVars, Plain!readerVars
  <2>2. ASSUME NEW t \in Readers, BzStep(t) PROVE [Plain!ReaderNext]_(Plain!readerVars)
    <3>1. PICK me : reader' = [reader EXCEPT ![t] = me] /\ Outcome(t, me)
      BY <1>2, <2>2, StepOutcome
    <3>2. reader \in [Readers -> ReaderType] /\ me \in ReaderType /\ reader[t].pos \in Nat
      BY <1>2, <3>1 DEF BInv, BzTypeOK, Outcome, Goes, ReaderType
    <3>3. /\ pos' = [pos EXCEPT ![t] = me.pos]
          /\ last' = [last EXCEPT ![t] = me.last]
      BY <3>1, <3>2
    <3>4. me.pos \in Nat /\ data[t] = Contents(FileOf[t]) /\ pos[t] = reader[t].pos
          /\ Len(data[t]) = MemberWindow(t).len /\ MemberWindow(t).len \in Nat
      BY <3>2, WindowIsFile DEF ReaderType
    <3>5. CASE Quiet(t, me)
      <4>1. pos' = pos /\ last' = last
        BY <3>2, <3>3, <3>5 DEF Quiet
      <4>. QED
        BY <4>1 DEF Plain!readerVars
    <3>6. CASE Served(t, me)
      <4> DEFINE n == Len(me.last.bytes)
      <4>1. /\ n \in Nat \ {0} /\ me.pos = reader[t].pos + n
            /\ reader[t].pos + n <= MemberWindow(t).len
            /\ me.last = Result("read", SubSeq(data[t], reader[t].pos + 1, reader[t].pos + n))
        BY <3>4, <3>6 DEF Served
      <4> HIDE DEF n
      <4>2. n \in 0 .. Len(data[t]) /\ (n = 0 <=> pos[t] >= Len(data[t]))
        BY <3>2, <3>4, <4>1
      <4>3. /\ last' = [last EXCEPT ![t] =
                  [call |-> "read", bytes |-> SubSeq(data[t], pos[t] + 1, pos[t] + n)]]
            /\ pos' = [pos EXCEPT ![t] = pos[t] + n]
        BY <3>3, <3>4, <4>1 DEF Result
      <4>4. Plain!Read(t)
        <5>1. pos[t] + n <= Len(data[t]) \/ n = 0
          BY <3>4, <4>1
        <5> SUFFICES
              \E m \in 0 .. Len(data[t]) :
                 /\ m = 0 <=> pos[t] >= Len(data[t])
                 /\ pos[t] + m <= Len(data[t]) \/ m = 0
                 /\ last' = [last EXCEPT ![t] =
                       [call |-> "read", bytes |-> SubSeq(data[t], pos[t] + 1, pos[t] + m)]]
                 /\ pos' = [pos EXCEPT ![t] = pos[t] + m]
          BY Zenon DEF Plain!Read, Plain!Returned
        <5>2. n \in 0 .. Len(data[t])
          BY <4>2
        <5> USE <5>2
        <5> WITNESS n \in 0 .. Len(data[t])
        <5>. QED
          BY <4>2, <4>3, <5>1
      <4>. QED
        BY <4>4 DEF Plain!ReaderNext
    <3>7. CASE Sought(me)
      <4>1. Plain!Seek(t)
        BY <3>2, <3>3, <3>4, <3>7 DEF Plain!Seek, Plain!Returned, Sought, Result
      <4>. QED
        BY <4>1 DEF Plain!ReaderNext
    <3>8. CASE Failed(t, me)
      <4>1. Plain!Fail(t)
        BY <3>2, <3>3, <3>8 DEF Plain!Fail, Plain!Returned, Failed, Result
      <4>. QED
        BY <4>1 DEF Plain!ReaderNext
    <3>9. CASE AtEnd(t, me)
      <4>1. /\ last' = [last EXCEPT ![t] = [call |-> "read", bytes |-> <<>>]]
            /\ pos' = [pos EXCEPT ![t] = pos[t] + 0] /\ pos[t] >= Len(data[t])
        <5>1. /\ me.pos = pos[t] /\ pos[t] >= Len(data[t])
              /\ me.last = [call |-> "read", bytes |-> <<>>]
          BY <3>4, <3>9 DEF AtEnd, Result
        <5>2. pos[t] + 0 = pos[t]
          BY <3>2, <3>4
        <5> HIDE DEF data
        <5>. QED
          BY <3>3, <5>1, <5>2
      <4>2. SubSeq(data[t], pos[t] + 1, pos[t] + 0) = <<>>
        <5>1. data[t] \in Seq(Units) /\ pos[t] \in Nat
          BY <3>2, <3>4, WindowIsFile
        <5> HIDE DEF data, pos
        <5>. QED
          BY <5>1
      <4>3. Plain!Read(t)
        <5>1. 0 \in 0 .. Len(data[t])
          BY <3>4
        <5>. QED
          BY <4>1, <4>2, <5>1 DEF Plain!Read, Plain!Returned
      <4>. QED
        BY <4>3 DEF Plain!ReaderNext
    <3>. QED
      BY <3>1, <3>5, <3>6, <3>7, <3>8, <3>9 DEF Outcome
  <2>. QED
    BY <1>2, <2>1, <2>2 DEF BzNext
<1>. QED
  BY <1>1, <1>2, BzAlways, PTL DEF BzSpec, ReadsLikePlainFile, Plain!ReaderSpec

-------------------------------------------------------------------------------
\* The pool that maps the sources.

USE PoolAssumption

\* The positions of all stacks.
LEMMA FramePositions ==
  \A at : at \in Frames <=> \E w \in Workers : \E i \in DOMAIN stack[w] : at = <<w, i>>
BY DEF Frames

\* Work that begins puts one frame on top of its thread's stack and leaves the
\* others as they are.
LEMMA Push ==
  ASSUME stack \in [Workers -> Seq(FrameType)], NEW w \in Workers, NEW frame \in FrameType,
         stack' = [stack EXCEPT ![w] = Append(@, frame)],
         NEW top, top = <<w, Len(stack[w]) + 1>>
  PROVE  /\ stack' \in [Workers -> Seq(FrameType)]
         /\ top \notin Frames
         /\ Frames' = Frames \cup {top}
         /\ \A at \in Frames : FrameAt(at)' = FrameAt(at)
         /\ FrameAt(top)' = frame
<1> DEFINE new == Append(stack[w], frame)
<1>1. stack[w] \in Seq(FrameType)
  OBVIOUS
<1>2. /\ new \in Seq(FrameType) /\ Len(new) = Len(stack[w]) + 1
      /\ new[Len(stack[w]) + 1] = frame
      /\ \A i \in DOMAIN stack[w] : new[i] = stack[w][i]
      /\ DOMAIN new = DOMAIN stack[w] \cup {Len(stack[w]) + 1}
      /\ Len(stack[w]) + 1 \notin DOMAIN stack[w]
  BY <1>1
<1>3. stack' = [stack EXCEPT ![w] = new]
  OBVIOUS
<1> HIDE DEF new
<1>4. stack'[w] = new /\ \A v \in Workers \ {w} : stack'[v] = stack[v]
  BY <1>3
<1>5. stack' \in [Workers -> Seq(FrameType)]
  BY <1>2, <1>3
<1>6. top \notin Frames
  BY <1>2, FramePositions
<1>7. \A v \in Workers : \A i \in DOMAIN stack[v] : stack'[v][i] = stack[v][i]
  BY <1>2, <1>4
<1>8. \A at : at \in Frames' <=> \E v \in Workers : \E i \in DOMAIN stack'[v] : at = <<v, i>>
  BY DEF Frames
<1>9. Frames' = Frames \cup {top}
  <2>1. ASSUME NEW at \in Frames' PROVE at \in Frames \cup {top}
    BY <1>2, <1>4, <1>8, FramePositions
  <2>2. ASSUME NEW at \in Frames PROVE at \in Frames'
    BY <1>2, <1>4, <1>8, FramePositions
  <2>3. top \in Frames'
    BY <1>2, <1>4, <1>8
  <2>. QED
    BY <2>1, <2>2, <2>3
<1>. QED
  BY <1>2, <1>4, <1>5, <1>6, <1>7, <1>9, FramePositions DEF FrameAt

\* Work that ends takes its frame off the top of its thread's stack and leaves
\* the others as they are.
LEMMA Pop ==
  ASSUME stack \in [Workers -> Seq(FrameType)], NEW w \in Workers, stack[w] # <<>>,
         stack' = [stack EXCEPT ![w] = Front(@)],
         NEW top, top = <<w, Len(stack[w])>>
  PROVE  /\ stack' \in [Workers -> Seq(FrameType)]
         /\ top \in Frames
         /\ FrameAt(top) = Last(stack[w]) /\ Last(stack[w]) \in FrameType
         /\ Frames' = Frames \ {top}
         /\ \A at \in Frames' : FrameAt(at)' = FrameAt(at)
<1> DEFINE rest == Front(stack[w])
           len == Len(stack[w])
<1>1. stack[w] \in Seq(FrameType) /\ len \in Nat \ {0}
  OBVIOUS
<1>2. /\ rest \in Seq(FrameType) /\ Len(rest) = len - 1
      /\ \A i \in 1 .. len - 1 : rest[i] = stack[w][i]
      /\ DOMAIN stack[w] = 1 .. len /\ DOMAIN rest = 1 .. len - 1
      /\ stack[w][len] \in FrameType
  BY <1>1 DEF Front
<1>3. stack' = [stack EXCEPT ![w] = rest]
  OBVIOUS
<1> HIDE DEF rest
<1>4. stack'[w] = rest /\ \A v \in Workers \ {w} : stack'[v] = stack[v]
  BY <1>3
<1>5. stack' \in [Workers -> Seq(FrameType)]
  BY <1>2, <1>3
<1>6. /\ top \in Frames /\ FrameAt(top) = Last(stack[w]) /\ Last(stack[w]) \in FrameType
  BY <1>1, <1>2, FramePositions DEF FrameAt, Last
<1>7. \A v \in Workers : \A i \in DOMAIN stack'[v] : stack'[v][i] = stack[v][i]
  BY <1>1, <1>2, <1>4
<1>8. \A at : at \in Frames' <=> \E v \in Workers : \E i \in DOMAIN stack'[v] : at = <<v, i>>
  BY DEF Frames
<1>9. Frames' = Frames \ {top}
  <2>1. \A i : i \in DOMAIN stack[w] /\ i # len <=> i \in DOMAIN rest
    BY <1>1, <1>2
  <2>2. ASSUME NEW at \in Frames' PROVE at \in Frames \ {top}
    BY <2>1, <1>4, <1>8, FramePositions
  <2>3. ASSUME NEW at \in Frames \ {top} PROVE at \in Frames'
    BY <2>1, <1>4, <1>8, FramePositions
  <2>. QED
    BY <2>2, <2>3
<1>. QED
  BY <1>5, <1>6, <1>7, <1>8, <1>9 DEF FrameAt

\* A slot claimed is one of the source's that shows nothing, and 0 is none.
LEMMA ClaimedSlot ==
  ASSUME NEW e \in Evidence, IdleSlot(e) # 0
  PROVE  IdleSlot(e) \in 1 .. Bars /\ slots[e][IdleSlot(e)] = NoFile
<1> DEFINE idle == {i \in 1 .. Bars : slots[e][i] = NoFile}
<1>1. idle # {}
  BY DEF IdleSlot
<1>2. \E i \in idle : \A j \in idle : i <= j
  <2>1. idle \in SUBSET Nat /\ idle # {}
    BY <1>1
  <2> HIDE DEF idle
  <2>. QED
    BY <2>1, LeastOf
<1>. QED
  BY <1>1, <1>2 DEF IdleSlot
\* The frames a thread may put on its stack.
LEMMA FrameTypes ==
  ASSUME NEW e \in Evidence
  PROVE  /\ Frame(e, NoFile, 0) \in FrameType
         /\ \A f \in Artifacts : Frame(e, f, IdleSlot(e)) \in FrameType
BY ClaimedSlot DEF Frame, FrameType

PInv == PoolTypeOK /\ SlotsAgree

\* A step that only puts a frame without a slot on a stack, or takes one off,
\* leaves slots and guards as they are.
LEMMA SlotlessFrame ==
  ASSUME SlotsAgree, UNCHANGED slots, NEW top,
         \/ /\ Frames' = Frames \cup {top} /\ top \notin Frames
            /\ FrameAt(top)'.slot = 0
            /\ \A at \in Frames : FrameAt(at)' = FrameAt(at)
         \/ /\ Frames' = Frames \ {top} /\ top \in Frames
            /\ FrameAt(top).slot = 0
            /\ \A at \in Frames' : FrameAt(at)' = FrameAt(at)
  PROVE  SlotsAgree'
<1> SUFFICES ASSUME NEW e \in Evidence, NEW i \in 1 .. Bars
             PROVE  {at \in Frames' : FrameAt(at)'.of = e /\ FrameAt(at)'.slot = i}
                      = {at \in Frames : FrameAt(at).of = e /\ FrameAt(at).slot = i}
  <2>1. \A at \in Frames :
          \/ at \in Frames' /\ FrameAt(at)' = FrameAt(at)
          \/ FrameAt(at).slot = 0
    OBVIOUS
  <2>. QED
    BY <2>1 DEF SlotsAgree
<1>. QED
  OBVIOUS

\* Beginning an artifact shows it in the slot claimed, under the new frame.
LEMMA BeginFileStep ==
  ASSUME PInv, NEW w \in Workers, NEW e \in Evidence, NEW f \in Artifacts, BeginFile(w, e, f)
  PROVE  SlotsAgree'
<1>. PICK top : top = <<w, Len(stack[w]) + 1>>
  OBVIOUS
<1> DEFINE slot == IdleSlot(e)
           frame == Frame(e, f, slot)
<1>1. /\ top \notin Frames /\ Frames' = Frames \cup {top}
      /\ \A at \in Frames : FrameAt(at)' = FrameAt(at)
      /\ FrameAt(top)' = frame
  <2>1. /\ frame \in FrameType /\ stack \in [Workers -> Seq(FrameType)]
        /\ stack' = [stack EXCEPT ![w] = Append(@, frame)]
    BY FrameTypes DEF BeginFile, PInv, PoolTypeOK
  <2> HIDE DEF frame
  <2>. QED
    BY <2>1, Push
<1>2. frame.of = e /\ frame.file = f /\ frame.slot = slot /\ f # NoFile
  BY DEF Frame
<1> HIDE DEF frame
<1>3. CASE slot = 0
  BY <1>1, <1>2, <1>3, SlotlessFrame DEF BeginFile, PInv
<1>4. CASE slot # 0
  <2>1. slot \in 1 .. Bars /\ slots[e][slot] = NoFile
    BY <1>4, ClaimedSlot
  <2>2. slots' = [slots EXCEPT ![e][slot] = f]
    BY <1>4 DEF BeginFile
  <2> HIDE DEF slot
  <2> SUFFICES ASSUME NEW d \in Evidence, NEW i \in 1 .. Bars
               PROVE  LET guards == {at \in Frames' : FrameAt(at)'.of = d /\ FrameAt(at)'.slot = i}
                      IN  IF slots'[d][i] = NoFile THEN guards = {}
                          ELSE \E at \in guards : guards = {at} /\ FrameAt(at)'.file = slots'[d][i]
    BY DEF SlotsAgree
  <2> DEFINE old == {at \in Frames : FrameAt(at).of = d /\ FrameAt(at).slot = i}
             guards == {at \in Frames' : FrameAt(at)'.of = d /\ FrameAt(at)'.slot = i}
  <2>3. IF slots[d][i] = NoFile THEN old = {}
        ELSE \E at \in old : old = {at} /\ FrameAt(at).file = slots[d][i]
    BY DEF PInv, SlotsAgree
  <2>4. CASE d = e /\ i = slot
    <3>1. old = {}
      BY <2>1, <2>3, <2>4
    <3>2. guards = {top}
      BY <1>1, <1>2, <2>4, <3>1
    <3>3. slots'[d][i] = f
      BY <2>1, <2>2, <2>4 DEF PInv, PoolTypeOK
    <3>. QED
      BY <1>1, <1>2, <3>2, <3>3
  <2>5. CASE ~(d = e /\ i = slot)
    <3>1. guards = old
      BY <1>1, <1>2, <2>5
    <3>2. slots'[d][i] = slots[d][i]
      BY <2>2, <2>5 DEF PInv, PoolTypeOK
    <3>3. \A at \in old : FrameAt(at)' = FrameAt(at)
      BY <1>1
    <3>. QED
      BY <2>3, <3>1, <3>2, <3>3
  <2>. QED
    BY <2>4, <2>5
<1>. QED
  BY <1>3, <1>4

\* Ending an artifact empties the slot its frame guards.
LEMMA EndFileStep ==
  ASSUME PInv, NEW w \in Workers, EndFile(w)
  PROVE  SlotsAgree'
<1>. PICK top : top = <<w, Len(stack[w])>>
  OBVIOUS
<1> DEFINE frame == Last(stack[w])
<1>1. /\ top \in Frames /\ FrameAt(top) = frame /\ frame \in FrameType
      /\ Frames' = Frames \ {top}
      /\ \A at \in Frames' : FrameAt(at)' = FrameAt(at)
  BY Pop DEF EndFile, PInv, PoolTypeOK
<1>2. slots' = IF frame.slot = 0 THEN slots ELSE [slots EXCEPT ![frame.of][frame.slot] = NoFile]
  BY DEF EndFile
<1>3. frame.of \in Evidence /\ frame.slot \in 0 .. Bars
  BY <1>1 DEF FrameType
<1> HIDE DEF frame
<1>4. CASE frame.slot = 0
  BY <1>1, <1>2, <1>4, SlotlessFrame DEF PInv
<1>5. CASE frame.slot # 0
  <2> SUFFICES ASSUME NEW d \in Evidence, NEW i \in 1 .. Bars
               PROVE  LET guards == {at \in Frames' : FrameAt(at)'.of = d /\ FrameAt(at)'.slot = i}
                      IN  IF slots'[d][i] = NoFile THEN guards = {}
                          ELSE \E at \in guards : guards = {at} /\ FrameAt(at)'.file = slots'[d][i]
    BY DEF SlotsAgree
  <2> DEFINE old == {at \in Frames : FrameAt(at).of = d /\ FrameAt(at).slot = i}
             guards == {at \in Frames' : FrameAt(at)'.of = d /\ FrameAt(at)'.slot = i}
  <2>1. IF slots[d][i] = NoFile THEN old = {}
        ELSE \E at \in old : old = {at} /\ FrameAt(at).file = slots[d][i]
    BY DEF PInv, SlotsAgree
  <2>2. CASE d = frame.of /\ i = frame.slot
    <3>1. top \in old
      BY <1>1, <2>2
    <3>2. old = {top}
      BY <2>1, <3>1
    <3>3. guards = {}
      BY <1>1, <3>2
    <3>4. slots'[d][i] = NoFile
      BY <1>2, <1>5, <2>2 DEF PInv, PoolTypeOK
    <3>. QED
      BY <3>3, <3>4
  <2>3. CASE ~(d = frame.of /\ i = frame.slot)
    <3>1. guards = old
      BY <1>1, <2>3
    <3>2. slots'[d][i] = slots[d][i]
      BY <1>2, <1>3, <2>3 DEF PInv, PoolTypeOK
    <3>3. \A at \in old : FrameAt(at)' = FrameAt(at)
      BY <1>1, <3>1
    <3>. QED
      BY <2>1, <3>1, <3>2, <3>3
  <2>. QED
    BY <2>2, <2>3
<1>. QED
  BY <1>4, <1>5

\* Every step keeps types and slots.
LEMMA PoolStep == PInv /\ [PoolNext]_poolVars => PInv'
<1> SUFFICES ASSUME PInv, [PoolNext]_poolVars PROVE PInv'
  OBVIOUS
<1> USE DEF PInv
<1>1. ASSUME NEW w \in Workers, NEW e \in Evidence, BeginSource(w, e) PROVE PInv'
  <2>. PICK top : top = <<w, Len(stack[w]) + 1>>
    OBVIOUS
  <2>1. /\ top \notin Frames /\ Frames' = Frames \cup {top}
        /\ \A at \in Frames : FrameAt(at)' = FrameAt(at)
        /\ FrameAt(top)' = Frame(e, NoFile, 0)
        /\ stack' \in [Workers -> Seq(FrameType)]
    <3> DEFINE frame == Frame(e, NoFile, 0)
    <3>1. /\ frame \in FrameType /\ stack \in [Workers -> Seq(FrameType)]
          /\ stack' = [stack EXCEPT ![w] = Append(@, frame)]
      BY <1>1, FrameTypes DEF BeginSource, PoolTypeOK
    <3> HIDE DEF frame
    <3>2. /\ top \notin Frames /\ Frames' = Frames \cup {top}
          /\ \A at \in Frames : FrameAt(at)' = FrameAt(at)
          /\ FrameAt(top)' = frame
          /\ stack' \in [Workers -> Seq(FrameType)]
      BY <3>1, Push
    <3>. QED
      BY <3>2 DEF frame
  <2>2. Frame(e, NoFile, 0).slot = 0
    BY DEF Frame
  <2>3. SlotsAgree'
    BY <1>1, <2>1, <2>2, SlotlessFrame DEF BeginSource
  <2>4. todo' \in [Evidence -> SUBSET Artifacts]
    <3>1. PICK found \in SUBSET Artifacts : todo' = [todo EXCEPT ![e] = found]
      BY <1>1 DEF BeginSource
    <3>. QED
      BY <3>1 DEF PoolTypeOK
  <2>5. /\ UNCHANGED <<active, slots, result>>
        /\ queue' = queue \ {e}
    BY <1>1 DEF BeginSource
  <2>6. PoolTypeOK'
    BY <2>1, <2>4, <2>5 DEF PoolTypeOK
  <2>. QED
    BY <2>3, <2>6
<1>2. ASSUME NEW w \in Workers, NEW e \in Evidence, OpenSourceFails(w, e) PROVE PInv'
  <2>1. /\ UNCHANGED <<stack, todo, active, slots>>
        /\ queue' = queue \ {e}
        /\ result' = [result EXCEPT ![e] = "failed"]
    BY <1>2 DEF OpenSourceFails
  <2>2. PoolTypeOK'
    BY <2>1 DEF PoolTypeOK
  <2>3. SlotsAgree'
    BY <2>1 DEF SlotsAgree, Frames, FrameAt
  <2>. QED
    BY <2>2, <2>3
<1>3. ASSUME NEW w \in Workers, NEW e \in Evidence, NEW f \in Artifacts, BeginFile(w, e, f)
      PROVE  PInv'
  <2>1. stack' \in [Workers -> Seq(FrameType)]
    BY <1>3, FrameTypes, Push DEF BeginFile, PoolTypeOK
  <2>2. slots' \in [Evidence -> [1 .. Bars -> Artifacts \cup {NoFile}]]
    BY <1>3, ClaimedSlot DEF BeginFile, PoolTypeOK
  <2>. QED
    BY <1>3, <2>1, <2>2, BeginFileStep DEF BeginFile, PoolTypeOK
<1>4. ASSUME NEW w \in Workers, EndFile(w) PROVE PInv'
  <2>1. stack' \in [Workers -> Seq(FrameType)] /\ Last(stack[w]) \in FrameType
    BY <1>4, Pop DEF EndFile, PoolTypeOK
  <2>2. slots' \in [Evidence -> [1 .. Bars -> Artifacts \cup {NoFile}]]
    BY <1>4, <2>1 DEF EndFile, PoolTypeOK, FrameType
  <2>. QED
    BY <1>4, <2>1, <2>2, EndFileStep DEF EndFile, PoolTypeOK
<1>5. ASSUME NEW w \in Workers, EndSource(w) PROVE PInv'
  <2>. PICK top : top = <<w, Len(stack[w])>>
    OBVIOUS
  <2>1. /\ top \in Frames /\ FrameAt(top) = Last(stack[w]) /\ Last(stack[w]) \in FrameType
        /\ Frames' = Frames \ {top}
        /\ \A at \in Frames' : FrameAt(at)' = FrameAt(at)
        /\ stack' \in [Workers -> Seq(FrameType)]
    BY <1>5, Pop DEF EndSource, InSource, PoolTypeOK
  <2>2. Last(stack[w]).slot = 0
    BY <1>5, <2>1 DEF EndSource, InSource, FrameType
  <2>3. SlotsAgree'
    BY <1>5, <2>1, <2>2, SlotlessFrame DEF EndSource
  <2>. QED
    BY <1>5, <2>1, <2>3 DEF EndSource, PoolTypeOK
<1>6. CASE UNCHANGED poolVars
  BY <1>6 DEF poolVars, PoolTypeOK, SlotsAgree, Frames, FrameAt
<1>. QED
  BY <1>1, <1>2, <1>3, <1>4, <1>5, <1>6 DEF PoolNext, WorkerStep

\* The pool's types and SlotsAgree hold in every state.
LEMMA PoolInvariant == PoolSpec => []PInv
<1>1. PoolInit => PInv
  <2> SUFFICES ASSUME PoolInit PROVE PInv
    OBVIOUS
  <2>1. stack \in [Workers -> Seq(FrameType)] /\ Frames = {}
    BY DEF PoolInit, Frames
  <2>. QED
    BY <2>1 DEF PoolInit, PInv, PoolTypeOK, SlotsAgree
<1>. QED
  BY <1>1, PoolStep, PTL DEF PoolSpec

\* PoolTypeOK: the threads' stacks and the sources' tables keep their types.
THEOREM PoolTypeCorrect == PoolSpec => []PoolTypeOK
<1>1. PInv => PoolTypeOK
  BY DEF PInv
<1>. QED
  BY <1>1, PoolInvariant, PTL

\* SlotsAgree: however threads nest and whatever they take while they wait, a
\* worker slot shows the artifact of its one guard, or nothing.
THEOREM SlotsAlwaysAgree == PoolSpec => []SlotsAgree
<1>1. PInv => SlotsAgree
  BY DEF PInv
<1>. QED
  BY <1>1, PoolInvariant, PTL

===============================================================================
