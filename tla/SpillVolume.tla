----------------------------- MODULE SpillVolume ------------------------------
(***************************************************************************)
(* Where the bytes of an image inside an archive go (issen-unpack,         *)
(* backing.rs): read in place, decompressed into RAM, or spooled to a      *)
(* temporary file on the spill volume that all sources share.              *)
(*                                                                         *)
(* Sources are ingested in parallel.  Each probes the free RAM and the free*)
(* space of the volume once per archive, decides, and then writes without  *)
(* looking again.  An archive is [kind, entries]: kind "zip", "stream" (7z *)
(* and tar.gz) or "bzip2", which is read through its own index.  An entry  *)
(* is [declared, actual, image, stored]: the declared size (0 when a codec *)
(* hides it), the size it really has, whether its extension is an image's, *)
(* and whether it is uncompressed.                                         *)
(***************************************************************************)
EXTENDS Integers, Sequences, FiniteSets, SequencesExt

CONSTANTS
    Sources,      \* archives being opened at the same time
    Archives,     \* the archives there are
    Volume,       \* size of the spill volume
    TempReserve,  \* TEMP_RESERVE
    Ram,          \* RAM available when nothing is resident
    Floor,        \* THRESHOLD_FLOOR
    Ceiling       \* THRESHOLD_CEILING

Entry == [declared : Nat, actual : Nat, image : BOOLEAN, stored : BOOLEAN]

ASSUME SpillAssumption ==
    /\ {Volume, TempReserve, Ram} \subseteq Nat
    /\ {Floor, Ceiling} \subseteq Nat \ {0} /\ Floor <= Ceiling
    /\ Archives \subseteq [kind : {"zip", "stream", "bzip2"}, entries : Seq(Entry)]

VARIABLE source  \* the state of each source's open

spillVars == <<source>>

\* A backing: where it is, of which entry, and how much of it is written.
NoEntry == [declared |-> 0, actual |-> 0, image |-> FALSE, stored |-> FALSE]
Nothing == [how |-> "none", entry |-> NoEntry, size |-> 0]

Idle == [pc |-> "idle", kind |-> "zip", todo |-> <<>>, plan |-> 0, temp |-> 0,
         cap |-> 0, cur |-> Nothing, held |-> <<>>]

\* RAM_COMMIT_DENOMINATOR is 4; every caller plans for one decompression.
RamThreshold(plan) ==
    LET share == plan \div 4
    IN  IF share > Ceiling THEN Ceiling ELSE IF share < Floor THEN Floor ELSE share

\* A spooled backing stays in RAM up to the threshold, then all of it is on disk.
OnDisk(s, b) == b.how = "spool" /\ b.size > RamThreshold(source[s].plan)
DiskUse(s, b) == IF OnDisk(s, b) THEN b.size ELSE 0
RamUse(s, b) == IF OnDisk(s, b) THEN 0 ELSE b.size

Total(use(_, _)) ==
    LET all(s) == Append(source[s].held, source[s].cur)
        of(s) == MapThenSumSet(LAMBDA i : use(s, all(s)[i]), DOMAIN all(s))
    IN  MapThenSumSet(of, Sources)

\* statvfs, and sysinfo's available RAM: half of the total when it says none.
Free == Volume - Total(DiskUse)
RamFree == IF Total(RamUse) < Ram THEN Ram - Total(RamUse) ELSE Ram \div 2

\* find_image_entry: the first image entry, else the first of the largest.
FindImageEntry(es) ==
    LET images == {i \in DOMAIN es : es[i].image}
        largest == {i \in DOMAIN es : \A j \in DOMAIN es : es[j].declared <= es[i].declared}
        first(I) == CHOOSE i \in I : \A j \in I : i <= j
    IN  IF es = <<>> THEN <<>>
        ELSE <<es[first(IF images # {} THEN images ELSE largest)]>>

SpillInit == source = [s \in Sources |-> Idle]

\* probe_spill_plan and archive_backing's look at the magic; a bzip2 stream is
\* windowed in place.  What is available is a number no larger than the total.
Open(s, a) ==
    /\ source[s].pc = "idle"
    /\ \E available \in 0 .. Ram :
        /\ available = RamFree
        /\ source' = [source EXCEPT ![s] =
             [Idle EXCEPT !.pc = IF a.kind = "bzip2" THEN "open" ELSE "temp",
                          !.kind = a.kind, !.plan = available,
                          !.todo = IF a.kind = "zip" THEN FindImageEntry(a.entries)
                                   ELSE a.entries]]

\* temp_free_bytes, once for all entries.
ProbeTemp(s) ==
    /\ source[s].pc = "temp"
    /\ \E free \in 0 .. Volume :
        /\ free = Free
        /\ source' = [source EXCEPT ![s].temp = free, ![s].pc = "decide"]

\* decide_backing, for a zip entry: how, or "refused".
DecideBacking_Fault(e, plan, temp) ==
    CASE e.stored -> "in place"
      [] ~e.stored /\ e.declared < RamThreshold(plan) -> "ram"
      [] ~e.stored /\ e.declared >= RamThreshold(plan) -> "spool"
DecideBacking(e, plan, temp) ==
    IF e.stored THEN "in place"
    ELSE IF e.declared < RamThreshold(plan) THEN "ram"
    ELSE IF temp >= e.declared + TempReserve THEN "spool"
    ELSE IF e.declared <= plan \div 2 THEN "ram"
    ELSE "refused"

\* spill_entry, for a codec-wrapped entry: refused only when the declared size
\* fits neither; a hidden size is capped by what there is room for.
SpillEntry(e, plan, temp) ==
    IF e.declared > RamThreshold(plan) /\ e.declared > temp THEN "refused" ELSE "spool"

SpillCap(e, plan, temp) ==
    IF e.declared > 0 THEN e.declared
    ELSE IF RamThreshold(plan) > temp THEN RamThreshold(plan) ELSE temp

Fail(s) == source' = [source EXCEPT ![s] = [Idle EXCEPT !.pc = "failed"]]

\* A stream's member that is no image is passed over.
PassOver(s) ==
    LET me == source[s]
    IN  /\ me.pc = "decide" /\ me.todo # <<>>
        /\ me.kind = "stream" /\ ~Head(me.todo).image
        /\ source' = [source EXCEPT ![s].todo = Tail(me.todo)]

\* An in-place window costs nothing.  7z's selective decode of small members is
\* the RAM case of a spooled entry.
Decide(s) ==
    LET me == source[s]
        e == Head(me.todo)
        how == IF me.kind = "zip" THEN DecideBacking(e, me.plan, me.temp)
               ELSE SpillEntry(e, me.plan, me.temp)
    IN  /\ me.pc = "decide" /\ me.todo # <<>>
        /\ me.kind = "zip" \/ e.image
        /\ \/ how = "refused" /\ Fail(s)
           \/ how = "in place" /\ source' = [source EXCEPT ![s].pc = "open"]
           \/ /\ how \in {"ram", "spool"}
              /\ source' = [source EXCEPT ![s] =
                   [me EXCEPT !.pc = "copy", !.todo = Tail(me.todo),
                              !.cap = IF me.kind = "zip" THEN e.declared
                                      ELSE SpillCap(e, me.plan, me.temp),
                              !.cur = [how |-> how, entry |-> e, size |-> 0]]]

\* One buffer of io::copy (or of read_to_end), up to one unit past the cap; an
\* overrun or a full volume fails the open and drops what it has written.
Copy_Fault(s) ==
    LET me == source[s]
        more == [me.cur EXCEPT !.size = me.cur.size + 1]
    IN  /\ me.pc = "copy"
        /\ me.cur.size < me.cur.entry.actual /\ me.cur.size <= me.cap
        /\ DiskUse(s, more) - DiskUse(s, me.cur) <= Free
        /\ source' = [source EXCEPT ![s].cur = more]
Copy(s) ==
    LET me == source[s]
        more == [me.cur EXCEPT !.size = me.cur.size + 1]
    IN  /\ me.pc = "copy"
        /\ me.cur.size < me.cur.entry.actual /\ me.cur.size <= me.cap
        /\ IF DiskUse(s, more) - DiskUse(s, me.cur) > Free THEN Fail(s)
           ELSE source' = [source EXCEPT ![s].cur = more]

\* The entry is copied: an error if it overran its cap, else a backing.
Copied_Fault(s) ==
    LET me == source[s]
    IN  /\ me.pc = "copy"
        /\ me.cur.size = me.cur.entry.actual \/ me.cur.size > me.cap
        /\ source' = [source EXCEPT ![s] =
               [me EXCEPT !.pc = "decide", !.held = Append(@, me.cur), !.cur = Nothing]]
Copied(s) ==
    LET me == source[s]
    IN  /\ me.pc = "copy"
        /\ me.cur.size = me.cur.entry.actual \/ me.cur.size > me.cap
        /\ IF me.cur.size > me.cap THEN Fail(s)
           ELSE source' = [source EXCEPT ![s] =
                  [me EXCEPT !.pc = "decide", !.held = Append(@, me.cur), !.cur = Nothing]]

\* The first backing is the image; the rest of a stream's matches were copied
\* as well and are dropped with the list.  An archive without one fails.
FirstEntry(s) ==
    LET me == source[s]
    IN  /\ me.pc = "decide" /\ me.todo = <<>>
        /\ IF me.held = <<>> THEN Fail(s)
           ELSE source' = [source EXCEPT ![s].pc = "open", ![s].held = <<Head(me.held)>>]

\* The ingest of the source ends, and its backing is dropped.
Drop(s) ==
    /\ source[s].pc \in {"open", "failed"}
    /\ source' = [source EXCEPT ![s] = Idle]

Opening(s) ==
    ProbeTemp(s) \/ PassOver(s) \/ Decide(s) \/ Copy(s) \/ Copied(s) \/ FirstEntry(s)

SpillNext == \E s \in Sources : (\E a \in Archives : Open(s, a)) \/ Opening(s) \/ Drop(s)

SpillSpec == SpillInit /\ [][SpillNext]_spillVars

-------------------------------------------------------------------------------
\* Properties.

\* No silent truncation: a backing handed out holds every byte of its entry,
\* whatever its header declared.
WholeOrError ==
    \A s \in Sources : \A i \in DOMAIN source[s].held :
        source[s].held[i].size = source[s].held[i].entry.actual

\* A zip entry spooled to the volume leaves the reserve of what was free when
\* it was decided on; a header that lies costs one unit of it at most.
SpoolKeepsReserve ==
    \A s \in Sources :
        source[s].kind = "zip" /\ source[s].pc = "copy" =>
            DiskUse(s, source[s].cur) <= IF source[s].temp < TempReserve THEN 0
                                      ELSE source[s].temp - TempReserve + 1

\* Every open ends, with a backing or with an error, even on a full volume.
OpensEnd ==
    \A s \in Sources :
        source[s].pc \in {"temp", "decide", "copy"} ~> source[s].pc \in {"open", "failed"}

-------------------------------------------------------------------------------
\* The inductive strengthening behind WholeOrError and SpoolKeepsReserve.

Backing == [how : {"none", "ram", "spool"}, entry : Entry, size : Nat]

SpillTypeOK ==
    source \in [Sources ->
        [pc : {"idle", "temp", "decide", "copy", "open", "failed"},
         kind : {"zip", "stream", "bzip2"}, todo : Seq(Entry), plan : 0 .. Ram,
         temp : 0 .. Volume, cap : Nat, cur : Backing, held : Seq(Backing)]]

\* A zip entry is copied up to one unit past its declared size, and to a spool
\* only where that size and the reserve fitted when it was decided on.
ZipWithinCap ==
    \A s \in Sources :
        LET me == source[s]
        IN  me.kind = "zip" /\ me.pc = "copy" =>
                /\ me.cap = me.cur.entry.declared /\ me.cur.size <= me.cap + 1
                /\ me.cur.how = "spool" => me.temp >= me.cap + TempReserve

===============================================================================
