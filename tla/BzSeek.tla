-------------------------------- MODULE BzSeek --------------------------------
(***************************************************************************)
(* Random access into a .tar.bz2 (issen-unpack, bzseek.rs).  The stream is *)
(* cut into blocks that decode on their own; a member of the tar is a      *)
(* window on the decompressed stream, and the windows of one archive share *)
(* one reader: its file behind a lock, and a cache of decoded blocks behind*)
(* another.  Neither is held while the other is taken, so two threads may  *)
(* decode one block at the same time.                                      *)
(*                                                                         *)
(* One unit stands for 512 bytes of the decompressed stream: a tar header, *)
(* a piece of a file or the zero block at the end.                         *)
(***************************************************************************)
EXTENDS Integers, Sequences, FiniteSets, SequencesExt

CONSTANTS
    Readers,   \* threads, each of which reads one member
    Files,     \* the tar: a sequence of [regular, size]
    FileOf,    \* the file that each reader reads
    BlockLens, \* what each block decompresses to, in units
    CacheCap,  \* DEFAULT_CACHE_BLOCKS
    MaxRead    \* bound: units asked for by one read

ASSUME BzAssumption ==
    /\ FileOf \in [Readers -> DOMAIN Files]
    /\ CacheCap \in Nat \ {0} /\ MaxRead \in Nat \ {0}

VARIABLES
    reader,  \* the state of each thread's read
    cache,   \* decoded blocks, most recently used first: <<k, units>>
    inner    \* the file: who holds its lock, and the block its cursor is at

bzVars == <<reader, cache, inner>>

\* The decompressed stream.
Contents(f) == [i \in 1 .. Files[f].size |-> <<"data", f, i>>]
Stream ==
    FlattenSeq([f \in DOMAIN Files |-> <<<<"header", f, 0>>>> \o Contents(f)])
    \o <<<<"zero", 0, 0>>>>

\* The index that open builds, by decoding each block once.
BlockStart[k \in 1 .. Len(BlockLens) + 1] ==
    IF k = 1 THEN 0 ELSE BlockStart[k - 1] + BlockLens[k - 1]
Blocks == DOMAIN BlockLens
StreamLen == BlockStart[Len(BlockLens) + 1]
BlockData(k) == SubSeq(Stream, BlockStart[k] + 1, BlockStart[k + 1])

\* tar_members: from header to header; only regular files become members.
TarMembers ==
    LET walk[at \in 0 .. StreamLen] ==
            IF at >= StreamLen \/ Stream[at + 1][1] = "zero" THEN <<>>
            ELSE LET f == Stream[at + 1][2]
                 IN  (IF Files[f].regular
                      THEN <<[file |-> f, base |-> at + 1, len |-> Files[f].size]>>
                      ELSE <<>>)
                     \o walk[at + 1 + Files[f].size]
    IN  walk[0]

\* The window of a reader's member.
MemberWindow(t) == LET ms == TarMembers
             IN  ms[CHOOSE i \in DOMAIN ms : ms[i].file = FileOf[t]]

\* What the two indexes are: the blocks follow one another and make up the whole
\* stream, and a member's window holds its file.  (Both are computed by recursion
\* over the stream.)
Units == ToSet(Stream)
ASSUME LayoutAssumption ==
    /\ BlockLens \in Seq(Nat) /\ Stream \in Seq(Units)
    /\ \A k \in 1 .. Len(BlockLens) + 1 : BlockStart[k] \in 0 .. Len(Stream)
    /\ \A k \in Blocks : BlockStart[k] <= BlockStart[k + 1]
    /\ BlockStart[Len(BlockLens) + 1] = Len(Stream)
    /\ \A at \in 0 .. Len(Stream) - 1 :
          \E k \in Blocks : BlockStart[k] <= at /\ at < BlockStart[k + 1]
    /\ \A t \in Readers :
          LET w == MemberWindow(t)
          IN  /\ w.base \in Nat /\ w.len \in Nat /\ w.base + w.len <= Len(Stream)
              /\ Contents(FileOf[t]) = SubSeq(Stream, w.base + 1, w.base + w.len)

NoCursor == 0
Nobody == [holder |-> {}, cursor |-> NoCursor]

\* What a call on a view returned.
Result(call, bytes) == [call |-> call, bytes |-> bytes]

BzInit ==
    /\ reader = [t \in Readers |->
                     [pc |-> "idle", pos |-> 0, last |-> Result("seek", <<>>), end |-> 0,
                      block |-> 0, got |-> <<>>, decoded |-> <<>>]]
    /\ cache = <<>>
    /\ inner = Nobody

Offset(t) == MemberWindow(t).base + reader[t].pos

\* RangeView::seek; a seek past the end is allowed.
SeekView(t) ==
    /\ reader[t].pc = "idle"
    /\ \E p \in 0 .. MemberWindow(t).len + 1 :
           reader' = [reader EXCEPT ![t].pos = p, ![t].last = Result("seek", <<>>)]
    /\ UNCHANGED <<cache, inner>>

\* RangeView::read, and read_at to its loop: the first block that reaches past
\* the offset.
BeginRead(t) ==
    LET w == MemberWindow(t)
        left == IF reader[t].pos >= w.len THEN 0 ELSE w.len - reader[t].pos
    IN  /\ reader[t].pc = "idle"
        /\ IF left = 0
           THEN reader' = [reader EXCEPT ![t].last = Result("read", <<>>)]
           ELSE \E n \in 1 .. MaxRead :
                  LET want == IF n < left THEN n ELSE left
                      end == Offset(t) + want
                      first == CHOOSE k \in Blocks :
                                   BlockStart[k] <= Offset(t) /\ Offset(t) < BlockStart[k + 1]
                  IN  reader' = [reader EXCEPT ![t] =
                         [@ EXCEPT !.pc = "lookup", !.got = <<>>, !.block = first,
                                   !.end = IF end < StreamLen THEN end ELSE StreamLen]]
        /\ UNCHANGED <<cache, inner>>

\* The slice of a block that the read covers, and the reader after it.
SliceOf(k, units, from, end) ==
    LET lo == (IF from > BlockStart[k] THEN from ELSE BlockStart[k]) - BlockStart[k]
        hi == (IF end < BlockStart[k + 1] THEN end ELSE BlockStart[k + 1]) - BlockStart[k]
    IN  SubSeq(units, lo + 1, hi)

Delivered(t, units) ==
    LET me == reader[t]
        got == me.got \o SliceOf(me.block, units, Offset(t), me.end)
    IN  IF me.block < Len(BlockLens) /\ BlockStart[me.block + 1] < me.end
        THEN [me EXCEPT !.pc = "lookup", !.got = got, !.block = me.block + 1,
                        !.decoded = <<>>]
        ELSE [me EXCEPT !.pc = "idle", !.last = Result("read", got),
                        !.pos = me.pos + Len(got), !.got = <<>>, !.decoded = <<>>, !.end = 0, !.block = 0]

\* block_bytes under the cache's lock: a hit moves to the front.
Lookup(t) ==
    LET hits == {i \in DOMAIN cache : cache[i][1] = reader[t].block}
        i == CHOOSE i \in hits : \A j \in hits : i <= j
    IN  /\ reader[t].pc = "lookup"
        /\ IF hits = {}
           THEN reader' = [reader EXCEPT ![t].pc = "decode"] /\ UNCHANGED cache
           ELSE /\ cache' = <<cache[i]>> \o RemoveAt(cache, i)
                /\ reader' = [reader EXCEPT ![t] = Delivered(t, cache[i][2])]
        /\ UNCHANGED inner

\* decode_block under the file's lock: seek to the block, read and decode it.
\* The lock is taken with the seek and let go with the read.
SeekInner_Fault(t) ==
    /\ reader[t].pc = "decode"
    /\ inner' = [holder |-> inner.holder \cup {t}, cursor |-> reader[t].block]
    /\ reader' = [reader EXCEPT ![t].pc = "read"]
    /\ UNCHANGED cache
SeekInner(t) ==
    /\ reader[t].pc = "decode" /\ inner.holder = {}
    /\ inner' = [holder |-> {t}, cursor |-> reader[t].block]
    /\ reader' = [reader EXCEPT ![t].pc = "read"]
    /\ UNCHANGED cache

DecodeBlock(t) ==
    /\ reader[t].pc = "read"
    /\ reader' = [reader EXCEPT ![t].pc = "insert", ![t].decoded = BlockData(inner.cursor)]
    /\ inner' = [inner EXCEPT !.holder = @ \ {t}]
    /\ UNCHANGED cache

\* The file cannot be read: the error leaves the view where it was.
FailRead(t) ==
    /\ reader[t].pc = "read"
    /\ reader' = [reader EXCEPT ![t] = [@ EXCEPT !.pc = "idle", !.last = Result("fail", <<>>),
                                                 !.got = <<>>, !.end = 0, !.block = 0]]
    /\ inner' = [inner EXCEPT !.holder = @ \ {t}]
    /\ UNCHANGED cache

\* The decoded block goes to the front of the cache, which is cut to its cap.
Insert(t) ==
    /\ reader[t].pc = "insert"
    /\ LET all == <<<<reader[t].block, reader[t].decoded>>>> \o cache
       IN  cache' = SubSeq(all, 1, IF Len(all) > CacheCap THEN CacheCap ELSE Len(all))
    /\ reader' = [reader EXCEPT ![t] = Delivered(t, reader[t].decoded)]
    /\ UNCHANGED inner

BzStep(t) ==
    \/ SeekView(t) \/ BeginRead(t) \/ Lookup(t)
    \/ SeekInner(t) \/ DecodeBlock(t) \/ FailRead(t) \/ Insert(t)

BzNext == \E t \in Readers : BzStep(t)

BzSpec == BzInit /\ [][BzNext]_bzVars

-------------------------------------------------------------------------------
\* Properties.

ReaderType ==
    [pc : {"idle", "lookup", "decode", "read", "insert"}, pos : Nat,
     last : [call : {"seek", "read", "fail"}, bytes : Seq(Units)],
     end : Nat, block : Nat, got : Seq(Units), decoded : Seq(Units)]
BzTypeOK ==
    /\ reader \in [Readers -> ReaderType]
    /\ cache \in Seq(Nat \X Seq(Units))
    /\ inner \in [holder : SUBSET Readers, cursor : Nat]

\* These units are the stream's from one offset to another.
IsPiece(units, from, to) ==
    /\ units \in Seq(Units) /\ Len(units) = to - from
    /\ \A i \in 1 .. to - from : units[i] = Stream[from + i]
IsBlock(k, units) == k \in Blocks /\ IsPiece(units, BlockStart[k], BlockStart[k + 1])

\* The cache holds the blocks it says, and who decodes alone moves the cursor.
CacheIsStream == \A i \in DOMAIN cache : IsBlock(cache[i][1], cache[i][2])
CursorIsOwn ==
    \A t \in Readers : reader[t].pc = "read" =>
        inner.holder = {t} /\ inner.cursor = reader[t].block

\* A read that is under way has what lies before its block, which it needs next.
Reads(t, me) ==
    LET w == MemberWindow(t)
        at == w.base + me.pos
        from == IF at > BlockStart[me.block] THEN at ELSE BlockStart[me.block]
    IN  /\ me.block \in Blocks
        /\ at < me.end /\ me.end <= w.base + w.len
        /\ at < BlockStart[me.block + 1] /\ BlockStart[me.block] < me.end
        /\ IsPiece(me.got, at, from)
        /\ me.pc = "insert" => IsBlock(me.block, me.decoded)
EveryReadGoesOn == \A t \in Readers : reader[t].pc # "idle" => Reads(t, reader[t])

\* What each thread sees of its own member.
Plain == INSTANCE PlainReader WITH
             Readers <- Readers,
             Data <- [t \in Readers |-> Contents(FileOf[t])],
             pos <- [t \in Readers |-> reader[t].pos],
             last <- [t \in Readers |-> reader[t].last]

\* Each view is a plain reader of its own file: whatever the other threads do
\* to the shared cursor and cache, a read returns the file's next bytes,
\* none only at its end, or fails and moves nothing.
ReadsLikePlainFile == Plain!ReaderSpec
===============================================================================
