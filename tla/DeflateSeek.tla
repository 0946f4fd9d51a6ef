------------------------------ MODULE DeflateSeek -----------------------------
(***************************************************************************)
(* Random access into a DEFLATE stream (issen-unpack, deflate_seek.rs): one*)
(* pass decodes the stream into a sliding buffer and keeps, at some block  *)
(* boundaries, a checkpoint of the decoder and of the bytes that later     *)
(* back-references may still reach; a read decodes forward from the nearest*)
(* checkpoint.                                                             *)
(*                                                                         *)
(* A stream is the distances of its symbols, 0 for a literal, each symbol  *)
(* giving one byte of output; literals are all different, so a byte from   *)
(* the wrong place shows.  The position in the input is the number of      *)
(* symbols consumed: the decoder's bit buffer is part of a checkpoint.     *)
(***************************************************************************)
EXTENDS Integers, Sequences, FiniteSets

CONSTANTS
    Window,    \* WINDOW, how far a back-reference reaches
    Segment,   \* SEGMENT, decoded ahead before the buffer slides
    Intervals, \* the checkpoint intervals asked for
    MaxLen     \* bound: symbols in a stream

ASSUME DeflateAssumption ==
    /\ {Window, Segment} \subseteq Nat \ {0}
    /\ Intervals \subseteq Nat /\ MaxLen \in Nat

VARIABLES
    coded,       \* the stream: [dists, ends], ends being where its blocks end
    interval,
    buf,         \* the physical buffer, Window + Segment bytes
    cursor,      \* out_pos, the write position in it
    total,       \* out_total
    atBoundary,  \* the decoder stopped at a block boundary
    checkpoints, \* [at, window], in order
    built        \* the index is complete

defVars == <<coded, interval, buf, cursor, total, atBoundary, checkpoints, built>>

NoByte == 0
Smaller(a, b) == IF a < b THEN a ELSE b

DefInit ==
    /\ \E n \in 0 .. MaxLen :
         \E dists \in [1 .. n -> 0 .. Window] :
         \E ends \in SUBSET (1 .. n - 1) :
             /\ \A i \in 1 .. n : dists[i] < i
             /\ coded = [dists |-> dists, ends |-> ends]
    /\ interval \in Intervals
    /\ buf = [i \in 1 .. Window + Segment |-> NoByte]
    /\ cursor = Window
    /\ total = 0
    /\ atBoundary = FALSE
    /\ checkpoints = <<[at |-> 0, window |-> <<>>]>>
    /\ built = FALSE

\* decompress, one symbol of it: a literal, or the byte dist back in the buffer.
Inflate ==
    /\ ~built /\ ~atBoundary /\ total < Len(coded.dists) /\ cursor < Window + Segment
    /\ LET dist == coded.dists[total + 1]
       IN  buf' = [buf EXCEPT ![cursor + 1] = IF dist = 0 THEN total + 1
                                              ELSE buf[cursor + 1 - dist]]
    /\ cursor' = cursor + 1
    /\ total' = total + 1
    /\ atBoundary' = (total + 1 \in coded.ends)
    /\ UNCHANGED <<coded, interval, checkpoints, built>>

\* BlockBoundary: a checkpoint when the last one is an interval back.
LastCheckpoint == checkpoints[Len(checkpoints)].at

Boundary ==
    /\ ~built /\ atBoundary
    /\ atBoundary' = FALSE
    /\ IF total - LastCheckpoint >= interval
       THEN LET reach == Smaller(total, Window)
            IN  checkpoints' = Append(checkpoints,
                    [at |-> total, window |-> SubSeq(buf, cursor - reach + 1, cursor)])
       ELSE UNCHANGED checkpoints
    /\ UNCHANGED <<coded, interval, buf, cursor, total, built>>

\* HasMoreOutput: the buffer is full, so its last Window bytes move to the front.
Slide_Fault ==
    /\ ~built /\ cursor = Window + Segment
    /\ buf' = [i \in DOMAIN buf |-> IF i <= Segment THEN buf[i + cursor - Segment] ELSE buf[i]]
    /\ cursor' = Window
    /\ UNCHANGED <<coded, interval, total, atBoundary, checkpoints, built>>
Slide ==
    /\ ~built /\ cursor = Window + Segment
    /\ buf' = [i \in DOMAIN buf |-> IF i <= Window THEN buf[i + cursor - Window] ELSE buf[i]]
    /\ cursor' = Window
    /\ UNCHANGED <<coded, interval, total, atBoundary, checkpoints, built>>

\* Done: the index is complete.
Done ==
    /\ ~built /\ ~atBoundary /\ total = Len(coded.dists)
    /\ built' = TRUE
    /\ UNCHANGED <<coded, interval, buf, cursor, total, atBoundary, checkpoints>>

DefNext == Inflate \/ Boundary \/ Slide \/ Done

\* read_at's decoding: on from a checkpoint's window, into it and what has been
\* produced; NoByte where a reference leaves them.
Output(cp, end) ==
    LET wlen == Len(cp.window)
        out[i \in 1 .. wlen + end - cp.at] ==
            LET symbol == cp.at + i - wlen
            IN  IF i <= wlen THEN cp.window[i]
                ELSE IF coded.dists[symbol] = 0 THEN symbol
                ELSE IF coded.dists[symbol] < i THEN out[i - coded.dists[symbol]]
                ELSE NoByte
    IN  out

\* read_at: from the last checkpoint at or before the offset.
ReadAt(offset, n) ==
    LET end == Smaller(offset + n, total)
        cp == checkpoints[CHOOSE i \in DOMAIN checkpoints :
                  /\ checkpoints[i].at <= offset
                  /\ i = Len(checkpoints) \/ checkpoints[i + 1].at > offset]
    IN  IF offset >= total \/ n = 0 THEN <<>>
        ELSE [i \in 1 .. end - offset |->
                 Output(cp, end)[Len(cp.window) + offset - cp.at + i]]

DefSpec == DefInit /\ [][DefNext]_defVars

-------------------------------------------------------------------------------
\* Properties.

\* What the whole stream decodes to.
Decoded[i \in 1 .. Len(coded.dists)] ==
    IF coded.dists[i] = 0 THEN i ELSE Decoded[i - coded.dists[i]]

DefTypeOK ==
    /\ coded \in [dists : Seq(0 .. Window), ends : SUBSET Nat]
    /\ \A i \in DOMAIN coded.dists : coded.dists[i] < i
    /\ interval \in Nat /\ atBoundary \in BOOLEAN /\ built \in BOOLEAN
    /\ buf \in [1 .. Window + Segment -> Nat]
    /\ cursor \in Window .. Window + Segment
    /\ total \in 0 .. Len(coded.dists)
    /\ checkpoints \in Seq([at : Nat, window : Seq(Nat)])

\* Up to the cursor the buffer holds the end of what has been decoded, and before
\* that, while little has been decoded, nothing.
BufferIsTail ==
    \A i \in 1 .. cursor : total - cursor + i >= 1 => buf[i] = Decoded[total - cursor + i]

\* A checkpoint's window is what had been decoded up to it, as far back as a
\* reference reaches.
HoldsWindow(cp) ==
    LET reach == Smaller(cp.at, Window)
    IN  /\ cp.at \in 0 .. total /\ Len(cp.window) = reach
        /\ \A k \in 1 .. reach : cp.window[k] = Decoded[cp.at - reach + k]
WindowsReach ==
    /\ checkpoints # <<>> /\ checkpoints[1].at = 0
    /\ \A i \in DOMAIN checkpoints : HoldsWindow(checkpoints[i])

BuiltToTheEnd == built => total = Len(coded.dists)

\* A read at any offset, of any length, returns what decoding the whole stream
\* would have put there, wherever the checkpoints fell and however the buffer
\* slid in between.
AnswersAreData ==
    built =>
        \A offset, n \in 0 .. Len(coded.dists) + 1 :
            ReadAt(offset, n) =
                [i \in 1 .. Smaller(offset + n, Len(coded.dists)) - offset |->
                    Decoded[offset + i]]

===============================================================================
