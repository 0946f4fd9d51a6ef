------------------------------ MODULE PlainReader ------------------------------
(***************************************************************************)
(* What a read and seek view of an archive's member promises, however its  *)
(* bytes are stored: a read returns the bytes at the view's own position   *)
(* and moves the position past them, or fails and moves nothing.           *)
(***************************************************************************)
EXTENDS Naturals, Sequences

CONSTANTS Readers,  \* the views
          Data      \* the bytes each of them is a view of

VARIABLES pos,  \* each view's position
          last  \* what its last call was, and the bytes it returned

readerVars == <<pos, last>>

Returned(t, call, bytes) == last' = [last EXCEPT ![t] = [call |-> call, bytes |-> bytes]]

ReaderInit ==
    /\ pos = [t \in Readers |-> 0]
    /\ last = [t \in Readers |-> [call |-> "seek", bytes |-> <<>>]]

\* A read returns at least one byte before the end, and none from there on.
Read(t) ==
    \E n \in 0 .. Len(Data[t]) :
        /\ n = 0 <=> pos[t] >= Len(Data[t])
        /\ pos[t] + n <= Len(Data[t]) \/ n = 0
        /\ Returned(t, "read", SubSeq(Data[t], pos[t] + 1, pos[t] + n))
        /\ pos' = [pos EXCEPT ![t] = pos[t] + n]

Seek(t) ==
    /\ Returned(t, "seek", <<>>)
    /\ pos'[t] \in Nat /\ pos' = [pos EXCEPT ![t] = pos'[t]]

Fail(t) == Returned(t, "fail", <<>>) /\ UNCHANGED pos

ReaderNext == \E t \in Readers : Read(t) \/ Seek(t) \/ Fail(t)

ReaderSpec == ReaderInit /\ [][ReaderNext]_readerVars
===============================================================================
