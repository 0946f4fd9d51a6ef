-------------------------------- MODULE Slices --------------------------------
(***************************************************************************)
(* What the standard library does to slices of rows: sort_by, filter.      *)
(*                                                                         *)
(* Both are stated by the places that rows take, which a proof can expand; *)
(* SortSeq and SelectSeq say the same by recursion.                        *)
(***************************************************************************)
EXTENDS Integers, Sequences, FiniteSets, SequencesExt

\* The elements of S from the first to the last, for a strict total order.
Sorted(S, before(_, _)) ==
    SubSeq([i \in 1 .. Cardinality(S) |->
               CHOOSE x \in S : Cardinality({y \in S : before(y, x)}) = i - 1],
           1, Cardinality(S))

\* The elements of s at the positions P, in their order.
At(s, P) ==
    LET at == Sorted(P, LAMBDA i, j : i < j)
    IN  [i \in DOMAIN at |-> s[at[i]]]

\* The elements of s that pass a test.
Where(s, Test(_)) == At(s, {i \in DOMAIN s : Test(s[i])})
===============================================================================
