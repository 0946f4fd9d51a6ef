----------------------------- MODULE UnitLedger -----------------------------
(***************************************************************************)
(* What resumable ingestion promises of each parse unit: its entry in the  *)
(* case is one value, what a single parse produced and whether that parse  *)
(* was whole.  An entry is published in one step; a whole one is replaced  *)
(* only by a whole one; none is ever removed.                              *)
(***************************************************************************)
CONSTANTS Job, Batch, Absent

VARIABLE ledger

Init == ledger = [j \in Job |-> Absent]

Publish(j, b) ==
    /\ ledger[j] = Absent \/ b.whole \/ ~ledger[j].whole
    /\ ledger' = [ledger EXCEPT ![j] = b]

Next == \E j \in Job, b \in Batch : Publish(j, b)

Spec == Init /\ [][Next]_ledger
=============================================================================
