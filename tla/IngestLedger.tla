---------------------------- MODULE IngestLedger ----------------------------
(***************************************************************************)
(* The case store as the ledger of parse units it implements.              *)
(***************************************************************************)
EXTENDS IngestRun

CONSTANT Absent  \* a unit without an entry

\* The abstract ledger entry of each unit: its rows, whole if its marker says
\* so.
ledger ==
    [j \in Job |-> IF timeline[j] = <<>> \/ ingest_log[j] = "none" THEN Absent
                   ELSE [timeline[j][1] EXCEPT !.whole = ingest_log[j] = "complete"]]

Ledger == INSTANCE UnitLedger WITH
              Job <- Job, Batch <- Batch, Absent <- Absent, ledger <- ledger

\* The store, whatever crashes and overlaps, implements the ledger.
ImplementsLedger == Ledger!Spec
=============================================================================
