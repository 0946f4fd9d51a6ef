----------------------------- MODULE IngestStore -----------------------------
(***************************************************************************)
(* The part of the case database that makes ingestion resumable            *)
(* (issen-timeline, ingest.rs and store.rs): the `timeline` table, the     *)
(* `ingest_log` of parse units, the `evidence_sources` table, and          *)
(* `commit_parse_job`, the one transaction that writes a unit's events and *)
(* its completion marker.                                                  *)
(*                                                                         *)
(* The transaction is modelled statement by statement.  Its statements     *)
(* work on a private copy of the unit's rows, which COMMIT publishes and   *)
(* which a rollback, or the death of the process, throws away.             *)
(*                                                                         *)
(* A definition named X_Fault is a faulty form of the X that follows it.   *)
(***************************************************************************)
EXTENDS Naturals, Sequences

CONSTANTS
    Procs,       \* operating-system processes that may open the case
    Sources,     \* evidence sources: a folder, or an image or archive
    Units,       \* (artifact, parser) pairs found inside a source
    Keys,        \* evidence keys a source is attributed under
    Places,      \* directories artifact paths may lie in
    MaxVersion,  \* bound: how many contents an artifact goes through
    NoTxn,       \* no transaction is open
    NoSource     \* no row in evidence_sources

ASSUME StoreConstants ==
    /\ MaxVersion \in Nat \ {0}
    /\ NoSource \notin Sources

Versions == 1 .. MaxVersion

\* The durable identity of a parse unit.  The code hashes the coordinates
\* NUL-separated, so two jobs are equal exactly when all coordinates are.
Job == [key : Keys, place : Places, unit : Units]

stable_id(key, place, unit) == [key |-> key, place |-> place, unit |-> unit]

\* The events one parse produced: whose artifact, which content of it, and
\* whether the parser got everything that content holds.
Batch == [src : Sources, ver : Versions, whole : BOOLEAN]

\* ingest_log.status of a unit, "none" when it has no row.
Marker == {"none", "incomplete", "complete"}

Txn == [job      : Job,
        batch    : Batch,
        complete : BOOLEAN,
        rows     : Seq(Batch),
        marker   : Marker,
        next     : {"delete", "insert", "log", "commit"}]

ASSUME NoTxnIsNew == NoTxn \notin Txn

VARIABLES
    timeline,          \* rows of each unit: the batches inserted and not deleted
    ingest_log,        \* completion marker of each unit
    evidence_sources,  \* source registered under each key
    txn                \* open transaction of each process

storeVars == <<timeline, ingest_log, evidence_sources, txn>>

StoreTypeOK ==
    /\ timeline \in [Job -> Seq(Batch)]
    /\ ingest_log \in [Job -> Marker]
    /\ evidence_sources \in [Keys -> Sources \cup {NoSource}]
    /\ txn \in [Procs -> Txn \cup {NoTxn}]

StoreInit ==
    /\ timeline = [j \in Job |-> <<>>]
    /\ ingest_log = [j \in Job |-> "none"]
    /\ evidence_sources = [k \in Keys |-> NoSource]
    /\ txn = [p \in Procs |-> NoTxn]

(***************************************************************************)
(* Queries.                                                                *)
(***************************************************************************)

completed_units_AnyStatus(key) == {j \in Job : j.key = key /\ ingest_log[j] # "none"}

completed_units_PerSource(key) ==
    {j \in Job : j.key = key /\ \E k \in Job : k.key = key /\ ingest_log[k] = "complete"}

completed_units(key) == {j \in Job : j.key = key /\ ingest_log[j] = "complete"}

(***************************************************************************)
(* commit_parse_job, one action per statement.                             *)
(***************************************************************************)

BeginTxn_NoRefusal(p, job, batch, complete) ==
    /\ txn[p] = NoTxn
    /\ txn' = [txn EXCEPT ![p] =
                 [job |-> job, batch |-> batch, complete |-> complete,
                  rows |-> timeline[job], marker |-> ingest_log[job],
                  next |-> "delete"]]
    /\ UNCHANGED <<timeline, ingest_log, evidence_sources>>

\* BEGIN, and the check that an incomplete re-parse does not replace a unit
\* already complete: such a transaction goes to its COMMIT with nothing done.
BeginTxn(p, job, batch, complete) ==
    /\ txn[p] = NoTxn
    /\ txn' = [txn EXCEPT ![p] =
                 [job |-> job, batch |-> batch, complete |-> complete,
                  rows |-> timeline[job], marker |-> ingest_log[job],
                  next |-> IF ~complete /\ ingest_log[job] = "complete"
                           THEN "commit" ELSE "delete"]]
    /\ UNCHANGED <<timeline, ingest_log, evidence_sources>>

InTxn(p, step) == txn[p] # NoTxn /\ txn[p].next = step

DeleteRows_Missing(p) ==
    /\ InTxn(p, "delete")
    /\ txn' = [txn EXCEPT ![p].next = "insert"]
    /\ UNCHANGED <<timeline, ingest_log, evidence_sources>>

DeleteRows_Autocommit(p) ==
    /\ InTxn(p, "delete")
    /\ txn' = [txn EXCEPT ![p] = [@ EXCEPT !.rows = <<>>, !.next = "insert"]]
    /\ timeline' = [timeline EXCEPT ![txn[p].job] = <<>>]
    /\ UNCHANGED <<ingest_log, evidence_sources>>

\* DELETE FROM timeline WHERE parse_job_id = ?
DeleteRows(p) ==
    /\ InTxn(p, "delete")
    /\ txn' = [txn EXCEPT ![p] = [@ EXCEPT !.rows = <<>>, !.next = "insert"]]
    /\ UNCHANGED <<timeline, ingest_log, evidence_sources>>

\* The staged batch goes into the timeline by one INSERT ... SELECT, with no
\* deduplication.
InsertRows(p) ==
    /\ InTxn(p, "insert")
    /\ txn' = [txn EXCEPT ![p] = [@ EXCEPT !.rows = Append(txn[p].rows, txn[p].batch),
                                           !.next = "log"]]
    /\ UNCHANGED <<timeline, ingest_log, evidence_sources>>

LogUnit_WrongToken(p) ==
    /\ InTxn(p, "log")
    /\ txn' = [txn EXCEPT ![p] =
                 [@ EXCEPT !.marker = IF txn[p].complete THEN "done" ELSE "incomplete",
                           !.next = "commit"]]
    /\ UNCHANGED <<timeline, ingest_log, evidence_sources>>

\* INSERT OR REPLACE INTO ingest_log
LogUnit(p) ==
    /\ InTxn(p, "log")
    /\ txn' = [txn EXCEPT ![p] =
                 [@ EXCEPT !.marker = IF txn[p].complete THEN "complete"
                                                         ELSE "incomplete",
                           !.next = "commit"]]
    /\ UNCHANGED <<timeline, ingest_log, evidence_sources>>

CommitTxn(p) ==
    /\ InTxn(p, "commit")
    /\ timeline' = [timeline EXCEPT ![txn[p].job] = txn[p].rows]
    /\ ingest_log' = [ingest_log EXCEPT ![txn[p].job] = txn[p].marker]
    /\ txn' = [txn EXCEPT ![p] = NoTxn]
    /\ UNCHANGED evidence_sources

\* ROLLBACK after a failed statement, or the death of the process.
DropTxn(p) ==
    /\ txn' = [txn EXCEPT ![p] = NoTxn]
    /\ UNCHANGED <<timeline, ingest_log, evidence_sources>>

(***************************************************************************)
(* register_evidence_source: INSERT OR REPLACE on the source id.           *)
(***************************************************************************)
RegisterSource(key, src) ==
    /\ evidence_sources' = [evidence_sources EXCEPT ![key] = src]
    /\ UNCHANGED <<timeline, ingest_log, txn>>
=============================================================================
