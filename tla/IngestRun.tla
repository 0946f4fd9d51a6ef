------------------------------ MODULE IngestRun ------------------------------
(***************************************************************************)
(* `ingest::run` (issen-cli, commands/ingest.rs): processes that ingest    *)
(* evidence sources into one case database, under the case lock, in three  *)
(* phases.                                                                 *)
(*   setup   per source, in input order: register it, read its skip-list   *)
(*   parse   the sources are parsed in parallel, without the database      *)
(*   commit  per source, in input order: commit each parsed unit           *)
(* A process may die at any point, a statement or a parse may fail, and    *)
(* the operator may run again, remove the lock file a dead process left,   *)
(* and extend the evidence between runs.                                   *)
(*                                                                         *)
(* DuckDB's own file lock is not modelled: it only removes behaviours, so  *)
(* the properties below rest on the case lock alone.                       *)
(***************************************************************************)
EXTENDS IngestStore, FiniteSets

CONSTANTS
    Archives,        \* sources unpacked into a temporary directory
    TempDirs,        \* names of temporary directories
    SyntheticUnits,  \* the $MFT/$MFTMirr comparison, not a parser's unit
    FixedPlace,      \* the path "\$MFTMirr" such a unit always carries
    DefaultKey,      \* "default", the key of a source ingested alone
    NoHolder,        \* no lock file
    InputLists,      \* the evidence lists the operator passes
    Refreshes,       \* whether he passes --refresh: a set of BOOLEANs
    Reported,        \* the completions parsers report in this instance
    MaxFaults        \* bound: crashes and failures in a behaviour

ParseCompletion == {"Undeclared", "Complete", "CompleteWithRecoveries",
                    "Incomplete", "Unsupported", "CorruptFatal"}

marks_complete(completion) == completion \in {"Complete", "CompleteWithRecoveries"}

ASSUME RunConstants ==
    /\ Archives \subseteq Sources
    /\ SyntheticUnits \subseteq Units
    /\ Sources \cup TempDirs \cup {FixedPlace} \subseteq Places
    /\ Sources \cup {DefaultKey} \subseteq Keys
    /\ InputLists \subseteq Seq(Sources)
    /\ Refreshes \subseteq BOOLEAN
    /\ Reported \subseteq ParseCompletion
    /\ MaxFaults \in Nat
    /\ NoHolder \notin Procs

\* One parsed unit on its way to the commit phase.
ParseJob == [job : Job, batch : Batch, completion : ParseCompletion]

VARIABLES
    content,    \* content[s][u]: version of the artifact, 0 when not there
    temp_used,  \* temporary directories created so far
    case_lock,  \* owner of <case>.ingest.lock, NoHolder when there is none
    faults,     \* crashes and failures so far
    pc,         \* phase of each process
    inputs,     \* evidence list of its run
    refresh,    \* its --refresh flag
    pos,        \* index into inputs of the serial phases
    skip,       \* skip-list read for each source
    parsed,     \* outcome of each source's parse
    jobs        \* units of each source parsed and not yet committed

runVars == <<pc, inputs, refresh, pos, skip, parsed, jobs>>
worldVars == <<content, temp_used, faults>>
vars == <<storeVars, runVars, worldVars, case_lock>>

\* The store, the lock, every run and the evidence outside keep to their values: a
\* marker is one of what commit_parse_job writes, a skip-list one of units.
TypeOK ==
    /\ StoreTypeOK
    /\ content \in [Sources -> [Units -> 0 .. MaxVersion]]
    /\ temp_used \subseteq TempDirs
    /\ case_lock \in Procs \cup {NoHolder}
    /\ faults \in 0 .. MaxFaults
    /\ pc \in [Procs -> {"idle", "setup", "parse", "commit"}]
    /\ inputs \in [Procs -> Seq(Sources)]
    /\ refresh \in [Procs -> BOOLEAN]
    /\ pos \in [Procs -> Nat \ {0}]
    /\ skip \in [Procs -> [Sources -> SUBSET Job]]
    /\ parsed \in [Procs -> [Sources -> {"no", "ok", "err"}]]
    /\ jobs \in [Procs -> [Sources -> SUBSET ParseJob]]

Init ==
    /\ StoreInit
    /\ content \in [Sources -> [Units -> {0, 1}]]
    /\ temp_used = {}
    /\ case_lock = NoHolder
    /\ faults = 0
    /\ pc = [p \in Procs |-> "idle"]
    /\ inputs = [p \in Procs |-> <<>>]
    /\ refresh = [p \in Procs |-> FALSE]
    /\ pos = [p \in Procs |-> 1]
    /\ skip = [p \in Procs |-> [s \in Sources |-> {}]]
    /\ parsed = [p \in Procs |-> [s \in Sources |-> "no"]]
    /\ jobs = [p \in Procs |-> [s \in Sources |-> {}]]

(***************************************************************************)
(* Names.                                                                  *)
(***************************************************************************)

source_id_FirstOnly(list, s) == list[1]

source_id_AlwaysDefault(list, s) == DefaultKey

\* A run over one source attributes it to "default"; a run over several gives
\* each the id hashed from its path.
source_id(list, s) == IF Len(list) = 1 THEN DefaultKey ELSE s

\* Where a parse finds the artifacts of a source: in the folder itself, or in
\* a temporary directory never seen before.
ExtractedRoots(s) == IF s \in Archives THEN TempDirs \ temp_used ELSE {s}

UnitPlace(root, u) == IF u \in SyntheticUnits THEN FixedPlace ELSE root

UnitJob_NoKey(p, s, root, u) == stable_id(DefaultKey, UnitPlace(root, u), u)

UnitJob(p, s, root, u) ==
    stable_id(source_id(inputs[p], s), UnitPlace(root, u), u)

InSession(p) == pc[p] # "idle"

Fault == faults < MaxFaults /\ faults' = faults + 1

(***************************************************************************)
(* Start and end of a run.                                                 *)
(***************************************************************************)

AcquireLock_NotExclusive(p, list, fresh) ==
    /\ pc[p] = "idle"
    /\ case_lock' = p
    /\ pc' = [pc EXCEPT ![p] = "setup"]
    /\ inputs' = [inputs EXCEPT ![p] = list]
    /\ refresh' = [refresh EXCEPT ![p] = fresh]
    /\ UNCHANGED <<storeVars, pos, skip, parsed, jobs, worldVars>>

\* CaseLock::acquire creates the lock file; a run that finds one ends with
\* nothing changed, whoever left the file.
AcquireLock(p, list, fresh) ==
    /\ pc[p] = "idle"
    /\ case_lock = NoHolder
    /\ case_lock' = p
    /\ pc' = [pc EXCEPT ![p] = "setup"]
    /\ inputs' = [inputs EXCEPT ![p] = list]
    /\ refresh' = [refresh EXCEPT ![p] = fresh]
    /\ UNCHANGED <<storeVars, pos, skip, parsed, jobs, worldVars>>

ForgetRun(p) ==
    /\ pc' = [pc EXCEPT ![p] = "idle"]
    /\ inputs' = [inputs EXCEPT ![p] = <<>>]
    /\ refresh' = [refresh EXCEPT ![p] = FALSE]
    /\ pos' = [pos EXCEPT ![p] = 1]
    /\ skip' = [skip EXCEPT ![p] = [s \in Sources |-> {}]]
    /\ parsed' = [parsed EXCEPT ![p] = [s \in Sources |-> "no"]]
    /\ jobs' = [jobs EXCEPT ![p] = [s \in Sources |-> {}]]

\* Every return from `run` drops the CaseLock, which removes the file.
ReleaseLock(p) == case_lock' = NoHolder

FinishRun(p) ==
    /\ pc[p] = "commit"
    /\ pos[p] > Len(inputs[p])
    /\ ForgetRun(p)
    /\ ReleaseLock(p)
    /\ UNCHANGED <<storeVars, worldVars>>

\* A statement fails: an open transaction is rolled back and the run ends.
FailRun(p) ==
    /\ pc[p] \in {"setup", "commit"}
    /\ Fault
    /\ DropTxn(p)
    /\ ForgetRun(p)
    /\ ReleaseLock(p)
    /\ UNCHANGED <<content, temp_used>>

\* The process dies: the database rolls back, the lock file stays.
Crash(p) ==
    /\ InSession(p)
    /\ Fault
    /\ DropTxn(p)
    /\ ForgetRun(p)
    /\ UNCHANGED <<case_lock, content, temp_used>>

(***************************************************************************)
(* Phase A.                                                                *)
(***************************************************************************)

RegisterNext(p) ==
    /\ pc[p] = "setup"
    /\ pos[p] <= Len(inputs[p])
    /\ LET s   == inputs[p][pos[p]]
           key == source_id(inputs[p], s)
       IN /\ RegisterSource(key, s)
          /\ skip' = [skip EXCEPT ![p][s] =
                        IF refresh[p] THEN {} ELSE completed_units(key)]
    /\ pos' = [pos EXCEPT ![p] = @ + 1]
    /\ UNCHANGED <<pc, inputs, refresh, parsed, jobs, worldVars, case_lock>>

StartParsing(p) ==
    /\ pc[p] = "setup"
    /\ pos[p] > Len(inputs[p])
    /\ pc' = [pc EXCEPT ![p] = "parse"]
    /\ UNCHANGED <<storeVars, inputs, refresh, pos, skip, parsed, jobs,
                   worldVars, case_lock>>

(***************************************************************************)
(* Phase B.  A parse touches neither the database nor another source, so   *)
(* it is one step; the sources take theirs in any order.                   *)
(***************************************************************************)

Unparsed(p) == {inputs[p][i] : i \in {i \in DOMAIN inputs[p] :
                                        parsed[p][inputs[p][i]] = "no"}}

\* The units handed to a parser: those there and not on the skip-list.  The
\* synthetic unit is computed on every run.
PendingUnits(p, s, root) ==
    {u \in Units : /\ content[s][u] > 0
                   /\ u \notin SyntheticUnits =>
                        UnitJob(p, s, root, u) \notin skip[p][s]}

\* What the parsers may answer; "Failed" is an error or a caught panic, after
\* which what the parser had emitted is dropped.
Outcomes(pending) ==
    {o \in [pending -> Reported \cup {"Failed", "Complete"}] :
        \A u \in pending : IF u \in SyntheticUnits THEN o[u] = "Complete"
                                                   ELSE o[u] \in Reported \cup {"Failed"}}

ParseUnit(p, s, root, u, completion) ==
    [job        |-> UnitJob(p, s, root, u),
     batch      |-> [src |-> s, ver |-> content[s][u],
                     whole |-> marks_complete(completion)],
     completion |-> completion]

run_auto_parse_jobs(p, s) ==
    /\ pc[p] = "parse"
    /\ s \in Unparsed(p)
    /\ \E root \in ExtractedRoots(s) :
         LET pending == PendingUnits(p, s, root)
         IN \E o \in Outcomes(pending) :
              /\ jobs' = [jobs EXCEPT ![p][s] =
                            {ParseUnit(p, s, root, u, o[u]) :
                               u \in {u \in pending : o[u] # "Failed"}}]
              /\ IF \E u \in pending : o[u] = "Failed" THEN Fault
                                                       ELSE UNCHANGED faults
         /\ temp_used' = temp_used \cup (TempDirs \cap {root})
    /\ parsed' = [parsed EXCEPT ![p][s] = "ok"]
    /\ UNCHANGED <<storeVars, pc, inputs, refresh, pos, skip, content, case_lock>>

\* The source cannot be opened, unpacked or walked.
OpenFails(p, s) ==
    /\ pc[p] = "parse"
    /\ s \in Unparsed(p)
    /\ Fault
    /\ parsed' = [parsed EXCEPT ![p][s] = "err"]
    /\ UNCHANGED <<storeVars, pc, inputs, refresh, pos, skip, jobs, content,
                   temp_used, case_lock>>

StartCommitting(p) ==
    /\ pc[p] = "parse"
    /\ Unparsed(p) = {}
    /\ pc' = [pc EXCEPT ![p] = "commit"]
    /\ pos' = [pos EXCEPT ![p] = 1]
    /\ UNCHANGED <<storeVars, inputs, refresh, skip, parsed, jobs, worldVars, case_lock>>

(***************************************************************************)
(* Phase C.  The units of a source are committed one by one; their order,  *)
(* which only decides row ids, is left open.                               *)
(***************************************************************************)

Committing(p) == pc[p] = "commit" /\ pos[p] <= Len(inputs[p])

CurrentSource(p) == inputs[p][pos[p]]

AbortAtSource_Ignored(p) == FALSE

\* `out.context(..)?`: the first source whose parse failed ends the run.
AbortAtSource(p) ==
    /\ Committing(p)
    /\ parsed[p][CurrentSource(p)] = "err"
    /\ ForgetRun(p)
    /\ ReleaseLock(p)
    /\ UNCHANGED <<storeVars, worldVars>>

BeginUnit(p) ==
    /\ Committing(p)
    /\ parsed[p][CurrentSource(p)] = "ok"
    /\ \E x \in jobs[p][CurrentSource(p)] :
         /\ BeginTxn(p, x.job, x.batch, marks_complete(x.completion))
         /\ jobs' = [jobs EXCEPT ![p][CurrentSource(p)] = @ \ {x}]
    /\ UNCHANGED <<pc, inputs, refresh, pos, skip, parsed, worldVars, case_lock>>

CommitStep(p) ==
    /\ DeleteRows(p) \/ InsertRows(p) \/ LogUnit(p) \/ CommitTxn(p)
    /\ UNCHANGED <<runVars, worldVars, case_lock>>

NextSource(p) ==
    /\ Committing(p)
    /\ parsed[p][CurrentSource(p)] = "ok"
    /\ txn[p] = NoTxn
    /\ jobs[p][CurrentSource(p)] = {}
    /\ pos' = [pos EXCEPT ![p] = @ + 1]
    /\ UNCHANGED <<storeVars, pc, inputs, refresh, skip, parsed, jobs, worldVars, case_lock>>

(***************************************************************************)
(* The operator.                                                           *)
(***************************************************************************)

\* "delete a stale *.ingest.lock": the file of a process that is gone.
ClearStaleLock ==
    /\ case_lock \in Procs
    /\ ~InSession(case_lock)
    /\ case_lock' = NoHolder
    /\ UNCHANGED <<storeVars, runVars, worldVars>>

\* Evidence is added or acquired again while no run is reading it.
ReacquireArtifact(s, u) ==
    /\ \A p \in Procs : ~InSession(p)
    /\ content[s][u] < MaxVersion
    /\ content' = [content EXCEPT ![s][u] = @ + 1]
    /\ UNCHANGED <<storeVars, runVars, temp_used, faults, case_lock>>

(***************************************************************************)
(* Specification.                                                          *)
(***************************************************************************)

Progress(p) ==
    \/ RegisterNext(p)
    \/ StartParsing(p)
    \/ \E s \in Sources : run_auto_parse_jobs(p, s)
    \/ StartCommitting(p)
    \/ AbortAtSource(p)
    \/ BeginUnit(p)
    \/ CommitStep(p)
    \/ NextSource(p)
    \/ FinishRun(p)

Start(p) == \E list \in InputLists, fresh \in Refreshes : AcquireLock(p, list, fresh)

Next ==
    \/ \E p \in Procs :
         \/ Start(p)
         \/ Progress(p)
         \/ FailRun(p)
         \/ Crash(p)
         \/ \E s \in Sources : OpenFails(p, s)
    \/ ClearStaleLock
    \/ \E s \in Sources, u \in Units : ReacquireArtifact(s, u)

Spec == Init /\ [][Next]_vars

\* A live process keeps going, the operator re-runs the command and clears a
\* stale lock; nothing is assumed of evidence, crashes and failures.
FairSpec ==
    /\ Spec
    /\ \A p \in Procs : WF_vars(Progress(p))
    /\ WF_vars(\E p \in Procs : Start(p))
    /\ WF_vars(ClearStaleLock)
-----------------------------------------------------------------------------
(***************************************************************************)
(* Correctness.                                                            *)
(***************************************************************************)

\* A unit's marker and its rows never disagree, whatever was interrupted: no
\* rows without a marker, one parse's rows at most, and `complete` exactly on
\* the rows of a parse that was whole (doc of commit_parse_job: "events
\* flushed" and "unit complete" can never disagree across a restart).
MarkerMatchesRows ==
    \A j \in Job :
        /\ Len(timeline[j]) <= 1
        /\ ingest_log[j] = "none" <=> timeline[j] = <<>>
        /\ ingest_log[j] = "complete" <=> \E b \in Batch : timeline[j] = <<b>> /\ b.whole

\* Two processes are never inside an ingest of the same case, although a dead
\* process leaves its lock file and the operator removes it.
OneSession == \A p, q \in Procs : InSession(p) /\ InSession(q) => p = q

\* The skip-list, read before the parse and used after it, stays true for the
\* whole run: what it lists is complete in the database.
SkipListSound ==
    \A p \in Procs, s \in Sources : \A j \in skip[p][s] : ingest_log[j] = "complete"

\* A complete unit stays complete, and its rows are only ever replaced by those
\* of another whole parse: `--refresh` with a parser that now gives up half-way
\* costs nothing.
NoDowngrade ==
    [][\A j \in Job : ingest_log[j] = "complete" =>
          /\ ingest_log'[j] = "complete"
          /\ timeline'[j] # timeline[j] => \E b \in Batch : timeline'[j] = <<b>> /\ b.whole]_vars

Holds(j, s) == \E i \in DOMAIN timeline[j] : timeline[j][i].src = s

\* An artifact's events are in the timeline under one unit only, however often
\* the case is ingested again (ADR 0007: a resume that never duplicates).
EventsOnce ==
    \A j, k \in Job, s \in Sources :
        j.unit = k.unit /\ Holds(j, s) /\ Holds(k, s) => j = k

\* Once a source's events are in the timeline, no step takes them away: what
\* replaces a unit's rows came from the same source.
EvidenceKept ==
    [][\A j \in Job, s \in Sources : Holds(j, s) => Holds(j, s)']_vars

\* Every row is attributed to a key whose registered source is the source it
\* was parsed from (chain of custody).
Attributed ==
    \A j \in Job, s \in Sources : Holds(j, s) => evidence_sources[j.key] = s

\* What a run skips is what it would read: the skipped unit's rows came from
\* the artifact's present content.  (A synthetic unit is never skipped, though
\* it is in the skip-list once it is complete.)
SkippedIsCurrent ==
    \A p \in Procs, s \in Sources :
        \A j \in {k \in skip[p][s] : k.unit \notin SyntheticUnits} :
            pc[p] = "parse" => timeline[j][1].ver = content[s][j.unit]

\* A run ends.
RunEnds == \A p \in Procs : InSession(p) ~> ~InSession(p)

\* Crashes, failed statements and stale locks only delay: an artifact that is
\* there gets its unit committed in the end.
EveryUnitLogged ==
    \A s \in Sources, u \in Units :
        content[s][u] > 0 ~> \E j \in Job : j.unit = u /\ Holds(j, s)

-----------------------------------------------------------------------------
(***************************************************************************)
(* The inductive strengthening behind the invariants.                      *)
(***************************************************************************)

\* A process works under its own lock.
LockOwned == \A p \in Procs : InSession(p) => case_lock = p

\* A transaction is open only while its process commits a parsed source.
TxnInCommit ==
    \A p \in Procs : txn[p] # NoTxn =>
        Committing(p) /\ parsed[p][CurrentSource(p)] = "ok"

\* Units wait to be committed only after their parse, and are whole exactly
\* when their completion says so.
JobsDeclared ==
    \A p \in Procs, s \in Sources : \A x \in jobs[p][s] :
        x.batch.whole = marks_complete(x.completion)

Status(complete) == IF complete THEN "complete" ELSE "incomplete"

\* What the private copy of an open transaction holds after each statement.
CopyAfterStatements(p) ==
    LET t == txn[p]
        refused == ~t.complete /\ ingest_log[t.job] = "complete"
        kept    == t.rows = timeline[t.job] /\ t.marker = ingest_log[t.job]
    IN /\ t.batch.whole = t.complete
       /\ t.next = "delete" => kept /\ ~refused
       /\ t.next = "insert" => t.rows = <<>> /\ ~refused
       /\ t.next = "log"    => t.rows = <<t.batch>> /\ ~refused
       /\ t.next = "commit" =>
            \/ kept
            \/ t.rows = <<t.batch>> /\ t.marker = Status(t.complete) /\ ~refused

TxnCopy == \A p \in Procs : txn[p] # NoTxn => CopyAfterStatements(p)

IInv ==
    /\ TypeOK
    /\ LockOwned
    /\ TxnInCommit
    /\ JobsDeclared
    /\ TxnCopy
    /\ MarkerMatchesRows
    /\ SkipListSound

\* Every run is over several sources, so each is attributed to an id of its own
\* (not so for a source ingested alone: see the run of ingest_solo).
SeveralSources == \A list \in InputLists : Len(list) # 1

Registered(s) == evidence_sources[s] = s

\* The job of a source's unit: under the source's id, registered, and, unless
\* the source is unpacked, at the one place its artifact has.
Filed(job, s) ==
    /\ job.key = s
    /\ Registered(s)
    /\ s \notin Archives => job.place = UnitPlace(s, job.unit)

\* The lists of the runs in progress are lists the operator passed.
ListsPassed == \A p \in Procs : InSession(p) => inputs[p] \in InputLists

\* A run has registered the sources it has passed, before it parses any.
SetupRegisters ==
    \A p \in Procs :
        /\ pc[p] = "idle" => pos[p] = 1
        /\ \A i \in DOMAIN inputs[p] :
             pc[p] \in {"parse", "commit"} \/ (pc[p] = "setup" /\ i < pos[p])
                 => Registered(inputs[p][i])

\* Rows are filed under the source they came from all the way: parsed, in an
\* open transaction, committed.
JobsFiled ==
    \A p \in Procs, s \in Sources : \A x \in jobs[p][s] :
        x.batch.src = s /\ Filed(x.job, s)

TxnFiled == \A p \in Procs : txn[p] # NoTxn => Filed(txn[p].job, txn[p].batch.src)

RowsFiled == \A j \in Job, s \in Sources : Holds(j, s) => Filed(j, s)

Filing == ListsPassed /\ SetupRegisters /\ JobsFiled /\ TxnFiled /\ RowsFiled
=============================================================================
