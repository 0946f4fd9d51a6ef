------------------------------ MODULE FrontDoor ------------------------------
(***************************************************************************)
(* `issen <evidence...>` (issen-cli, pipeline.rs and                       *)
(* commands/pipeline_run.rs): one re-entrant command that brings a case up *)
(* to date.  It plans which stages to run from the `pipeline_state` table  *)
(* and the fingerprints of their inputs, and marks a stage incomplete      *)
(* before it runs and done after.                                          *)
(*                                                                         *)
(* The stages' work is abstracted to what it was computed from.  The       *)
(* command may die, or a statement or a stage fail, anywhere; the operator *)
(* may change the evidence passed and the program's rules between two      *)
(* commands on the same case (-o).                                         *)
(*                                                                         *)
(* A definition named X_Fault is a faulty form of the X that follows it.   *)
(***************************************************************************)
EXTENDS Naturals, FiniteSets

CONSTANTS
    EvidenceSets,  \* kinds of evidence the operator passes together
    Reruns,        \* whether he passes --rerun: a set of BOOLEANs
    NoRow,         \* the stage has no row in pipeline_state
    Nothing,       \* no finished result
    Zipped,        \* the dumps are passed inside an archive
    MaxExtracted,  \* bound: how often such an archive is unpacked
    Changing,      \* bound: the inputs that change in this instance
    MaxVersion,    \* bound: how many versions an input goes through
    MaxFaults      \* bound: runs that die or fail

Kinds  == {"disk", "dumps", "collection"}
Inputs == Kinds \cup {"rules"}
Stages == {"ingest", "memory", "correlate", "scan"}

ASSUME FrontDoorConstants ==
    /\ EvidenceSets \subseteq SUBSET Kinds \ {{}}
    /\ Reruns \subseteq BOOLEAN
    /\ Zipped \in BOOLEAN
    /\ MaxExtracted \in Nat
    /\ Changing \subseteq Inputs
    /\ MaxVersion \in Nat \ {0}
    /\ MaxFaults \in Nat

\* A version of a kind of evidence is the set of files passed: images or dumps
\* are added or taken away, so versions differ in their (path, size) lists.
Versions == 1 .. MaxVersion

\* The last load of a kind of evidence into the timeline, which may have been
\* cut short.
Load == [ver : 0 .. MaxVersion, ended : BOOLEAN]

\* What a stage's fingerprint is taken from: a version of its input and, for
\* dumps, the directory they lie in: 0 the operator's own, else one of the
\* temporary directories archives are unpacked to.
Fingerprint == [ver : Versions, dir : 0 .. MaxExtracted]

Row   == [status : {"incomplete", "done"}, fingerprint : Fingerprint]
Basis == [timeline : [Kinds -> Load], rules : Versions]

ASSUME NoRowIsNew   == NoRow \notin Row
ASSUME NothingIsNew == Nothing \notin Basis

VARIABLES
    world,           \* current version of every input
    timeline,        \* what is loaded of each kind of evidence
    derived,         \* what the newest results of correlate and scan came from
    pipeline_state,  \* row of each stage
    ingest_lock,     \* <case>.ingest.lock is there
    pc,              \* where the command is
    evidence,        \* kinds of evidence it was given
    rerun,           \* its --rerun flag
    extracted,       \* temporary directories used for dumps so far
    current_fp,      \* fingerprint of each applicable stage, else NotApplicable
    todo,            \* stages still to run
    ran,             \* report.ran
    skipped,         \* report.skipped
    faults

caseVars == <<timeline, derived, pipeline_state, ingest_lock>>
runVars  == <<evidence, rerun, current_fp>>
report   == <<ran, skipped>>
vars     == <<world, extracted, caseVars, pc, runVars, todo, report, faults>>

NotApplicable == [ver |-> 0, dir |-> 0]

Results == {"correlate", "scan"}

\* The case's rows and results, and the command's progress and plans.
TypeOK ==
    /\ world \in [Inputs -> Versions]
    /\ timeline \in [Kinds -> Load]
    /\ derived \in [Results -> Basis \cup {Nothing}]
    /\ pipeline_state \in [Stages -> Row \cup {NoRow}]
    /\ ingest_lock \in BOOLEAN
    /\ pc \in {"idle", "collect", "collecting", "load", "mark", "marking",
               "begin", "execute", "close", "closing", "report"}
    /\ evidence \in SUBSET Kinds
    /\ rerun \in BOOLEAN
    /\ extracted \in 0 .. MaxExtracted
    /\ current_fp \in [Stages -> Fingerprint \cup {NotApplicable}]
    /\ todo \in SUBSET Stages
    /\ ran \in SUBSET Stages
    /\ skipped \in SUBSET Stages
    /\ faults \in 0 .. MaxFaults

NoStages == [s \in Stages |-> NotApplicable]

Init ==
    /\ world = [i \in Inputs |-> 1]
    /\ timeline = [k \in Kinds |-> [ver |-> 0, ended |-> FALSE]]
    /\ derived = [s \in Results |-> Nothing]
    /\ pipeline_state = [s \in Stages |-> NoRow]
    /\ ingest_lock = FALSE
    /\ pc = "idle"
    /\ evidence = {}
    /\ rerun = FALSE
    /\ extracted = 0
    /\ current_fp = NoStages
    /\ todo = {}
    /\ ran = {}
    /\ skipped = {}
    /\ faults = 0

(***************************************************************************)
(* The plan.                                                               *)
(***************************************************************************)

ORDER_ScanBeforeMemory ==
    [ingest |-> 1, correlate |-> 2, scan |-> 3, memory |-> 4]

\* Stage::ORDER, as the position of each stage.
ORDER == [ingest |-> 1, memory |-> 2, correlate |-> 3, scan |-> 4]

deps_DiskOnly(stage) == IF stage \in Results THEN {"ingest"} ELSE {}

deps(stage) == IF stage \in Results THEN {"ingest", "memory"} ELSE {}

\* The leg of the timeline a stage loads.
LegOf(stage) == IF stage = "ingest" THEN "disk" ELSE "dumps"

\* The input a stage's fingerprint is taken from.  The scan's also
\* covers a feed snapshot, which is the constant "v0".
Fingerprinted(stage) == IF stage \in Results THEN "rules" ELSE LegOf(stage)

applicable_stages(given) ==
    {s \in Stages : IF s = "memory" THEN "dumps" \in given ELSE "disk" \in given}

Fingerprints(given, dump_dir) ==
    [s \in Stages |->
        IF s \in applicable_stages(given)
        THEN [ver |-> world[Fingerprinted(s)], dir |-> IF s = "memory" THEN dump_dir ELSE 0]
        ELSE NotApplicable]

UpToDate_AnyStatus(prior, fp, s) == prior[s] # NoRow /\ prior[s].fingerprint = fp[s]

\* No reason of the stage's own to run: neither missing, nor incomplete, nor
\* stale.
UpToDate(prior, fp, s) ==
    prior[s] # NoRow /\ prior[s].status = "done" /\ prior[s].fingerprint = fp[s]

\* The stages to run: those with a reason of their own, and those one of whose
\* upstream stages runs (which has a reason of its own: the legs depend on
\* nothing).
plan(prior, fp) ==
    LET applicable == {s \in Stages : fp[s] # NotApplicable}
        own == {s \in applicable : ~UpToDate(prior, fp, s)}
    IN own \cup {s \in applicable : deps(s) \cap own # {}}

resolve_actions(prior, fp) ==
    plan(IF rerun THEN [s \in Stages |-> NoRow] ELSE prior, fp)

(***************************************************************************)
(* The command.                                                            *)
(***************************************************************************)

Fault == faults < MaxFaults /\ faults' = faults + 1

\* The evidence is sorted by kind, dumps are taken out of their archive, and
\* the fingerprints are taken of the files found.
Start(given, fresh) ==
    /\ pc = "idle"
    /\ pc' = IF "collection" \in given THEN "collect" ELSE "load"
    /\ evidence' = given
    /\ rerun' = fresh
    /\ extracted' = IF Zipped /\ "dumps" \in given THEN extracted + 1 ELSE extracted
    /\ extracted' <= MaxExtracted
    /\ current_fp' = Fingerprints(given, extracted')
    /\ UNCHANGED <<world, caseVars, todo, report, faults>>

\* A kind of evidence is loaded unit by unit; what has been loaded of it is not
\* all there until the last one is.
BeginLoad(kind) ==
    timeline' = [timeline EXCEPT ![kind] = [ver |-> world[kind], ended |-> FALSE]]

\* Parsers that fail, and dumps that cannot be opened, are passed over, and the
\* load ends all the same.
EndLoad(kind) == timeline' = [timeline EXCEPT ![kind].ended = TRUE]

\* The collection leg: before the stages, on every run, with no row of its own.
BeginCollection ==
    /\ pc = "collect"
    /\ BeginLoad("collection")
    /\ pc' = "collecting"
    /\ UNCHANGED <<world, extracted, derived, pipeline_state, ingest_lock, runVars, todo, report, faults>>

EndCollection ==
    /\ pc = "collecting"
    /\ EndLoad("collection")
    /\ pc' = IF applicable_stages(evidence) = {} THEN "report" ELSE "load"
    /\ UNCHANGED <<world, extracted, derived, pipeline_state, ingest_lock, runVars, todo, report, faults>>

\* The rows are read once, before any stage.
LoadPrior ==
    /\ pc = "load"
    /\ LET run == resolve_actions(pipeline_state, current_fp)
       IN /\ todo' = run
          /\ skipped' = applicable_stages(evidence) \ run
          /\ pc' = IF run = {} THEN "report" ELSE "mark"
    /\ UNCHANGED <<world, extracted, caseVars, runVars, ran, faults>>

\* The stage the loop is at.
AtStage(s) == s \in todo /\ \A t \in todo : ORDER[s] <= ORDER[t]

\* record_stage_state is a DELETE and an INSERT, each its own transaction.
DeleteRow(s) ==
    /\ AtStage(s)
    /\ \/ pc = "mark" /\ pc' = "marking"
       \/ pc = "close" /\ pc' = "closing"
    /\ pipeline_state' = [pipeline_state EXCEPT ![s] = NoRow]
    /\ UNCHANGED <<world, extracted, timeline, derived, ingest_lock, runVars, todo, report, faults>>

InsertIncomplete_Done(s) ==
    /\ AtStage(s)
    /\ pc = "marking"
    /\ pc' = "begin"
    /\ pipeline_state' = [pipeline_state EXCEPT ![s] =
                            [status |-> "done", fingerprint |-> current_fp[s]]]
    /\ UNCHANGED <<world, extracted, timeline, derived, ingest_lock, runVars, todo, report, faults>>

InsertIncomplete(s) ==
    /\ AtStage(s)
    /\ pc = "marking"
    /\ pc' = "begin"
    /\ pipeline_state' = [pipeline_state EXCEPT ![s] =
                            [status |-> "incomplete", fingerprint |-> current_fp[s]]]
    /\ UNCHANGED <<world, extracted, timeline, derived, ingest_lock, runVars, todo, report, faults>>

\* A stage starts to write what it produces; ingest does so under the case
\* lock.
BeginStage(s) ==
    /\ AtStage(s)
    /\ pc = "begin"
    /\ pc' = "execute"
    /\ s = "ingest" => ~ingest_lock
    /\ ingest_lock' = (s = "ingest" \/ ingest_lock)
    /\ IF s \in Results
       THEN derived' = [derived EXCEPT ![s] = Nothing] /\ UNCHANGED timeline
       ELSE BeginLoad(LegOf(s)) /\ UNCHANGED derived
    /\ UNCHANGED <<world, extracted, pipeline_state, runVars, todo, report, faults>>

EndStage(s) ==
    /\ AtStage(s)
    /\ pc = "execute"
    /\ pc' = "close"
    /\ ingest_lock' = (s # "ingest" /\ ingest_lock)
    /\ IF s \in Results
       THEN /\ derived' = [derived EXCEPT ![s] = [timeline |-> timeline,
                                                  rules    |-> world["rules"]]]
            /\ UNCHANGED timeline
       ELSE EndLoad(LegOf(s)) /\ UNCHANGED derived
    /\ UNCHANGED <<world, extracted, pipeline_state, runVars, todo, report, faults>>

InsertDone(s) ==
    /\ AtStage(s)
    /\ pc = "closing"
    /\ pipeline_state' = [pipeline_state EXCEPT ![s] =
                            [status |-> "done", fingerprint |-> current_fp[s]]]
    /\ ran' = ran \cup {s}
    /\ todo' = todo \ {s}
    /\ pc' = IF todo = {s} THEN "report" ELSE "mark"
    /\ UNCHANGED <<world, extracted, timeline, derived, ingest_lock, runVars, skipped, faults>>

Forget ==
    /\ pc' = "idle"
    /\ evidence' = {}
    /\ rerun' = FALSE
    /\ current_fp' = NoStages
    /\ todo' = {}
    /\ ran' = {}
    /\ skipped' = {}

FinishRun ==
    /\ pc = "report"
    /\ Forget
    /\ UNCHANGED <<world, extracted, caseVars, faults>>

IngestHoldsLock == pc = "execute" /\ AtStage("ingest")

\* A statement or a stage fails and `run_bare` returns the error.
Fail ==
    /\ pc \notin {"idle", "report"}
    /\ Fault
    /\ Forget
    /\ ingest_lock' = (ingest_lock /\ ~IngestHoldsLock)
    /\ UNCHANGED <<world, extracted, timeline, derived, pipeline_state>>

\* The process dies: the lock file stays.
Crash ==
    /\ pc \notin {"idle", "report"}
    /\ Fault
    /\ Forget
    /\ UNCHANGED <<world, extracted, caseVars>>

\* Ingest finds a lock file and fails.
IngestRefused ==
    /\ pc = "begin"
    /\ AtStage("ingest")
    /\ ingest_lock
    /\ Forget
    /\ UNCHANGED <<world, extracted, caseVars, faults>>

\* The operator deletes the lock file of a process that is gone.
ClearStaleLock ==
    /\ pc = "idle"
    /\ ingest_lock
    /\ ingest_lock' = FALSE
    /\ UNCHANGED <<world, extracted, timeline, derived, pipeline_state, pc, runVars, todo, report, faults>>

\* Between two commands the operator passes other evidence or installs a
\* version with other rules.
ChangeInput(i) ==
    /\ pc = "idle"
    /\ world[i] < MaxVersion
    /\ world' = [world EXCEPT ![i] = @ + 1]
    /\ UNCHANGED <<extracted, caseVars, pc, runVars, todo, report, faults>>

Progress ==
    \/ BeginCollection
    \/ EndCollection
    \/ LoadPrior
    \/ \E s \in Stages : \/ DeleteRow(s) \/ InsertIncomplete(s) \/ BeginStage(s)
                         \/ EndStage(s) \/ InsertDone(s)
    \/ IngestRefused
    \/ FinishRun

AnyStart == \E given \in EvidenceSets, fresh \in Reruns : Start(given, fresh)

Next ==
    \/ AnyStart
    \/ Progress
    \/ Fail
    \/ Crash
    \/ ClearStaleLock
    \/ \E i \in Changing : ChangeInput(i)

Spec == Init /\ [][Next]_vars

\* A command keeps going, and the operator, who changes inputs only finitely
\* often, re-runs it again and again on all the evidence of the case and deletes
\* a stale lock.
FairSpec ==
    /\ Spec
    /\ WF_vars(Progress)
    /\ SF_vars(Start(UNION EvidenceSets, FALSE))
    /\ SF_vars(ClearStaleLock)
-----------------------------------------------------------------------------
(***************************************************************************)
(* Correctness.                                                            *)
(***************************************************************************)

\* What a stage produces is there, for inputs of the fingerprint fp.
Finished(s, fp) ==
    IF s \in Results
    THEN derived[s] # Nothing /\ derived[s].rules = fp.ver
    ELSE timeline[LegOf(s)].ver = fp.ver /\ timeline[LegOf(s)].ended

\* A stage whose row says done has finished, on inputs of the row's
\* fingerprint: no crash, between whatever statements, makes a later run skip a
\* stage that was cut short.
DoneIsFinished ==
    \A s \in Stages :
        pipeline_state[s] # NoRow /\ pipeline_state[s].status = "done" =>
            Finished(s, pipeline_state[s].fingerprint)

\* Correlate and scan run over the combined timeline: when one writes its
\* results, every leg of the run has ended on the evidence passed.
LegsFirst ==
    \A s \in Results : AtStage(s) /\ pc = "execute" =>
        \A leg \in deps(s) : current_fp[leg] # NotApplicable =>
            /\ timeline[LegOf(leg)].ver = world[LegOf(leg)]
            /\ timeline[LegOf(leg)].ended

\* A run that loaded disk evidence or dumps and reaches its report leaves
\* results computed from all that the timeline now holds.
FreshAfterLegs ==
    pc = "report" /\ ran \cap {"ingest", "memory"} # {} /\ "disk" \in evidence =>
        \A s \in Results : derived[s] # Nothing /\ derived[s].timeline = timeline

\* Every stage of the case is recorded done on the present inputs.
Current ==
    \A s \in applicable_stages(UNION EvidenceSets) :
        /\ pipeline_state[s] # NoRow
        /\ pipeline_state[s].status = "done"
        /\ pipeline_state[s].fingerprint.ver = world[Fingerprinted(s)]

\* Re-running the command brings the case up to date, whatever stopped it
\* before (the front-door spec: "bring this case up to date").
Converges == []<>(pc = "report" /\ Current)

\* "Interrupted after ingest -> next run resumes at correlate": results a run
\* passes over as up to date were computed from the timeline as it is.
SkippedIsFresh ==
    pc = "report" =>
        \A s \in skipped \cap Results :
            derived[s] # Nothing /\ derived[s].timeline = timeline
-----------------------------------------------------------------------------
(***************************************************************************)
(* The inductive strengthening behind DoneIsFinished.                      *)
(***************************************************************************)

\* The fingerprints of a run are those of the inputs, which do not change
\* before it ends.
FingerprintsHold ==
    /\ pc = "idle" => current_fp = NoStages /\ todo = {}
    /\ \A s \in Stages : current_fp[s] # NotApplicable =>
                            current_fp[s].ver = world[Fingerprinted(s)]
    /\ todo \subseteq {s \in Stages : current_fp[s] # NotApplicable}

\* The stage in flight is not recorded done until it has finished.
InFlight ==
    \A s \in Stages : AtStage(s) =>
        /\ pc \in {"begin", "execute", "close"} =>
              pipeline_state[s] = [status |-> "incomplete", fingerprint |-> current_fp[s]]
        /\ pc \in {"marking", "closing"} => pipeline_state[s] = NoRow
        /\ pc = "execute" /\ s \notin Results => timeline[LegOf(s)].ver = current_fp[s].ver
        /\ pc \in {"close", "closing"} => Finished(s, current_fp[s])

IInv ==
    /\ TypeOK
    /\ FingerprintsHold
    /\ InFlight
    /\ DoneIsFinished

(***************************************************************************)
(* And behind LegsFirst and FreshAfterLegs.                                *)
(***************************************************************************)

Legs == Stages \ Results

\* The plan is made.
Planned == pc \in {"mark", "marking", "begin", "execute", "close", "closing", "report"}

\* The stages with a fingerprint are those that apply to the evidence.
FingerprintsApply ==
    pc # "idle" => {s \in Stages : current_fp[s] # NotApplicable} = applicable_stages(evidence)

\* A leg that is not, or no longer, to be run has ended on the evidence passed.
LegsEnded ==
    Planned => \A leg \in Legs :
        current_fp[leg] # NotApplicable /\ leg \notin todo => Finished(leg, current_fp[leg])

\* A run that has planned a leg has planned the results too, for after it.
ResultsFollow ==
    /\ ~Planned => todo = {} /\ ran = {}
    /\ todo \cap ran = {}
    /\ (todo \cup ran) \cap Legs # {} =>
          applicable_stages(evidence) \cap Results \subseteq todo \cup ran
    /\ ran \cap Results # {} => todo \cap Legs = {}
    /\ pc = "report" => todo = {}

FromTimeline(s) == derived[s] # Nothing /\ derived[s].timeline = timeline

\* The results a run has written are those of the timeline as it is.
ResultsFresh ==
    \A s \in Results :
        s \in ran \/ (AtStage(s) /\ pc \in {"close", "closing"}) => FromTimeline(s)

LInv ==
    /\ IInv
    /\ FingerprintsApply
    /\ LegsEnded
    /\ ResultsFollow
    /\ ResultsFresh
=============================================================================
