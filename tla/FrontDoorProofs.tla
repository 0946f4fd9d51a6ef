--------------------------- MODULE FrontDoorProofs ---------------------------
(***************************************************************************)
(* Theorems about FrontDoor, for every choice of evidence lists and every  *)
(* bound.                                                                  *)
(***************************************************************************)
EXTENDS FrontDoor, TLAPS

USE FrontDoorConstants, NoRowIsNew, NothingIsNew

\* The loop is at one stage at a time.
LEMMA OneStage ==
  ASSUME NEW s \in Stages, NEW t \in Stages, AtStage(s), AtStage(t)
  PROVE  s = t
BY DEF AtStage, ORDER, Stages

\* Every stage reads an input, and the legs load different kinds of evidence.
LEMMA InputOf ==
  /\ \A s \in Stages : Fingerprinted(s) \in Inputs
  /\ \A s \in Stages \ Results : LegOf(s) \in Kinds /\ Fingerprinted(s) = LegOf(s)
  /\ \A s, t \in Stages \ Results : LegOf(s) = LegOf(t) => s = t
  /\ Kinds \subseteq Inputs
BY DEF Fingerprinted, LegOf, Stages, Results, Inputs, Kinds

\* What is planned is among the stages that apply to the evidence.
LEMMA PlanTypes ==
  /\ resolve_actions(pipeline_state, current_fp) \subseteq {s \in Stages : current_fp[s] # NotApplicable}
BY DEF resolve_actions, plan

\* A load that begins leaves the timeline well typed.
LEMMA BeginLoadType ==
  ASSUME TypeOK, NEW kind \in Kinds, BeginLoad(kind)
  PROVE  timeline' \in [Kinds -> Load]
<1>1. world[kind] \in 0 .. MaxVersion
  BY InputOf DEF TypeOK, Versions
<1>2. [ver |-> world[kind], ended |-> FALSE] \in Load
  BY <1>1 DEF Load
<1>. QED
  BY <1>2 DEF TypeOK, BeginLoad

\* A load that ends is marked so, keeps its version, and touches no other kind.
LEMMA EndLoadType ==
  ASSUME TypeOK, NEW kind \in Kinds, EndLoad(kind)
  PROVE  /\ timeline' \in [Kinds -> Load]
         /\ timeline'[kind].ver = timeline[kind].ver
         /\ timeline'[kind].ended
         /\ \A k \in Kinds \ {kind} : timeline'[k] = timeline[k]
<1>1. timeline[kind] \in Load
  BY DEF TypeOK
<1> DEFINE new == [timeline[kind] EXCEPT !.ended = TRUE]
<1>2. new \in Load /\ new.ver = timeline[kind].ver /\ new.ended
  BY <1>1 DEF Load
<1>3. timeline' = [timeline EXCEPT ![kind] = new]
  BY DEF EndLoad
<1> HIDE DEF new
<1>. QED
  BY <1>2, <1>3 DEF TypeOK

\* Every step keeps the types.
LEMMA NextTypes == TypeOK /\ FingerprintsHold /\ [Next]_vars => TypeOK'
<1> SUFFICES ASSUME TypeOK, FingerprintsHold, [Next]_vars PROVE TypeOK'
  OBVIOUS
<1> USE DEF caseVars, runVars, report
<1>1. CASE AnyStart
  <2>1. PICK given \in EvidenceSets, fresh \in Reruns : Start(given, fresh)
    BY <1>1 DEF AnyStart
  <2>2. given \in SUBSET Kinds /\ fresh \in BOOLEAN
    OBVIOUS
  <2>3. extracted' \in 0 .. MaxExtracted
    BY <2>1 DEF Start, TypeOK
  <2>4. current_fp' \in [Stages -> Fingerprint \cup {NotApplicable}]
    <3>1. \A s \in Stages : world[Fingerprinted(s)] \in Versions
      BY InputOf DEF TypeOK
    <3>2. \A v \in Versions, d \in 0 .. MaxExtracted : [ver |-> v, dir |-> d] \in Fingerprint
      BY DEF Fingerprint
    <3>3. current_fp' = Fingerprints(given, extracted')
      BY <2>1 DEF Start
    <3>. QED
      BY <2>3, <3>1, <3>2, <3>3 DEF Fingerprints
  <2>. QED
    BY <2>1, <2>2, <2>3, <2>4 DEF Start, TypeOK
<1>2. CASE BeginCollection
  <2>1. timeline' \in [Kinds -> Load]
    BY <1>2, BeginLoadType DEF BeginCollection, Kinds
  <2>. QED
    BY <1>2, <2>1 DEF BeginCollection, TypeOK
<1>3. CASE EndCollection
  <2>1. timeline' \in [Kinds -> Load]
    BY <1>3, EndLoadType DEF EndCollection, Kinds
  <2>. QED
    BY <1>3, <2>1 DEF EndCollection, TypeOK
<1>4. CASE LoadPrior
  <2>1. todo' \in SUBSET Stages /\ skipped' \in SUBSET Stages
    BY <1>4, PlanTypes DEF LoadPrior, applicable_stages
  <2>. QED
    BY <1>4, <2>1 DEF LoadPrior, TypeOK
<1>5. ASSUME NEW s \in Stages, DeleteRow(s) PROVE TypeOK'
  BY <1>5 DEF DeleteRow, TypeOK
<1>6. ASSUME NEW s \in Stages, InsertIncomplete(s) \/ InsertDone(s) PROVE TypeOK'
  <2>1. current_fp[s] \in Fingerprint
    <3>1. current_fp[s] # NotApplicable
      BY <1>6 DEF InsertIncomplete, InsertDone, AtStage, FingerprintsHold
    <3>. QED
      BY <3>1 DEF TypeOK
  <2>2. \A st \in {"incomplete", "done"} : [status |-> st, fingerprint |-> current_fp[s]] \in Row
    BY <2>1 DEF Row
  <2>3. pipeline_state' \in [Stages -> Row \cup {NoRow}]
    BY <1>6, <2>2 DEF InsertIncomplete, InsertDone, TypeOK
  <2>. QED
    BY <1>6, <2>3 DEF InsertIncomplete, InsertDone, TypeOK
<1>7. ASSUME NEW s \in Stages, BeginStage(s) PROVE TypeOK'
  <2>1. CASE s \in Results
    BY <1>7, <2>1 DEF BeginStage, TypeOK
  <2>2. CASE s \notin Results
    <3>1. timeline' \in [Kinds -> Load]
      BY <1>7, <2>2, InputOf, BeginLoadType DEF BeginStage
    <3>. QED
      BY <1>7, <2>2, <3>1 DEF BeginStage, TypeOK
  <2>. QED
    BY <2>1, <2>2
<1>8. ASSUME NEW s \in Stages, EndStage(s) PROVE TypeOK'
  <2>1. CASE s \in Results
    <3>1. [timeline |-> timeline, rules |-> world["rules"]] \in Basis
      BY DEF TypeOK, Basis, Inputs
    <3>2. derived' \in [Results -> Basis \cup {Nothing}]
      BY <1>8, <2>1, <3>1 DEF EndStage, TypeOK
    <3>. QED
      BY <1>8, <2>1, <3>2 DEF EndStage, TypeOK
  <2>2. CASE s \notin Results
    <3>1. timeline' \in [Kinds -> Load]
      BY <1>8, <2>2, InputOf, EndLoadType DEF EndStage
    <3>. QED
      BY <1>8, <2>2, <3>1 DEF EndStage, TypeOK
  <2>. QED
    BY <2>1, <2>2
<1>9. CASE FinishRun \/ Fail \/ Crash \/ IngestRefused \/ ClearStaleLock
  <2>1. NoStages \in [Stages -> Fingerprint \cup {NotApplicable}]
    BY DEF NoStages
  <2>2. faults' \in 0 .. MaxFaults
    BY <1>9 DEF FinishRun, Fail, Crash, IngestRefused, ClearStaleLock, Fault, TypeOK
  <2>. QED
    BY <1>9, <2>1, <2>2 DEF FinishRun, Fail, Crash, IngestRefused, ClearStaleLock, Forget, TypeOK
<1>10. ASSUME NEW i \in Changing, ChangeInput(i) PROVE TypeOK'
  BY <1>10 DEF ChangeInput, TypeOK, Versions
<1>11. CASE UNCHANGED vars
  BY <1>11 DEF vars, TypeOK
<1>. QED
  BY <1>1, <1>2, <1>3, <1>4, <1>5, <1>6, <1>7, <1>8, <1>9, <1>10, <1>11
  DEF Next, Progress

\* A run's fingerprints are those of the inputs while it lasts.
LEMMA FingerprintStep ==
  TypeOK /\ FingerprintsHold /\ [Next]_vars => FingerprintsHold'
<1> SUFFICES ASSUME TypeOK, FingerprintsHold, [Next]_vars PROVE FingerprintsHold'
  OBVIOUS
<1> USE DEF FingerprintsHold, caseVars, runVars, report
<1>1. CASE AnyStart
  <2>1. PICK given \in EvidenceSets, fresh \in Reruns : Start(given, fresh)
    BY <1>1 DEF AnyStart
  <2>. QED
    BY <2>1 DEF Start, Fingerprints
<1>2. CASE BeginCollection \/ EndCollection
  BY <1>2 DEF BeginCollection, EndCollection
<1>3. CASE LoadPrior
  BY <1>3, PlanTypes DEF LoadPrior
<1>4. ASSUME NEW s \in Stages,
             \/ DeleteRow(s) \/ InsertIncomplete(s) \/ BeginStage(s)
             \/ EndStage(s) \/ InsertDone(s)
      PROVE  FingerprintsHold'
  BY <1>4 DEF DeleteRow, InsertIncomplete, BeginStage, EndStage, InsertDone
<1>5. CASE FinishRun \/ Fail \/ Crash \/ IngestRefused \/ ClearStaleLock
  BY <1>5 DEF FinishRun, Fail, Crash, IngestRefused, ClearStaleLock, Forget, NoStages
<1>6. ASSUME NEW i \in Changing, ChangeInput(i) PROVE FingerprintsHold'
  BY <1>6 DEF ChangeInput, NoStages
<1>7. CASE UNCHANGED vars
  BY <1>7 DEF vars
<1>. QED
  BY <1>1, <1>2, <1>3, <1>4, <1>5, <1>6, <1>7 DEF Next, Progress

\* Work on one stage leaves the products of the others as they are.
LEMMA OthersFinished ==
  ASSUME TypeOK, NEW s \in Stages, BeginStage(s) \/ EndStage(s),
         NEW t \in Stages \ {s}, NEW fp, Finished(t, fp)
  PROVE  Finished(t, fp)'
<1>1. CASE s \in Results /\ t \in Results
  BY <1>1 DEF BeginStage, EndStage, Finished, TypeOK
<1>2. CASE s \notin Results /\ t \notin Results
  <2>1. LegOf(s) \in Kinds /\ LegOf(t) \in Kinds \ {LegOf(s)}
    BY <1>2, InputOf
  <2>2. timeline'[LegOf(t)] = timeline[LegOf(t)]
    <3>1. CASE BeginStage(s)
      BY <1>2, <2>1, <3>1 DEF BeginStage, BeginLoad, TypeOK
    <3>2. CASE EndStage(s)
      BY <1>2, <2>1, <3>2, EndLoadType DEF EndStage
    <3>. QED
      BY <3>1, <3>2
  <2>. QED
    BY <1>2, <2>2 DEF Finished
<1>3. CASE s \in Results /\ t \notin Results
  BY <1>3 DEF BeginStage, EndStage, Finished
<1>4. CASE s \notin Results /\ t \in Results
  BY <1>4 DEF BeginStage, EndStage, Finished
<1>. QED
  BY <1>1, <1>2, <1>3, <1>4

\* A stage that ends has finished, for the fingerprint of its run.
LEMMA StageFinishes ==
  ASSUME IInv, NEW s \in Stages, EndStage(s)
  PROVE  Finished(s, current_fp[s])'
<1>1. UNCHANGED current_fp /\ current_fp[s].ver = world[Fingerprinted(s)]
  BY DEF EndStage, AtStage, runVars, IInv, FingerprintsHold
<1>2. CASE s \in Results
  <2> DEFINE basis == [timeline |-> timeline, rules |-> world["rules"]]
  <2>1. basis \in Basis
    BY DEF IInv, TypeOK, Basis, Inputs
  <2>2. derived'[s] = basis /\ basis # Nothing
    BY <1>2, <2>1 DEF EndStage, IInv, TypeOK
  <2>3. basis.rules = current_fp[s].ver
    BY <1>1, <1>2 DEF Fingerprinted
  <2> HIDE DEF basis
  <2>. QED
    BY <1>1, <1>2, <2>2, <2>3 DEF Finished
<1>3. CASE s \notin Results
  <2>1. EndLoad(LegOf(s)) /\ LegOf(s) \in Kinds
    BY <1>3, InputOf DEF EndStage
  <2>2. timeline[LegOf(s)].ver = current_fp[s].ver
    BY <1>3 DEF EndStage, IInv, InFlight
  <2>. QED
    BY <1>1, <1>3, <2>1, <2>2, EndLoadType DEF Finished, IInv
<1>. QED
  BY <1>2, <1>3

\* The stage in flight keeps an incomplete row, or none, until it has finished.
LEMMA InFlightStep == IInv /\ [Next]_vars => InFlight'
<1> SUFFICES ASSUME IInv, [Next]_vars PROVE InFlight'
  OBVIOUS
<1> USE DEF IInv, caseVars, runVars, report
<1>1. CASE pc' \in {"idle", "collect", "collecting", "load", "mark", "report"}
  BY <1>1 DEF InFlight
<1>2. ASSUME NEW s \in Stages, DeleteRow(s) PROVE InFlight'
  <2>1. UNCHANGED <<timeline, derived, current_fp, todo>>
    BY <1>2 DEF DeleteRow
  <2>2. pipeline_state'[s] = NoRow
    BY <1>2 DEF DeleteRow, TypeOK
  <2>3. \A u \in Stages : AtStage(u)' => u = s
    BY <1>2, <2>1, OneStage DEF AtStage, DeleteRow
  <2>4. pc' = "closing" => Finished(s, current_fp[s])'
    BY <1>2, <2>1 DEF DeleteRow, InFlight, Finished
  <2>5. pc' \in {"marking", "closing"}
    BY <1>2 DEF DeleteRow
  <2>. QED
    BY <2>2, <2>3, <2>4, <2>5 DEF InFlight
<1>3. ASSUME NEW s \in Stages, InsertIncomplete(s) PROVE InFlight'
  <2>1. \A u \in Stages : AtStage(u)' => u = s
    BY <1>3, OneStage DEF AtStage, InsertIncomplete
  <2>2. /\ pc' = "begin" /\ UNCHANGED current_fp
        /\ pipeline_state'[s] = [status |-> "incomplete", fingerprint |-> current_fp[s]]
    BY <1>3 DEF InsertIncomplete, TypeOK
  <2>. QED
    BY <2>1, <2>2 DEF InFlight
<1>4. ASSUME NEW s \in Stages, BeginStage(s) PROVE InFlight'
  <2>1. \A u \in Stages : AtStage(u)' => u = s
    BY <1>4, OneStage DEF AtStage, BeginStage
  <2>2. /\ pc' = "execute" /\ UNCHANGED <<current_fp, pipeline_state>>
        /\ pipeline_state[s] = [status |-> "incomplete", fingerprint |-> current_fp[s]]
    BY <1>4 DEF BeginStage, InFlight
  <2>3. current_fp[s].ver = world[Fingerprinted(s)]
    BY <1>4 DEF BeginStage, AtStage, FingerprintsHold
  <2>4. s \notin Results => timeline'[LegOf(s)].ver = current_fp[s].ver
    BY <1>4, <2>3, InputOf DEF BeginStage, BeginLoad, TypeOK
  <2>. QED
    BY <2>1, <2>2, <2>4 DEF InFlight
<1>5. ASSUME NEW s \in Stages, EndStage(s) PROVE InFlight'
  <2>1. \A u \in Stages : AtStage(u)' => u = s
    BY <1>5, OneStage DEF AtStage, EndStage
  <2>2. /\ pc' = "close" /\ UNCHANGED <<current_fp, pipeline_state>>
        /\ pipeline_state[s] = [status |-> "incomplete", fingerprint |-> current_fp[s]]
    BY <1>5 DEF EndStage, InFlight
  <2>3. Finished(s, current_fp[s])'
    BY <1>5, StageFinishes
  <2>. QED
    BY <2>1, <2>2, <2>3 DEF InFlight
<1>6. CASE UNCHANGED vars
  BY <1>6 DEF vars, InFlight, AtStage, Finished
<1>7. CASE AnyStart \/ BeginCollection \/ EndCollection \/ LoadPrior \/ FinishRun \/ Fail \/ Crash \/ IngestRefused \/ ClearStaleLock
           \/ (\E i \in Changing : ChangeInput(i)) \/ (\E s \in Stages : InsertDone(s))
  BY <1>1, <1>7 DEF AnyStart, Start, BeginCollection, EndCollection, LoadPrior, FinishRun,
                    Fail, Crash, IngestRefused, ClearStaleLock, Forget, ChangeInput, InsertDone
<1>. QED
  BY <1>2, <1>3, <1>4, <1>5, <1>6, <1>7 DEF Next, Progress

\* A row that says done goes on saying the truth, and a new one does.
LEMMA DoneStep == IInv /\ [Next]_vars => DoneIsFinished'
<1> SUFFICES ASSUME IInv, [Next]_vars PROVE DoneIsFinished'
  OBVIOUS
<1> USE DEF IInv, caseVars, runVars, report
<1> DEFINE Done(t) == pipeline_state[t] # NoRow /\ pipeline_state[t].status = "done"
<1>1. CASE UNCHANGED <<derived, pipeline_state>>
           /\ \A k \in {"disk", "dumps"} : timeline'[k] = timeline[k]
  BY <1>1 DEF DoneIsFinished, Finished, LegOf
<1>2. CASE BeginCollection \/ EndCollection
  <2>1. \A k \in {"disk", "dumps"} : timeline'[k] = timeline[k]
    <3>1. CASE BeginCollection
      BY <3>1 DEF BeginCollection, BeginLoad, TypeOK, Kinds
    <3>2. CASE EndCollection
      BY <3>2, EndLoadType DEF EndCollection, Kinds
    <3>. QED
      BY <1>2, <3>1, <3>2
  <2>. QED
    BY <1>1, <1>2, <2>1 DEF BeginCollection, EndCollection
<1>3. ASSUME NEW s \in Stages, DeleteRow(s) PROVE DoneIsFinished'
  BY <1>3 DEF DeleteRow, DoneIsFinished, Finished, TypeOK
<1>4. ASSUME NEW s \in Stages, InsertIncomplete(s) PROVE DoneIsFinished'
  <2> DEFINE row == [status |-> "incomplete", fingerprint |-> current_fp[s]]
  <2>1. row.status # "done"
    OBVIOUS
  <2>2. /\ pipeline_state' = [pipeline_state EXCEPT ![s] = row]
        /\ UNCHANGED <<timeline, derived>>
    BY <1>4 DEF InsertIncomplete
  <2> HIDE DEF row
  <2>. QED
    BY <2>1, <2>2 DEF DoneIsFinished, Finished, TypeOK
<1>5. ASSUME NEW s \in Stages, BeginStage(s) \/ EndStage(s) PROVE DoneIsFinished'
  <2>1. UNCHANGED pipeline_state /\ ~Done(s)
    <3>1. pc \in {"begin", "execute"} /\ AtStage(s) /\ UNCHANGED pipeline_state
      BY <1>5 DEF BeginStage, EndStage
    <3>2. pipeline_state[s] = [status |-> "incomplete", fingerprint |-> current_fp[s]]
      BY <3>1 DEF InFlight
    <3>3. pipeline_state[s].status = "incomplete"
      BY <3>2
    <3>. QED
      BY <3>1, <3>3
  <2>2. \A t \in Stages \ {s} : Done(t) => Finished(t, pipeline_state[t].fingerprint)'
    <3> SUFFICES ASSUME NEW t \in Stages \ {s}, Done(t)
                 PROVE  Finished(t, pipeline_state[t].fingerprint)'
      OBVIOUS
    <3>1. Finished(t, pipeline_state[t].fingerprint)
      BY DEF DoneIsFinished
    <3>. QED
      BY <1>5, <2>1, <3>1, OthersFinished
  <2>. QED
    BY <2>1, <2>2 DEF DoneIsFinished
<1>6. ASSUME NEW s \in Stages, InsertDone(s) PROVE DoneIsFinished'
  <2> DEFINE row == [status |-> "done", fingerprint |-> current_fp[s]]
  <2>1. Finished(s, row.fingerprint)
    BY <1>6 DEF InsertDone, InFlight
  <2>2. /\ pipeline_state' = [pipeline_state EXCEPT ![s] = row]
        /\ UNCHANGED <<timeline, derived>>
    BY <1>6 DEF InsertDone
  <2> HIDE DEF row
  <2>. QED
    BY <2>1, <2>2 DEF DoneIsFinished, Finished, TypeOK
<1>7. CASE AnyStart \/ LoadPrior \/ FinishRun \/ Fail \/ Crash \/ IngestRefused \/ ClearStaleLock
           \/ \E i \in Changing : ChangeInput(i)
  BY <1>1, <1>7 DEF AnyStart, Start, LoadPrior, FinishRun, Fail, Crash, IngestRefused,
                    ClearStaleLock, ChangeInput
<1>8. CASE UNCHANGED vars
  BY <1>1, <1>8 DEF vars
<1>. QED
  BY <1>2, <1>3, <1>4, <1>5, <1>6, <1>7, <1>8 DEF Next, Progress

\* A new case satisfies the inductive invariant.
LEMMA InitInvariant == Init => IInv
<1> SUFFICES ASSUME Init PROVE IInv
  OBVIOUS
<1>1. [ver |-> 0, ended |-> FALSE] \in Load
  BY DEF Load
<1>2. NoStages \in [Stages -> Fingerprint \cup {NotApplicable}] /\ 1 \in Versions
  BY DEF NoStages, Versions
<1>3. TypeOK
  <2>1. world \in [Inputs -> Versions] /\ timeline \in [Kinds -> Load]
    BY <1>1, <1>2 DEF Init
  <2>2. /\ derived \in [Results -> Basis \cup {Nothing}]
        /\ pipeline_state \in [Stages -> Row \cup {NoRow}]
    BY DEF Init
  <2>3. current_fp \in [Stages -> Fingerprint \cup {NotApplicable}]
    BY <1>2 DEF Init
  <2>4. faults \in 0 .. MaxFaults /\ extracted \in 0 .. MaxExtracted
    BY DEF Init
  <2>5. /\ evidence \in SUBSET Kinds /\ rerun \in BOOLEAN
        /\ todo \in SUBSET Stages /\ ran \in SUBSET Stages /\ skipped \in SUBSET Stages
    BY Zenon DEF Init
  <2>. QED
    BY <2>1, <2>2, <2>3, <2>4, <2>5 DEF Init, TypeOK
<1>4. FingerprintsHold
  BY DEF Init, FingerprintsHold, NoStages
<1>5. InFlight
  BY DEF Init, InFlight, AtStage
<1>6. DoneIsFinished
  BY DEF Init, DoneIsFinished
<1>. QED
  BY <1>3, <1>4, <1>5, <1>6 DEF IInv

\* The inductive invariant holds in every state.
LEMMA Invariant == Spec => []IInv
<1>1. IInv /\ [Next]_vars => IInv'
  BY NextTypes, FingerprintStep, InFlightStep, DoneStep DEF IInv
<1>. QED
  BY <1>1, InitInvariant, PTL DEF Spec

\* TypeOK: the case's tables and the command's state keep their types.
THEOREM TypeCorrect == Spec => []TypeOK
<1>1. IInv => TypeOK
  BY DEF IInv
<1>. QED
  BY <1>1, Invariant, PTL

\* DoneIsFinished: a stage is never recorded done unless it finished on inputs
\* of the recorded fingerprint, wherever earlier runs stopped.
THEOREM DoneAlwaysFinished == Spec => []DoneIsFinished
<1>1. IInv => DoneIsFinished
  BY DEF IInv
<1>. QED
  BY <1>1, Invariant, PTL
-----------------------------------------------------------------------------
(***************************************************************************)
(* The order of the stages.                                                *)
(***************************************************************************)

\* The fingerprints of a run are of the stages its evidence calls for.
LEMMA ApplyStep == LInv /\ [Next]_vars => FingerprintsApply'
<1> SUFFICES ASSUME LInv, [Next]_vars PROVE FingerprintsApply'
  OBVIOUS
<1> USE DEF LInv, FingerprintsApply, applicable_stages, caseVars, runVars, report
<1>1. CASE AnyStart
  <2>1. PICK given \in EvidenceSets, fresh \in Reruns : Start(given, fresh)
    BY <1>1 DEF AnyStart
  <2>2. \A s \in Stages : world[Fingerprinted(s)] # 0
    BY InputOf DEF IInv, TypeOK, Versions
  <2>3. \A v, d : v # 0 => [ver |-> v, dir |-> d] # [ver |-> 0, dir |-> 0]
    OBVIOUS
  <2>4. \A s \in Stages : current_fp'[s] # NotApplicable <=> s \in applicable_stages(given)
    BY <2>1, <2>2, <2>3 DEF Start, Fingerprints, NotApplicable
  <2>. QED
    BY <2>1, <2>4 DEF Start
<1>2. CASE UNCHANGED <<current_fp, evidence>> /\ (pc' # "idle" => pc # "idle")
  BY <1>2
<1>3. CASE BeginCollection \/ EndCollection \/ LoadPrior \/ ClearStaleLock
  BY <1>2, <1>3 DEF BeginCollection, EndCollection, LoadPrior, ClearStaleLock
<1>4. ASSUME NEW s \in Stages,
             \/ DeleteRow(s) \/ InsertIncomplete(s) \/ BeginStage(s)
             \/ EndStage(s) \/ InsertDone(s)
      PROVE  FingerprintsApply'
  BY <1>2, <1>4 DEF DeleteRow, InsertIncomplete, BeginStage, EndStage, InsertDone
<1>5. CASE FinishRun \/ Fail \/ Crash \/ IngestRefused
  BY <1>5 DEF FinishRun, Fail, Crash, IngestRefused, Forget
<1>6. ASSUME NEW i \in Changing, ChangeInput(i) PROVE FingerprintsApply'
  BY <1>2, <1>6 DEF ChangeInput
<1>7. CASE UNCHANGED vars
  BY <1>2, <1>7 DEF vars
<1>. QED
  BY <1>1, <1>3, <1>4, <1>5, <1>6, <1>7 DEF Next, Progress

\* The results wait for both legs, and are done after them.
LEMMA LegsAndResults ==
  /\ Legs = {"ingest", "memory"}
  /\ Stages = Legs \cup Results /\ Legs \cap Results = {}
  /\ \A s \in Results : deps(s) = Legs
  /\ \A leg \in Legs : deps(leg) = {}
  /\ \A leg \in Legs, s \in Results : ORDER[leg] < ORDER[s] /\ ~(ORDER[s] <= ORDER[leg])
BY DEF Legs, Stages, Results, deps, ORDER

\* A leg the plan leaves out has ended on the evidence passed, and a plan with
\* a leg has every result that applies.
LEMMA PlanOrder ==
  ASSUME IInv, NEW run, run = resolve_actions(pipeline_state, current_fp)
  PROVE  /\ \A leg \in Legs : current_fp[leg] # NotApplicable /\ leg \notin run =>
               Finished(leg, current_fp[leg])
         /\ run \cap Legs # {} =>
               \A s \in Results : current_fp[s] # NotApplicable => s \in run
<1> DEFINE prior == IF rerun THEN [s \in Stages |-> NoRow] ELSE pipeline_state
           applicable == {s \in Stages : current_fp[s] # NotApplicable}
           own == {s \in applicable : ~UpToDate(prior, current_fp, s)}
<1>1. run = own \cup {s \in applicable : deps(s) \cap own # {}}
  BY DEF resolve_actions, plan
<1>2. own \subseteq applicable /\ applicable \subseteq Stages
  OBVIOUS
<1>3. ASSUME NEW leg \in Legs, current_fp[leg] # NotApplicable, leg \notin run
      PROVE  Finished(leg, current_fp[leg])
  <2>1. UpToDate(prior, current_fp, leg)
    BY <1>1, <1>3, LegsAndResults
  <2>2. ~rerun
    BY <2>1, LegsAndResults DEF UpToDate
  <2>3. /\ pipeline_state[leg] # NoRow /\ pipeline_state[leg].status = "done"
        /\ pipeline_state[leg].fingerprint = current_fp[leg]
    BY <2>1, <2>2 DEF UpToDate
  <2>4. Finished(leg, pipeline_state[leg].fingerprint)
    BY <2>3, LegsAndResults DEF IInv, DoneIsFinished
  <2>. QED
    BY <2>3, <2>4
<1>4. ASSUME run \cap Legs # {}, NEW s \in Results, current_fp[s] # NotApplicable
      PROVE  s \in run
  <2> HIDE DEF own
  <2>1. PICK leg \in Legs : leg \in run
    BY <1>4
  <2>2. leg \in own
    BY <1>1, <2>1, LegsAndResults
  <2>3. s \in applicable /\ deps(s) \cap own # {}
    BY <1>4, <2>2, LegsAndResults
  <2>. QED
    BY <1>1, <2>3
<1>. QED
  BY <1>3, <1>4

\* No leg is undone once it has ended.
LEMMA LegsEndedStep == LInv /\ [Next]_vars => LegsEnded'
<1> SUFFICES ASSUME LInv, [Next]_vars, NEW leg \in Legs, Planned',
                    current_fp'[leg] # NotApplicable, leg \notin todo'
             PROVE  Finished(leg, current_fp[leg])'
  BY DEF LegsEnded
<1> USE DEF caseVars, runVars, report
<1>1. LegOf(leg) \in {"disk", "dumps"} /\ leg \in Stages /\ leg \notin Results
  BY LegsAndResults DEF LegOf
<1>2. CASE EndCollection /\ pc' = "report"
  <2>1. applicable_stages(evidence) = {} /\ pc # "idle" /\ UNCHANGED current_fp
    BY <1>2 DEF EndCollection
  <2>. QED
    BY <1>1, <2>1 DEF LInv, FingerprintsApply
<1>3. CASE LoadPrior
  <2>1. todo' = resolve_actions(pipeline_state, current_fp) /\ UNCHANGED <<current_fp, timeline, derived>>
    BY <1>3 DEF LoadPrior
  <2>2. Finished(leg, current_fp[leg])
    BY <2>1, PlanOrder DEF LInv
  <2>. QED
    BY <2>1, <2>2 DEF Finished
<1>4. CASE UNCHANGED <<timeline, derived, current_fp, todo>> /\ Planned
  BY <1>4 DEF LInv, LegsEnded, Finished
<1>5. ASSUME NEW s \in Stages, DeleteRow(s) \/ InsertIncomplete(s) PROVE Finished(leg, current_fp[leg])'
  BY <1>4, <1>5 DEF DeleteRow, InsertIncomplete, Planned
<1>6. ASSUME NEW s \in Stages, BeginStage(s) \/ EndStage(s) PROVE Finished(leg, current_fp[leg])'
  <2>1. UNCHANGED <<current_fp, todo>> /\ s # leg /\ Planned
    BY <1>6 DEF BeginStage, EndStage, AtStage, Planned
  <2>2. Finished(leg, current_fp[leg])
    BY <2>1 DEF LInv, LegsEnded
  <2>. QED
    BY <1>1, <1>6, <2>1, <2>2, OthersFinished DEF LInv, IInv
<1>7. ASSUME NEW s \in Stages, InsertDone(s) PROVE Finished(leg, current_fp[leg])'
  <2>1. /\ UNCHANGED <<timeline, derived, current_fp>> /\ todo' = todo \ {s}
        /\ pc = "closing" /\ AtStage(s)
    BY <1>7 DEF InsertDone
  <2>2. Finished(leg, current_fp[leg])
    <3>1. CASE leg = s
      BY <2>1, <3>1 DEF LInv, IInv, InFlight
    <3>2. CASE leg # s
      BY <2>1, <3>2 DEF LInv, LegsEnded, Planned
    <3>. QED
      BY <3>1, <3>2
  <2>. QED
    BY <2>1, <2>2 DEF Finished
<1>8. CASE AnyStart \/ BeginCollection \/ FinishRun \/ Fail \/ Crash \/ IngestRefused
           \/ ClearStaleLock \/ \E i \in Changing : ChangeInput(i)
  BY <1>8 DEF AnyStart, Start, BeginCollection, FinishRun, Fail, Crash, IngestRefused,
              ClearStaleLock, ChangeInput, Forget, Planned
<1>9. CASE UNCHANGED vars
  BY <1>4, <1>9 DEF vars, Planned
<1>10. CASE EndCollection /\ pc' # "report"
  BY <1>10 DEF EndCollection, Planned
<1>. QED
  BY <1>2, <1>3, <1>5, <1>6, <1>7, <1>8, <1>9, <1>10 DEF Next, Progress

\* The results of a run that loads a leg stay ahead of it.
LEMMA ResultsFollowStep == LInv /\ [Next]_vars => ResultsFollow'
<1> SUFFICES ASSUME LInv, [Next]_vars PROVE ResultsFollow'
  OBVIOUS
<1> USE DEF ResultsFollow, caseVars, runVars, report
<1>. ResultsFollow
  BY DEF LInv
<1>1. CASE AnyStart \/ BeginCollection \/ EndCollection \/ ClearStaleLock
           \/ \E i \in Changing : ChangeInput(i)
  BY <1>1 DEF AnyStart, Start, BeginCollection, EndCollection, ClearStaleLock, ChangeInput,
              Planned
<1>2. CASE FinishRun \/ Fail \/ Crash \/ IngestRefused
  BY <1>2 DEF FinishRun, Fail, Crash, IngestRefused, Forget, Planned
<1>3. CASE LoadPrior
  <2>1. /\ todo' = resolve_actions(pipeline_state, current_fp)
        /\ pc = "load" /\ pc' = (IF todo' = {} THEN "report" ELSE "mark")
        /\ UNCHANGED <<ran, evidence>> /\ ran = {}
    BY <1>3 DEF LoadPrior, Planned
  <2>2. \A s \in applicable_stages(evidence) : current_fp[s] # NotApplicable
    BY <2>1 DEF LInv, FingerprintsApply
  <2>3. todo' \cap Legs # {} => applicable_stages(evidence) \cap Results \subseteq todo'
    BY <2>1, <2>2, PlanOrder DEF LInv
  <2>. QED
    BY <2>1, <2>3 DEF Planned
<1>4. ASSUME NEW s \in Stages,
             DeleteRow(s) \/ InsertIncomplete(s) \/ BeginStage(s) \/ EndStage(s)
      PROVE  ResultsFollow'
  <2>1. UNCHANGED <<todo, ran, evidence>> /\ Planned /\ Planned' /\ pc' # "report"
    BY <1>4 DEF DeleteRow, InsertIncomplete, BeginStage, EndStage, Planned
  <2>. QED
    BY <2>1
<1>5. ASSUME NEW s \in Stages, InsertDone(s) PROVE ResultsFollow'
  <2>1. /\ todo' = todo \ {s} /\ ran' = ran \cup {s} /\ UNCHANGED evidence
        /\ pc = "closing" /\ pc' = (IF todo' = {} THEN "report" ELSE "mark") /\ AtStage(s)
    BY <1>5 DEF InsertDone, AtStage
  <2>2. s \in todo /\ (s \in Results => todo \cap Legs = {})
    BY <2>1, LegsAndResults DEF AtStage
  <2>3. todo' \cup ran' = todo \cup ran
    BY <2>1, <2>2
  <2>4. ran' \cap Results # {} => todo' \cap Legs = {}
    BY <2>1, <2>2
  <2>. QED
    BY <2>1, <2>2, <2>3, <2>4 DEF Planned
<1>6. CASE UNCHANGED vars
  BY <1>6 DEF vars, Planned
<1>. QED
  BY <1>1, <1>2, <1>3, <1>4, <1>5, <1>6 DEF Next, Progress

\* What a result was computed from is still what the timeline holds.
LEMMA ResultsFreshStep == LInv /\ [Next]_vars => ResultsFresh'
<1> SUFFICES ASSUME LInv, [Next]_vars PROVE ResultsFresh'
  OBVIOUS
<1> USE DEF ResultsFresh, FromTimeline, caseVars, runVars, report
<1>. IInv /\ ResultsFollow /\ ResultsFresh
  BY DEF LInv
<1>1. CASE ran' = {} /\ pc' \notin {"close", "closing"}
  BY <1>1
<1>2. CASE UNCHANGED <<timeline, derived, todo, ran>> /\ (pc' \in {"close", "closing"} => pc \in {"close", "closing"})
  BY <1>2 DEF AtStage
<1>3. CASE \/ AnyStart \/ BeginCollection \/ EndCollection \/ LoadPrior
           \/ FinishRun \/ Fail \/ Crash \/ IngestRefused
           \/ ClearStaleLock \/ \E i \in Changing : ChangeInput(i)
  BY <1>1, <1>3 DEF AnyStart, Start, BeginCollection, EndCollection, LoadPrior, FinishRun, Fail,
                    Crash, IngestRefused, ClearStaleLock, ChangeInput, Forget, ResultsFollow, Planned
<1>4. ASSUME NEW s \in Stages, DeleteRow(s) \/ InsertIncomplete(s) PROVE ResultsFresh'
  BY <1>2, <1>4 DEF DeleteRow, InsertIncomplete
<1>5. ASSUME NEW s \in Stages, BeginStage(s) PROVE ResultsFresh'
  <2>1. /\ s \in todo /\ s \notin ran /\ UNCHANGED <<todo, ran>> /\ pc' = "execute"
        /\ s \in Results => derived' = [derived EXCEPT ![s] = Nothing] /\ UNCHANGED timeline
        /\ s \notin Results => UNCHANGED derived /\ s \in Legs
    BY <1>5 DEF BeginStage, AtStage, ResultsFollow, Legs
  <2>2. s \notin Results => ran \cap Results = {}
    BY <2>1 DEF ResultsFollow
  <2>. QED
    BY <2>1, <2>2 DEF IInv, TypeOK
<1>6. ASSUME NEW s \in Stages, EndStage(s) PROVE ResultsFresh'
  <2> DEFINE basis == [timeline |-> timeline, rules |-> world["rules"]]
  <2>1. /\ s \in todo /\ s \notin ran /\ UNCHANGED <<todo, ran>> /\ AtStage(s)
        /\ s \in Results => derived' = [derived EXCEPT ![s] = basis] /\ UNCHANGED timeline
        /\ s \notin Results => UNCHANGED derived /\ s \in Legs
    BY <1>6 DEF EndStage, AtStage, ResultsFollow, Legs
  <2>2. s \notin Results => ran \cap Results = {}
    BY <2>1 DEF ResultsFollow
  <2>3. basis \in Basis /\ basis.timeline = timeline
    BY DEF IInv, TypeOK, Basis, Inputs
  <2>4. \A u \in Stages : AtStage(u)' => u = s
    BY <2>1, OneStage DEF AtStage
  <2> HIDE DEF basis
  <2>5. basis # Nothing /\ Results \subseteq Stages
    BY <2>3, LegsAndResults
  <2>6. CASE s \in Results
    BY <2>1, <2>3, <2>4, <2>5, <2>6 DEF IInv, TypeOK
  <2>7. CASE s \notin Results
    BY <2>1, <2>2, <2>4, <2>5, <2>7
  <2>. QED
    BY <2>6, <2>7
<1>7. ASSUME NEW s \in Stages, InsertDone(s) PROVE ResultsFresh'
  <2>1. /\ UNCHANGED <<timeline, derived>> /\ ran' = ran \cup {s} /\ AtStage(s)
        /\ pc = "closing" /\ pc' \notin {"close", "closing"}
    BY <1>7 DEF InsertDone
  <2>. QED
    BY <2>1
<1>8. CASE UNCHANGED vars
  BY <1>2, <1>8 DEF vars
<1>. QED
  BY <1>3, <1>4, <1>5, <1>6, <1>7, <1>8 DEF Next, Progress

\* The invariant of the order of stages holds in every state.
LEMMA OrderInvariant == Spec => []LInv
<1>1. Init => LInv
  BY InitInvariant DEF Init, LInv, FingerprintsApply, LegsEnded, ResultsFollow, ResultsFresh,
                       Planned, AtStage
<1>2. LInv /\ [Next]_vars => LInv'
  <2>1. LInv /\ [Next]_vars => IInv'
    BY NextTypes, FingerprintStep, InFlightStep, DoneStep DEF LInv, IInv
  <2>. QED
    BY <2>1, ApplyStep, LegsEndedStep, ResultsFollowStep, ResultsFreshStep DEF LInv
<1>. QED
  BY <1>1, <1>2, PTL DEF Spec

\* LegsFirst: when correlate or scan writes its results, every leg of the run
\* has ended on the evidence passed, however earlier runs stopped.
THEOREM LegsAlwaysFirst == Spec => []LegsFirst
<1>1. LInv => LegsFirst
  <2> SUFFICES ASSUME LInv, NEW s \in Results, AtStage(s), pc = "execute",
                      NEW leg \in deps(s), current_fp[leg] # NotApplicable
               PROVE  /\ timeline[LegOf(leg)].ver = world[LegOf(leg)]
                      /\ timeline[LegOf(leg)].ended
    BY DEF LegsFirst
  <2>1. leg \in Legs /\ leg \notin Results /\ leg \in Stages
    BY LegsAndResults
  <2>2. leg \notin todo
    BY <2>1, LegsAndResults DEF AtStage
  <2>3. Finished(leg, current_fp[leg])
    BY <2>1, <2>2 DEF LInv, LegsEnded, Planned
  <2>4. current_fp[leg].ver = world[LegOf(leg)]
    BY <2>1, InputOf DEF LInv, IInv, FingerprintsHold
  <2>. QED
    BY <2>1, <2>3, <2>4 DEF Finished
<1>. QED
  BY <1>1, OrderInvariant, PTL

\* FreshAfterLegs: a run that loaded a leg and reaches its report leaves results
\* computed from all the timeline holds.
THEOREM AlwaysFreshAfterLegs == Spec => []FreshAfterLegs
<1>1. LInv => FreshAfterLegs
  <2> SUFFICES ASSUME LInv, pc = "report", ran \cap {"ingest", "memory"} # {},
                      "disk" \in evidence, NEW s \in Results
               PROVE  FromTimeline(s)
    BY DEF FreshAfterLegs, FromTimeline
  <2>1. s \in applicable_stages(evidence)
    BY DEF applicable_stages, Results, Stages
  <2>2. s \in ran
    BY <2>1, LegsAndResults DEF LInv, ResultsFollow
  <2>. QED
    BY <2>2 DEF LInv, ResultsFresh
<1>. QED
  BY <1>1, OrderInvariant, PTL
=============================================================================
