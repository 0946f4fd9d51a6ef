--------------------------- MODULE IngestRunProofs ---------------------------
(***************************************************************************)
(* Theorems about IngestRun, for every set of processes, sources, units    *)
(* and evidence lists, and every bound; the last is that its store refines *)
(* the ledger of parse units (IngestLedger).                               *)
(***************************************************************************)
EXTENDS IngestLedger, TLAPS

USE StoreConstants, NoTxnIsNew, RunConstants

\* The variables of the world and of the store are typed at the start.
LEMMA InitTypes == Init => TypeOK
<1> SUFFICES ASSUME Init PROVE TypeOK
  OBVIOUS
<1>1. StoreTypeOK
  BY DEF Init, StoreInit, StoreTypeOK, Marker
<1>2. content \in [Sources -> [Units -> 0 .. MaxVersion]]
  <2>1. {0, 1} \subseteq 0 .. MaxVersion
    OBVIOUS
  <2>. QED
    BY <2>1 DEF Init
<1>. QED
  BY <1>1, <1>2 DEF Init, TypeOK

\* Forgetting a run keeps the types of the process's variables.
LEMMA ForgetTypes ==
  ASSUME TypeOK, NEW p \in Procs, ForgetRun(p)
  PROVE  /\ pc' \in [Procs -> {"idle", "setup", "parse", "commit"}]
         /\ inputs' \in [Procs -> Seq(Sources)]
         /\ refresh' \in [Procs -> BOOLEAN]
         /\ pos' \in [Procs -> Nat \ {0}]
         /\ skip' \in [Procs -> [Sources -> SUBSET Job]]
         /\ parsed' \in [Procs -> [Sources -> {"no", "ok", "err"}]]
         /\ jobs' \in [Procs -> [Sources -> SUBSET ParseJob]]
BY DEF TypeOK, ForgetRun

\* The source a serial phase is at is a source.
LEMMA SourceAt ==
  ASSUME TypeOK, NEW p \in Procs, pos[p] <= Len(inputs[p])
  PROVE  inputs[p][pos[p]] \in Sources
<1>1. inputs[p] \in Seq(Sources) /\ pos[p] \in Nat \ {0}
  BY DEF TypeOK
<1>. QED
  BY <1>1

\* Evidence keys are keys.
LEMMA KeyType ==
  ASSUME NEW list, NEW s \in Sources
  PROVE  source_id(list, s) \in Keys
BY DEF source_id

\* Opening, advancing and closing a transaction keep the store's types.
LEMMA BeginTypes ==
  ASSUME StoreTypeOK, NEW p \in Procs, NEW job \in Job, NEW batch \in Batch,
         NEW complete \in BOOLEAN, BeginTxn(p, job, batch, complete)
  PROVE  StoreTypeOK'
<1> DEFINE new == [job |-> job, batch |-> batch, complete |-> complete,
                   rows |-> timeline[job], marker |-> ingest_log[job],
                   next |-> IF ~complete /\ ingest_log[job] = "complete"
                            THEN "commit" ELSE "delete"]
<1>1. timeline[job] \in Seq(Batch) /\ ingest_log[job] \in Marker
  BY DEF StoreTypeOK
<1>2. new \in Txn
  BY <1>1 DEF Txn
<1>3. txn' = [txn EXCEPT ![p] = new]
  BY DEF BeginTxn
<1>. QED
  BY <1>2, <1>3 DEF StoreTypeOK, BeginTxn

\* Every statement of the transaction, and its commit, keep the store's types.
LEMMA StatementTypes ==
  ASSUME StoreTypeOK, NEW p \in Procs,
         DeleteRows(p) \/ InsertRows(p) \/ LogUnit(p) \/ CommitTxn(p)
  PROVE  StoreTypeOK'
<1>1. txn[p] \in Txn
  BY DEF StoreTypeOK, DeleteRows, InsertRows, LogUnit, CommitTxn, InTxn
<1>2. CASE DeleteRows(p)
  <2>1. <<>> \in Seq(Batch)
    OBVIOUS
  <2>2. [txn[p] EXCEPT !.rows = <<>>, !.next = "insert"] \in Txn
    BY <1>1, <2>1 DEF Txn
  <2>. QED
    BY <1>2, <2>2 DEF StoreTypeOK, DeleteRows
<1>3. CASE InsertRows(p)
  <2>1. Append(txn[p].rows, txn[p].batch) \in Seq(Batch)
    BY <1>1 DEF Txn
  <2>2. [txn[p] EXCEPT !.rows = Append(txn[p].rows, txn[p].batch), !.next = "log"] \in Txn
    BY <1>1, <2>1 DEF Txn
  <2>. QED
    BY <1>3, <2>2 DEF StoreTypeOK, InsertRows
<1>4. CASE LogUnit(p)
  BY <1>1, <1>4 DEF StoreTypeOK, LogUnit, Txn, Marker
<1>5. CASE CommitTxn(p)
  BY <1>1, <1>5 DEF StoreTypeOK, CommitTxn, Txn
<1>. QED
  BY <1>2, <1>3, <1>4, <1>5

\* A rollback keeps the store's types.
LEMMA DropTypes ==
  ASSUME StoreTypeOK, NEW p \in Procs, DropTxn(p)
  PROVE  StoreTypeOK'
BY DEF StoreTypeOK, DropTxn

\* What a parse hands to the commit phase is a set of parse jobs.
LEMMA ParsedUnitType ==
  ASSUME TypeOK, NEW p \in Procs, NEW s \in Sources, NEW root \in Places,
         NEW u \in Units, content[s][u] > 0, NEW c \in ParseCompletion
  PROVE  ParseUnit(p, s, root, u, c) \in ParseJob
<1>1. UnitJob(p, s, root, u) \in Job
  BY KeyType DEF UnitJob, stable_id, Job, UnitPlace
<1>2. content[s][u] \in Versions
  BY DEF TypeOK, Versions
<1>3. marks_complete(c) \in BOOLEAN
  BY DEF marks_complete
<1>. QED
  BY <1>1, <1>2, <1>3 DEF ParseUnit, ParseJob, Batch

\* The faults stay within their bound.
LEMMA FaultType ==
  ASSUME TypeOK, Fault PROVE faults' \in 0 .. MaxFaults
BY DEF TypeOK, Fault

\* The parsed units of a source are parse jobs.
LEMMA ParseStepTypes ==
  ASSUME TypeOK, NEW p \in Procs, NEW s \in Sources, run_auto_parse_jobs(p, s)
  PROVE  TypeOK'
<1>1. PICK root \in ExtractedRoots(s) :
        /\ LET pending == PendingUnits(p, s, root)
           IN \E o \in Outcomes(pending) :
                /\ jobs' = [jobs EXCEPT ![p][s] =
                              {ParseUnit(p, s, root, u, o[u]) :
                                 u \in {u \in pending : o[u] # "Failed"}}]
                /\ IF \E u \in pending : o[u] = "Failed" THEN Fault
                                                         ELSE UNCHANGED faults
        /\ temp_used' = temp_used \cup (TempDirs \cap {root})
  BY DEF run_auto_parse_jobs
<1> DEFINE pending == PendingUnits(p, s, root)
<1>2. PICK o \in Outcomes(pending) :
        /\ jobs' = [jobs EXCEPT ![p][s] =
                      {ParseUnit(p, s, root, u, o[u]) :
                         u \in {u \in pending : o[u] # "Failed"}}]
        /\ IF \E u \in pending : o[u] = "Failed" THEN Fault ELSE UNCHANGED faults
  BY <1>1
<1>3. root \in Places
  BY DEF ExtractedRoots
<1>4. \A u \in pending : o[u] # "Failed" => ParseUnit(p, s, root, u, o[u]) \in ParseJob
  <2> SUFFICES ASSUME NEW u \in pending, o[u] # "Failed"
               PROVE  ParseUnit(p, s, root, u, o[u]) \in ParseJob
    OBVIOUS
  <2>1. o[u] \in ParseCompletion
    BY DEF Outcomes, ParseCompletion
  <2>2. u \in Units /\ content[s][u] > 0
    BY DEF PendingUnits
  <2>. QED
    BY <1>3, <2>1, <2>2, ParsedUnitType
<1>5. jobs' \in [Procs -> [Sources -> SUBSET ParseJob]]
  <2> DEFINE new == {ParseUnit(p, s, root, u, o[u]) : u \in {u \in pending : o[u] # "Failed"}}
  <2>1. new \in SUBSET ParseJob
    BY <1>4
  <2>2. jobs' = [jobs EXCEPT ![p][s] = new]
    BY <1>2
  <2> HIDE DEF new
  <2>. QED
    BY <2>1, <2>2 DEF TypeOK
<1>6. faults' \in 0 .. MaxFaults
  BY <1>2, FaultType DEF TypeOK
<1>7. temp_used' \subseteq TempDirs
  BY <1>1 DEF TypeOK
<1>8. parsed' \in [Procs -> [Sources -> {"no", "ok", "err"}]]
  BY DEF run_auto_parse_jobs, TypeOK
<1>9. UNCHANGED <<storeVars, pc, inputs, refresh, pos, skip, content, case_lock>>
  BY DEF run_auto_parse_jobs
<1>. QED
  BY <1>5, <1>6, <1>7, <1>8, <1>9 DEF TypeOK, StoreTypeOK, storeVars

\* Every step keeps the types.
LEMMA NextTypes == TypeOK /\ [Next]_vars => TypeOK'
<1> SUFFICES ASSUME TypeOK, [Next]_vars PROVE TypeOK'
  OBVIOUS
<1> USE DEF storeVars, runVars, worldVars
<1>1. ASSUME NEW p \in Procs, Start(p) PROVE TypeOK'
  <2>1. PICK list \in InputLists, fresh \in Refreshes : AcquireLock(p, list, fresh)
    BY <1>1 DEF Start
  <2>2. list \in Seq(Sources) /\ fresh \in BOOLEAN
    OBVIOUS
  <2>. QED
    BY <2>1, <2>2 DEF AcquireLock, TypeOK, StoreTypeOK
<1>2. ASSUME NEW p \in Procs, RegisterNext(p) PROVE TypeOK'
  <2> DEFINE s == inputs[p][pos[p]]
             key == source_id(inputs[p], s)
             read == IF refresh[p] THEN {} ELSE completed_units(key)
  <2>1. s \in Sources
    BY <1>2, SourceAt DEF RegisterNext
  <2>2. key \in Keys
    BY <2>1, KeyType
  <2>3. read \in SUBSET Job
    BY DEF completed_units
  <2>4. /\ evidence_sources' = [evidence_sources EXCEPT ![key] = s]
        /\ skip' = [skip EXCEPT ![p][s] = read]
        /\ pos' = [pos EXCEPT ![p] = @ + 1]
        /\ UNCHANGED <<timeline, ingest_log, txn, pc, inputs, refresh, parsed, jobs,
                       worldVars, case_lock>>
    BY <1>2 DEF RegisterNext, RegisterSource
  <2> HIDE DEF s, key, read
  <2>5. skip' \in [Procs -> [Sources -> SUBSET Job]]
    BY <2>1, <2>3, <2>4 DEF TypeOK
  <2>6. pos' \in [Procs -> Nat \ {0}]
    BY <2>4 DEF TypeOK
  <2>7. evidence_sources' \in [Keys -> Sources \cup {NoSource}]
    BY <2>1, <2>2, <2>4 DEF TypeOK, StoreTypeOK
  <2>. QED
    BY <2>4, <2>5, <2>6, <2>7 DEF TypeOK, StoreTypeOK
<1>3. ASSUME NEW p \in Procs, StartParsing(p) PROVE TypeOK'
  BY <1>3 DEF StartParsing, TypeOK, StoreTypeOK
<1>4. ASSUME NEW p \in Procs, NEW s \in Sources, run_auto_parse_jobs(p, s) PROVE TypeOK'
  BY <1>4, ParseStepTypes
<1>5. ASSUME NEW p \in Procs, NEW s \in Sources, OpenFails(p, s) PROVE TypeOK'
  <2>1. faults' \in 0 .. MaxFaults
    BY <1>5, FaultType DEF OpenFails
  <2>. QED
    BY <1>5, <2>1 DEF OpenFails, TypeOK, StoreTypeOK
<1>6. ASSUME NEW p \in Procs, StartCommitting(p) PROVE TypeOK'
  BY <1>6 DEF StartCommitting, TypeOK, StoreTypeOK
<1>7. ASSUME NEW p \in Procs, AbortAtSource(p) PROVE TypeOK'
  BY <1>7, ForgetTypes DEF AbortAtSource, ReleaseLock, TypeOK, StoreTypeOK
<1>8. ASSUME NEW p \in Procs, BeginUnit(p) PROVE TypeOK'
  <2>1. PICK x \in jobs[p][CurrentSource(p)] :
          /\ BeginTxn(p, x.job, x.batch, marks_complete(x.completion))
          /\ jobs' = [jobs EXCEPT ![p][CurrentSource(p)] = @ \ {x}]
    BY <1>8 DEF BeginUnit
  <2>2. CurrentSource(p) \in Sources
    BY <1>8, SourceAt DEF BeginUnit, Committing, CurrentSource
  <2>3. x \in ParseJob
    BY <2>2 DEF TypeOK
  <2>4. x.job \in Job /\ x.batch \in Batch /\ marks_complete(x.completion) \in BOOLEAN
    BY <2>3 DEF ParseJob, marks_complete
  <2>5. StoreTypeOK'
    BY <2>1, <2>4, BeginTypes DEF TypeOK
  <2>6. jobs' \in [Procs -> [Sources -> SUBSET ParseJob]]
    BY <2>1, <2>2 DEF TypeOK
  <2>. QED
    BY <1>8, <2>5, <2>6 DEF BeginUnit, TypeOK
<1>9. ASSUME NEW p \in Procs, CommitStep(p) PROVE TypeOK'
  <2>1. StoreTypeOK'
    BY <1>9, StatementTypes DEF CommitStep, TypeOK
  <2>. QED
    BY <1>9, <2>1 DEF CommitStep, TypeOK
<1>10. ASSUME NEW p \in Procs, NextSource(p) PROVE TypeOK'
  BY <1>10 DEF NextSource, TypeOK, StoreTypeOK
<1>11. ASSUME NEW p \in Procs, FinishRun(p) PROVE TypeOK'
  BY <1>11, ForgetTypes DEF FinishRun, ReleaseLock, TypeOK, StoreTypeOK
<1>12. ASSUME NEW p \in Procs, FailRun(p) PROVE TypeOK'
  BY <1>12, ForgetTypes, FaultType, DropTypes DEF FailRun, ReleaseLock, TypeOK
<1>13. ASSUME NEW p \in Procs, Crash(p) PROVE TypeOK'
  BY <1>13, ForgetTypes, FaultType, DropTypes DEF Crash, TypeOK
<1>14. CASE ClearStaleLock
  BY <1>14 DEF ClearStaleLock, TypeOK, StoreTypeOK
<1>15. ASSUME NEW s \in Sources, NEW u \in Units, ReacquireArtifact(s, u) PROVE TypeOK'
  BY <1>15 DEF ReacquireArtifact, TypeOK, StoreTypeOK
<1>16. CASE UNCHANGED vars
  BY <1>16 DEF vars, TypeOK, StoreTypeOK
<1>. QED
  BY <1>1, <1>2, <1>3, <1>4, <1>5, <1>6, <1>7, <1>8, <1>9, <1>10, <1>11, <1>12,
     <1>13, <1>14, <1>15, <1>16 DEF Next, Progress

\* TypeOK: the tables and the state of every run keep their types.
THEOREM TypeCorrect == Spec => []TypeOK
<1>1. Init => TypeOK
  BY InitTypes
<1>2. TypeOK /\ [Next]_vars => TypeOK'
  BY NextTypes
<1>. QED
  BY <1>1, <1>2, PTL DEF Spec

-----------------------------------------------------------------------------
(***************************************************************************)
(* The session lock.                                                       *)
(***************************************************************************)

\* A run that ends, or dies, leaves its process idle and the others alone.
LEMMA ForgetEffect ==
  ASSUME TypeOK, NEW p \in Procs, ForgetRun(p)
  PROVE  /\ pc'[p] = "idle"
         /\ \A q \in Procs \ {p} : /\ pc'[q] = pc[q]
                                     /\ pos'[q] = pos[q]
                                     /\ inputs'[q] = inputs[q]
                                     /\ parsed'[q] = parsed[q]
         /\ jobs' = [jobs EXCEPT ![p] = [s \in Sources |-> {}]]
         /\ skip' = [skip EXCEPT ![p] = [s \in Sources |-> {}]]
BY DEF TypeOK, ForgetRun

\* A process in session owns the lock file, whatever happens next.
LEMMA LockStep == TypeOK /\ LockOwned /\ [Next]_vars => LockOwned'
<1> SUFFICES ASSUME TypeOK, LockOwned, [Next]_vars PROVE LockOwned'
  OBVIOUS
<1> USE DEF LockOwned, InSession, storeVars, runVars, worldVars
<1>1. ASSUME NEW p \in Procs, Start(p) PROVE LockOwned'
  BY <1>1 DEF Start, AcquireLock, TypeOK
<1>2. ASSUME NEW p \in Procs, AbortAtSource(p) \/ FinishRun(p) \/ FailRun(p) PROVE LockOwned'
  <2>1. InSession(p) /\ ForgetRun(p)
    BY <1>2 DEF AbortAtSource, FinishRun, FailRun, Committing
  <2>. QED
    BY <2>1, ForgetEffect
<1>3. ASSUME NEW p \in Procs, Crash(p) PROVE LockOwned'
  BY <1>3, ForgetEffect DEF Crash
<1>4. CASE ClearStaleLock
  BY <1>4 DEF ClearStaleLock
<1>5. ASSUME NEW p \in Procs,
             \/ RegisterNext(p) \/ StartParsing(p) \/ StartCommitting(p)
             \/ BeginUnit(p) \/ CommitStep(p) \/ NextSource(p)
             \/ \E s \in Sources : run_auto_parse_jobs(p, s) \/ OpenFails(p, s)
      PROVE  LockOwned'
  <2>1. UNCHANGED case_lock /\ \A q \in Procs : pc'[q] # "idle" => pc[q] # "idle"
    BY <1>5 DEF RegisterNext, StartParsing, StartCommitting, BeginUnit, CommitStep,
                NextSource, run_auto_parse_jobs, OpenFails, Committing, TypeOK
  <2>. QED
    BY <2>1
<1>6. ASSUME NEW s \in Sources, NEW u \in Units, ReacquireArtifact(s, u) PROVE LockOwned'
  BY <1>6 DEF ReacquireArtifact
<1>7. CASE UNCHANGED vars
  BY <1>7 DEF vars
<1>. QED
  BY <1>1, <1>2, <1>3, <1>4, <1>5, <1>6, <1>7 DEF Next, Progress

\* One file has one owner, so one process is in session.
LEMMA OwnersAlone == LockOwned => OneSession
BY DEF LockOwned, OneSession

\* OneSession: for any number of processes, crashes and removals of stale
\* locks, two are never inside an ingest of the case.
THEOREM SessionsExclude == Spec => []OneSession
<1>1. Init => TypeOK /\ LockOwned
  BY InitTypes DEF Init, LockOwned, InSession
<1>2. TypeOK /\ LockOwned /\ [Next]_vars => (TypeOK /\ LockOwned)'
  BY NextTypes, LockStep
<1>3. TypeOK /\ LockOwned => OneSession
  BY OwnersAlone
<1>. QED
  BY <1>1, <1>2, <1>3, PTL DEF Spec

-----------------------------------------------------------------------------
(***************************************************************************)
(* The commit of a unit.                                                   *)
(***************************************************************************)

\* While a process is in a session no other has a transaction open.
LEMMA OnlyTxn ==
  ASSUME LockOwned, TxnInCommit, NEW p \in Procs, InSession(p),
         NEW q \in Procs, q # p
  PROVE  pc[q] = "idle" /\ txn[q] = NoTxn
BY OwnersAlone DEF OneSession, TxnInCommit, Committing, InSession

\* A transaction is open only while its process commits that unit.
LEMMA TxnInCommitStep == IInv /\ [Next]_vars => TxnInCommit'
<1> SUFFICES ASSUME IInv, [Next]_vars PROVE TxnInCommit'
  OBVIOUS
<1> USE DEF TxnInCommit, Committing, CurrentSource, storeVars, runVars, worldVars, IInv
<1>1. ASSUME NEW p \in Procs, Start(p) PROVE TxnInCommit'
  <2>1. txn[p] = NoTxn
    BY <1>1 DEF Start, AcquireLock
  <2>. QED
    BY <1>1, <2>1 DEF Start, AcquireLock, TypeOK
<1>2. ASSUME NEW p \in Procs, AbortAtSource(p) \/ FinishRun(p) PROVE TxnInCommit'
  <2>1. txn[p] = NoTxn /\ ForgetRun(p) /\ UNCHANGED txn
    BY <1>2 DEF AbortAtSource, FinishRun, TypeOK
  <2>. QED
    BY <2>1, ForgetEffect
<1>3. ASSUME NEW p \in Procs, FailRun(p) \/ Crash(p) PROVE TxnInCommit'
  <2>1. ForgetRun(p) /\ DropTxn(p)
    BY <1>3 DEF FailRun, Crash
  <2>. QED
    BY <2>1, ForgetEffect DEF DropTxn, TypeOK, StoreTypeOK
<1>4. ASSUME NEW p \in Procs,
             RegisterNext(p) \/ StartParsing(p) \/ StartCommitting(p) \/ NextSource(p)
                \/ \E s \in Sources : run_auto_parse_jobs(p, s) \/ OpenFails(p, s)
      PROVE  TxnInCommit'
  <2>1. txn[p] = NoTxn /\ UNCHANGED txn
    BY <1>4 DEF RegisterNext, RegisterSource, StartParsing, StartCommitting, NextSource,
                run_auto_parse_jobs, OpenFails
  <2>2. \A q \in Procs \ {p} : /\ pc'[q] = pc[q] /\ pos'[q] = pos[q]
                                /\ inputs'[q] = inputs[q] /\ parsed'[q] = parsed[q]
    BY <1>4 DEF RegisterNext, RegisterSource, StartParsing, StartCommitting, NextSource,
                run_auto_parse_jobs, OpenFails, TypeOK
  <2>. QED
    BY <2>1, <2>2
<1>5. ASSUME NEW p \in Procs, BeginUnit(p) PROVE TxnInCommit'
  <2>1. PICK x \in jobs[p][CurrentSource(p)] :
          BeginTxn(p, x.job, x.batch, marks_complete(x.completion))
    BY <1>5 DEF BeginUnit
  <2>2. \A q \in Procs \ {p} : txn'[q] = txn[q]
    BY <2>1 DEF BeginTxn, TypeOK, StoreTypeOK
  <2>. QED
    BY <1>5, <2>2 DEF BeginUnit
<1>6. ASSUME NEW p \in Procs, CommitStep(p) PROVE TxnInCommit'
  <2>1. txn[p] # NoTxn /\ \A q \in Procs \ {p} : txn'[q] = txn[q]
    BY <1>6 DEF CommitStep, DeleteRows, InsertRows, LogUnit, CommitTxn, InTxn,
                TypeOK, StoreTypeOK
  <2>. QED
    BY <1>6, <2>1 DEF CommitStep
<1>7. CASE ClearStaleLock
  BY <1>7 DEF ClearStaleLock
<1>8. ASSUME NEW s \in Sources, NEW u \in Units, ReacquireArtifact(s, u) PROVE TxnInCommit'
  BY <1>8 DEF ReacquireArtifact
<1>9. CASE UNCHANGED vars
  BY <1>9 DEF vars
<1>. QED
  BY <1>1, <1>2, <1>3, <1>4, <1>5, <1>6, <1>7, <1>8, <1>9 DEF Next, Progress

\* Units are added to those waiting only by the parse of their source.
LEMMA JobsSteps ==
  ASSUME TypeOK, [Next]_vars, NEW p \in Procs, NEW s \in Sources
  PROVE  jobs'[p][s] \subseteq jobs[p][s] \/ run_auto_parse_jobs(p, s)
<1> USE DEF storeVars, runVars, worldVars
<1>1. CASE UNCHANGED jobs
  BY <1>1
<1>2. ASSUME NEW q \in Procs, ForgetRun(q) PROVE jobs'[p][s] \subseteq jobs[p][s]
  <2>1. jobs' = [jobs EXCEPT ![q] = [t \in Sources |-> {}]]
    BY <1>2, ForgetEffect
  <2>2. jobs'[p] = jobs[p] \/ jobs'[p] = [t \in Sources |-> {}]
    BY <2>1 DEF TypeOK
  <2>. QED
    BY <2>2
<1>3. ASSUME NEW q \in Procs, AbortAtSource(q) \/ FinishRun(q) \/ FailRun(q) \/ Crash(q)
      PROVE  jobs'[p][s] \subseteq jobs[p][s]
  BY <1>2, <1>3 DEF AbortAtSource, FinishRun, FailRun, Crash
<1>4. ASSUME NEW q \in Procs, BeginUnit(q) PROVE jobs'[p][s] \subseteq jobs[p][s]
  <2>1. CurrentSource(q) \in Sources
    BY <1>4, SourceAt DEF BeginUnit, Committing, CurrentSource
  <2>2. PICK x : jobs' = [jobs EXCEPT ![q][CurrentSource(q)] = @ \ {x}]
    BY <1>4 DEF BeginUnit
  <2>. QED
    BY <2>1, <2>2 DEF TypeOK
<1>5. ASSUME NEW q \in Procs, NEW t \in Sources, run_auto_parse_jobs(q, t)
      PROVE  jobs'[p][s] \subseteq jobs[p][s] \/ run_auto_parse_jobs(p, s)
  <2>1. CASE q = p /\ t = s
    BY <1>5, <2>1
  <2>2. CASE ~(q = p /\ t = s)
    <3>1. PICK new : jobs' = [jobs EXCEPT ![q][t] = new]
      BY <1>5 DEF run_auto_parse_jobs
    <3>. QED
      BY <2>2, <3>1 DEF TypeOK
  <2>. QED
    BY <2>1, <2>2
<1>6. ASSUME NEW q \in Procs,
             \/ Start(q) \/ RegisterNext(q) \/ StartParsing(q) \/ StartCommitting(q)
             \/ CommitStep(q) \/ NextSource(q) \/ \E t \in Sources : OpenFails(q, t)
      PROVE  UNCHANGED jobs
  BY <1>6 DEF Start, AcquireLock, RegisterNext, StartParsing, StartCommitting,
              CommitStep, NextSource, OpenFails
<1>7. CASE ClearStaleLock \/ \E t \in Sources, u \in Units : ReacquireArtifact(t, u)
  BY <1>1, <1>7 DEF ClearStaleLock, ReacquireArtifact
<1>8. CASE UNCHANGED vars
  BY <1>1, <1>8 DEF vars
<1>. QED
  BY <1>1, <1>3, <1>4, <1>5, <1>6, <1>7, <1>8 DEF Next, Progress

\* What a parse leaves waiting is the units it parsed, where it found them.
LEMMA ParsedUnits ==
  ASSUME TypeOK, NEW p \in Procs, NEW s \in Sources, run_auto_parse_jobs(p, s),
         NEW x \in jobs'[p][s]
  PROVE  \E root \in ExtractedRoots(s), u \in Units, c \in ParseCompletion :
            x = ParseUnit(p, s, root, u, c)
<1>1. PICK root \in ExtractedRoots(s) :
        \E o \in Outcomes(PendingUnits(p, s, root)) :
          jobs' = [jobs EXCEPT ![p][s] =
                    {ParseUnit(p, s, root, u, o[u]) :
                       u \in {u \in PendingUnits(p, s, root) : o[u] # "Failed"}}]
  BY DEF run_auto_parse_jobs
<1>2. PICK o \in Outcomes(PendingUnits(p, s, root)) :
        jobs' = [jobs EXCEPT ![p][s] =
                  {ParseUnit(p, s, root, u, o[u]) :
                     u \in {u \in PendingUnits(p, s, root) : o[u] # "Failed"}}]
  BY <1>1
<1> DEFINE new == {ParseUnit(p, s, root, u, o[u]) :
                     u \in {u \in PendingUnits(p, s, root) : o[u] # "Failed"}}
<1>3. jobs'[p][s] = new
  <2> HIDE DEF new
  <2>1. jobs' = [jobs EXCEPT ![p][s] = new]
    BY <1>2 DEF new
  <2>. QED
    BY <2>1 DEF TypeOK
<1>4. PICK u \in PendingUnits(p, s, root) : o[u] # "Failed" /\ x = ParseUnit(p, s, root, u, o[u])
  BY <1>3
<1>5. u \in Units /\ o[u] \in ParseCompletion
  BY <1>4 DEF PendingUnits, Outcomes, ParseCompletion
<1>. QED
  BY <1>4, <1>5

\* A waiting unit is whole exactly when its completion says so.
LEMMA JobsDeclaredStep == IInv /\ [Next]_vars => JobsDeclared'
<1> SUFFICES ASSUME IInv, [Next]_vars, NEW p \in Procs, NEW s \in Sources,
                    NEW x \in jobs'[p][s]
             PROVE  x.batch.whole = marks_complete(x.completion)
  BY DEF JobsDeclared
<1>1. CASE x \in jobs[p][s]
  BY <1>1 DEF IInv, JobsDeclared
<1>2. CASE run_auto_parse_jobs(p, s)
  BY <1>2, ParsedUnits DEF IInv, ParseUnit
<1>. QED
  BY <1>1, <1>2, JobsSteps DEF IInv

\* Only the COMMIT of an open transaction changes the timeline or the log.
LEMMA StoreSteps ==
  ASSUME [Next]_vars
  PROVE  \/ UNCHANGED <<timeline, ingest_log>>
         \/ \E p \in Procs : CommitStep(p) /\ CommitTxn(p)
<1> USE DEF storeVars, runVars, worldVars
<1>1. CASE \E p \in Procs : CommitStep(p)
  BY <1>1 DEF CommitStep, DeleteRows, InsertRows, LogUnit
<1>2. CASE \E p \in Procs : Start(p) \/ RegisterNext(p) \/ StartParsing(p) \/ StartCommitting(p)
                           \/ AbortAtSource(p) \/ NextSource(p) \/ FinishRun(p)
  BY <1>2 DEF Start, AcquireLock, RegisterNext, RegisterSource, StartParsing,
              StartCommitting, AbortAtSource, NextSource, FinishRun
<1>3. CASE \E p \in Procs : BeginUnit(p) \/ FailRun(p) \/ Crash(p)
                           \/ \E s \in Sources : run_auto_parse_jobs(p, s) \/ OpenFails(p, s)
  BY <1>3 DEF BeginUnit, BeginTxn, FailRun, Crash, DropTxn, run_auto_parse_jobs, OpenFails
<1>4. CASE ClearStaleLock \/ \E s \in Sources, u \in Units : ReacquireArtifact(s, u)
  BY <1>4 DEF ClearStaleLock, ReacquireArtifact
<1>5. CASE UNCHANGED vars
  BY <1>5 DEF vars
<1>. QED
  BY <1>1, <1>2, <1>3, <1>4, <1>5 DEF Next, Progress

\* What the COMMIT of a unit publishes: nothing new, or one parse's rows with
\* the marker its completion earns, never an incomplete over a complete.
LEMMA CommitEffect ==
  ASSUME IInv, NEW p \in Procs, CommitTxn(p)
  PROVE  \E j \in Job, b \in Batch :
           /\ j = txn[p].job /\ b = txn[p].batch /\ txn[p] # NoTxn
           /\ \A k \in Job \ {j} : timeline'[k] = timeline[k] /\ ingest_log'[k] = ingest_log[k]
           /\ \/ timeline'[j] = timeline[j] /\ ingest_log'[j] = ingest_log[j]
              \/ /\ timeline'[j] = <<b>> /\ ingest_log'[j] = Status(b.whole)
                 /\ b.whole \/ ingest_log[j] # "complete"
<1>1. txn[p] # NoTxn /\ txn[p] \in Txn /\ txn[p].next = "commit"
  BY DEF IInv, TypeOK, StoreTypeOK, CommitTxn, InTxn
<1> DEFINE t == txn[p]
<1>2. t.job \in Job /\ t.batch \in Batch
  BY <1>1 DEF Txn
<1>3. /\ t.batch.whole = t.complete
      /\ \/ t.rows = timeline[t.job] /\ t.marker = ingest_log[t.job]
         \/ /\ t.rows = <<t.batch>> /\ t.marker = Status(t.complete)
            /\ ~(~t.complete /\ ingest_log[t.job] = "complete")
  BY <1>1 DEF IInv, TxnCopy, CopyAfterStatements
<1>4. /\ timeline' = [timeline EXCEPT ![t.job] = t.rows]
      /\ ingest_log' = [ingest_log EXCEPT ![t.job] = t.marker]
  BY DEF CommitTxn
<1>5. timeline \in [Job -> Seq(Batch)] /\ ingest_log \in [Job -> Marker]
  BY DEF IInv, TypeOK, StoreTypeOK
<1>7. t.job = txn[p].job /\ t.batch = txn[p].batch
  OBVIOUS
<1> HIDE DEF t
<1>6. /\ timeline'[t.job] = t.rows /\ ingest_log'[t.job] = t.marker
      /\ \A k \in Job \ {t.job} : timeline'[k] = timeline[k] /\ ingest_log'[k] = ingest_log[k]
  BY <1>2, <1>4, <1>5
<1>. QED
  BY <1>1, <1>2, <1>3, <1>6, <1>7

\* Every step keeps markers and rows in agreement.
LEMMA MarkerStep == IInv /\ [Next]_vars => MarkerMatchesRows'
<1> SUFFICES ASSUME IInv, [Next]_vars PROVE MarkerMatchesRows'
  OBVIOUS
<1>1. CASE UNCHANGED <<timeline, ingest_log>>
  BY <1>1 DEF IInv, MarkerMatchesRows
<1>2. CASE \E p \in Procs : CommitStep(p) /\ CommitTxn(p)
  <2>1. PICK j \in Job, b \in Batch :
          /\ \A k \in Job \ {j} : timeline'[k] = timeline[k] /\ ingest_log'[k] = ingest_log[k]
          /\ \/ timeline'[j] = timeline[j] /\ ingest_log'[j] = ingest_log[j]
             \/ timeline'[j] = <<b>> /\ ingest_log'[j] = Status(b.whole)
    BY <1>2, CommitEffect
  <2> SUFFICES ASSUME NEW k \in Job
      PROVE /\ Len(timeline'[k]) <= 1
            /\ ingest_log'[k] = "none" <=> timeline'[k] = <<>>
            /\ ingest_log'[k] = "complete" <=> \E c \in Batch : timeline'[k] = <<c>> /\ c.whole
    BY DEF MarkerMatchesRows
  <2>2. CASE timeline'[k] = timeline[k] /\ ingest_log'[k] = ingest_log[k]
    BY <2>2 DEF IInv, MarkerMatchesRows
  <2>3. CASE timeline'[k] = <<b>> /\ ingest_log'[k] = Status(b.whole)
    <3>1. \A c : <<c>> = <<b>> => c = b
      OBVIOUS
    <3>2. Len(<<b>>) = 1 /\ <<b>> # <<>>
      OBVIOUS
    <3>3. b.whole \in BOOLEAN
      BY DEF Batch
    <3>. QED
      BY <2>3, <3>1, <3>2, <3>3 DEF Status
  <2>. QED
    BY <2>1, <2>2, <2>3
<1>. QED
  BY <1>1, <1>2, StoreSteps

\* A step never takes the `complete` marker from a unit, nor replaces its rows
\* by less than a whole parse.
LEMMA NoDowngradeStep ==
  ASSUME IInv, [Next]_vars, NEW j \in Job, ingest_log[j] = "complete"
  PROVE  /\ ingest_log'[j] = "complete"
         /\ timeline'[j] # timeline[j] => \E b \in Batch : timeline'[j] = <<b>> /\ b.whole
<1>1. CASE UNCHANGED <<timeline, ingest_log>>
  BY <1>1
<1>2. CASE \E p \in Procs : CommitStep(p) /\ CommitTxn(p)
  BY <1>2, CommitEffect DEF Status
<1>. QED
  BY <1>1, <1>2, StoreSteps

\* The statements of an open transaction, on its copy.
LEMMA StatementCopy ==
  ASSUME IInv, NEW p \in Procs, DeleteRows(p) \/ InsertRows(p) \/ LogUnit(p),
         txn[p] \in Txn, CopyAfterStatements(p)
  PROVE  CopyAfterStatements(p)'
<1> DEFINE t == txn[p]
<1>1. t.batch \in Batch /\ t.complete \in BOOLEAN /\ t.job \in Job
  BY DEF Txn
<1>2. txn \in [Procs -> Txn \cup {NoTxn}]
  BY DEF IInv, TypeOK, StoreTypeOK
<1>3. CASE DeleteRows(p)
  <2> DEFINE new == [t EXCEPT !.rows = <<>>, !.next = "insert"]
  <2>1. txn'[p] = new /\ t.next = "delete"
    BY <1>2, <1>3 DEF DeleteRows, InTxn
  <2>2. /\ new.rows = <<>> /\ new.next = "insert" /\ new.batch = t.batch
        /\ new.complete = t.complete /\ new.job = t.job
    BY DEF Txn
  <2> HIDE DEF new
  <2>. QED
    BY <1>3, <2>1, <2>2 DEF CopyAfterStatements, DeleteRows
<1>4. CASE InsertRows(p)
  <2> DEFINE new == [t EXCEPT !.rows = Append(txn[p].rows, txn[p].batch), !.next = "log"]
  <2>1. txn'[p] = new /\ t.next = "insert"
    BY <1>2, <1>4 DEF InsertRows, InTxn
  <2>2. t.rows = <<>>
    BY <2>1 DEF CopyAfterStatements
  <2>3. Append(<<>>, t.batch) = <<t.batch>>
    BY <1>1
  <2>4. /\ new.rows = <<t.batch>> /\ new.next = "log" /\ new.batch = t.batch
        /\ new.complete = t.complete /\ new.job = t.job
    BY <2>2, <2>3 DEF Txn
  <2> HIDE DEF new
  <2>. QED
    BY <1>4, <2>1, <2>4 DEF CopyAfterStatements, InsertRows
<1>5. CASE LogUnit(p)
  <2> DEFINE new == [t EXCEPT !.marker = IF txn[p].complete THEN "complete" ELSE "incomplete",
                              !.next = "commit"]
  <2>1. txn'[p] = new /\ t.next = "log"
    BY <1>2, <1>5 DEF LogUnit, InTxn
  <2>2. /\ new.rows = t.rows /\ new.marker = Status(t.complete) /\ new.next = "commit"
        /\ new.batch = t.batch /\ new.complete = t.complete /\ new.job = t.job
    BY DEF Txn, Status
  <2> HIDE DEF new
  <2>. QED
    BY <1>5, <2>1, <2>2 DEF CopyAfterStatements, LogUnit
<1>. QED
  BY <1>3, <1>4, <1>5

\* The open transaction's copy holds what its statements so far have made.
LEMMA TxnCopyStep == IInv /\ [Next]_vars => TxnCopy'
<1> SUFFICES ASSUME IInv, [Next]_vars PROVE TxnCopy'
  OBVIOUS
<1> USE DEF storeVars, runVars, worldVars
<1>1. CASE UNCHANGED <<timeline, ingest_log, txn>>
  BY <1>1 DEF IInv, TxnCopy, CopyAfterStatements
<1>2. ASSUME NEW p \in Procs, DropTxn(p) PROVE TxnCopy'
  <2>1. \A q \in Procs : txn'[q] # NoTxn => txn'[q] = txn[q]
    BY <1>2 DEF DropTxn, IInv, TypeOK, StoreTypeOK
  <2>. QED
    BY <1>2, <2>1 DEF DropTxn, IInv, TxnCopy, CopyAfterStatements
<1>3. ASSUME NEW p \in Procs, BeginUnit(p) PROVE TxnCopy'
  <2>1. CurrentSource(p) \in Sources
    BY <1>3, SourceAt DEF BeginUnit, Committing, CurrentSource, IInv
  <2>2. PICK x \in jobs[p][CurrentSource(p)] :
          BeginTxn(p, x.job, x.batch, marks_complete(x.completion))
    BY <1>3 DEF BeginUnit
  <2>3. x.batch.whole = marks_complete(x.completion)
    BY <2>1, <2>2 DEF IInv, JobsDeclared
  <2>4. \A q \in Procs \ {p} : txn'[q] = txn[q]
    BY <2>2 DEF BeginTxn, IInv, TypeOK, StoreTypeOK
  <2>5. CopyAfterStatements(p)'
    BY <2>2, <2>3 DEF BeginTxn, CopyAfterStatements, IInv, TypeOK, StoreTypeOK
  <2>6. UNCHANGED <<timeline, ingest_log>>
    BY <2>2 DEF BeginTxn
  <2>. QED
    BY <2>4, <2>5, <2>6 DEF IInv, TxnCopy, CopyAfterStatements
<1>4. ASSUME NEW p \in Procs, CommitStep(p) PROVE TxnCopy'
  <2>1. txn[p] # NoTxn /\ \A q \in Procs \ {p} : txn'[q] = txn[q]
    BY <1>4 DEF CommitStep, DeleteRows, InsertRows, LogUnit, CommitTxn, InTxn,
                IInv, TypeOK, StoreTypeOK
  <2>2. InSession(p)
    BY <2>1 DEF IInv, TxnInCommit, Committing, InSession
  <2>3. \A q \in Procs \ {p} : txn'[q] = NoTxn
    BY <2>1, <2>2, OnlyTxn DEF IInv
  <2>4. txn'[p] # NoTxn => CopyAfterStatements(p)'
    <3>1. CASE CommitTxn(p)
      BY <3>1 DEF CommitTxn, IInv, TypeOK, StoreTypeOK
    <3>2. CASE DeleteRows(p) \/ InsertRows(p) \/ LogUnit(p)
      <4>1. txn[p] \in Txn /\ CopyAfterStatements(p)
        BY <2>1 DEF IInv, TxnCopy, TypeOK, StoreTypeOK
      <4>. QED
        BY <3>2, <4>1, StatementCopy
    <3>. QED
      BY <1>4, <3>1, <3>2 DEF CommitStep
  <2>. QED
    BY <2>3, <2>4 DEF TxnCopy
<1>5. ASSUME NEW p \in Procs, FailRun(p) \/ Crash(p) PROVE TxnCopy'
  BY <1>2, <1>5 DEF FailRun, Crash
<1>6. ASSUME NEW p \in Procs,
             \/ Start(p) \/ RegisterNext(p) \/ StartParsing(p) \/ StartCommitting(p)
             \/ AbortAtSource(p) \/ NextSource(p) \/ FinishRun(p)
             \/ \E s \in Sources : run_auto_parse_jobs(p, s) \/ OpenFails(p, s)
      PROVE  TxnCopy'
  BY <1>1, <1>6 DEF Start, AcquireLock, RegisterNext, RegisterSource, StartParsing,
                    StartCommitting, AbortAtSource, NextSource, FinishRun,
                    run_auto_parse_jobs, OpenFails
<1>7. CASE ClearStaleLock \/ \E s \in Sources, u \in Units : ReacquireArtifact(s, u)
  BY <1>1, <1>7 DEF ClearStaleLock, ReacquireArtifact
<1>8. CASE UNCHANGED vars
  BY <1>1, <1>8 DEF vars
<1>. QED
  BY <1>3, <1>4, <1>5, <1>6, <1>7, <1>8 DEF Next, Progress

\* What a run has read into a skip-list stays complete.
LEMMA SkipListStep == IInv /\ [Next]_vars => SkipListSound'
<1> SUFFICES ASSUME IInv, [Next]_vars PROVE SkipListSound'
  OBVIOUS
<1> USE DEF storeVars, runVars, worldVars
<1>1. \A j \in Job : ingest_log[j] = "complete" => ingest_log'[j] = "complete"
  BY NoDowngradeStep
<1>2. \A p \in Procs, s \in Sources : skip[p][s] \subseteq Job
  BY DEF IInv, TypeOK
<1>3. ASSUME \A p \in Procs, s \in Sources : skip'[p][s] \subseteq skip[p][s]
      PROVE  SkipListSound'
  BY <1>1, <1>2, <1>3 DEF IInv, SkipListSound
<1>4. ASSUME NEW p \in Procs, RegisterNext(p) PROVE SkipListSound'
  <2> DEFINE s == inputs[p][pos[p]]
             read == IF refresh[p] THEN {} ELSE completed_units(source_id(inputs[p], s))
  <2>1. s \in Sources
    BY <1>4, SourceAt DEF RegisterNext, IInv
  <2>2. skip' = [skip EXCEPT ![p][s] = read] /\ UNCHANGED ingest_log
    BY <1>4 DEF RegisterNext, RegisterSource
  <2>3. \A j \in read : ingest_log[j] = "complete"
    BY DEF completed_units
  <2> HIDE DEF s, read
  <2>. QED
    BY <2>1, <2>2, <2>3 DEF IInv, TypeOK, SkipListSound
<1>5. ASSUME NEW p \in Procs, ForgetRun(p) PROVE SkipListSound'
  <2>1. skip' = [skip EXCEPT ![p] = [s \in Sources |-> {}]]
    BY <1>5 DEF ForgetRun
  <2>2. \A q \in Procs, s \in Sources : skip'[q][s] \subseteq skip[q][s]
    BY <2>1 DEF IInv, TypeOK
  <2>. QED
    BY <1>3, <2>2
<1>6. CASE UNCHANGED skip
  BY <1>3, <1>6
<1>7. ASSUME NEW p \in Procs,
             AbortAtSource(p) \/ FinishRun(p) \/ FailRun(p) \/ Crash(p)
      PROVE  SkipListSound'
  BY <1>5, <1>7 DEF AbortAtSource, FinishRun, FailRun, Crash
<1>8. ASSUME NEW p \in Procs,
             \/ Start(p) \/ StartParsing(p) \/ StartCommitting(p) \/ BeginUnit(p)
             \/ CommitStep(p) \/ NextSource(p)
             \/ \E s \in Sources : run_auto_parse_jobs(p, s) \/ OpenFails(p, s)
      PROVE  SkipListSound'
  BY <1>6, <1>8 DEF Start, AcquireLock, StartParsing, StartCommitting, BeginUnit,
                    CommitStep, NextSource, run_auto_parse_jobs, OpenFails
<1>9. CASE ClearStaleLock \/ \E s \in Sources, u \in Units : ReacquireArtifact(s, u)
  BY <1>6, <1>9 DEF ClearStaleLock, ReacquireArtifact
<1>10. CASE UNCHANGED vars
  BY <1>6, <1>10 DEF vars
<1>. QED
  BY <1>4, <1>7, <1>8, <1>9, <1>10 DEF Next, Progress

-----------------------------------------------------------------------------
(***************************************************************************)
(* The inductive invariant and what follows from it.                       *)
(***************************************************************************)

LEMMA InitInvariant == Init => IInv
<1> SUFFICES ASSUME Init PROVE IInv
  OBVIOUS
<1>1. TypeOK
  BY InitTypes
<1>2. LockOwned /\ TxnInCommit /\ TxnCopy
  BY DEF Init, StoreInit, LockOwned, InSession, TxnInCommit, TxnCopy
<1>3. JobsDeclared /\ SkipListSound
  BY DEF Init, JobsDeclared, SkipListSound
<1>4. MarkerMatchesRows
  BY DEF Init, StoreInit, MarkerMatchesRows
<1>. QED
  BY <1>1, <1>2, <1>3, <1>4 DEF IInv

\* Every step keeps the inductive invariant.
LEMMA InvariantStep == IInv /\ [Next]_vars => IInv'
BY NextTypes, LockStep, TxnInCommitStep, JobsDeclaredStep, TxnCopyStep, MarkerStep,
   SkipListStep DEF IInv

\* The inductive invariant holds in every state.
LEMMA Invariant == Spec => []IInv
BY InitInvariant, InvariantStep, PTL DEF Spec

\* MarkerMatchesRows: after any interleaving of statements, crashes, failures
\* and re-runs, a unit's marker says what its rows are.
THEOREM MarkerAlwaysMatches == Spec => []MarkerMatchesRows
<1>1. IInv => MarkerMatchesRows
  BY DEF IInv
<1>. QED
  BY <1>1, Invariant, PTL

\* SkipListSound: a run never skips a unit that is not complete in the
\* database, though it decides before the parse what it skips.
THEOREM SkipListAlwaysSound == Spec => []SkipListSound
<1>1. IInv => SkipListSound
  BY DEF IInv
<1>. QED
  BY <1>1, Invariant, PTL

\* NoDowngrade: no step of any process loses a complete unit.
THEOREM NeverDowngraded == Spec => NoDowngrade
<1>1. IInv /\ [Next]_vars =>
        [\A j \in Job : ingest_log[j] = "complete" =>
           /\ ingest_log'[j] = "complete"
           /\ timeline'[j] # timeline[j] => \E b \in Batch : timeline'[j] = <<b>> /\ b.whole]_vars
  BY NoDowngradeStep
<1>. QED
  BY <1>1, Invariant, PTL DEF Spec, NoDowngrade
-----------------------------------------------------------------------------
(***************************************************************************)
(* Attribution: where every run is over several sources.                   *)
(***************************************************************************)

\* Every step keeps the lists of the runs in progress among those passed.
LEMMA ListsStep == TypeOK /\ ListsPassed /\ [Next]_vars => ListsPassed'
<1> SUFFICES ASSUME TypeOK, ListsPassed, [Next]_vars PROVE ListsPassed'
  OBVIOUS
<1> USE DEF ListsPassed, InSession, storeVars, runVars, worldVars
<1>1. ASSUME NEW p \in Procs, Start(p) PROVE ListsPassed'
  BY <1>1 DEF Start, AcquireLock, TypeOK
<1>2. ASSUME NEW p \in Procs, ForgetRun(p) PROVE ListsPassed'
  BY <1>2, ForgetEffect
<1>3. ASSUME NEW p \in Procs, AbortAtSource(p) \/ FinishRun(p) \/ FailRun(p) \/ Crash(p)
      PROVE  ListsPassed'
  BY <1>2, <1>3 DEF AbortAtSource, FinishRun, FailRun, Crash
<1>4. ASSUME NEW p \in Procs,
             \/ RegisterNext(p) \/ StartParsing(p) \/ StartCommitting(p)
             \/ BeginUnit(p) \/ CommitStep(p) \/ NextSource(p)
             \/ \E s \in Sources : run_auto_parse_jobs(p, s) \/ OpenFails(p, s)
      PROVE  ListsPassed'
  <2>1. UNCHANGED inputs /\ \A q \in Procs : pc'[q] # "idle" => pc[q] # "idle"
    BY <1>4 DEF RegisterNext, StartParsing, StartCommitting, BeginUnit, CommitStep,
                NextSource, run_auto_parse_jobs, OpenFails, Committing, TypeOK
  <2>. QED
    BY <2>1
<1>5. CASE ClearStaleLock \/ \E s \in Sources, u \in Units : ReacquireArtifact(s, u)
  BY <1>5 DEF ClearStaleLock, ReacquireArtifact
<1>6. CASE UNCHANGED vars
  BY <1>6 DEF vars
<1>. QED
  BY <1>1, <1>3, <1>4, <1>5, <1>6 DEF Next, Progress

\* The key of a source in a run over several is the source's own.
LEMMA OwnKey ==
  ASSUME SeveralSources, ListsPassed, NEW p \in Procs, pc[p] # "idle", NEW s \in Sources
  PROVE  source_id(inputs[p], s) = s
BY DEF SeveralSources, ListsPassed, InSession, source_id

\* No step unregisters a source, and registering one makes it known.
LEMMA RegisteredStep ==
  ASSUME SeveralSources, IInv, ListsPassed, [Next]_vars
  PROVE  /\ \A s \in Sources : Registered(s) => Registered(s)'
         /\ \A p \in Procs : RegisterNext(p) =>
               evidence_sources'[inputs[p][pos[p]]] = inputs[p][pos[p]]
<1> USE DEF Registered, storeVars, runVars, worldVars
<1>1. ASSUME NEW p \in Procs, RegisterNext(p)
      PROVE  /\ inputs[p][pos[p]] \in Sources
             /\ evidence_sources' = [evidence_sources EXCEPT ![inputs[p][pos[p]]] = inputs[p][pos[p]]]
  <2>1. inputs[p][pos[p]] \in Sources
    BY <1>1, SourceAt DEF RegisterNext, IInv
  <2>2. source_id(inputs[p], inputs[p][pos[p]]) = inputs[p][pos[p]]
    BY <1>1, <2>1, OwnKey DEF RegisterNext
  <2>. QED
    BY <1>1, <2>1, <2>2 DEF RegisterNext, RegisterSource
<1>2. evidence_sources \in [Keys -> Sources \cup {NoSource}] /\ Sources \subseteq Keys
  BY DEF IInv, TypeOK, StoreTypeOK
<1>3. ASSUME NEW p \in Procs, RegisterNext(p)
      PROVE  /\ \A s \in Sources : Registered(s) => Registered(s)'
             /\ evidence_sources'[inputs[p][pos[p]]] = inputs[p][pos[p]]
  BY <1>1, <1>2, <1>3
<1>4. (\A p \in Procs : ~RegisterNext(p)) => UNCHANGED evidence_sources
  <2> SUFFICES ASSUME \A p \in Procs : ~RegisterNext(p) PROVE UNCHANGED evidence_sources
    OBVIOUS
  <2>1. CASE \E p \in Procs : \/ Start(p) \/ StartParsing(p) \/ StartCommitting(p)
                            \/ AbortAtSource(p) \/ NextSource(p) \/ FinishRun(p)
                            \/ \E s \in Sources : run_auto_parse_jobs(p, s) \/ OpenFails(p, s)
    BY <2>1 DEF Start, AcquireLock, StartParsing, StartCommitting, AbortAtSource,
                NextSource, FinishRun, run_auto_parse_jobs, OpenFails
  <2>2. CASE \E p \in Procs : BeginUnit(p) \/ CommitStep(p) \/ FailRun(p) \/ Crash(p)
    BY <2>2 DEF BeginUnit, BeginTxn, CommitStep, DeleteRows, InsertRows, LogUnit,
                CommitTxn, FailRun, Crash, DropTxn
  <2>3. CASE ClearStaleLock \/ \E s \in Sources, u \in Units : ReacquireArtifact(s, u)
    BY <2>3 DEF ClearStaleLock, ReacquireArtifact
  <2>4. CASE UNCHANGED vars
    BY <2>4 DEF vars
  <2>. QED
    BY <2>1, <2>2, <2>3, <2>4 DEF Next, Progress
<1>. QED
  BY <1>3, <1>4
\* A run that has passed a source has registered it, whatever happens next.
LEMMA SetupStep ==
  ASSUME SeveralSources, IInv, Filing, [Next]_vars
  PROVE  SetupRegisters'
<1> USE DEF SetupRegisters, storeVars, runVars, worldVars
<1>. TypeOK /\ ListsPassed /\ SetupRegisters
  BY DEF IInv, Filing
<1>1. \A p \in Procs : \A i \in DOMAIN inputs[p] :
        Registered(inputs[p][i]) => evidence_sources'[inputs[p][i]] = inputs[p][i]
  BY RegisteredStep DEF TypeOK, Registered
<1>2. ASSUME NEW p \in Procs, ForgetRun(p) PROVE SetupRegisters'
  <2>1. pc'[p] = "idle" /\ pos'[p] = 1
    BY <1>2 DEF ForgetRun, TypeOK
  <2>2. \A q \in Procs \ {p} : pc'[q] = pc[q] /\ pos'[q] = pos[q] /\ inputs'[q] = inputs[q]
    BY <1>2, ForgetEffect
  <2>. QED
    BY <1>1, <2>1, <2>2 DEF Registered
<1>3. ASSUME NEW p \in Procs, AbortAtSource(p) \/ FinishRun(p) \/ FailRun(p) \/ Crash(p)
      PROVE  SetupRegisters'
  BY <1>2, <1>3 DEF AbortAtSource, FinishRun, FailRun, Crash
<1>4. ASSUME NEW p \in Procs, Start(p) PROVE SetupRegisters'
  <2>1. /\ pc' = [pc EXCEPT ![p] = "setup"] /\ pc[p] = "idle"
        /\ \A q \in Procs \ {p} : inputs'[q] = inputs[q]
        /\ \A i \in DOMAIN inputs'[p] : ~(i < 1)
        /\ UNCHANGED pos
    BY <1>4 DEF Start, AcquireLock, TypeOK
  <2>. QED
    BY <1>1, <2>1 DEF Registered, TypeOK
<1>5. ASSUME NEW p \in Procs, RegisterNext(p) PROVE SetupRegisters'
  <2>1. /\ pc[p] = "setup" /\ pos' = [pos EXCEPT ![p] = @ + 1] /\ UNCHANGED <<pc, inputs>>
    BY <1>5 DEF RegisterNext
  <2>2. evidence_sources'[inputs[p][pos[p]]] = inputs[p][pos[p]]
    BY <1>5, RegisteredStep DEF Filing
  <2>3. \A i \in DOMAIN inputs[p] : i < pos[p] + 1 => i < pos[p] \/ i = pos[p]
    BY DEF TypeOK
  <2>. QED
    BY <1>1, <2>1, <2>2, <2>3 DEF Registered, TypeOK
<1>6. ASSUME NEW p \in Procs, StartParsing(p) PROVE SetupRegisters'
  <2>1. /\ pc[p] = "setup" /\ pc' = [pc EXCEPT ![p] = "parse"] /\ UNCHANGED <<pos, inputs>>
        /\ pos[p] > Len(inputs[p])
    BY <1>6 DEF StartParsing
  <2>2. \A i \in DOMAIN inputs[p] : i < pos[p]
    BY <2>1 DEF TypeOK
  <2>. QED
    BY <1>1, <2>1, <2>2 DEF Registered, TypeOK
<1>7. ASSUME NEW p \in Procs, StartCommitting(p) \/ NextSource(p) PROVE SetupRegisters'
  <2>1. /\ pc[p] \in {"parse", "commit"} /\ pc'[p] = "commit" /\ UNCHANGED inputs
        /\ \A q \in Procs \ {p} : pc'[q] = pc[q] /\ pos'[q] = pos[q]
    BY <1>7 DEF StartCommitting, NextSource, Committing, TypeOK
  <2>. QED
    BY <1>1, <2>1 DEF Registered
<1>8. CASE UNCHANGED <<pc, pos, inputs>>
  BY <1>1, <1>8 DEF Registered
<1>9. ASSUME NEW p \in Procs,
             \/ BeginUnit(p) \/ CommitStep(p)
             \/ \E s \in Sources : run_auto_parse_jobs(p, s) \/ OpenFails(p, s)
      PROVE  SetupRegisters'
  BY <1>8, <1>9 DEF BeginUnit, CommitStep, run_auto_parse_jobs, OpenFails
<1>10. CASE ClearStaleLock \/ \E s \in Sources, u \in Units : ReacquireArtifact(s, u)
  BY <1>8, <1>10 DEF ClearStaleLock, ReacquireArtifact
<1>11. CASE UNCHANGED vars
  BY <1>8, <1>11 DEF vars
<1>. QED
  BY <1>3, <1>4, <1>5, <1>6, <1>7, <1>9, <1>10, <1>11 DEF Next, Progress
\* Units wait under the id of the source they were parsed from.
LEMMA JobsFiledStep ==
  ASSUME SeveralSources, IInv, Filing, [Next]_vars
  PROVE  JobsFiled'
<1>. TypeOK /\ ListsPassed /\ SetupRegisters /\ JobsFiled
  BY DEF IInv, Filing
<1> SUFFICES ASSUME NEW p \in Procs, NEW s \in Sources, NEW x \in jobs'[p][s]
             PROVE  x.batch.src = s /\ Filed(x.job, s)'
  BY DEF JobsFiled
<1>1. CASE x \in jobs[p][s]
  BY <1>1, RegisteredStep DEF JobsFiled, Filed
<1>2. CASE run_auto_parse_jobs(p, s)
  <2>1. PICK root \in ExtractedRoots(s), u \in Units, c \in ParseCompletion :
          x = ParseUnit(p, s, root, u, c)
    BY <1>2, ParsedUnits
  <2>2. pc[p] = "parse" /\ \E i \in DOMAIN inputs[p] : s = inputs[p][i]
    BY <1>2 DEF run_auto_parse_jobs, Unparsed
  <2>3. Registered(s)
    BY <2>2 DEF SetupRegisters
  <2>4. source_id(inputs[p], s) = s
    BY <2>2, OwnKey
  <2>5. x.batch.src = s /\ x.job = stable_id(s, UnitPlace(root, u), u)
    BY <2>1, <2>4 DEF ParseUnit, UnitJob
  <2>6. s \notin Archives => root = s
    BY DEF ExtractedRoots
  <2>. QED
    BY <2>3, <2>5, <2>6, RegisteredStep DEF Filed, stable_id
<1>. QED
  BY <1>1, <1>2, JobsSteps

\* A transaction carries the unit it was opened for, and is opened for a unit
\* that waits.
LEMMA TxnSteps ==
  ASSUME TypeOK, [Next]_vars, NEW p \in Procs, txn'[p] # NoTxn
  PROVE  \/ /\ txn[p] # NoTxn
            /\ txn'[p].job = txn[p].job /\ txn'[p].batch = txn[p].batch
         \/ \E s \in Sources : \E x \in jobs[p][s] :
               txn'[p].job = x.job /\ txn'[p].batch = x.batch
<1> USE DEF storeVars, runVars, worldVars
<1>1. CASE UNCHANGED txn
  BY <1>1
<1>2. ASSUME NEW q \in Procs, FailRun(q) \/ Crash(q) PROVE txn'[p] = txn[p]
  BY <1>2 DEF FailRun, Crash, DropTxn, TypeOK, StoreTypeOK
<1>3. ASSUME NEW q \in Procs, CommitStep(q)
      PROVE  txn[p] # NoTxn /\ txn'[p].job = txn[p].job /\ txn'[p].batch = txn[p].batch
  <2>1. CASE q # p
    BY <1>3, <2>1 DEF CommitStep, DeleteRows, InsertRows, LogUnit, CommitTxn, TypeOK, StoreTypeOK
  <2>2. CASE q = p
    <3>1. txn[p] # NoTxn /\ txn[p] \in Txn
      BY <1>3, <2>2 DEF CommitStep, DeleteRows, InsertRows, LogUnit, CommitTxn, InTxn,
                        TypeOK, StoreTypeOK
    <3>2. ~CommitTxn(p)
      BY DEF CommitTxn, TypeOK, StoreTypeOK
    <3>3. \/ txn'[p] = [txn[p] EXCEPT !.rows = <<>>, !.next = "insert"]
          \/ txn'[p] = [txn[p] EXCEPT !.rows = Append(txn[p].rows, txn[p].batch), !.next = "log"]
          \/ txn'[p] = [txn[p] EXCEPT !.marker = IF txn[p].complete THEN "complete" ELSE "incomplete",
                                      !.next = "commit"]
      BY <1>3, <2>2, <3>2 DEF CommitStep, DeleteRows, InsertRows, LogUnit, TypeOK, StoreTypeOK
    <3>. QED
      BY <3>1, <3>3 DEF Txn
  <2>. QED
    BY <2>1, <2>2
<1>4. ASSUME NEW q \in Procs, BeginUnit(q)
      PROVE  \/ txn'[p] = txn[p]
             \/ \E s \in Sources : \E x \in jobs[p][s] :
                   txn'[p].job = x.job /\ txn'[p].batch = x.batch
  <2>1. CurrentSource(q) \in Sources
    BY <1>4, SourceAt DEF BeginUnit, Committing, CurrentSource
  <2>2. PICK x \in jobs[q][CurrentSource(q)] :
          BeginTxn(q, x.job, x.batch, marks_complete(x.completion))
    BY <1>4 DEF BeginUnit
  <2>3. q # p => txn'[p] = txn[p]
    BY <2>2 DEF BeginTxn, TypeOK, StoreTypeOK
  <2>4. q = p => txn'[p].job = x.job /\ txn'[p].batch = x.batch
    BY <2>2 DEF BeginTxn, TypeOK, StoreTypeOK
  <2>. QED
    BY <2>1, <2>2, <2>3, <2>4
<1>5. ASSUME NEW q \in Procs,
             \/ Start(q) \/ RegisterNext(q) \/ StartParsing(q) \/ StartCommitting(q)
             \/ AbortAtSource(q) \/ NextSource(q) \/ FinishRun(q)
             \/ \E s \in Sources : run_auto_parse_jobs(q, s) \/ OpenFails(q, s)
      PROVE  UNCHANGED txn
  BY <1>5 DEF Start, AcquireLock, RegisterNext, RegisterSource, StartParsing,
              StartCommitting, AbortAtSource, NextSource, FinishRun,
              run_auto_parse_jobs, OpenFails
<1>6. CASE ClearStaleLock \/ \E s \in Sources, u \in Units : ReacquireArtifact(s, u)
  BY <1>1, <1>6 DEF ClearStaleLock, ReacquireArtifact
<1>7. CASE UNCHANGED vars
  BY <1>1, <1>7 DEF vars
<1>. QED
  BY <1>1, <1>2, <1>3, <1>4, <1>5, <1>6, <1>7 DEF Next, Progress

\* An open transaction is for a unit filed under its rows' source.
LEMMA TxnFiledStep ==
  ASSUME SeveralSources, IInv, Filing, [Next]_vars
  PROVE  TxnFiled'
<1>. TypeOK /\ ListsPassed /\ JobsFiled /\ TxnFiled
  BY DEF IInv, Filing
<1> SUFFICES ASSUME NEW p \in Procs, txn'[p] # NoTxn
             PROVE  Filed(txn[p].job, txn[p].batch.src)'
  BY DEF TxnFiled
<1>1. CASE txn[p] # NoTxn /\ txn'[p].job = txn[p].job /\ txn'[p].batch = txn[p].batch
  <2>1. txn[p].batch.src \in Sources
    BY <1>1 DEF TypeOK, StoreTypeOK, Txn, Batch
  <2>. QED
    BY <1>1, <2>1, RegisteredStep DEF TxnFiled, Filed, Registered
<1>2. ASSUME NEW s \in Sources, NEW x \in jobs[p][s],
             txn'[p].job = x.job /\ txn'[p].batch = x.batch
      PROVE  Filed(txn[p].job, txn[p].batch.src)'
  BY <1>2, RegisteredStep DEF JobsFiled, Filed, Registered
<1>. QED
  BY <1>1, <1>2, TxnSteps

\* What a step adds to a unit's rows is of the source of its transaction.
LEMMA RowsStep ==
  ASSUME IInv, [Next]_vars, NEW j \in Job
  PROVE  \/ timeline'[j] = timeline[j]
         \/ \E p \in Procs : /\ txn[p] # NoTxn /\ j = txn[p].job
                             /\ timeline'[j] = <<txn[p].batch>>
BY StoreSteps, CommitEffect

\* Committed rows stay filed under their source.
LEMMA RowsFiledStep ==
  ASSUME SeveralSources, IInv, Filing, [Next]_vars
  PROVE  RowsFiled'
<1>. TypeOK /\ ListsPassed /\ TxnFiled /\ RowsFiled
  BY DEF IInv, Filing
<1> SUFFICES ASSUME NEW j \in Job, NEW s \in Sources, Holds(j, s)'
             PROVE  Filed(j, s)'
  BY DEF RowsFiled
<1>1. CASE timeline'[j] = timeline[j]
  BY <1>1, RegisteredStep DEF Holds, RowsFiled, Filed, Registered
<1>2. ASSUME NEW p \in Procs, txn[p] # NoTxn, j = txn[p].job, timeline'[j] = <<txn[p].batch>>
      PROVE  Filed(j, s)'
  <2>1. txn[p].batch.src = s
    BY <1>2 DEF Holds
  <2>. QED
    BY <1>2, <2>1, RegisteredStep DEF TxnFiled, Filed, Registered
<1>. QED
  BY <1>1, <1>2, RowsStep
\* Nothing is filed wrongly at the start.
LEMMA FilingInit == Init => Filing
BY DEF Init, StoreInit, Filing, ListsPassed, InSession, SetupRegisters, JobsFiled,
       TxnFiled, RowsFiled, Holds

\* Where runs are over several sources, every row is filed under the source it
\* came from, from its parse to the timeline.
LEMMA FilingInvariant ==
  ASSUME SeveralSources
  PROVE  Spec => [](IInv /\ Filing)
<1>1. Init => IInv /\ Filing
  BY InitInvariant, FilingInit
<1>2. IInv /\ Filing /\ [Next]_vars => (IInv /\ Filing)'
  BY InvariantStep, ListsStep, SetupStep, JobsFiledStep, TxnFiledStep, RowsFiledStep
     DEF Filing, IInv
<1>. QED
  BY <1>1, <1>2, PTL DEF Spec

\* Attributed: a run over several sources, however often it is interrupted and
\* repeated, attributes every row to a key registered for the row's source.
THEOREM RowsAlwaysAttributed ==
  ASSUME SeveralSources
  PROVE  Spec => []Attributed
<1>1. IInv /\ Filing => Attributed
  BY DEF Filing, RowsFiled, Filed, Registered, Attributed
<1>. QED
  BY <1>1, FilingInvariant, PTL

\* EventsOnce: with several sources, none of them unpacked, an artifact's
\* events are in the timeline under one unit, however often it is ingested.
THEOREM EventsAlwaysOnce ==
  ASSUME SeveralSources, Archives = {}
  PROVE  Spec => []EventsOnce
<1>1. IInv /\ Filing => EventsOnce
  <2> SUFFICES ASSUME Filing, NEW j \in Job, NEW k \in Job, NEW s \in Sources,
                      j.unit = k.unit, Holds(j, s), Holds(k, s)
               PROVE  j = k
    BY DEF EventsOnce
  <2>1. j.key = k.key /\ j.place = k.place
    BY DEF Filing, RowsFiled, Filed
  <2>. QED
    BY <2>1 DEF Job
<1>. QED
  BY <1>1, FilingInvariant, PTL

\* A step that changes a unit's rows puts rows of the same source there.
LEMMA EvidenceStep ==
  ASSUME IInv, Filing, [Next]_vars, NEW j \in Job, NEW s \in Sources, Holds(j, s)
  PROVE  Holds(j, s)'
<1>1. CASE timeline'[j] = timeline[j]
  BY <1>1 DEF Holds
<1>2. ASSUME NEW p \in Procs, txn[p] # NoTxn, j = txn[p].job, timeline'[j] = <<txn[p].batch>>
      PROVE  Holds(j, s)'
  <2>1. txn[p].batch.src = s
    BY <1>2 DEF Filing, TxnFiled, RowsFiled, Filed
  <2>2. 1 \in DOMAIN timeline'[j] /\ timeline'[j][1] = txn[p].batch
    BY <1>2
  <2>. QED
    BY <2>1, <2>2 DEF Holds
<1>. QED
  BY <1>1, <1>2, RowsStep

\* EvidenceKept: with several sources, no step takes a source's events out of
\* the timeline, or another source's in their place.
THEOREM EvidenceNeverLost ==
  ASSUME SeveralSources
  PROVE  Spec => EvidenceKept
<1>1. IInv /\ Filing /\ [Next]_vars =>
        [\A j \in Job, s \in Sources : Holds(j, s) => Holds(j, s)']_vars
  BY EvidenceStep
<1>. QED
  BY <1>1, FilingInvariant, PTL DEF Spec, EvidenceKept

-------------------------------------------------------------------------------
\* The store refines the ledger.

\* A case without rows is a ledger without entries.
LEMMA LedgerInit == Init => Ledger!Init
BY DEF Init, StoreInit, Ledger!Init, ledger

\* Publishing one parse's rows with the marker they earn makes that parse the
\* unit's entry and leaves the other entries alone.
LEMMA PublishedEntry ==
  ASSUME IInv, IInv', NEW j \in Job, NEW b \in Batch,
         \A k \in Job \ {j} : timeline'[k] = timeline[k] /\ ingest_log'[k] = ingest_log[k],
         timeline'[j] = <<b>>, ingest_log'[j] = Status(b.whole)
  PROVE  ledger' = [ledger EXCEPT ![j] = b]
<1>1. ledger'[j] = [timeline'[j][1] EXCEPT !.whole = ingest_log'[j] = "complete"]
  BY DEF ledger, Status
<1>2. ledger'[j] = [b EXCEPT !.whole = b.whole]
  <2>1. timeline'[j][1] = b
    OBVIOUS
  <2>2. (ingest_log'[j] = "complete") = b.whole
    BY DEF Status, Batch
  <2>. QED
    BY <1>1, <2>1, <2>2
<1>3. ledger'[j] = b
  BY <1>2 DEF Batch
<1>4. \A k \in Job \ {j} : ledger'[k] = ledger[k]
  BY DEF ledger
<1>5. ledger' = [k \in Job |-> ledger'[k]] /\ ledger = [k \in Job |-> ledger[k]]
  BY DEF ledger
<1>. QED
  BY <1>3, <1>4, <1>5

\* A unit may be replaced by b when b is whole or the unit is not complete.
LEMMA EntryReplaceable ==
  ASSUME IInv, NEW j \in Job, NEW b \in Batch, b.whole \/ ingest_log[j] # "complete"
  PROVE  ledger[j] = Absent \/ b.whole \/ ~ledger[j].whole
<1> SUFFICES ASSUME ledger[j] # Absent, ingest_log[j] # "complete"
             PROVE  ~ledger[j].whole
  OBVIOUS
<1>1. /\ timeline[j] # <<>>
      /\ ledger[j] = [timeline[j][1] EXCEPT !.whole = ingest_log[j] = "complete"]
  BY DEF ledger
<1>2. timeline[j] \in Seq(Batch)
  BY DEF IInv, TypeOK, StoreTypeOK
<1>3. timeline[j][1] \in Batch
  BY <1>1, <1>2
<1>. QED
  BY <1>1, <1>3 DEF Batch

\* Every step publishes one entry, as the ledger allows, or leaves it alone.
LEMMA LedgerStep == IInv /\ IInv' /\ [Next]_vars => [Ledger!Next]_ledger
<1> SUFFICES ASSUME IInv, IInv', [Next]_vars PROVE [Ledger!Next]_ledger
  OBVIOUS
<1>1. CASE UNCHANGED <<timeline, ingest_log>>
  BY <1>1 DEF ledger
<1>2. CASE \E p \in Procs : CommitStep(p) /\ CommitTxn(p)
  <2>1. PICK j \in Job, b \in Batch :
          /\ \A k \in Job \ {j} : timeline'[k] = timeline[k] /\ ingest_log'[k] = ingest_log[k]
          /\ \/ timeline'[j] = timeline[j] /\ ingest_log'[j] = ingest_log[j]
             \/ /\ timeline'[j] = <<b>> /\ ingest_log'[j] = Status(b.whole)
                /\ b.whole \/ ingest_log[j] # "complete"
    BY <1>2, CommitEffect
  <2>2. CASE timeline'[j] = timeline[j] /\ ingest_log'[j] = ingest_log[j]
    BY <2>1, <2>2 DEF ledger
  <2>3. CASE /\ timeline'[j] = <<b>> /\ ingest_log'[j] = Status(b.whole)
             /\ b.whole \/ ingest_log[j] # "complete"
    <3>1. ledger' = [ledger EXCEPT ![j] = b]
      BY <2>1, <2>3, PublishedEntry
    <3>2. ledger[j] = Absent \/ b.whole \/ ~ledger[j].whole
      BY <2>3, EntryReplaceable
    <3>. QED
      BY <3>1, <3>2 DEF Ledger!Next, Ledger!Publish
  <2>. QED
    BY <2>1, <2>2, <2>3
<1>. QED
  BY <1>1, <1>2, StoreSteps

\* ImplementsLedger: for any processes, crashes, failures and re-runs, what
\* commit_parse_job does statement by statement is the ledger's one step per
\* unit.
THEOREM StoreImplementsLedger == Spec => ImplementsLedger
<1>1. Init => Ledger!Init
  BY LedgerInit
<1>2. IInv /\ IInv' /\ [Next]_vars => [Ledger!Next]_ledger
  BY LedgerStep
<1>. QED
  BY <1>1, <1>2, Invariant, PTL DEF Spec, ImplementsLedger, Ledger!Spec
=============================================================================
