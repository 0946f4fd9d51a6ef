------------------------------ MODULE SourcePool ------------------------------
(***************************************************************************)
(* The worker threads of an ingest: sources are parsed in parallel         *)
(* (parse_sources_parallel), the artifacts of each source in parallel again*)
(* (parse_into_jobs), on one pool.  An archive's extracted artifacts are   *)
(* held from its opening until its parse has returned.                     *)
(*                                                                         *)
(* Of the pool, an external library: a thread that has nothing left to take*)
(* of the source it is parsing does not sleep until the others have        *)
(* finished that source's artifacts, it takes whatever the pool offers, an *)
(* artifact of another source or a source not begun.  What it takes it     *)
(* finishes before it goes back, so a thread has a stack.                  *)
(***************************************************************************)
EXTENDS Naturals, Sequences, FiniteSets, SequencesExt

CONSTANTS
    Workers,   \* threads of the pool: max_par
    Evidence,  \* the sources, some of which are passed to the ingest
    Artifacts, \* the artifacts that a source may hold
    Bars,      \* worker slots of a source's display
    NoFile

ASSUME PoolAssumption ==
    /\ IsFiniteSet(Workers) /\ Workers # {} /\ IsFiniteSet(Evidence) /\ IsFiniteSet(Artifacts)
    /\ Bars \in Nat /\ NoFile \notin Artifacts

VARIABLES
    stack,   \* what each thread is at, innermost last: [of, file, slot]
    queue,   \* sources not begun
    todo,    \* artifacts of each source that no thread has taken
    active,  \* artifacts of each source being parsed
    slots,   \* the artifact that each worker slot of a source shows
    result   \* "none", "parsed" or "failed"

poolVars == <<stack, queue, todo, active, slots, result>>

PoolInit ==
    /\ stack = [w \in Workers |-> <<>>]
    /\ queue \in SUBSET Evidence
    /\ todo = [e \in Evidence |-> {}]
    /\ active = [e \in Evidence |-> {}]
    /\ slots = [e \in Evidence |-> [i \in 1 .. Bars |-> NoFile]]
    /\ result = [e \in Evidence |-> "none"]

Frame(e, file, slot) == [of |-> e, file |-> file, slot |-> slot]

InSource(w) == stack[w] # <<>> /\ Last(stack[w]).file = NoFile
Current(w) == Last(stack[w]).of

\* A thread without work, or with only others' work to wait for.
MayHelp(w) ==
    \/ stack[w] = <<>>
    \/ InSource(w) /\ todo[Current(w)] = {} /\ active[Current(w)] # {}

\* A thread works on its own source first.
MayTake_Fault(w, e) == stack[w] = <<>>
MayTake(w, e) == MayHelp(w) \/ (InSource(w) /\ Current(w) = e)

\* with_evidence opens the source and finds its artifacts.
BeginSource(w, e) ==
    /\ e \in queue /\ MayHelp(w)
    /\ queue' = queue \ {e}
    /\ \E found \in SUBSET Artifacts : todo' = [todo EXCEPT ![e] = found]
    /\ stack' = [stack EXCEPT ![w] = Append(@, Frame(e, NoFile, 0))]
    /\ UNCHANGED <<active, slots, result>>

\* The source cannot be opened: that is its result.
OpenSourceFails(w, e) ==
    /\ e \in queue /\ MayHelp(w)
    /\ queue' = queue \ {e}
    /\ result' = [result EXCEPT ![e] = "failed"]
    /\ UNCHANGED <<stack, todo, active, slots>>

\* claim_worker: the first idle slot, or 0 when every slot is taken.
IdleSlot_Fault(e) == IF Bars = 0 THEN 0 ELSE 1
IdleSlot(e) ==
    LET idle == {i \in 1 .. Bars : slots[e][i] = NoFile}
    IN  IF idle = {} THEN 0 ELSE CHOOSE i \in idle : \A j \in idle : i <= j

BeginFile(w, e, f) ==
    /\ f \in todo[e] /\ MayTake(w, e)
    /\ todo' = [todo EXCEPT ![e] = @ \ {f}]
    /\ active' = [active EXCEPT ![e] = @ \cup {f}]
    /\ slots' = IF IdleSlot(e) = 0 THEN slots ELSE [slots EXCEPT ![e][IdleSlot(e)] = f]
    /\ stack' = [stack EXCEPT ![w] = Append(@, Frame(e, f, IdleSlot(e)))]
    /\ UNCHANGED <<queue, result>>

\* The parsers of the artifact have returned, failed or panicked, each isolated;
\* the guard frees the slot.
EndFile(w) ==
    /\ stack[w] # <<>> /\ ~InSource(w)
    /\ LET frame == Last(stack[w])
       IN  /\ active' = [active EXCEPT ![frame.of] = @ \ {frame.file}]
           /\ slots' = IF frame.slot = 0 THEN slots
                       ELSE [slots EXCEPT ![frame.of][frame.slot] = NoFile]
    /\ stack' = [stack EXCEPT ![w] = Front(@)]
    /\ UNCHANGED <<queue, todo, result>>

\* Every artifact is parsed: the source's units are collected in order, its
\* temporary directory is dropped.
EndSource(w) ==
    /\ InSource(w) /\ todo[Current(w)] = {} /\ active[Current(w)] = {}
    /\ result' = [result EXCEPT ![Current(w)] = "parsed"]
    /\ stack' = [stack EXCEPT ![w] = Front(@)]
    /\ UNCHANGED <<queue, todo, active, slots>>

WorkerStep(w) ==
    \/ \E e \in Evidence : BeginSource(w, e) \/ OpenSourceFails(w, e)
    \/ \E e \in Evidence, f \in Artifacts : BeginFile(w, e, f)
    \/ EndFile(w) \/ EndSource(w)

PoolNext == \E w \in Workers : WorkerStep(w)

PoolSpec == PoolInit /\ [][PoolNext]_poolVars

-------------------------------------------------------------------------------
\* Properties.

Frames == UNION {{<<w, i>> : i \in DOMAIN stack[w]} : w \in Workers}
FrameAt(at) == stack[at[1]][at[2]]

\* The display never shows an artifact nobody is parsing and never two threads'
\* artifacts in one slot: a slot shows exactly the artifact of its one guard.
SlotsAgree ==
    \A e \in Evidence : \A i \in 1 .. Bars :
        LET guards == {at \in Frames : FrameAt(at).of = e /\ FrameAt(at).slot = i}
        IN  IF slots[e][i] = NoFile THEN guards = {}
            ELSE \E at \in guards : guards = {at} /\ FrameAt(at).file = slots[e][i]

\* The parse returns, with a result for every source: threads that wait for one
\* another's artifacts inside nested parallel loops never all wait.
PoolEnds == <>(queue = {} /\ \A w \in Workers : stack[w] = <<>>)

-------------------------------------------------------------------------------
\* The inductive strengthening behind SlotsAgree.

\* A frame of a source has no slot, one of an artifact may have.
FrameType ==
    {frame \in [of : Evidence, file : Artifacts \cup {NoFile}, slot : 0 .. Bars] :
        frame.file = NoFile => frame.slot = 0}

PoolTypeOK ==
    /\ stack \in [Workers -> Seq(FrameType)]
    /\ queue \in SUBSET Evidence
    /\ todo \in [Evidence -> SUBSET Artifacts]
    /\ active \in [Evidence -> SUBSET Artifacts]
    /\ slots \in [Evidence -> [1 .. Bars -> Artifacts \cup {NoFile}]]
    /\ result \in [Evidence -> {"none", "parsed", "failed"}]

===============================================================================
