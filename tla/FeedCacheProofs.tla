--------------------------- MODULE FeedCacheProofs ---------------------------
(***************************************************************************)
(* Theorems about FeedCache: the types for any processes, the cache's      *)
(* freshness when one process at a time updates it.                        *)
(***************************************************************************)
EXTENDS FeedCache, TLAPS

USE FeedConstants DEF Versions

\* A file that is filled holds what was written to it, or is torn.
LEMMA FilledType ==
  \A file, new : Filled(file, new) \subseteq {new, Torn} /\ Filled(Torn, new) = {new}
BY DEF Filled

\* Every step keeps the types.
LEMMA NextTypes == TypeOK /\ [Next]_vars => TypeOK'
<1> SUFFICES ASSUME TypeOK, [Next]_vars PROVE TypeOK'
  OBVIOUS
<1> USE DEF TypeOK
<1>1. CASE Publish
  BY <1>1 DEF Publish
<1>2. ASSUME NEW p \in Procs, MakeRequest(p) \/ AnswerNotModified(p) PROVE TypeOK'
  BY <1>2 DEF MakeRequest, AnswerNotModified
<1>3. ASSUME NEW p \in Procs, AnswerOk(p) PROVE TypeOK'
  BY <1>3 DEF AnswerOk
<1>4. ASSUME NEW p \in Procs, TruncateData(p) \/ TruncateMetadata(p) \/ TruncateForTag(p)
      PROVE  TypeOK'
  BY <1>4 DEF TruncateData, TruncateMetadata, TruncateForTag
<1>5. ASSUME NEW p \in Procs, FillData(p) PROVE TypeOK'
  <2>1. data' \in {body[p], Torn}
    BY <1>5, FilledType DEF FillData
  <2>. QED
    BY <1>5, <2>1 DEF FillData
<1>6. ASSUME NEW p \in Procs, FillMetadata(p) PROVE TypeOK'
  <2>1. meta' \in {NoTag, Torn}
    BY <1>6, FilledType DEF FillMetadata
  <2>. QED
    BY <1>6, <2>1 DEF FillMetadata
<1>7. ASSUME NEW p \in Procs, FillTag(p) PROVE TypeOK'
  <2>1. meta' \in {body[p], Torn}
    BY <1>7, FilledType DEF FillTag
  <2>. QED
    BY <1>7, <2>1 DEF FillTag
<1>8. ASSUME NEW p \in Procs, Interrupted(p) PROVE TypeOK'
  BY <1>8 DEF Interrupted
<1>9. CASE UNCHANGED vars
  BY <1>9 DEF vars
<1>. QED
  BY <1>1, <1>2, <1>3, <1>4, <1>5, <1>6, <1>7, <1>8, <1>9 DEF Next, Update

\* An empty cache and idle updates have their types.
LEMMA InitTypes == Init => TypeOK
BY DEF Init, TypeOK

\* TypeOK: the two files and the updates keep their types.
THEOREM TypeCorrect == Spec => []TypeOK
<1>. QED
  BY InitTypes, NextTypes, PTL DEF Spec

\* What one process at a time does to the files.
LEMMA InductiveStep ==
  ASSUME OneUpdater, IInv, [Next]_vars
  PROVE  IInv'
<1> USE DEF IInv, TypeOK, OneUpdater
<1>1. TypeOK'
  BY NextTypes
<1>2. CASE Publish
  BY <1>1, <1>2 DEF Publish, InUpdate, TagVouches
<1>3. ASSUME NEW p \in Procs, MakeRequest(p) \/ AnswerNotModified(p) PROVE IInv'
  BY <1>1, <1>3 DEF MakeRequest, AnswerNotModified, InUpdate, TagVouches
<1>4. ASSUME NEW p \in Procs, AnswerOk(p) PROVE IInv'
  <2>1. InUpdate(p)
    OBVIOUS
  <2>2. meta \in Versions => meta < server
    BY <1>4, <2>1 DEF AnswerOk, InUpdate
  <2>. QED
    BY <1>1, <1>4, <2>2 DEF AnswerOk, InUpdate, TagVouches
<1>5. ASSUME NEW p \in Procs, TruncateData(p) \/ TruncateMetadata(p) \/ TruncateForTag(p)
      PROVE  IInv'
  BY <1>1, <1>5 DEF TruncateData, TruncateMetadata, TruncateForTag, InUpdate, TagVouches
<1>6. ASSUME NEW p \in Procs, FillData(p) PROVE IInv'
  <2>1. data' = body[p]
    BY <1>6, FilledType DEF FillData, InUpdate
  <2>. QED
    BY <1>1, <1>6, <2>1 DEF FillData, InUpdate, TagVouches
<1>7. ASSUME NEW p \in Procs, FillMetadata(p) PROVE IInv'
  <2>1. meta' = NoTag
    BY <1>7, FilledType DEF FillMetadata, InUpdate
  <2>. QED
    BY <1>1, <1>7, <2>1 DEF FillMetadata, InUpdate, TagVouches
<1>8. ASSUME NEW p \in Procs, FillTag(p) PROVE IInv'
  <2>1. meta' = body[p] /\ data = body[p] /\ body[p] <= server
    BY <1>8, FilledType DEF FillTag, InUpdate
  <2>. QED
    BY <1>1, <1>8, <2>1 DEF FillTag, InUpdate, TagVouches
<1>9. ASSUME NEW p \in Procs, Interrupted(p) PROVE IInv'
  BY <1>1, <1>9 DEF Interrupted, InUpdate, TagVouches
<1>10. CASE UNCHANGED vars
  BY <1>1, <1>10 DEF vars, InUpdate, TagVouches
<1>. QED
  BY <1>2, <1>3, <1>4, <1>5, <1>6, <1>7, <1>8, <1>9, <1>10 DEF Next, Update

\* An empty cache satisfies the inductive invariant.
LEMMA InitInvariant == Init => IInv
BY InitTypes DEF Init, IInv, InUpdate, TagVouches

\* With one updater the inductive invariant holds in every state.
LEMMA Invariant == OneUpdater /\ Spec => []IInv
<1> SUFFICES ASSUME OneUpdater PROVE Spec => []IInv
  OBVIOUS
<1>1. IInv /\ [Next]_vars => IInv'
  BY InductiveStep
<1>. QED
  BY <1>1, InitInvariant, PTL DEF Spec

\* TagVouches: with one updater, a tag the server would confirm always stands
\* for the whole of the server's content, wherever updates were interrupted.
THEOREM TagAlwaysVouches == OneUpdater /\ Spec => []TagVouches
<1>1. IInv => TagVouches
  BY DEF IInv
<1>. QED
  BY <1>1, Invariant, PTL
=============================================================================
