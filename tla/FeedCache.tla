------------------------------ MODULE FeedCache ------------------------------
(***************************************************************************)
(* `issen feed update` on one threat-intel feed (issen-signatures,         *)
(* feeds/downloader.rs and feeds/fetcher.rs): a conditional download into  *)
(* two files, `data` and `metadata.json`, each written in place.           *)
(*                                                                         *)
(* Every write truncates its file and then fills it, and an update may be  *)
(* interrupted, by an I/O error or by the death of the process, between    *)
(* any two of these steps.  The server, which is external, answers with    *)
(* 304 exactly when the tag sent is that of its present content, and never *)
(* publishes the same content twice.                                       *)
(*                                                                         *)
(* A definition named X_Fault is a faulty form of the X that follows it.   *)
(***************************************************************************)
EXTENDS Naturals

CONSTANTS
    Procs,       \* processes that run the update
    NoFile,      \* the file is not there
    Torn,        \* the file is empty, or a mix of two writers' bytes
    NoTag,       \* metadata without an etag; a request without If-None-Match
    MaxVersion,  \* bound: contents the server publishes
    MaxFaults    \* bound: interrupted updates

Versions == 1 .. MaxVersion

ASSUME FeedConstants ==
    /\ MaxVersion \in Nat \ {0}
    /\ MaxFaults \in Nat
    /\ {NoFile, Torn, NoTag} \cap Versions = {}
    /\ Torn # NoTag

VARIABLES
    server,  \* content, and so the etag, the server has now
    data,    \* the data file
    meta,    \* the etag in metadata.json
    pc,      \* where each update is
    tag,     \* If-None-Match of its request
    body,    \* content of the response
    tagged,  \* the response had an etag
    faults

vars == <<server, data, meta, pc, tag, body, tagged, faults>>

\* The two files, absent, torn or of some version, and each update's progress.
TypeOK ==
    /\ server \in Versions
    /\ data \in Versions \cup {NoFile, Torn}
    /\ meta \in Versions \cup {NoFile, Torn, NoTag}
    /\ pc \in [Procs -> {"idle", "request", "body", "data", "meta", "metadata",
                         "tag", "tagging"}]
    /\ tag \in [Procs -> Versions \cup {NoTag}]
    /\ body \in [Procs -> Versions]
    /\ tagged \in [Procs -> BOOLEAN]
    /\ faults \in 0 .. MaxFaults

Init ==
    /\ server = 1
    /\ data = NoFile
    /\ meta = NoFile
    /\ pc = [p \in Procs |-> "idle"]
    /\ tag = [p \in Procs |-> NoTag]
    /\ body = [p \in Procs |-> 1]
    /\ tagged = [p \in Procs |-> FALSE]
    /\ faults = 0

\* What a file may hold when a process fills it with `new`: just that, unless
\* another process has filled it, since this one truncated it, with more bytes.
Filled(file, new) == IF file \in {Torn, new} THEN {new} ELSE {new, Torn}

\* Metadata that is missing or does not parse yields no tag.
MakeRequest(p) ==
    /\ pc[p] = "idle"
    /\ pc' = [pc EXCEPT ![p] = "request"]
    /\ tag' = [tag EXCEPT ![p] = IF meta \in Versions THEN meta ELSE NoTag]
    /\ UNCHANGED <<server, data, meta, body, tagged, faults>>

\* 304: nothing is written.
AnswerNotModified(p) ==
    /\ pc[p] = "request"
    /\ tag[p] = server
    /\ pc' = [pc EXCEPT ![p] = "idle"]
    /\ UNCHANGED <<server, data, meta, tag, body, tagged, faults>>

\* 200, with an etag or without.
AnswerOk(p) ==
    /\ pc[p] = "request"
    /\ tag[p] # server
    /\ pc' = [pc EXCEPT ![p] = "body"]
    /\ body' = [body EXCEPT ![p] = server]
    /\ tagged' \in {[tagged EXCEPT ![p] = b] : b \in BOOLEAN}
    /\ UNCHANGED <<server, data, meta, tag, faults>>

TruncateData_TagFirst(p) ==
    /\ pc[p] = "body"
    /\ pc' = [pc EXCEPT ![p] = "data"]
    /\ data' = Torn
    /\ meta' = IF tagged[p] THEN body[p] ELSE NoTag
    /\ UNCHANGED <<server, tag, body, tagged, faults>>

\* store_data writes the data first ...
TruncateData(p) ==
    /\ pc[p] = "body"
    /\ pc' = [pc EXCEPT ![p] = "data"]
    /\ data' = Torn
    /\ UNCHANGED <<server, meta, tag, body, tagged, faults>>

FillData(p) ==
    /\ pc[p] = "data"
    /\ pc' = [pc EXCEPT ![p] = "meta"]
    /\ data' \in Filled(data, body[p])
    /\ UNCHANGED <<server, meta, tag, body, tagged, faults>>

\* ... then metadata with no etag.
TruncateMetadata(p) ==
    /\ pc[p] = "meta"
    /\ pc' = [pc EXCEPT ![p] = "metadata"]
    /\ meta' = Torn
    /\ UNCHANGED <<server, data, tag, body, tagged, faults>>

FillMetadata(p) ==
    /\ pc[p] = "metadata"
    /\ pc' = [pc EXCEPT ![p] = IF tagged[p] THEN "tag" ELSE "idle"]
    /\ meta' \in Filled(meta, NoTag)
    /\ UNCHANGED <<server, data, tag, body, tagged, faults>>

\* download_feed reads the metadata back and writes it again with the etag; if
\* it does not parse it is left as it is, and nobody is told.
TruncateForTag(p) ==
    /\ pc[p] = "tag"
    /\ meta' = Torn
    /\ pc' = [pc EXCEPT ![p] = IF meta = Torn THEN "idle" ELSE "tagging"]
    /\ UNCHANGED <<server, data, tag, body, tagged, faults>>

FillTag(p) ==
    /\ pc[p] = "tagging"
    /\ pc' = [pc EXCEPT ![p] = "idle"]
    /\ meta' \in Filled(meta, body[p])
    /\ UNCHANGED <<server, data, tag, body, tagged, faults>>

\* An I/O error, or the death of the process, where the update is.
Interrupted(p) ==
    /\ pc[p] # "idle"
    /\ faults < MaxFaults
    /\ faults' = faults + 1
    /\ pc' = [pc EXCEPT ![p] = "idle"]
    /\ UNCHANGED <<server, data, meta, tag, body, tagged>>

\* The feed's publisher.
Publish ==
    /\ server < MaxVersion
    /\ server' = server + 1
    /\ UNCHANGED <<data, meta, pc, tag, body, tagged, faults>>

\* download_feed.
Update(p) ==
    \/ MakeRequest(p)
    \/ AnswerNotModified(p) \/ AnswerOk(p)
    \/ TruncateData(p) \/ FillData(p)
    \/ TruncateMetadata(p) \/ FillMetadata(p)
    \/ TruncateForTag(p) \/ FillTag(p)

Next == Publish \/ \E p \in Procs : Update(p) \/ Interrupted(p)

Spec == Init /\ [][Next]_vars

\* The analyst runs the update again and again.
FairSpec == Spec /\ \A p \in Procs : WF_vars(Update(p))
-----------------------------------------------------------------------------
(***************************************************************************)
(* Correctness.                                                            *)
(***************************************************************************)

\* A tag the server would confirm stands for data that is there, all of it:
\* wherever updates stopped, the cache is never stuck on data that is stale or
\* cut short.
TagVouches == meta = server => data = server

\* Whatever updates were interrupted, updating again brings the feed up to date.
KeepsUpToDate == []<>(data = server)
-----------------------------------------------------------------------------
(***************************************************************************)
(* The inductive strengthening, for one process at a time.                 *)
(***************************************************************************)

OneUpdater == \A p, q \in Procs : p = q

\* The server has moved on from the tag of an update it answers with data, and
\* the data file is the response's once it is filled.
InUpdate(p) ==
    /\ pc[p] = "request" => tag[p] = IF meta \in Versions THEN meta ELSE NoTag
    /\ body[p] <= server
    /\ pc[p] \in {"body", "data", "meta"} /\ meta \in Versions => meta < body[p]
    /\ pc[p] = "data" => data = Torn
    /\ pc[p] \in {"metadata", "tagging"} => meta = Torn
    /\ pc[p] = "tag" => meta = NoTag
    /\ pc[p] \in {"meta", "metadata", "tag", "tagging"} => data = body[p]

IInv ==
    /\ TypeOK
    /\ meta \in Versions => meta <= server
    /\ \A p \in Procs : InUpdate(p)
    /\ TagVouches
=============================================================================
