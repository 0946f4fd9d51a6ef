--------------------------- MODULE CorrelationPass ----------------------------
(***************************************************************************)
(* The correlation pass of issen-timeline: fetch the timeline, match every *)
(* rule, persist the firings (TimelineStore::run_and_persist).             *)
(*                                                                         *)
(* The rules are pure functions of one immutable slice, collected by index,*)
(* so running them in parallel is one step here.  What they find is        *)
(* persisted as PersistPass says.                                          *)
(***************************************************************************)
EXTENDS MemoryRules, TemporalRules, PersistPass

CONSTANT Scenarios  \* sets of events that evidence still to come may hold

VARIABLES
    arriving,  \* events no ingest has stored yet
    timeline,  \* events in the timeline table
    fetched    \* the events the pass fetched

vars == <<arriving, timeline, fetched, persistVars>>

\* Every row with a positive timestamp, ordered by time and then by content
\* (record_hash, then id; the id stands for both).
FetchEvents_Fault(table) ==
    LET all == ByTime({e \in table : e.ts >= 1})
    IN  SubSeq(all, 1, IF Len(all) > 5 THEN 5 ELSE Len(all))
FetchEvents(table) == ByTime({e \in table : e.ts >= 1})

AllFindings(events) ==
    LET memory == Where(events, MemoryRow)
        inputs == Where(events, LAMBDA e : ~MemoryRow(e)) \o BurstAnchors(events)
    IN  FlattenSeq([i \in DOMAIN DiskRules |-> RunRule(DiskRules[i], inputs)])
        \o RunMemoryRules(memory, inputs)

\* A row has its fields, and is told from the others by its id.  No parser
\* stores an event of the type that fronts a burst.
IsEvent(e) ==
    /\ e = [field \in DOMAIN e |-> e[field]]
    /\ {"id", "ts", "type", "ents", "host", "path", "source"} \subseteq DOMAIN e
    /\ e.id \in Nat /\ e.ts \in Int
    /\ e.ents \in Seq(ToSet(e.ents))

ASSUME EvidenceAssumption ==
    \A evidence \in Scenarios :
        /\ IsFiniteSet(evidence)
        /\ \A e \in evidence : IsEvent(e) /\ e.type # "LogonFailureBurst"
        /\ \A e, f \in evidence : e.id = f.id => e = f

Init ==
    /\ arriving \in Scenarios
    /\ timeline = {}
    /\ fetched = <<>>
    /\ PersistInit

\* An ingest or a memory leg stores an event, between two passes.
Store(e) ==
    /\ phase = "idle" /\ e \in arriving
    /\ arriving' = arriving \ {e}
    /\ timeline' = timeline \cup {e}
    /\ UNCHANGED <<fetched, persistVars>>

\* Fetch and match only read: what they compute is the pass's to persist.
Match ==
    /\ fetched' = FetchEvents(timeline)
    /\ Begin(AllFindings(fetched'))
    /\ UNCHANGED <<arriving, timeline>>

StoreFinding == (InsertRow \/ InsertMember) /\ UNCHANGED <<arriving, timeline, fetched>>

EndPass == (Finish \/ CutOff) /\ fetched' = <<>> /\ UNCHANGED <<arriving, timeline>>

Next ==
    \/ \E e \in arriving : Store(e)
    \/ Match \/ StoreFinding \/ EndPass

Spec == Init /\ [][Next]_vars

-------------------------------------------------------------------------------
\* Properties.

Findings(p) == ToSet(firings[p])

\* What a pass found does not change while it is stored, so the properties of
\* the findings look at it once.
Matched == phase = "persist" /\ stored = 0

\* What a rule may pair with an anchor, by a scan of everything fetched: no
\* index, no sorted slice.
PairCodes == {"relocate", "persist", "bruteforce", "logon-malware", "exfil-stage",
              "regconfirm", "lateral-move"}

Inputs(events) == Where(events, LAMBDA e : ~MemoryRow(e)) \o BurstAnchors(events)

Anchors(code, events) ==
    IF code = "copy-delete" THEN ToSet(OfType(Inputs(events), "FileDelete"))
    ELSE ToSet(Project(code, Inputs(events), Rule(code).anchor))

Consequents(code, a, events) ==
    IF code = "copy-delete"
    THEN {c \in ToSet(OfType(Inputs(events), "FileCreate")) :
            Dist(a, c) <= HalfHour /\ a.host = c.host /\ CopyGuards(a.path, c.path)}
    ELSE {c \in ToSet(Project(code, Inputs(events), Rule(code).consequent)) :
            /\ c.id # a.id
            /\ WithinWindow(Rule(code), a, c)
            /\ Admits(Rule(code).scope, a.host, c.host)
            /\ SharesEntity(a, c)
            /\ Guard(code, a, c)}

\* The nearest of them, the earlier row of two equally near.
NearestTo(a, cs) ==
    {c \in cs : \A d \in cs : \/ Dist(a, c) < Dist(a, d)
                              \/ /\ Dist(a, c) = Dist(a, d)
                                 /\ c.ts < d.ts \/ (c.ts = d.ts /\ c.id <= d.id)}

\* Every anchor with a consequent within its window is reported, with the
\* nearest of them, and no other anchor is: what the entity index and the sorted
\* slice leave out never mattered.
NearestIsFound ==
    Matched =>
        \A code \in PairCodes \cup {"copy-delete"} :
            {<<f.members[1][1], f.members[2][1]>> : f \in {g \in Findings(Pass) : g.code = code}}
            = UNION {{<<a.id, c.id>> : c \in NearestTo(a, Consequents(code, a, fetched))} :
                        a \in Anchors(code, fetched)}

\* A brute-force finding is anchored on the last of at least BurstThreshold
\* failed logons that follow one another within BurstWindow and share the
\* entity that the success carries.
BurstBehindBruteforce ==
    Matched =>
        \A f \in {g \in Findings(Pass) : g.code = "bruteforce"} :
            LET event(id) == CHOOSE e \in ToSet(fetched) : e.id = id
                last == event(f.members[1][1])
                success == event(f.members[2][1])
            IN  \E entity \in ToSet(success.ents) :
                \E run \in SUBSET {e \in ToSet(fetched) :
                               e.type = "LogonFailure" /\ entity \in ToSet(e.ents)} :
                    /\ last \in run /\ Cardinality(run) >= BurstThreshold
                    /\ \A e \in run : e.ts <= last.ts
                    /\ \A e \in run \ {last} :
                          \E g \in run : /\ g.ts - e.ts \in 0 .. BurstWindow
                                         /\ g.ts > e.ts \/ g.id > e.id

\* The migrations a dump shows: a dead process whose parent the dump does not
\* hold and an injection into another process, a live one.
Dumped(type, events) == {r \in ToSet(events) : MemoryRow(r) /\ r.type = type}

Processes(h, events) ==
    {p \in Dumped("ProcessExec", events) :
        p.host = h /\ NoValue \notin {p.pid, p.ppid, p.threads}}

Sockets(p, events) ==
    {c \in Dumped("NetworkConnect", events) :
        c.host = p.host /\ c.pid = p.pid /\ Named(c, "ip") # {}}

Migrated(d, i, events) ==
    /\ i.host = d.host /\ i.pid # d.pid
    /\ d \in Processes(d.host, events) /\ d.threads = 0
    /\ \A p \in Processes(d.host, events) : p.pid # d.ppid
    /\ i \in Dumped("MemoryInjection", events)
    /\ \E p \in Processes(i.host, events) : p.pid = i.pid /\ p.threads > 0

\* Some socket of the live process ties it to the dead one: the dead process
\* reached the same endpoint, or is of the same image.
Meets(d, c, events) == \E s \in Sockets(d, events) : RemoteEndpoint(s) = RemoteEndpoint(c)
Tied(d, i, events) == \E c \in Sockets(i, events) : Meets(d, c, events) \/ SameImageStem(d, i)

\* What a chain says of the two: the strong one names a socket of each, of one
\* endpoint; the degraded one names a socket that only the image explains.
Shows(f, d, i, events) ==
    /\ f.members[1][1] = d.id /\ f.members[2][1] = i.id
    /\ \E c \in Sockets(i, events) :
          /\ f.members[Len(f.members)][1] = c.id
          /\ \/ /\ f.code = "proc-migration"
                /\ \E s \in Sockets(d, events) :
                      f.members[3][1] = s.id /\ RemoteEndpoint(s) = RemoteEndpoint(c)
             \/ /\ f.code = "proc-migration-degraded"
                /\ SameImageStem(d, i) /\ ~Meets(d, c, events)

\* Whichever socket ties a dead process to an injection, and wherever it stands
\* among the live process's other sockets, the migration is reported; and every
\* chain is of a migration that its members show.
TiedPairsAreReported ==
    Matched =>
        LET chains == {f \in Findings(Pass) :
                         f.code \in {"proc-migration", "proc-migration-degraded"}}
        IN  /\ \A d, i \in ToSet(fetched) :
                  Migrated(d, i, fetched) /\ Tied(d, i, fetched)
                    => \E f \in chains : Shows(f, d, i, fetched)
            /\ \A f \in chains : \E d, i \in ToSet(fetched) :
                  Migrated(d, i, fetched) /\ Shows(f, d, i, fetched)

\* More evidence never takes a pairing from an anchor: what one pass paired,
\* the next one pairs again, no farther away.  A burst is the exception: a
\* failed logon that shares nothing with it can break it up.
MoreEvidenceKeepsPairs ==
    [][Match /\ Pass > 0 =>
        \A f \in {g \in Findings(Pass) : g.code \in PairCodes \ {"bruteforce"}} :
            \E g \in ToSet(firings'[Pass + 1]) :
                /\ g.code = f.code /\ g.members[1] = f.members[1]
                /\ g.last - g.first <= f.last - f.first]_vars

\* The anchors of each temporal rule's findings.
Narrative(events) ==
    [name \in DOMAIN BundledTemporalRules |->
        {f.anchor : f \in ToSet(EvaluateTemporal(BundledTemporalRules[name], events))}]

NothingTakenBack(old, new) ==
    \A name \in DOMAIN BundledTemporalRules :
        IF BundledTemporalRules[name].absent = {} THEN old[name] \subseteq new[name]
        ELSE new[name] \cap {e.id : e \in timeline} \subseteq old[name]

\* The narrative view, of whatever the timeline holds at the time, never takes
\* back what its temporal rules found: later evidence can only answer a claim
\* of absence, and none of it makes an older anchor's claim.  (It reads the
\* timeline alone, which takes every course before the first pass as well.)
NarrativeIsMonotone ==
    [][Pass = 0 /\ timeline' # timeline =>
        NothingTakenBack(Narrative(ByTime(timeline)), Narrative(ByTime(timeline')))]_vars

-------------------------------------------------------------------------------
\* The inductive strengthening behind these properties.

\* What the timeline and the ingests still to come hold is one body of evidence.
OneEvidence == \E evidence \in Scenarios : timeline \cup arriving = evidence

\* What a pass persists is what it found in the timeline, which stays as it was
\* fetched; what the last one found, it found in a part of the timeline.
FoundInTimeline ==
    /\ phase = "persist" =>
          /\ Pass > 0 /\ fetched = FetchEvents(timeline)
          /\ firings[Pass] = AllFindings(fetched)
    /\ Pass > 0 =>
          \E seen \in SUBSET timeline : firings[Pass] = AllFindings(FetchEvents(seen))
===============================================================================
