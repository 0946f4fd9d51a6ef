--------------------------- MODULE CorrelationRules ---------------------------
(***************************************************************************)
(* The disk-leg correlation rules of issen-correlation: the ordered-window *)
(* evaluator, the rules stated as RuleSpecs, the entity index that narrows *)
(* an anchor's candidates, copy-delete pairing and the network rules.      *)
(*                                                                         *)
(* An event is a record [id, ts, type, ents, host, path].  `ents` is the   *)
(* sequence of entity references <<kind, name>>; a path is a record        *)
(* [dir, stem, ext] of a sequence of directory names, the sequence of the  *)
(* stem's words and the extension, all in lower case.  A firing is a record*)
(* [code, members, first, last], `members` a sequence of <<id, role>>.     *)
(***************************************************************************)
EXTENDS Slices

CONSTANTS Day, Hour, HalfHour,  \* the rules' windows, in the events' time unit
          NoHost,               \* an event without host attribution
          BurstThreshold,       \* failed logons that make a burst
          BurstWindow,          \* largest gap inside a burst
          CloudIps,             \* destinations in a known cloud or CDN range
          MinBeacons,           \* connections a cadence is judged on
          ShortLife             \* a process that lives no longer is short-lived

ASSUME WindowsAssumption ==
    /\ {Day, Hour, HalfHour, BurstWindow, ShortLife} \subseteq Nat \ {0}
    /\ {BurstThreshold, MinBeacons} \subseteq Nat \ {0}

Dist(a, c) == IF a.ts <= c.ts THEN c.ts - a.ts ELSE a.ts - c.ts

File(name) == <<"file", name>>
Named(ev, kind) == {e \in ToSet(ev.ents) : e[1] = kind}

\* By time; the id stands for the content order of events of one time.
ByTime(S) == Sorted(S, LAMBDA x, y : x.ts < y.ts \/ (x.ts = y.ts /\ x.id < y.id))

OfType(evs, type) == Where(evs, LAMBDA e : e.type = type)

-------------------------------------------------------------------------------
\* Path classifiers.

UserDirs == {"users", "downloads", "temp"}
SystemDirs == {"system32"}
DesktopDirs == {"users", "desktop"}
ExecutableExts == {"exe", "dll"}
ArchiveExts == {"zip"}

Under(path, dirs) == ToSet(path.dir) \cap dirs # {}

SameSubtree(p, q) ==
    /\ p.dir # <<>> /\ q.dir # <<>>
    /\ IsPrefix(p.dir, q.dir) \/ IsPrefix(q.dir, p.dir)

TokenPermutations(p, q) == p.stem # <<>> /\ ToSet(p.stem) = ToSet(q.stem)

\* No size reaches the runner (FileFacts::without_size), so the size guard,
\* which only rejects two known and different sizes, always passes.
CopyGuards(deleted, created) ==
    /\ deleted.ext = created.ext
    /\ SameSubtree(deleted, created)
    /\ TokenPermutations(deleted, created)

-------------------------------------------------------------------------------
\* Rule specifications and their guards.

NoGuard(a, c) == TRUE

WriteIsUserWritableExecutable(a, c) ==
    Under(c.path, UserDirs) /\ c.path.ext \in ExecutableExts

StagingContext(a, c) ==
    /\ a.path.ext \in ArchiveExts
    /\ c.path.ext = "lnk"
    /\ Under(a.path, DesktopDirs) /\ Under(c.path, DesktopDirs)
    /\ SameSubtree(a.path, c.path)

SameAccountFromHostA(a, c) ==
    /\ Named(a, "user") \cap Named(c, "user") # {}
    /\ Named(a, "ip") \cap Named(c, "ip") # {}

\* is_user_writable_path on the anchor and is_system_path on the candidates,
\* which evaluate_relocate tests before it calls the engine.
RelocateTargets(a, c) == Under(a.path, UserDirs) /\ Under(c.path, SystemDirs)

Rule(code) ==
    CASE code = "relocate" ->
           [anchor |-> "FileCreate", consequent |-> "FileRename",
            window |-> Day, scope |-> "same", ordered |-> TRUE]
      [] code = "persist" ->
           [anchor |-> "FileCreate", consequent |-> "ServiceInstall",
            window |-> Day, scope |-> "same", ordered |-> TRUE]
      [] code = "bruteforce" ->
           [anchor |-> "LogonFailureBurst", consequent |-> "LogonSuccess",
            window |-> HalfHour, scope |-> "same", ordered |-> TRUE]
      [] code = "logon-malware" ->
           [anchor |-> "LogonSuccess", consequent |-> "FileCreate",
            window |-> Hour, scope |-> "same", ordered |-> TRUE]
      [] code = "exfil-stage" ->
           [anchor |-> "FileCreate", consequent |-> "FileCreate",
            window |-> Day, scope |-> "same", ordered |-> FALSE]
      [] code = "regconfirm" ->
           [anchor |-> "ServiceInstall", consequent |-> "RegistryModify",
            window |-> Day, scope |-> "same", ordered |-> TRUE]
      [] code = "lateral-move" ->
           [anchor |-> "RdpLogon", consequent |-> "RdpLogon",
            window |-> Day, scope |-> "cross", ordered |-> TRUE]

Guard(code, a, c) ==
    CASE code = "relocate" -> RelocateTargets(a, c)
      [] code = "logon-malware" -> WriteIsUserWritableExecutable(a, c)
      [] code = "exfil-stage" -> StagingContext(a, c)
      [] code = "lateral-move" -> SameAccountFromHostA(a, c)
      [] OTHER -> NoGuard(a, c)

\* The join entity a rule evaluates an event with: the basename or the stem of
\* its path for the file rules, the event's own references for the others.
Joined(code, ev) ==
    CASE code = "relocate" ->
           [ev EXCEPT !.ents = <<File(<<ev.path.stem, ev.path.ext>>)>>]
      [] code \in {"persist", "regconfirm"} ->
           [ev EXCEPT !.ents = <<File(ev.path.stem)>>]
      [] OTHER -> ev

Project(code, evs, type) ==
    LET typed == OfType(evs, type)
    IN  [i \in DOMAIN typed |-> Joined(code, typed[i])]

-------------------------------------------------------------------------------
\* The evaluator.

Admits(scope, h, k) ==
    IF scope = "same" THEN h = NoHost \/ k = NoHost \/ h = k
                      ELSE h # NoHost /\ k # NoHost /\ h # k

WithinWindow(rule, a, c) ==
    /\ Dist(a, c) <= rule.window
    /\ IF rule.ordered THEN c.ts > a.ts ELSE c.ts # a.ts

SharesEntity(a, c) == ToSet(a.ents) \cap ToSet(c.ents) # {}

Pair(code, a, c) ==
    [code |-> code,
     members |-> <<<<a.id, "anchor">>, <<c.id, "consequent">>>>,
     first |-> IF a.ts <= c.ts THEN a.ts ELSE c.ts,
     last  |-> IF a.ts <= c.ts THEN c.ts ELSE a.ts]

\* One pass over the candidates at the qualified positions, keeping the strictly
\* nearer one, so the earliest position wins a tie.
Nearer_Fault(a, best, c) == best = <<>> \/ Dist(a, c) <= Dist(a, best[1])
Nearer(a, best, c) == best = <<>> \/ Dist(a, c) < Dist(a, best[1])

Nearest(a, cands, qualified) ==
    LET best[i \in 0 .. Len(cands)] ==
            IF i = 0 THEN <<>>
            ELSE LET b == best[i - 1]
                 IN  IF i \in qualified /\ Nearer(a, b, cands[i]) THEN <<cands[i]>> ELSE b
    IN  best[Len(cands)]

Evaluate(code, a, cands) ==
    LET rule == Rule(code)
        qualifies(c) ==
            /\ c.ts > 0 /\ c.type = rule.consequent
            /\ WithinWindow(rule, a, c)
            /\ Admits(rule.scope, a.host, c.host)
            /\ SharesEntity(a, c)
            /\ Guard(code, a, c)
    IN  IF a.ts <= 0 \/ a.type # rule.anchor THEN <<>>
        ELSE Nearest(a, cands, {i \in DOMAIN cands : qualifies(cands[i])})

-------------------------------------------------------------------------------
\* The entity index and the rules that run over it.

\* Entity reference -> the candidate positions that carry it.
BuildEntityIndex(cands) ==
    [e \in UNION {ToSet(cands[i].ents) : i \in DOMAIN cands} |->
        {i \in DOMAIN cands : e \in ToSet(cands[i].ents)}]

\* The positions an anchor's entities lead to, each once, without its own;
\* they are visited in ascending order.
EntityCandidatePositions(a, index, exclude) ==
    (UNION {index[e] : e \in ToSet(a.ents) \cap DOMAIN index}) \ {exclude}

ReducedCandidates(a, index, all, exclude) ==
    At(all, EntityCandidatePositions(a, index, exclude))

SelfJoin(code) == Rule(code).anchor = Rule(code).consequent

\* run_relocate, run_persist, run_logon_malware, run_exfil_stage,
\* run_regconfirm and run_lateral_move; run_bruteforce scans its successes
\* without an index.
RunPairRule(code, evs) ==
    LET rule == Rule(code)
        anchors == Project(code, evs, rule.anchor)
        cands == Project(code, evs, rule.consequent)
        index == BuildEntityIndex(cands)
        reduced(i) ==
            IF code = "bruteforce" THEN cands
            ELSE ReducedCandidates(anchors[i], index, cands,
                                   IF SelfJoin(code) THEN i ELSE 0)
        fired(i) == LET best == Evaluate(code, anchors[i], reduced(i))
                    IN  IF best = <<>> THEN <<>>
                        ELSE <<Pair(code, anchors[i], best[1])>>
    IN  FlattenSeq([i \in DOMAIN anchors |-> fired(i)])

-------------------------------------------------------------------------------
\* Copy-delete: the creates sorted once by time, each delete scanning the
\* slice of them that lies within half an hour of it.

\* How many of the sorted times are below t: partition_point.
PartitionPoint(ts, t) == Cardinality({i \in DOMAIN ts : ts[i] < t})

CopyDeletePairs(deletes, creates) ==
    LET sorted == ByTime({e \in ToSet(creates) : e.ts > 0})
        ts == [i \in DOMAIN sorted |-> sorted[i].ts]
        window(d) ==
            LET lo == PartitionPoint(ts, d.ts - HalfHour)
                hi == PartitionPoint(ts, d.ts + HalfHour + 1)
            IN  SubSeq(sorted, lo + 1, hi)
        best(d) ==
            Nearest(d, window(d),
                    {i \in DOMAIN window(d) : /\ d.host = window(d)[i].host
                                              /\ CopyGuards(d.path, window(d)[i].path)})
        fired(d) == IF d.ts <= 0 \/ best(d) = <<>> THEN <<>>
                    ELSE <<Pair("copy-delete", d, best(d)[1])>>
    IN  FlattenSeq([i \in DOMAIN deletes |-> fired(deletes[i])])

-------------------------------------------------------------------------------
\* Network rules: the connections to one destination, per host or across hosts.

\* An event without a host is grouped under the empty host name.
Connections(evs) == Where(OfType(evs, "NetworkConnect"), LAMBDA e : e.ts > 0)
Destinations(evs) == UNION {Named(evs[i], "ip") : i \in DOMAIN evs}

ConnectionsTo(evs, ip) ==
    ByTime({e \in ToSet(Connections(evs)) : ip \in Named(e, "ip")})
OnHost(evs, h) == Where(evs, LAMBDA e : e.host = h)

Group(code, conns) ==
    [code |-> code,
     members |-> [i \in DOMAIN conns |-> <<conns[i].id, "supporting">>],
     first |-> conns[1].ts, last |-> conns[Len(conns)].ts]

\* The cadence judgement of forensicnomicon::beaconing, on sorted times; those of
\* one snapshot are all the same and make no cadence.
AssessPeriodicity(conns) ==
    /\ Len(conns) >= MinBeacons
    /\ conns[1].ts < Last(conns).ts
    /\ \A i \in 2..(Len(conns) - 1) :
          conns[i + 1].ts - conns[i].ts = conns[i].ts - conns[i - 1].ts

SharedIoc(evs) ==
    LET conns == Connections(evs)
        hosts(ip) == {e.host : e \in ToSet(ConnectionsTo(evs, ip))}
        shared == {ip \in Destinations(conns) :
                      Cardinality(hosts(ip)) >= 2 /\ ip \notin CloudIps}
    IN  SetToSeq({Group("shared-ioc", ConnectionsTo(evs, ip)) : ip \in shared})

Beaconing(evs) ==
    LET groups == {OnHost(ConnectionsTo(evs, ip), h) :
                      ip \in Destinations(Connections(evs)),
                      h \in {e.host : e \in ToSet(evs)}} \ {<<>>}
    IN  SetToSeq({Group("beaconing", g) : g \in {c \in groups : AssessPeriodicity(c)}})

\* (host, process) pairs one of whose starts meets its nearest exit quickly.
ShortLivedProcesses(evs) ==
    LET at(type, h, p) == {e.ts : e \in {x \in ToSet(OfType(evs, type)) :
                              x.ts > 0 /\ x.host = h /\ p \in Named(x, "proc")}}
        short(h, p) ==
            \E s \in at("ProcessExec", h, p) :
              \E t \in at("ProcessExit", h, p) :
                 /\ t >= s /\ t - s <= ShortLife
                 /\ \A u \in at("ProcessExit", h, p) : u >= s => u >= t
    IN  {hp \in {<<e.host, p>> : e \in ToSet(evs),
                                 p \in UNION {Named(x, "proc") : x \in ToSet(evs)}} :
            short(hp[1], hp[2])}

\* Two of the three signals coincide for one (host, destination).
NetworkRisk(evs) ==
    LET short == ShortLivedProcesses(evs)
        conns(h, ip) == OnHost(ConnectionsTo(evs, ip), h)
        signals(h, ip) ==
            {s \in {"beacon", "unknown", "short"} :
               \/ s = "beacon" /\ AssessPeriodicity(conns(h, ip))
               \/ s = "unknown" /\ ip \notin CloudIps
               \/ s = "short" /\ \E e \in ToSet(conns(h, ip)) :
                                    \E p \in Named(e, "proc") : <<h, p>> \in short}
        keys == {<<e.host, ip>> : e \in ToSet(Connections(evs)),
                                  ip \in Destinations(Connections(evs))}
        risky == {k \in keys : /\ conns(k[1], k[2]) # <<>>
                               /\ Cardinality(signals(k[1], k[2])) >= 2}
    IN  SetToSeq({Group("network-risk", conns(k[1], k[2])) : k \in risky})

-------------------------------------------------------------------------------
\* Failed-logon bursts, and the anchors made of them.

\* Runs of one event type in which no gap exceeds BurstWindow.
BurstWindows(evs, type) ==
    LET sorted == ByTime({e \in ToSet(OfType(evs, type)) : e.ts > 0})
        runs[i \in 0 .. Len(sorted)] ==
            IF i = 0 THEN <<>>
            ELSE LET r == runs[i - 1]
                     e == sorted[i]
                 IN  IF r # <<>> /\ e.ts - Last(Last(r)).ts <= BurstWindow
                     THEN [r EXCEPT ![Len(r)] = Append(Last(r), e)]
                     ELSE Append(r, <<e>>)
    IN  Where(runs[Len(sorted)], LAMBDA r : Len(r) >= BurstThreshold)

\* The first address (else the first account) of the first member, when every
\* member carries it.
BurstJoinEntity_Fault(run) ==
    LET first(kind) == Where(run[1].ents, LAMBDA e : e[1] = kind)
    IN  IF first("ip") # <<>> THEN <<first("ip")[1]>> ELSE <<>>
BurstJoinEntity(run) ==
    LET first(kind) == Where(run[1].ents, LAMBDA e : e[1] = kind)
        shared(kind) == /\ first(kind) # <<>>
                        /\ \A i \in DOMAIN run : first(kind)[1] \in ToSet(run[i].ents)
    IN  IF shared("ip") THEN <<first("ip")[1]>>
        ELSE IF shared("user") THEN <<first("user")[1]>> ELSE <<>>

\* A burst is fronted by its latest member, whose row id it keeps.
BurstAnchors(evs) ==
    LET runs == Where(BurstWindows(evs, "LogonFailure"),
                          LAMBDA r : BurstJoinEntity(r) # <<>>)
    IN  [i \in DOMAIN runs |->
           [Last(runs[i]) EXCEPT !.type = "LogonFailureBurst",
                                 !.ents = BurstJoinEntity(runs[i])]]

-------------------------------------------------------------------------------
\* The disk-leg rules in their canonical order.

DiskRules == <<"relocate", "persist", "copy-delete", "bruteforce",
               "logon-malware", "exfil-stage", "regconfirm", "lateral-move",
               "beaconing", "network-risk", "shared-ioc">>

RunRule(code, evs) ==
    CASE code = "copy-delete" ->
           CopyDeletePairs(OfType(evs, "FileDelete"), OfType(evs, "FileCreate"))
      [] code = "beaconing" -> Beaconing(evs)
      [] code = "network-risk" -> NetworkRisk(evs)
      [] code = "shared-ioc" -> SharedIoc(evs)
      [] OTHER -> RunPairRule(code, evs)
===============================================================================
