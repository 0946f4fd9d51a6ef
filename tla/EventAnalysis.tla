---------------------------- MODULE EventAnalysis -----------------------------
(***************************************************************************)
(* What issen-evtx makes of the events of a Windows host's logs: logon     *)
(* sessions, logon chains, boot cycles and the tree of processes.  All are *)
(* functions of the slice of events, in the order in which the files were  *)
(* read.                                                                   *)
(*                                                                         *)
(* An event is a record [t, eid, lid, pid, ppid, type, ip] (and what the   *)
(* host knows of it, see EventLog): its time, its event id, the logon id   *)
(* it names, the process it tells of and that process's parent, the type   *)
(* and the source address of a logon.  Times and ids start at 1; 0 is none.*)
(***************************************************************************)
EXTENDS Slices

CONSTANTS
    Second,  \* ticks of the clock in a second
    U64      \* the width of a duration: 2^64

ASSUME AnalysisAssumption == Second \in Nat \ {0} /\ U64 \in Nat

BOOT == 6005
SHUTDOWN == 6006
UNEXPECTED_SHUTDOWN == 6008
LOGON == 4624
LOGOFF == {4634, 4647}
SPECIAL_LOGON == 4672
PROCESS_CREATE == 4688
SYSMON_PROCESS_CREATE == 1

-------------------------------------------------------------------------------
\* Sessions, from the events that parse_evtx_to_events keeps; no other function
\* of this module has a caller in the program, nor so an input that was filtered.

parse_evtx_to_events(events) ==
    Where(events, LAMBDA e : e.eid \in {LOGON, PROCESS_CREATE} \cup LOGOFF)

\* correlate_sessions: every logon makes a session, in a first pass over all the
\* files; the logoffs of the same id end it, in a second, each anew.
LastOf(events, eids, lid) ==
    Last(Where(events, LAMBDA e : e.eid \in eids /\ e.lid = lid))
LogonIds(events, eids) == {e.lid : e \in {x \in ToSet(events) : x.eid \in eids}}

EndsIn_Fault(events, on) ==
    \E i, j \in DOMAIN events : /\ i < j /\ events[i] = on
                                /\ events[j].eid \in LOGOFF /\ events[j].lid = on.lid
EndsIn(events, on) == on.lid \in LogonIds(events, LOGOFF)

\* What is left of a second is dropped, and the cast wraps what is negative.
WholeSeconds(ticks) ==
    LET secs == IF ticks >= 0 THEN ticks \div Second ELSE -((-ticks) \div Second)
    IN  IF secs < 0 THEN secs + U64 ELSE secs

correlate_sessions(events) ==
    [lid \in LogonIds(events, {LOGON}) |->
        LET on == LastOf(events, {LOGON}, lid)
            ended == EndsIn(events, on)
            off == IF ended THEN LastOf(events, LOGOFF, lid).t ELSE 0
        IN  [logon |-> on.t, logoff |-> off, is_orphaned |-> ~ended,
             duration |-> IF ended THEN WholeSeconds(off - on.t) ELSE 0,
             type |-> on.type, ip |-> on.ip]]

\* find_lateral_movement: the network logons from each address.
find_lateral_movement(sessions) ==
    LET remote == {l \in DOMAIN sessions : sessions[l].type = 3 /\ sessions[l].ip # "-"}
    IN  [ip \in {sessions[l].ip : l \in remote} |-> {l \in remote : sessions[l].ip = ip}]

-------------------------------------------------------------------------------
\* build_logon_chains: one pass, each event entered under its logon id.

NoChain == [logon |-> 0, privilege |-> 0, pids |-> <<>>, logoff |-> 0, is_orphaned |-> FALSE]

Linked(chains, e) ==
    LET known == e.lid \in DOMAIN chains
        chain == IF known THEN chains[e.lid] ELSE NoChain
        open == known => chain.is_orphaned
    IN  CASE e.eid = LOGON -> [chain EXCEPT !.logon = e.t, !.is_orphaned = TRUE]
          [] e.eid = SPECIAL_LOGON -> [chain EXCEPT !.privilege = e.t, !.is_orphaned = open]
          [] e.eid = PROCESS_CREATE -> [chain EXCEPT !.pids = Append(@, e.pid),
                                                     !.is_orphaned = open]
          [] e.eid \in LOGOFF -> [chain EXCEPT !.logoff = e.t, !.is_orphaned = FALSE]

build_logon_chains(events) ==
    LET enters(e) == e.lid # 0 /\ e.eid \in {LOGON, SPECIAL_LOGON, PROCESS_CREATE} \cup LOGOFF
        after[i \in 0 .. Len(events)] ==
            IF i = 0 THEN <<>>
            ELSE LET chains == after[i - 1]
                     e == events[i]
                 IN  IF enters(e)
                     THEN [l \in DOMAIN chains \cup {e.lid} |->
                              IF l = e.lid THEN Linked(chains, e) ELSE chains[l]]
                     ELSE chains
    IN  after[Len(events)]

-------------------------------------------------------------------------------
\* segment_by_boot_cycle: in the order of time, cut at the boots.

\* The sort is stable.
ByEventTime(events) ==
    LET at == Sorted(DOMAIN events,
                     LAMBDA i, j : \/ events[i].t < events[j].t
                                   \/ events[i].t = events[j].t /\ i < j)
    IN  [k \in DOMAIN at |-> events[at[k]]]

AtBoot_Fault(s, e) ==
    [cycles |-> s.cycles \o s.current,
     current |-> <<[boot |-> e.t, shutdown |-> 0, prior |-> s.prior, events |-> <<>>]>>,
     prior |-> s.prior]
AtBoot(s, e) ==
    [cycles |-> s.cycles \o s.current,
     current |-> <<[boot |-> e.t, shutdown |-> 0, prior |-> s.prior, events |-> <<>>]>>,
     prior |-> "Unknown"]

InCycle(s, e) ==
    IF s.current = <<>> THEN s
    ELSE [s EXCEPT !.current[1].events = Append(@, e)]

AtEvent(s, e) ==
    CASE e.eid = BOOT -> AtBoot(s, e)
      [] e.eid = SHUTDOWN ->
           [s EXCEPT !.prior = "Clean",
                     !.current = [i \in DOMAIN @ |-> [@[i] EXCEPT !.shutdown = e.t]]]
      [] e.eid = UNEXPECTED_SHUTDOWN -> [s EXCEPT !.prior = "Unexpected"]
      [] OTHER -> InCycle(s, e)

segment_by_boot_cycle(events) ==
    LET sorted == ByEventTime(events)
        after[i \in 0 .. Len(sorted)] ==
            IF i = 0 THEN [cycles |-> <<>>, current |-> <<>>, prior |-> "Unknown"]
            ELSE AtEvent(after[i - 1], sorted[i])
        done == after[Len(sorted)]
    IN  done.cycles \o done.current

-------------------------------------------------------------------------------
\* ProcessTree: keyed by Sysmon's process guid, or by the process id.

Starts(events) == Where(events, LAMBDA e : e.eid \in {PROCESS_CREATE, SYSMON_PROCESS_CREATE})

ProcessKey(e) == <<e.eid, IF e.eid = SYSMON_PROCESS_CREATE THEN e.guid ELSE e.pid>>
ParentKey(e) == <<e.eid, IF e.eid = SYSMON_PROCESS_CREATE THEN e.pguid ELSE e.ppid>>

\* A later event under a key replaces the earlier one.
Insert_Fault(nodes, e) ==
    LET linked == [e EXCEPT !.ppid = IF ParentKey(e) \in DOMAIN nodes THEN @ ELSE 0,
                            !.pguid = IF ParentKey(e) \in DOMAIN nodes THEN @ ELSE 0]
    IN  [k \in DOMAIN nodes \cup {ProcessKey(e)} |->
            IF k = ProcessKey(e) THEN linked ELSE nodes[k]]
Insert(nodes, e) ==
    [k \in DOMAIN nodes \cup {ProcessKey(e)} |-> IF k = ProcessKey(e) THEN e ELSE nodes[k]]

from_events(events) ==
    LET starts == Starts(events)
        nodes[i \in 0 .. Len(starts)] ==
            IF i = 0 THEN <<>> ELSE Insert(nodes[i - 1], starts[i])
    IN  nodes[Len(starts)]

\* ancestors_of: from parent to parent until one is unknown or met before.  Every
\* turn of the loop but the last meets another node, and those met are the line's.
ancestors_of(nodes, key) ==
    LET line[n \in 0 .. Cardinality(DOMAIN nodes)] ==
            IF n = 0 THEN <<>>
            ELSE LET l == line[n - 1]
                     parent == ParentKey(IF l = <<>> THEN nodes[key] ELSE Last(l))
                 IN  IF parent \in DOMAIN nodes \ {ProcessKey(e) : e \in ToSet(l)}
                     THEN Append(l, nodes[parent]) ELSE l
    IN  line[Cardinality(DOMAIN nodes)]
===============================================================================
