------------------------------- MODULE EventLog -------------------------------
(***************************************************************************)
(* A Windows host, the files its events end up in, and what issen-evtx     *)
(* makes of them (EventAnalysis).                                          *)
(*                                                                         *)
(* The host is external.  It gives out logon ids from the same start after *)
(* every boot and the ids of dead processes to new ones; it goes down with *)
(* or without a word; its log goes on in a new file when one is full, and  *)
(* what was written before may be cleared.  The evidence is its files in   *)
(* the order in which the directory lists them.                            *)
(***************************************************************************)
EXTENDS EventAnalysis

CONSTANTS
    Pids,       \* process ids
    Logons,     \* the kinds of logon: [type, ip]
    MaxEvents,  \* bound: events the host writes
    MaxBoots    \* bound: its boots

ASSUME EventLogAssumption ==
    /\ Pids \subseteq Nat \ {0} /\ {MaxEvents, MaxBoots} \subseteq Nat
    /\ \A l \in Logons : l.type \in Nat

VARIABLES
    sysmon,   \* whether it is Sysmon that records the starting of processes
    up,       \* "on", "off" or "lost": down without a word
    boot,     \* boots so far
    granted,  \* logon id, given out since the last boot -> kind of the logon, while on
    running,  \* the processes: pid -> guid, which is unique
    written,  \* how many events have been written
    files,    \* the log's files, oldest first
    slice     \* the events as they were read; <<>> until then

logVars == <<sysmon, up, boot, granted, running, written, files, slice>>

LogInit ==
    /\ sysmon \in BOOLEAN
    /\ up = "off" /\ boot = 0 /\ granted = <<>> /\ running = <<>>
    /\ written = 0 /\ files = <<<<>>>>
    /\ slice = <<>>

\* An event of nothing in particular: the time is the number of the event, and
\* boot, guid and pguid say what it truly is about.
LogEvent(eid) ==
    [t |-> written + 1, eid |-> eid, lid |-> 0, pid |-> 0, ppid |-> 0, type |-> 0, ip |-> "-",
     boot |-> boot, guid |-> 0, pguid |-> 0]

\* The host writes some events.
Write(events) ==
    /\ slice = <<>>
    /\ written + Len(events) <= MaxEvents
    /\ written' = written + Len(events)
    /\ files' = [files EXCEPT ![Len(files)] = @ \o events]
    /\ UNCHANGED <<sysmon, slice>>

NobodyOn == [type |-> 0, ip |-> "-"]
LoggedOn == {l \in DOMAIN granted : granted[l] # NobodyOn}
Ids == <<granted, running>>

\* A boot after the host went down without a word is usually preceded by the
\* word that it did.
Boot ==
    /\ up # "on" /\ boot < MaxBoots
    /\ up' = "on" /\ boot' = boot + 1
    /\ granted' = <<>> /\ running' = <<>>
    /\ \/ Write(<<[LogEvent(BOOT) EXCEPT !.boot = boot + 1]>>)
       \/ /\ up = "lost"
          /\ Write(<<LogEvent(UNEXPECTED_SHUTDOWN),
                     [LogEvent(BOOT) EXCEPT !.boot = boot + 1, !.t = written + 2]>>)

ShutDown ==
    /\ up = "on" /\ up' = "off"
    /\ Write(<<LogEvent(SHUTDOWN)>>)
    /\ UNCHANGED <<boot, Ids>>

GoDown ==
    /\ up = "on" /\ up' = "lost"
    /\ slice = <<>>
    /\ UNCHANGED <<sysmon, boot, Ids, written, files, slice>>

Logon(kind) ==
    /\ up = "on"
    /\ granted' = Append(granted, kind)
    /\ Write(<<[LogEvent(LOGON) EXCEPT !.lid = Len(granted) + 1,
                                        !.type = kind.type, !.ip = kind.ip]>>)
    /\ UNCHANGED <<up, boot, running>>

Privilege(lid) ==
    /\ up = "on" /\ lid \in LoggedOn
    /\ Write(<<[LogEvent(SPECIAL_LOGON) EXCEPT !.lid = lid]>>)
    /\ UNCHANGED <<up, boot, Ids>>

\* Whoever sits at the console asks to be logged off, which may come to nothing;
\* any session ends.
UserLogoff(lid) ==
    /\ up = "on" /\ lid \in LoggedOn /\ granted[lid].type = 2
    /\ Write(<<[LogEvent(4647) EXCEPT !.lid = lid]>>)
    /\ UNCHANGED <<up, boot, Ids>>

Logoff(lid) ==
    /\ up = "on" /\ lid \in LoggedOn
    /\ granted' = [granted EXCEPT ![lid] = NobodyOn]
    /\ Write(<<[LogEvent(4634) EXCEPT !.lid = lid]>>)
    /\ UNCHANGED <<up, boot, running>>

\* A process is started by one that runs or by the system, in some session or
\* in none.
Start(pid, parent, lid) ==
    /\ up = "on" /\ pid \notin DOMAIN running
    /\ running' = [p \in DOMAIN running \cup {pid} |->
                      IF p = pid THEN written + 1 ELSE running[p]]
    /\ Write(<<[LogEvent(IF sysmon THEN SYSMON_PROCESS_CREATE ELSE PROCESS_CREATE) EXCEPT
                   !.lid = lid, !.pid = pid, !.guid = written + 1, !.ppid = parent,
                   !.pguid = IF parent = 0 THEN 0 ELSE running[parent]]>>)
    /\ UNCHANGED <<up, boot, granted>>

Exit(pid) ==
    /\ pid \in DOMAIN running /\ slice = <<>>
    /\ running' = [p \in DOMAIN running \ {pid} |-> running[p]]
    /\ UNCHANGED <<sysmon, up, boot, granted, written, files, slice>>

\* The log goes on in a new file, or what was written so far is cleared.
Rotate ==
    /\ Len(files) = 1 /\ files[1] # <<>> /\ slice = <<>>
    /\ files' = Append(files, <<>>)
    /\ UNCHANGED <<sysmon, up, boot, Ids, written, slice>>

Clear ==
    /\ slice = <<>> /\ files # <<<<>>>>
    /\ files' = <<<<>>>>
    /\ UNCHANGED <<sysmon, up, boot, Ids, written, slice>>

\* parse_evtx_to_events appends file after file, in the order in which
\* find_evtx_files came upon them.
ReadFiles ==
    /\ slice = <<>>
    /\ slice' \in {FlattenSeq(files), FlattenSeq(Reverse(files))}
    /\ slice' # <<>>
    /\ UNCHANGED <<sysmon, up, boot, Ids, written, files>>

Host ==
    \/ Boot \/ ShutDown \/ GoDown \/ Rotate \/ Clear
    \/ \E kind \in Logons : Logon(kind)
    \/ \E lid \in LoggedOn : Privilege(lid) \/ UserLogoff(lid) \/ Logoff(lid)
    \/ \E pid \in Pids, parent \in DOMAIN running \cup {0}, lid \in LoggedOn \cup {0} :
          Start(pid, parent, lid)
    \/ \E pid \in DOMAIN running : Exit(pid)

LogNext == Host \/ ReadFiles

LogSpec == LogInit /\ [][LogNext]_logVars

-------------------------------------------------------------------------------
\* Properties, of what is made of the events once they have been read.

\* The events of one boot are what a logon id is unique in.
OneBoot(lid) == Cardinality({e.boot : e \in {x \in ToSet(slice) : x.lid = lid}}) = 1
TimesOf(eids, lid) == {e.t : e \in {x \in ToSet(slice) : x.eid \in eids /\ x.lid = lid}}

\* Sessions are reconstructed in whatever order the files come: a logon makes
\* one that is orphaned exactly if its logoff is nowhere, and otherwise ends at
\* one of its logoffs (a logoff that was asked for and the end that followed are
\* two), after it began, its duration the whole seconds in between; the chain of
\* the same logon id agrees about its times and has the processes started in it.
\* (Of logon ids that one boot gave out: what was reused is merged.)
SessionsAreReal ==
    LET events == parse_evtx_to_events(slice)
        sessions == correlate_sessions(events)
        chains == build_logon_chains(slice)
        real == {l \in LogonIds(slice, {LOGON}) : OneBoot(l)}
        lateral == find_lateral_movement(sessions)
    IN  \A l \in real :
            /\ sessions[l].is_orphaned <=> TimesOf(LOGOFF, l) = {}
            /\ ~sessions[l].is_orphaned =>
                  /\ sessions[l].logoff \in TimesOf(LOGOFF, l)
                  /\ sessions[l].logoff > sessions[l].logon
                  /\ sessions[l].duration = (sessions[l].logoff - sessions[l].logon) \div Second
            /\ {chains[l].logon} = TimesOf({LOGON}, l)
            /\ chains[l].logon = sessions[l].logon /\ chains[l].logoff = sessions[l].logoff
            /\ Len(chains[l].pids) = Cardinality(TimesOf({PROCESS_CREATE}, l))
            /\ (sessions[l].type = 3 /\ sessions[l].ip # "-") <=>
                    \E ip \in DOMAIN lateral : l \in lateral[ip]

\* Every boot whose marker is left has one cycle, in the order of the boots, of
\* the events of that boot that are left; it closes if the boot ended cleanly,
\* and tells how the one before ended: cleanly, unexpectedly, or not known to
\* the log.  (Nothing is asked about what came before the first marker.)
CyclesAreReal ==
    LET cycles == segment_by_boot_cycle(slice)
        markers == {BOOT, SHUTDOWN, UNEXPECTED_SHUTDOWN}
        logged(eid, b) == \E e \in ToSet(slice) : e.eid = eid /\ e.boot = b
    IN  /\ \A i, j \in DOMAIN cycles : i < j => cycles[i].boot < cycles[j].boot
        /\ \A e \in ToSet(slice) :
              e.eid = BOOT =>
                \E i \in DOMAIN cycles :
                   LET c == cycles[i]
                   IN  /\ c.boot = e.t
                       /\ ToSet(c.events) = {f \in ToSet(slice) :
                                                f.boot = e.boot /\ f.eid \notin markers}
                       /\ c.shutdown # 0 <=> logged(SHUTDOWN, e.boot)
                       /\ c.prior = IF logged(SHUTDOWN, e.boot - 1) THEN "Clean"
                                    ELSE IF logged(UNEXPECTED_SHUTDOWN, e.boot - 1)
                                    THEN "Unexpected" ELSE "Unknown"

\* A line of starts is the whole one above a process that was started: each is
\* that of the parent of the one before, and the last one's parent is not recorded.
TrueLine(line, start) ==
    LET starts == ToSet(Starts(slice))
        last == IF line = <<>> THEN start ELSE Last(line)
    IN  /\ \A i \in DOMAIN line :
              /\ line[i] \in starts
              /\ line[i].guid = IF i = 1 THEN start.pguid ELSE line[i - 1].pguid
        /\ \A e \in starts : e.guid # last.pguid

\* The tree gives every process its true line of ancestors, whatever the order
\* of the files: always from Sysmon's guids, and from process ids if none of
\* them has come back.  Even if some have, a line ends and repeats nobody.
AncestorsAreReal ==
    LET nodes == from_events(slice)
        starts == ToSet(Starts(slice))
        unique == \A e, f \in starts : ProcessKey(e) = ProcessKey(f) => e = f
        known == \A e \in starts :
                    e.pguid # 0 => \/ sysmon
                                   \/ \E f \in starts : f.guid = e.pguid
                                   \/ ParentKey(e) \notin DOMAIN nodes
    IN  \A e \in starts :
            LET line == ancestors_of(nodes, ProcessKey(e))
            IN  IsInjective(line) /\ (unique /\ known => TrueLine(line, e))
===============================================================================
