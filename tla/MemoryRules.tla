----------------------------- MODULE MemoryRules ------------------------------
(***************************************************************************)
(* The memory-leg rules of issen-correlation (Tier C and C'), matched over *)
(* the rows of point-in-time dumps.  A memory row is an event record with  *)
(* the further fields pid, ppid, threads and state; NoValue stands for a   *)
(* field its metadata does not carry.                                      *)
(***************************************************************************)
EXTENDS CorrelationRules

CONSTANT NoValue

MemoryRow(ev) == ev.source = "memory"

Earliest(rows) == LET ts == {r.ts : r \in rows} IN CHOOSE t \in ts : \A u \in ts : t <= u
Latest(rows) == LET ts == {r.ts : r \in rows} IN CHOOSE t \in ts : \A u \in ts : t >= u

MemoryFiring(code, rows, roles) ==
    [code |-> code,
     members |-> [i \in DOMAIN rows |-> <<rows[i].id, roles[i]>>],
     first |-> Earliest(ToSet(rows)), last |-> Latest(ToSet(rows))]

PairRoles == <<"anchor", "consequent">>

-------------------------------------------------------------------------------
\* CORR-INJECTED-C2: an injection and an established connection of the same
\* process in the same dump.

IsEstablishedExternal(row) ==
    row.type = "NetworkConnect" /\ row.state = "ESTABLISHED" /\ Named(row, "ip") # {}

SharesProcess(a, b) == Named(a, "proc") \cap Named(b, "proc") # {}

InjectedC2Pairs(mem) ==
    LET injections == OfType(mem, "MemoryInjection")
        conns == Where(mem, IsEstablishedExternal)
        fired(inj) ==
            LET hits == Where(conns, LAMBDA c : inj.host = c.host /\ SharesProcess(inj, c))
            IN  [i \in DOMAIN hits |->
                   MemoryFiring("injected-c2", <<inj, hits[i]>>, PairRoles)]
    IN  FlattenSeq([i \in DOMAIN injections |-> fired(injections[i])])

-------------------------------------------------------------------------------
\* CORR-DISK-FILE-RUNNING: a resident process and a created file of one stem.

\* The first process subject; a process name is <<stem, ext>> of its image.
ProcessNames(row) == Where(row.ents, LAMBDA e : e[1] = "proc")
ImageStem(row) == ProcessNames(row)[1][2][1]

ProcDiskMatches(mem, disk) ==
    LET procs == Where(OfType(mem, "ProcessExec"), LAMBDA p : ProcessNames(p) # <<>>)
        creates == Where(disk, LAMBDA e : e.type = "FileCreate" /\ ~MemoryRow(e))
        fired(p) ==
            LET hits == Where(creates, LAMBDA c : c.path.stem = ImageStem(p))
            IN  [i \in DOMAIN hits |->
                   MemoryFiring("disk-file-running", <<p, hits[i]>>, PairRoles)]
    IN  FlattenSeq([i \in DOMAIN procs |-> fired(procs[i])])

-------------------------------------------------------------------------------
\* CORR-PROC-MIGRATION: a dead, orphaned process and an injected live one.

ProcRows(mem, h) ==
    Where(OfType(mem, "ProcessExec"),
              LAMBDA e : e.host = h /\ NoValue \notin {e.pid, e.ppid, e.threads})

DeadOrphans(mem, h) ==
    LET procs == ProcRows(mem, h)
        pids == {p.pid : p \in ToSet(procs)}
    IN  Where(procs, LAMBDA p : p.threads = 0 /\ p.ppid \notin pids)

LiveInjections(mem, h) ==
    LET live == {p.pid : p \in {q \in ToSet(ProcRows(mem, h)) : q.threads > 0}}
    IN  Where(OfType(mem, "MemoryInjection"), LAMBDA e : e.host = h /\ e.pid \in live)

ConnectionsOf(mem, h, pid) ==
    Where(OfType(mem, "NetworkConnect"),
              LAMBDA e : e.host = h /\ e.pid = pid /\ Named(e, "ip") # {})

RemoteEndpoint(row) == Where(row.ents, LAMBDA e : e[1] = "ip")[1]

SameImageStem(dead, inj) ==
    /\ ProcessNames(dead) # <<>> /\ ProcessNames(inj) # <<>>
    /\ ImageStem(dead) = ImageStem(inj)

StrongChain(dead, inj, conn, deadConn) ==
    MemoryFiring("proc-migration", <<dead, inj, deadConn, conn>>,
                 <<"anchor", "consequent", "supporting", "supporting">>)

DegradedChain(dead, inj, conn) ==
    MemoryFiring("proc-migration-degraded", <<dead, inj, conn>>,
                 <<"anchor", "consequent", "supporting">>)

ChainOf_Fault(mem, h, dead, inj) ==
    LET deadConns(c) == Where(ConnectionsOf(mem, h, dead.pid),
                                  LAMBDA e : RemoteEndpoint(e) = RemoteEndpoint(c))
        conns == ConnectionsOf(mem, h, inj.pid)
    IN  IF inj.pid = dead.pid \/ conns = <<>> THEN <<>>
        ELSE IF deadConns(conns[1]) # <<>>
        THEN <<StrongChain(dead, inj, conns[1], deadConns(conns[1])[1])>>
        ELSE IF SameImageStem(dead, inj) THEN <<DegradedChain(dead, inj, conns[1])>>
        ELSE <<>>
\* The live process's connections in row order: the first that yields a chain,
\* strong or degraded, ends the scan.
ChainOf(mem, h, dead, inj) ==
    LET deadConns(c) == Where(ConnectionsOf(mem, h, dead.pid),
                                  LAMBDA e : RemoteEndpoint(e) = RemoteEndpoint(c))
        yields(c) == deadConns(c) # <<>> \/ SameImageStem(dead, inj)
        hits == Where(ConnectionsOf(mem, h, inj.pid), yields)
    IN  IF inj.pid = dead.pid \/ hits = <<>> THEN <<>>
        ELSE IF deadConns(hits[1]) # <<>>
        THEN <<StrongChain(dead, inj, hits[1], deadConns(hits[1])[1])>>
        ELSE <<DegradedChain(dead, inj, hits[1])>>

ProcMigrationChains(mem) ==
    LET hosts == SetToSeq({e.host : e \in ToSet(mem)})
        perHost(h) ==
            LET dead == DeadOrphans(mem, h)
                inj == LiveInjections(mem, h)
                perDead(d) == FlattenSeq([j \in DOMAIN inj |-> ChainOf(mem, h, d, inj[j])])
            IN  FlattenSeq([i \in DOMAIN dead |-> perDead(dead[i])])
    IN  FlattenSeq([k \in DOMAIN hosts |-> perHost(hosts[k])])

RunMemoryRules(mem, disk) ==
    InjectedC2Pairs(mem) \o ProcDiskMatches(mem, disk) \o ProcMigrationChains(mem)
===============================================================================
