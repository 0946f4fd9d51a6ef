---------------------------- MODULE EventLogProofs ----------------------------
(***************************************************************************)
(* Theorems about what is made of a host's event logs (EventLog): first    *)
(* what rotating and clearing logs leaves true of the events in them, then *)
(* what each analysis makes of such events, in whatever order it is given. *)
(***************************************************************************)
EXTENDS EventLog, SliceProofs

-------------------------------------------------------------------------------
\* What is true of any part of the log that was not cleared.

\* The kinds of logon, of one that has ended too.
Grant == Logons \cup {NobodyOn}
Sources == {"-"} \cup {k.ip : k \in Logons}
LogRecord == [t : Nat, eid : Nat, lid : Nat, pid : Nat, ppid : Nat, type : Nat,
              ip : Sources, boot : Nat, guid : Nat, pguid : Nat]
Starting == {PROCESS_CREATE, SYSMON_PROCESS_CREATE}
Ending == {SHUTDOWN, UNEXPECTED_SHUTDOWN}

\* No two events are of one time.
Timely(S) ==
    /\ S \subseteq LogRecord
    /\ \A e \in S : e.t >= 1
    /\ \A e, f \in S : e.t = f.t => e = f

\* A boot gives out a logon id once, and has it taken back later only.
LogonsApart(S) ==
    /\ \A e \in S : e.eid = LOGON => e.lid # 0
    /\ \A e, f \in S :
          e.boot = f.boot /\ e.lid = f.lid =>
              /\ e.eid = LOGON /\ f.eid = LOGON => e = f
              /\ e.eid = LOGON /\ f.eid \in LOGOFF => e.t < f.t

\* The events of a boot lie between its marker and what tells of its end, and
\* every boot after that of an event left the marker it began with.
BootMarked(S, b) == \E e \in S : e.eid = BOOT /\ e.boot = b

BootsInOrder(S) ==
    /\ \A e \in S : e.eid = BOOT => e.boot \in 1 .. MaxBoots
    /\ \A e, f \in S : e.boot < f.boot => e.t < f.t
    /\ \A e, f \in S : e.boot = f.boot =>
          /\ e.eid = BOOT => e.t <= f.t
          /\ e.eid \in Ending => f.t <= e.t
    /\ \A e, f \in S : \A b \in e.boot + 1 .. f.boot : BootMarked(S, b)

\* The start of a process tells who started it; guids are given out once.
StartsLinked(S) ==
    /\ \A e \in S : e.eid \in Starting =>
          /\ e.guid = e.t /\ e.pguid < e.guid
          /\ e.pid # 0 /\ (e.pguid = 0 <=> e.ppid = 0)
          /\ e.eid = SYSMON_PROCESS_CREATE <=> sysmon
    /\ \A e, f \in S : e.eid \in Starting /\ f.eid \in Starting /\ f.guid = e.pguid =>
          f.pid = e.ppid

Recorded(S) == Timely(S) /\ LogonsApart(S) /\ BootsInOrder(S) /\ StartsLinked(S)

\* What of the log agrees with the host as it is: n events written, up or down
\* in boot b, logons g and processes r.
UpToNow(S, n, u, b) ==
    /\ n \in Nat /\ b \in 0 .. MaxBoots
    /\ \A e \in S : e.t <= n /\ e.boot <= b
    /\ \A e \in S : \A c \in e.boot + 1 .. b : BootMarked(S, c)
    /\ \A e \in S : e.eid \in Ending /\ e.boot = b => u = "off"

LoggedNow(S, b, g) ==
    /\ g \in Seq(Grant)
    /\ \A e \in S : e.boot = b => e.lid <= Len(g)

RunningNow(S, n, r) ==
    /\ DOMAIN r \subseteq Pids
    /\ \A p \in DOMAIN r :
          /\ r[p] \in 1 .. n
          /\ \A e \in S : e.eid \in Starting /\ e.guid = r[p] => e.pid = p

HostInv(S, n, u, b, g, r) ==
    Recorded(S) /\ UpToNow(S, n, u, b) /\ LoggedNow(S, b, g) /\ RunningNow(S, n, r)

-------------------------------------------------------------------------------
\* Every event that the host writes keeps all of this.

LEMMA EventIds ==
  /\ BOOT = 6005 /\ SHUTDOWN = 6006 /\ UNEXPECTED_SHUTDOWN = 6008 /\ LOGON = 4624
  /\ LOGOFF = {4634, 4647} /\ SPECIAL_LOGON = 4672
  /\ PROCESS_CREATE = 4688 /\ SYSMON_PROCESS_CREATE = 1
BY DEF BOOT, SHUTDOWN, UNEXPECTED_SHUTDOWN, LOGON, LOGOFF, SPECIAL_LOGON,
       PROCESS_CREATE, SYSMON_PROCESS_CREATE

\* An event of a running boot that is no boot, with the next time.
IsNext(e, S, n, b) == e \in LogRecord /\ e.t = n + 1 /\ e.boot = b /\ e.eid # BOOT

LEMMA TimelyGrows ==
  ASSUME NEW S, NEW n \in Nat, Timely(S), \A e \in S : e.t <= n,
         NEW x \in LogRecord, x.t = n + 1
  PROVE  Timely(S \cup {x}) /\ \A e \in S \cup {x} : e.t <= n + 1
BY DEF Timely, LogRecord

\* Within a boot that has not been shut down cleanly.
LEMMA BootGoesOn ==
  ASSUME NEW S, NEW n, NEW u, NEW b, Timely(S), BootsInOrder(S), UpToNow(S, n, u, b),
         u # "off", NEW x, IsNext(x, S, n, b), NEW v, x.eid \in Ending => v = "off"
  PROVE  BootsInOrder(S \cup {x}) /\ UpToNow(S \cup {x}, n + 1, v, b)
<1> DEFINE T == S \cup {x}
<1>1. /\ n \in Nat /\ b \in Nat /\ b <= MaxBoots /\ MaxBoots \in Nat
      /\ \A e \in S : e.t \in Nat /\ e.boot \in Nat /\ e.t <= n /\ e.boot <= b /\ e.t < x.t
      /\ \A e \in S : e.eid \in Ending => e.boot # b
      /\ x.t = n + 1 /\ x.t \in Nat /\ x.boot = b /\ x.eid # BOOT
  BY EventLogAssumption DEF Timely, UpToNow, IsNext, LogRecord
<1>2. \A c : BootMarked(S, c) => BootMarked(T, c)
  BY DEF BootMarked
<1>3. \A e \in T : \A c \in e.boot + 1 .. b : BootMarked(T, c)
  <2> SUFFICES ASSUME NEW e \in T, NEW c \in e.boot + 1 .. b  PROVE  BootMarked(T, c)
    OBVIOUS
  <2>1. CASE e = x
    BY <1>1, <2>1
  <2>2. CASE e \in S
    BY <1>2, <2>2 DEF UpToNow
  <2>. QED
    BY <2>1, <2>2
<1>4. \A e, f \in T : \A c \in e.boot + 1 .. f.boot : BootMarked(T, c)
  <2> SUFFICES ASSUME NEW e \in T, NEW f \in T, NEW c \in e.boot + 1 .. f.boot
               PROVE  BootMarked(T, c)
    OBVIOUS
  <2>1. e.boot \in Nat /\ f.boot \in Nat /\ f.boot <= b
    BY <1>1
  <2>2. c \in e.boot + 1 .. b
    BY <1>1, <2>1
  <2>. QED
    BY <1>3, <2>2
<1>5. \A e \in T : e.eid = BOOT => e.boot \in 1 .. MaxBoots
  BY <1>1 DEF BootsInOrder
<1>6. \A e, f \in T : e.boot < f.boot => e.t < f.t
  BY <1>1 DEF BootsInOrder
<1>7. \A e, f \in T : e.boot = f.boot =>
          /\ e.eid = BOOT => e.t <= f.t
          /\ e.eid \in Ending => f.t <= e.t
  BY <1>1 DEF BootsInOrder
<1>8. BootsInOrder(T)
  BY <1>4, <1>5, <1>6, <1>7 DEF BootsInOrder
<1>9. \A e \in T : e.t <= n + 1 /\ e.boot <= b
  BY <1>1
<1>10. \A e \in T : e.eid \in Ending /\ e.boot = b => v = "off"
  BY <1>1
<1>. QED
  BY <1>1, <1>3, <1>8, <1>9, <1>10 DEF UpToNow

\* The marker of a boot comes before all of its events.
LEMMA NextBoot ==
  ASSUME NEW S, NEW n, NEW u, NEW b, Timely(S), BootsInOrder(S), UpToNow(S, n, u, b),
         b < MaxBoots, NEW x \in LogRecord, x.t = n + 1, x.boot = b + 1, x.eid = BOOT
  PROVE  BootsInOrder(S \cup {x}) /\ UpToNow(S \cup {x}, n + 1, "on", b + 1)
<1> DEFINE T == S \cup {x}
<1>1. /\ n \in Nat /\ b \in Nat /\ b + 1 <= MaxBoots /\ MaxBoots \in Nat
      /\ \A e \in S : e.t \in Nat /\ e.boot \in Nat /\ e.t <= n /\ e.boot <= b /\ e.t < x.t
      /\ x.t = n + 1 /\ x.t \in Nat /\ x.boot = b + 1 /\ x.eid = BOOT /\ x.eid \notin Ending
  BY EventLogAssumption, EventIds DEF Timely, UpToNow, LogRecord, Ending
<1>2. \A c : BootMarked(S, c) => BootMarked(T, c)
  BY DEF BootMarked
<1>3. BootMarked(T, b + 1)
  BY <1>1 DEF BootMarked
<1>4. \A e \in T : \A c \in e.boot + 1 .. b + 1 : BootMarked(T, c)
  <2> SUFFICES ASSUME NEW e \in T, NEW c \in e.boot + 1 .. b + 1  PROVE  BootMarked(T, c)
    OBVIOUS
  <2>1. CASE c = b + 1
    BY <1>3, <2>1
  <2>2. CASE c # b + 1
    <3>1. e \in S /\ c \in e.boot + 1 .. b
      BY <1>1, <2>2
    <3>. QED
      BY <1>2, <3>1 DEF UpToNow
  <2>. QED
    BY <2>1, <2>2
<1>5. \A e, f \in T : \A c \in e.boot + 1 .. f.boot : BootMarked(T, c)
  <2> SUFFICES ASSUME NEW e \in T, NEW f \in T, NEW c \in e.boot + 1 .. f.boot
               PROVE  BootMarked(T, c)
    OBVIOUS
  <2>1. e.boot \in Nat /\ f.boot \in Nat /\ f.boot <= b + 1
    BY <1>1
  <2>2. c \in e.boot + 1 .. b + 1
    BY <1>1, <2>1
  <2>. QED
    BY <1>4, <2>2
<1>6. \A e \in T : e.eid = BOOT => e.boot \in 1 .. MaxBoots
  BY <1>1 DEF BootsInOrder
<1>7. \A e, f \in T : e.boot < f.boot => e.t < f.t
  BY <1>1 DEF BootsInOrder
<1>8. \A e, f \in T : e.boot = f.boot =>
          /\ e.eid = BOOT => e.t <= f.t
          /\ e.eid \in Ending => f.t <= e.t
  BY <1>1 DEF BootsInOrder
<1>9. BootsInOrder(T)
  BY <1>5, <1>6, <1>7, <1>8 DEF BootsInOrder
<1>10. \A e \in T : /\ e.t <= n + 1 /\ e.boot <= b + 1
                    /\ ~ (e.eid \in Ending /\ e.boot = b + 1)
  BY <1>1
<1>11. b + 1 \in 0 .. MaxBoots /\ n + 1 \in Nat
  BY <1>1
<1>12. UpToNow(T, n + 1, "on", b + 1)
  BY <1>4, <1>10, <1>11 DEF UpToNow
<1>. QED
  BY <1>9, <1>12

\* An event that is no logon, logoff or start has no say in these.
LEMMA OthersApart ==
  ASSUME NEW S, LogonsApart(S), NEW x, x.eid # LOGON, x.eid \notin LOGOFF
  PROVE  LogonsApart(S \cup {x})
BY DEF LogonsApart

LEMMA OthersLinked ==
  ASSUME NEW S, StartsLinked(S), NEW x, x.eid \notin Starting
  PROVE  StartsLinked(S \cup {x})
BY DEF StartsLinked

LEMMA OthersRunning ==
  ASSUME NEW S, NEW n \in Nat, NEW r, RunningNow(S, n, r), NEW x, x.eid \notin Starting
  PROVE  RunningNow(S \cup {x}, n + 1, r)
BY DEF RunningNow

\* What a boot begins with: nobody logged on, nothing running.
LEMMA BootAdds ==
  ASSUME NEW S, NEW n, NEW u, NEW b, NEW g, NEW r, HostInv(S, n, u, b, g, r),
         b < MaxBoots, NEW x \in LogRecord, x.t = n + 1, x.boot = b + 1, x.eid = BOOT,
         x.lid = 0
  PROVE  HostInv(S \cup {x}, n + 1, "on", b + 1, <<>>, <<>>)
<1> DEFINE T == S \cup {x}
<1>1. Timely(S) /\ n \in Nat /\ b \in Nat /\ \A e \in S : e.t <= n /\ e.boot <= b
  BY EventLogAssumption DEF HostInv, Recorded, UpToNow
<1>2. x.eid # LOGON /\ x.eid \notin LOGOFF /\ x.eid \notin Starting
  BY EventIds DEF Starting
<1>3. Timely(T)
  BY <1>1, TimelyGrows
<1>4. BootsInOrder(T) /\ UpToNow(T, n + 1, "on", b + 1)
  BY NextBoot DEF HostInv, Recorded
<1>5. LogonsApart(T) /\ StartsLinked(T)
  BY <1>2, OthersApart, OthersLinked DEF HostInv, Recorded
<1>6. \A e \in S : e.boot \in Nat /\ e.boot # b + 1
  BY <1>1 DEF Timely, LogRecord
<1>7. LoggedNow(T, b + 1, <<>>)
  <2>1. <<>> \in Seq(Grant) /\ Len(<<>>) = 0
    OBVIOUS
  <2>2. \A e \in T : e.boot = b + 1 => e.lid <= Len(<<>>)
    BY <1>6, <2>1
  <2>. QED
    BY <2>1, <2>2 DEF LoggedNow
<1>8. RunningNow(T, n + 1, <<>>)
  BY DEF RunningNow
<1>. QED
  BY <1>3, <1>4, <1>5, <1>7, <1>8 DEF HostInv, Recorded

\* A shutdown, clean or reported after the fact, or a privileged logon of a
\* logon id that somebody has: the logons and the processes stay.
LEMMA OtherAdds ==
  ASSUME NEW S, NEW n, NEW u, NEW b, NEW g, NEW r, HostInv(S, n, u, b, g, r),
         u # "off", NEW x, IsNext(x, S, n, b), NEW v, x.eid \in Ending => v = "off",
         x.eid \in Ending \cup {SPECIAL_LOGON}, x.lid <= Len(g)
  PROVE  HostInv(S \cup {x}, n + 1, v, b, g, r)
<1> DEFINE T == S \cup {x}
<1>1. Timely(S) /\ n \in Nat /\ \A e \in S : e.t <= n
  BY DEF HostInv, Recorded, UpToNow
<1>2. x.eid # LOGON /\ x.eid \notin LOGOFF /\ x.eid \notin Starting
  BY EventIds DEF Starting, Ending
<1>3. Timely(T)
  BY <1>1, TimelyGrows DEF IsNext
<1>4. BootsInOrder(T) /\ UpToNow(T, n + 1, v, b)
  BY BootGoesOn DEF HostInv, Recorded
<1>5. LogonsApart(T) /\ StartsLinked(T) /\ RunningNow(T, n + 1, r)
  BY <1>1, <1>2, OthersApart, OthersLinked, OthersRunning DEF HostInv, Recorded
<1>6. LoggedNow(T, b, g)
  BY DEF HostInv, LoggedNow
<1>. QED
  BY <1>3, <1>4, <1>5, <1>6 DEF HostInv, Recorded

\* A logon takes the next id of its boot.
LEMMA LogonAdds ==
  ASSUME NEW S, NEW n, NEW b, NEW g, NEW r, HostInv(S, n, "on", b, g, r),
         NEW x, IsNext(x, S, n, b), x.eid = LOGON, x.lid = Len(g) + 1,
         NEW kind \in Grant
  PROVE  HostInv(S \cup {x}, n + 1, "on", b, Append(g, kind), r)
<1> DEFINE T == S \cup {x}
           h == Append(g, kind)
<1>1. Timely(S) /\ n \in Nat /\ \A e \in S : e.t <= n /\ e.lid \in Nat
  BY DEF HostInv, Recorded, UpToNow, Timely, LogRecord
<1>2. x.eid \notin Ending /\ x.eid \notin LOGOFF /\ x.eid \notin Starting
  BY EventIds DEF Starting, Ending
<1>3. Timely(T)
  BY <1>1, TimelyGrows DEF IsNext
<1>4. BootsInOrder(T) /\ UpToNow(T, n + 1, "on", b)
  BY <1>2, BootGoesOn DEF HostInv, Recorded
<1>5. StartsLinked(T) /\ RunningNow(T, n + 1, r)
  BY <1>1, <1>2, OthersLinked, OthersRunning DEF HostInv, Recorded
<1>6. g \in Seq(Grant) /\ \A e \in S : e.boot = b => e.lid <= Len(g)
  BY DEF HostInv, LoggedNow
<1>7. /\ h \in Seq(Grant) /\ Len(h) = Len(g) + 1 /\ Len(g) \in Nat
      /\ \A l \in DOMAIN g : l \in DOMAIN h /\ h[l] = g[l]
  BY <1>6
<1>8. \A e \in S : e.boot = b => e.lid # x.lid
  BY <1>1, <1>6, <1>7
<1>9. LogonsApart(T)
  BY <1>2, <1>7, <1>8 DEF HostInv, Recorded, LogonsApart, IsNext
<1>10. LoggedNow(T, b, h)
  <2>1. \A e \in S : e.boot = b => e.lid <= Len(h)
    BY <1>1, <1>6, <1>7
  <2>2. x.lid <= Len(h)
    BY <1>7
  <2>. QED
    BY <1>7, <2>1, <2>2 DEF LoggedNow
<1>. QED
  BY <1>3, <1>4, <1>5, <1>9, <1>10 DEF HostInv, Recorded

\* A logoff is of an id that was given out, and changes at most who has it.
LEMMA LogoffAdds ==
  ASSUME NEW S, NEW n, NEW b, NEW g, NEW r, HostInv(S, n, "on", b, g, r),
         NEW x, IsNext(x, S, n, b), x.eid \in LOGOFF, x.lid \in DOMAIN g,
         NEW h \in Seq(Grant), Len(h) = Len(g)
  PROVE  HostInv(S \cup {x}, n + 1, "on", b, h, r)
<1> DEFINE T == S \cup {x}
<1>1. /\ Timely(S) /\ n \in Nat /\ \A e \in S : e.t <= n /\ e.lid \in Nat /\ e.t \in Nat
      /\ x.t = n + 1
  BY DEF HostInv, Recorded, UpToNow, Timely, LogRecord, IsNext
<1>2. x.eid \notin Ending /\ x.eid # LOGON /\ x.eid \notin Starting
  BY EventIds DEF Starting, Ending
<1>3. Timely(T)
  BY <1>1, TimelyGrows DEF IsNext
<1>4. BootsInOrder(T) /\ UpToNow(T, n + 1, "on", b)
  BY <1>2, BootGoesOn DEF HostInv, Recorded
<1>5. StartsLinked(T) /\ RunningNow(T, n + 1, r)
  BY <1>1, <1>2, OthersLinked, OthersRunning DEF HostInv, Recorded
<1>6. g \in Seq(Grant)
  BY DEF HostInv, LoggedNow
<1>7. LogonsApart(T)
  BY <1>1, <1>2 DEF HostInv, Recorded, LogonsApart, IsNext
<1>8. LoggedNow(T, b, h)
  BY <1>6 DEF HostInv, LoggedNow
<1>. QED
  BY <1>3, <1>4, <1>5, <1>7, <1>8 DEF HostInv, Recorded

\* A process is started by one that runs, whose guid its event has, or by none.
LEMMA StartAdds ==
  ASSUME NEW S, NEW n, NEW b, NEW g, NEW r, HostInv(S, n, "on", b, g, r),
         NEW pid \in Pids, pid \notin DOMAIN r, NEW parent \in DOMAIN r \cup {0},
         NEW x, IsNext(x, S, n, b), x.lid <= Len(g),
         x.eid = IF sysmon THEN SYSMON_PROCESS_CREATE ELSE PROCESS_CREATE,
         sysmon \in BOOLEAN,
         x.pid = pid, x.guid = n + 1, x.ppid = parent,
         x.pguid = IF parent = 0 THEN 0 ELSE r[parent],
         NEW q, q = [p \in DOMAIN r \cup {pid} |-> IF p = pid THEN n + 1 ELSE r[p]]
  PROVE  HostInv(S \cup {x}, n + 1, "on", b, g, q)
<1> DEFINE T == S \cup {x}
<1>1. /\ Timely(S) /\ n \in Nat
      /\ \A e \in S : e.t <= n /\ e.t \in Nat /\ e.guid \in Nat /\ e.pguid \in Nat
      /\ x.t = n + 1 /\ x \in LogRecord
  BY DEF HostInv, Recorded, UpToNow, Timely, LogRecord, IsNext
<1>2. x.eid \notin Ending /\ x.eid # LOGON /\ x.eid \notin LOGOFF /\ x.eid \in Starting
  BY EventIds DEF Starting, Ending
<1>3. Timely(T)
  BY <1>1, TimelyGrows
<1>4. BootsInOrder(T) /\ UpToNow(T, n + 1, "on", b)
  BY <1>2, BootGoesOn DEF HostInv, Recorded
<1>5. LogonsApart(T)
  BY <1>2, OthersApart DEF HostInv, Recorded
<1>6. LoggedNow(T, b, g)
  BY DEF HostInv, LoggedNow
<1>7. /\ DOMAIN r \subseteq Pids /\ 0 \notin Pids /\ Pids \subseteq Nat
      /\ \A p \in DOMAIN r : r[p] \in Nat /\ 1 <= r[p] /\ r[p] <= n
      /\ \A p \in DOMAIN r : \A e \in S : e.eid \in Starting /\ e.guid = r[p] => e.pid = p
  BY <1>1, EventLogAssumption DEF HostInv, RunningNow
<1>8. \A e \in S : e.eid \in Starting =>
          /\ e.guid = e.t /\ e.pguid < e.guid /\ e.guid <= n /\ e.pguid < n + 1
          /\ e.pid # 0 /\ (e.pguid = 0 <=> e.ppid = 0)
          /\ (e.eid = SYSMON_PROCESS_CREATE <=> sysmon)
  BY <1>1 DEF HostInv, Recorded, StartsLinked
<1>9. x.pid # 0 /\ (x.pguid = 0 <=> x.ppid = 0) /\ x.pguid \in Nat /\ x.pguid <= n
  BY <1>1, <1>7 DEF LogRecord
<1>10. \A e \in T : e.eid \in Starting =>
          /\ e.guid = e.t /\ e.pguid < e.guid
          /\ e.pid # 0 /\ (e.pguid = 0 <=> e.ppid = 0)
          /\ (e.eid = SYSMON_PROCESS_CREATE <=> sysmon)
  <2>1. x.guid = x.t /\ x.pguid < x.guid
    BY <1>1, <1>9
  <2>2. x.eid = SYSMON_PROCESS_CREATE <=> sysmon
    BY EventIds
  <2>. QED
    BY <1>8, <1>9, <2>1, <2>2
<1>11. \A e, f \in T : e.eid \in Starting /\ f.eid \in Starting /\ f.guid = e.pguid =>
          f.pid = e.ppid
  <2> SUFFICES ASSUME NEW e \in T, NEW f \in T, e.eid \in Starting, f.eid \in Starting,
                      f.guid = e.pguid
               PROVE  f.pid = e.ppid
    OBVIOUS
  <2>1. e.pguid <= n /\ e.pguid \in Nat
    BY <1>1, <1>8, <1>9
  <2>2. f \in S
    BY <1>1, <2>1
  <2>3. CASE e \in S
    BY <2>2, <2>3 DEF HostInv, Recorded, StartsLinked
  <2>4. CASE e = x
    <3>1. f.guid >= 1
      BY <1>8, <2>2 DEF HostInv, Recorded, Timely
    <3>2. parent \in DOMAIN r /\ f.guid = r[parent]
      BY <1>7, <2>4, <3>1
    <3>. QED
      BY <1>7, <2>2, <2>4, <3>2
  <2>. QED
    BY <2>3, <2>4
<1>12. StartsLinked(T)
  BY <1>10, <1>11 DEF StartsLinked
<1>13. RunningNow(T, n + 1, q)
  <2>1. DOMAIN q \subseteq Pids
    BY <1>7
  <2>2. ASSUME NEW p \in DOMAIN q
        PROVE  /\ q[p] \in 1 .. n + 1
               /\ \A e \in T : e.eid \in Starting /\ e.guid = q[p] => e.pid = p
    <3>1. CASE p = pid
      <4>1. q[p] = n + 1 /\ \A e \in S : e.eid \in Starting => e.guid # n + 1
        BY <1>1, <1>8, <3>1
      <4>. QED
        BY <1>1, <3>1, <4>1
    <3>2. CASE p # pid
      <4>1. p \in DOMAIN r /\ q[p] = r[p]
        BY <3>2
      <4>2. x.guid # r[p]
        BY <1>1, <1>7, <4>1
      <4>. QED
        BY <1>1, <1>7, <4>1, <4>2
    <3>. QED
      BY <3>1, <3>2
  <2>. QED
    BY <2>1, <2>2 DEF RunningNow
<1>. QED
  BY <1>3, <1>4, <1>5, <1>6, <1>12, <1>13 DEF HostInv, Recorded

-------------------------------------------------------------------------------
\* The log's files hold each event once, and so does what is read from them.

Held(F) == UNION {ToSet(F[i]) : i \in DOMAIN F}

InFiles(F) ==
    /\ F \in Seq(Seq(LogRecord)) /\ Len(F) \in 1 .. 2
    /\ \A i, j \in DOMAIN F : \A p \in DOMAIN F[i], q \in DOMAIN F[j] :
          F[i][p].t = F[j][q].t => i = j /\ p = q

TimesApart(s) == \A i, j \in DOMAIN s : s[i].t = s[j].t => i = j

LEMMA FileTypes ==
  ASSUME NEW F, InFiles(F)
  PROVE  /\ F \in Seq(Seq(LogRecord)) /\ Len(F) \in 1 .. 2 /\ DOMAIN F = 1 .. Len(F)
         /\ F \in [1 .. Len(F) -> Seq(LogRecord)]
         /\ \A i \in DOMAIN F : /\ F[i] \in Seq(LogRecord) /\ Len(F[i]) \in Nat
                                /\ DOMAIN F[i] = 1 .. Len(F[i])
<1>1. F \in Seq(Seq(LogRecord)) /\ Len(F) \in 1 .. 2
  BY DEF InFiles
<1>2. DOMAIN F = 1 .. Len(F) /\ F \in [1 .. Len(F) -> Seq(LogRecord)]
  BY <1>1
<1>3. ASSUME NEW i \in DOMAIN F
      PROVE  F[i] \in Seq(LogRecord) /\ Len(F[i]) \in Nat /\ DOMAIN F[i] = 1 .. Len(F[i])
  <2>1. F[i] \in Seq(LogRecord)
    BY <1>2
  <2>. QED
    BY <2>1
<1>. QED
  BY <1>1, <1>2, <1>3

LEMMA AppendAt ==
  ASSUME NEW X, NEW s \in Seq(X), NEW e \in X
  PROVE  /\ Append(s, e) \in Seq(X) /\ Len(Append(s, e)) = Len(s) + 1 /\ Len(s) \in Nat
         /\ Append(s, e)[Len(s) + 1] = e
         /\ \A i \in 1 .. Len(s) : i \in DOMAIN s /\ Append(s, e)[i] = s[i]
OBVIOUS

\* Where the elements of two sequences after one another are.
LEMMA ConcatAt ==
  ASSUME NEW X, NEW s \in Seq(X), NEW t \in Seq(X)
  PROVE  /\ s \o t \in Seq(X) /\ DOMAIN (s \o t) = 1 .. Len(s) + Len(t)
         /\ Len(s) \in Nat /\ Len(t) \in Nat
         /\ DOMAIN s = 1 .. Len(s) /\ DOMAIN t = 1 .. Len(t)
         /\ \A p \in 1 .. Len(s) + Len(t) :
               IF p <= Len(s) THEN p \in DOMAIN s /\ (s \o t)[p] = s[p]
               ELSE p - Len(s) \in DOMAIN t /\ (s \o t)[p] = t[p - Len(s)]
OBVIOUS

LEMMA FilesGrow ==
  ASSUME NEW F, InFiles(F), NEW x \in LogRecord, \A e \in Held(F) : e.t # x.t
  PROVE  /\ InFiles([F EXCEPT ![Len(F)] = @ \o <<x>>])
         /\ Held([F EXCEPT ![Len(F)] = @ \o <<x>>]) = Held(F) \cup {x}
<1> DEFINE m == Len(F)
           last == F[m]
           longer == last \o <<x>>
           G == [F EXCEPT ![m] = longer]
           k == Len(last) + 1
<1>1. /\ m \in 1 .. 2 /\ m \in DOMAIN F /\ DOMAIN F = 1 .. m
      /\ F \in [1 .. m -> Seq(LogRecord)]
      /\ last \in Seq(LogRecord) /\ Len(last) \in Nat /\ DOMAIN last = 1 .. Len(last)
  BY FileTypes
<1>2. k \in Nat
  BY <1>1
<1> HIDE DEF last
<1>3. /\ longer \in Seq(LogRecord) /\ DOMAIN longer = 1 .. k /\ longer[k] = x
      /\ \A p \in DOMAIN last : p \in 1 .. k /\ p # k /\ longer[p] = last[p]
      /\ \A p \in 1 .. k : p # k => p \in DOMAIN last
  BY <1>1, SMTT(20)
<1> HIDE DEF longer, k, m
<1>4. /\ G \in [1 .. m -> Seq(LogRecord)] /\ DOMAIN G = DOMAIN F
      /\ G[m] = longer /\ \A i \in DOMAIN F : i # m => G[i] = F[i]
  BY <1>1, <1>3
<1>5. G \in Seq(Seq(LogRecord)) /\ Len(G) = m
  <2> HIDE DEF G
  <2>1. m \in Nat
    BY <1>1
  <2>. QED
    BY <1>4, <2>1, SequenceOf
<1> HIDE DEF G
<1>6. \A i \in DOMAIN G : \A p \in DOMAIN G[i] :
          IF i = m /\ p = k THEN G[i][p] = x
          ELSE p \in DOMAIN F[i] /\ G[i][p] = F[i][p] /\ G[i][p] \in Held(F)
  <2> SUFFICES ASSUME NEW i \in DOMAIN G, NEW p \in DOMAIN G[i]
               PROVE  IF i = m /\ p = k THEN G[i][p] = x
                      ELSE p \in DOMAIN F[i] /\ G[i][p] = F[i][p] /\ G[i][p] \in Held(F)
    OBVIOUS
  <2>1. CASE i = m /\ p = k
    BY <1>3, <1>4, <2>1
  <2>2. CASE ~ (i = m /\ p = k)
    <3>1. i \in DOMAIN F /\ p \in DOMAIN F[i] /\ G[i][p] = F[i][p]
      <4>1. CASE i = m
        BY <1>1, <1>3, <1>4, <2>2, <4>1 DEF last
      <4>2. CASE i # m
        BY <1>4, <4>2
      <4>. QED
        BY <4>1, <4>2
    <3>2. F[i][p] \in Held(F)
      BY <3>1 DEF Held, ToSet
    <3>. QED
      BY <2>2, <3>1, <3>2
  <2>. QED
    BY <2>1, <2>2
<1>7. \A i, j \in DOMAIN G : \A p \in DOMAIN G[i], q \in DOMAIN G[j] :
          G[i][p].t = G[j][q].t => i = j /\ p = q
  <2> SUFFICES ASSUME NEW i \in DOMAIN G, NEW j \in DOMAIN G,
                      NEW p \in DOMAIN G[i], NEW q \in DOMAIN G[j], G[i][p].t = G[j][q].t
               PROVE  i = j /\ p = q
    OBVIOUS
  <2>1. CASE (i = m /\ p = k) \/ (j = m /\ q = k)
    BY <1>6, <2>1
  <2>2. CASE ~ (i = m /\ p = k) /\ ~ (j = m /\ q = k)
    <3>1. /\ i \in DOMAIN F /\ j \in DOMAIN F /\ p \in DOMAIN F[i] /\ q \in DOMAIN F[j]
          /\ F[i][p].t = F[j][q].t
      BY <1>4, <1>6, <2>2
    <3>. QED
      BY <3>1 DEF InFiles
  <2>. QED
    BY <2>1, <2>2
<1>8. Held(G) \subseteq Held(F) \cup {x}
  BY <1>6 DEF Held, ToSet
<1>9. x \in Held(G)
  <2>1. k \in DOMAIN G[m] /\ G[m][k] = x /\ m \in DOMAIN G
    BY <1>1, <1>2, <1>3, <1>4 DEF k
  <2>. QED
    BY <2>1 DEF Held, ToSet
<1>10. Held(F) \subseteq Held(G)
  <2> SUFFICES ASSUME NEW e \in Held(F)  PROVE  e \in Held(G)
    OBVIOUS
  <2>1. PICK i \in DOMAIN F : \E p \in DOMAIN F[i] : e = F[i][p]
    BY DEF Held, ToSet
  <2>2. PICK p \in DOMAIN F[i] : e = F[i][p]
    BY <2>1
  <2>3. p \in DOMAIN G[i] /\ G[i][p] = e
    BY <1>3, <1>4, <2>2 DEF last
  <2>. QED
    BY <1>4, <2>3 DEF Held, ToSet
<1>11. G = [F EXCEPT ![Len(F)] = @ \o <<x>>]
  BY DEF G, m, last, longer
<1>12. InFiles(G)
  BY <1>1, <1>5, <1>7 DEF InFiles
<1>. QED
  BY <1>8, <1>9, <1>10, <1>11, <1>12

LEMMA FilesRead ==
  ASSUME NEW F, InFiles(F)
  PROVE  \A s \in {FlattenSeq(F), FlattenSeq(Reverse(F))} :
            s \in Seq(LogRecord) /\ ToSet(s) = Held(F) /\ TimesApart(s)
<1>1. ASSUME NEW G, InFiles(G)
      PROVE  FlattenSeq(G) \in Seq(LogRecord) /\ ToSet(FlattenSeq(G)) = Held(G) /\ TimesApart(FlattenSeq(G))
  <2> DEFINE m == Len(G)
  <2>1. m \in 1 .. 2 /\ m \in Nat /\ G \in [1 .. m -> Seq(LogRecord)] /\ DOMAIN G = 1 .. m
    BY <1>1, FileTypes
  <2> HIDE DEF m
  <2>2. PICK f : IsFlattening(LogRecord, m, G, f)
    BY <2>1, FlattenRuns
  <2>3. G[1] \in Seq(LogRecord) /\ f[0] = <<>> /\ f[1] = f[0] \o G[1] /\ FlattenSeq(G) = f[m]
    <3>1. 1 \in 1 .. m /\ 1 - 1 = 0
      BY <2>1
    <3>2. f[1] = f[1 - 1] \o G[1]
      BY <2>2, <3>1 DEF IsFlattening
    <3>. QED
      BY <2>1, <2>2, <3>1, <3>2 DEF IsFlattening
  <2>4. f[1] = G[1]
    BY <2>3
  <2>5. CASE m = 1
    <3>1. FlattenSeq(G) = G[1] /\ DOMAIN G = {1}
      BY <2>1, <2>3, <2>4, <2>5
    <3>2. ToSet(G[1]) = Held(G)
      BY <3>1 DEF Held
    <3>. QED
      BY <1>1, <2>3, <3>1, <3>2 DEF InFiles, TimesApart
  <2>6. CASE m = 2
    <3> DEFINE a == G[1]
               c == G[2]
    <3>1. a \in Seq(LogRecord) /\ c \in Seq(LogRecord) /\ DOMAIN G = {1, 2}
      BY <2>1, <2>6
    <3>2. FlattenSeq(G) = a \o c
      <4>1. 2 \in 1 .. m /\ 2 - 1 = 1
        BY <2>6
      <4>2. f[2] = f[2 - 1] \o G[2]
        BY <2>2, <4>1 DEF IsFlattening
      <4>. QED
        BY <2>3, <2>4, <2>6, <4>1, <4>2
    <3>3. Held(G) = ToSet(a) \cup ToSet(c)
      BY <3>1 DEF Held
    <3>4. /\ \A p \in DOMAIN a, q \in DOMAIN a : a[p].t = a[q].t => p = q
          /\ \A p \in DOMAIN c, q \in DOMAIN c : c[p].t = c[q].t => p = q
          /\ \A p \in DOMAIN a, q \in DOMAIN c : a[p].t # c[q].t
      BY <1>1, <3>1 DEF InFiles
    <3> HIDE DEF a, c
    <3>5. a \o c \in Seq(LogRecord) /\ ToSet(a \o c) = Held(G)
      BY <3>1, <3>3, ConcatIsBoth
    <3>6. TimesApart(a \o c)
      <4> DEFINE s == a \o c
      <4>1. /\ DOMAIN s = 1 .. Len(a) + Len(c) /\ Len(a) \in Nat /\ Len(c) \in Nat
            /\ \A p \in 1 .. Len(a) + Len(c) :
                  IF p <= Len(a) THEN p \in DOMAIN a /\ s[p] = a[p]
                  ELSE p - Len(a) \in DOMAIN c /\ s[p] = c[p - Len(a)]
        BY <3>1, ConcatAt
      <4> HIDE DEF s
      <4> SUFFICES ASSUME NEW p \in 1 .. Len(a) + Len(c), NEW q \in 1 .. Len(a) + Len(c),
                          s[p].t = s[q].t
                   PROVE  p = q
        BY <4>1 DEF TimesApart, s
      <4>2. CASE p <= Len(a) /\ q <= Len(a)
        BY <3>4, <4>1, <4>2
      <4>3. CASE p <= Len(a) /\ ~ (q <= Len(a))
        BY <3>4, <4>1, <4>3
      <4>4. CASE ~ (p <= Len(a)) /\ q <= Len(a)
        BY <3>4, <4>1, <4>4
      <4>5. CASE ~ (p <= Len(a)) /\ ~ (q <= Len(a))
        <5>1. p - Len(a) = q - Len(a)
          BY <3>4, <4>1, <4>5
        <5>. QED
          BY <4>1, <5>1
      <4>. QED
        BY <4>2, <4>3, <4>4, <4>5
    <3>. QED
      BY <3>2, <3>5, <3>6
  <2>. QED
    BY <2>1, <2>5, <2>6
<1>2. InFiles(Reverse(F)) /\ Held(Reverse(F)) = Held(F)
  <2> DEFINE m == Len(F)
             G == Reverse(F)
             back(i) == m - i + 1
  <2>1. m \in 1 .. 2 /\ m \in Nat /\ F \in [1 .. m -> Seq(LogRecord)] /\ DOMAIN F = 1 .. m
    BY FileTypes
  <2>2. G = [i \in 1 .. m |-> F[back(i)]]
    BY DEF Reverse
  <2>3. /\ \A i \in 1 .. m : back(i) \in 1 .. m /\ back(back(i)) = i
        /\ \A i, j \in 1 .. m : back(i) = back(j) => i = j
    BY <2>1
  <2> HIDE DEF m, G, back
  <2>4. G \in [1 .. m -> Seq(LogRecord)] /\ \A i \in 1 .. m : G[i] = F[back(i)]
    BY <2>1, <2>2, <2>3
  <2>5. G \in Seq(Seq(LogRecord)) /\ Len(G) = m /\ DOMAIN G = 1 .. m
    BY <2>1, <2>4, SequenceOf
  <2>6. \A i, j \in DOMAIN G : \A p \in DOMAIN G[i], q \in DOMAIN G[j] :
            G[i][p].t = G[j][q].t => i = j /\ p = q
    <3> SUFFICES ASSUME NEW i \in 1 .. m, NEW j \in 1 .. m,
                        NEW p \in DOMAIN G[i], NEW q \in DOMAIN G[j], G[i][p].t = G[j][q].t
                 PROVE  i = j /\ p = q
      BY <2>5
    <3>1. /\ back(i) \in DOMAIN F /\ back(j) \in DOMAIN F
          /\ p \in DOMAIN F[back(i)] /\ q \in DOMAIN F[back(j)]
          /\ F[back(i)][p].t = F[back(j)][q].t
      BY <2>1, <2>3, <2>4
    <3>2. back(i) = back(j) /\ p = q
      BY <3>1 DEF InFiles
    <3>. QED
      BY <2>3, <3>2
  <2>7. \A i \in DOMAIN F : \E j \in DOMAIN G : G[j] = F[i]
    BY <2>1, <2>3, <2>4, <2>5
  <2>8. \A i \in DOMAIN G : \E j \in DOMAIN F : F[j] = G[i]
    BY <2>1, <2>3, <2>4, <2>5
  <2>9. Held(G) = Held(F)
    BY <2>7, <2>8 DEF Held
  <2>. QED
    BY <2>1, <2>5, <2>6, <2>9 DEF InFiles, G
<1>. QED
  BY <1>1, <1>2

-------------------------------------------------------------------------------
\* The invariant, step by step.

ReadInv ==
    /\ sysmon \in BOOLEAN
    /\ InFiles(files)
    /\ HostInv(Held(files), written, up, boot, granted, running)
    /\ slice # <<>> => /\ slice \in Seq(LogRecord)
                       /\ ToSet(slice) = Held(files) /\ TimesApart(slice)

LEMMA EventIsRecord ==
  ASSUME written \in Nat, boot \in Nat, NEW eid \in Nat
  PROVE  LET e == LogEvent(eid)
         IN  /\ e \in LogRecord
             /\ e.t = written + 1 /\ e.boot = boot /\ e.eid = eid /\ e.lid = 0
BY DEF LogEvent, LogRecord, Sources

\* Times, counts and boots are numbers; no event has a time still to come.
LEMMA Counted ==
  ASSUME ReadInv
  PROVE  /\ written \in Nat /\ boot \in Nat /\ boot <= MaxBoots
         /\ \A e \in Held(files) : e.t \in Nat /\ e.t <= written
         /\ granted \in Seq(Grant)
         /\ DOMAIN running \subseteq Pids /\ \A p \in DOMAIN running : running[p] \in 1 .. written
BY EventLogAssumption DEF ReadInv, HostInv, Recorded, Timely, LogRecord, UpToNow, LoggedNow, RunningNow

LEMMA WriteOne ==
  ASSUME ReadInv, NEW x \in LogRecord, x.t = written + 1, Write(<<x>>)
  PROVE  /\ InFiles(files') /\ Held(files') = Held(files) \cup {x}
         /\ written' = written + 1 /\ sysmon' = sysmon /\ slice' = <<>>
<1>1. \A e \in Held(files) : e.t # x.t
  BY Counted
<1>2. /\ files' = [files EXCEPT ![Len(files)] = @ \o <<x>>] /\ written' = written + 1
      /\ sysmon' = sysmon /\ slice' = <<>>
  BY DEF Write
<1>. QED
  BY <1>1, <1>2, FilesGrow DEF ReadInv

LEMMA WriteTwo ==
  ASSUME ReadInv, NEW x \in LogRecord, x.t = written + 1,
         NEW y \in LogRecord, y.t = written + 2, Write(<<x, y>>)
  PROVE  /\ InFiles(files') /\ Held(files') = (Held(files) \cup {x}) \cup {y}
         /\ written' = (written + 1) + 1 /\ sysmon' = sysmon /\ slice' = <<>>
<1> DEFINE G == [files EXCEPT ![Len(files)] = @ \o <<x>>]
<1>1. /\ written \in Nat /\ \A e \in Held(files) : e.t # x.t
      /\ \A e \in Held(files) \cup {x} : e.t # y.t
  BY Counted
<1>2. InFiles(G) /\ Held(G) = Held(files) \cup {x}
  BY <1>1, FilesGrow DEF ReadInv
<1>3. InFiles([G EXCEPT ![Len(G)] = @ \o <<y>>])
      /\ Held([G EXCEPT ![Len(G)] = @ \o <<y>>]) = Held(G) \cup {y}
  <2> HIDE DEF G
  <2>. QED
    BY <1>1, <1>2, FilesGrow
<1>4. /\ files' = [files EXCEPT ![Len(files)] = @ \o <<x, y>>] /\ written' = written + 2
      /\ sysmon' = sysmon /\ slice' = <<>>
  BY DEF Write
<1>5. files' = [G EXCEPT ![Len(G)] = @ \o <<y>>]
  <2> DEFINE m == Len(files)
             last == files[m]
             one == last \o <<x>>
  <2>1. /\ m \in 1 .. 2 /\ m \in DOMAIN files /\ DOMAIN files = 1 .. m
        /\ files \in [1 .. m -> Seq(LogRecord)] /\ last \in Seq(LogRecord)
    <3>1. /\ m \in 1 .. 2 /\ DOMAIN files = 1 .. m /\ files \in [1 .. m -> Seq(LogRecord)]
          /\ \A i \in DOMAIN files : files[i] \in Seq(LogRecord)
      BY FileTypes DEF ReadInv
    <3>2. m \in DOMAIN files
      BY <3>1
    <3>. QED
      BY <3>1, <3>2
  <2> HIDE DEF last
  <2>2. last \o <<x, y>> = one \o <<y>> /\ one \in Seq(LogRecord)
    BY <2>1
  <2>3. Len(G) = m
    BY <1>2, <2>1, FileTypes DEF last
  <2> HIDE DEF one, m
  <2>4. G = [files EXCEPT ![m] = one]
    BY DEF one, last, m
  <2>5. G[m] = one /\ [G EXCEPT ![m] = one \o <<y>>] = [files EXCEPT ![m] = one \o <<y>>]
    BY <2>1, <2>4
  <2>6. files' = [files EXCEPT ![m] = last \o <<x, y>>]
    BY <1>4 DEF last, m
  <2>. QED
    BY <2>2, <2>3, <2>5, <2>6
<1>6. InFiles(files') /\ Held(files') = Held(G) \cup {y}
  BY <1>3, <1>5
<1>7. written' = (written + 1) + 1
  BY <1>1, <1>4
<1> HIDE DEF G
<1>. QED
  BY <1>2, <1>4, <1>6, <1>7

\* What is left to show of an event written, or of a step that writes none.
LEMMA KeptBy ==
  ASSUME ReadInv, sysmon' = sysmon, slice' = <<>>, InFiles(files'),
         HostInv(Held(files'), written', up', boot', granted', running')
  PROVE  ReadInv'
<1>1. sysmon' \in BOOLEAN
  BY DEF ReadInv
<1>2. HostInv(Held(files), written, up, boot, granted, running)'
  BY DEF HostInv, Recorded, StartsLinked
<1>. QED
  BY <1>1, <1>2 DEF ReadInv

LEMMA BootKeeps == ReadInv /\ Boot => ReadInv'
<1> SUFFICES ASSUME ReadInv, Boot PROVE ReadInv'
  OBVIOUS
<1>1. /\ written \in Nat /\ boot \in Nat /\ MaxBoots \in Nat /\ boot < MaxBoots /\ boot + 1 \in Nat
      /\ boot' = boot + 1 /\ up' = "on" /\ granted' = <<>> /\ running' = <<>>
      /\ BOOT \in Nat /\ UNEXPECTED_SHUTDOWN \in Nat
  BY Counted, EventIds, EventLogAssumption DEF Boot
<1>2. CASE Write(<<[LogEvent(BOOT) EXCEPT !.boot = boot + 1]>>)
  <2> DEFINE l == LogEvent(BOOT)
             x == [l EXCEPT !.boot = boot + 1]
  <2>0. l \in LogRecord /\ l.t = written + 1 /\ l.eid = BOOT /\ l.lid = 0
    BY <1>1, EventIsRecord
  <2>1. /\ x \in LogRecord /\ x.t = written + 1 /\ x.boot = boot + 1 /\ x.eid = BOOT /\ x.lid = 0
    <3> HIDE DEF l
    <3>. QED
      BY <1>1, <2>0 DEF LogRecord
  <2> HIDE DEF x
  <2>2. Write(<<x>>)
    BY <1>2 DEF x
  <2>3. HostInv(Held(files) \cup {x}, written + 1, "on", boot + 1, <<>>, <<>>)
    BY <1>1, <2>1, BootAdds DEF ReadInv
  <2>4. /\ InFiles(files') /\ Held(files') = Held(files) \cup {x}
        /\ written' = written + 1 /\ sysmon' = sysmon /\ slice' = <<>>
    BY <1>1, <2>1, <2>2, WriteOne
  <2>5. HostInv(Held(files'), written', up', boot', granted', running')
    BY <1>1, <2>3, <2>4
  <2>. QED
    BY <2>4, <2>5, KeptBy
<1>3. CASE /\ up = "lost"
           /\ Write(<<LogEvent(UNEXPECTED_SHUTDOWN),
                      [LogEvent(BOOT) EXCEPT !.boot = boot + 1, !.t = written + 2]>>)
  <2> DEFINE x == LogEvent(UNEXPECTED_SHUTDOWN)
             l == LogEvent(BOOT)
             y == [l EXCEPT !.boot = boot + 1, !.t = written + 2]
  <2>0. l \in LogRecord /\ l.eid = BOOT /\ l.lid = 0
    BY <1>1, EventIsRecord
  <2>1. /\ x \in LogRecord /\ x.t = written + 1 /\ x.boot = boot /\ x.eid = UNEXPECTED_SHUTDOWN
        /\ x.lid = 0
    BY <1>1, EventIsRecord
  <2>2. /\ y \in LogRecord /\ y.t = written + 2 /\ y.boot = boot + 1 /\ y.eid = BOOT /\ y.lid = 0
    <3> HIDE DEF l
    <3>1. written + 2 \in Nat
      BY <1>1
    <3>. QED
      BY <1>1, <2>0, <3>1 DEF LogRecord
  <2> HIDE DEF x, y
  <2>3. Write(<<x, y>>)
    BY <1>3 DEF x, y
  <2>4. /\ IsNext(x, Held(files), written, boot) /\ x.lid <= Len(granted)
        /\ x.eid \in Ending \cup {SPECIAL_LOGON}
    BY <2>1, EventIds, Counted DEF IsNext, Ending
  <2>5. HostInv(Held(files) \cup {x}, written + 1, "off", boot, granted, running)
    BY <1>3, <2>4, OtherAdds DEF ReadInv
  <2>6. y.t = (written + 1) + 1
    BY <1>1, <2>2
  <2>7. HostInv((Held(files) \cup {x}) \cup {y}, (written + 1) + 1, "on", boot + 1, <<>>, <<>>)
    BY <1>1, <2>2, <2>5, <2>6, BootAdds
  <2>8. /\ InFiles(files') /\ Held(files') = (Held(files) \cup {x}) \cup {y}
        /\ written' = (written + 1) + 1 /\ sysmon' = sysmon /\ slice' = <<>>
    BY <1>1, <2>1, <2>2, <2>3, WriteTwo
  <2>9. HostInv(Held(files'), written', up', boot', granted', running')
    BY <1>1, <2>7, <2>8
  <2>. QED
    BY <2>8, <2>9, KeptBy
<1>. QED
  BY <1>2, <1>3 DEF Boot

LEMMA ShutDownKeeps == ReadInv /\ ShutDown => ReadInv'
<1> SUFFICES ASSUME ReadInv, ShutDown PROVE ReadInv'
  OBVIOUS
<1> DEFINE x == LogEvent(SHUTDOWN)
<1>1. /\ up = "on" /\ up' = "off" /\ Write(<<x>>)
      /\ boot' = boot /\ granted' = granted /\ running' = running
  BY DEF ShutDown, Ids
<1>2. x \in LogRecord /\ x.t = written + 1 /\ x.boot = boot /\ x.eid = SHUTDOWN /\ x.lid = 0
  BY Counted, EventIds, EventIsRecord
<1> HIDE DEF x
<1>3. /\ IsNext(x, Held(files), written, boot) /\ x.lid <= Len(granted)
      /\ x.eid \in Ending \cup {SPECIAL_LOGON}
  BY <1>2, EventIds, Counted DEF IsNext, Ending
<1>4. HostInv(Held(files) \cup {x}, written + 1, "off", boot, granted, running)
  BY <1>1, <1>2, <1>3, OtherAdds DEF ReadInv
<1>5. /\ InFiles(files') /\ Held(files') = Held(files) \cup {x}
      /\ written' = written + 1 /\ sysmon' = sysmon /\ slice' = <<>>
  BY <1>1, <1>2, WriteOne
<1>6. HostInv(Held(files'), written', up', boot', granted', running')
  BY <1>1, <1>4, <1>5
<1>. QED
  BY <1>5, <1>6, KeptBy

LEMMA GoDownKeeps == ReadInv /\ GoDown => ReadInv'
<1> SUFFICES ASSUME ReadInv, GoDown PROVE ReadInv'
  OBVIOUS
<1>1. /\ up = "on" /\ up' = "lost" /\ slice' = <<>> /\ sysmon' = sysmon /\ boot' = boot
      /\ granted' = granted /\ running' = running /\ written' = written /\ files' = files
  BY DEF GoDown, Ids
<1>2. UpToNow(Held(files), written, "lost", boot)
  BY <1>1 DEF ReadInv, HostInv, UpToNow
<1>3. HostInv(Held(files), written, "lost", boot, granted, running)
  BY <1>2 DEF ReadInv, HostInv
<1>4. InFiles(files') /\ HostInv(Held(files'), written', up', boot', granted', running')
  BY <1>1, <1>3 DEF ReadInv
<1>. QED
  BY <1>1, <1>4, KeptBy

LEMMA LogonKeeps == ASSUME NEW kind \in Logons PROVE ReadInv /\ Logon(kind) => ReadInv'
<1> SUFFICES ASSUME ReadInv, Logon(kind) PROVE ReadInv'
  OBVIOUS
<1> DEFINE l == LogEvent(LOGON)
           x == [l EXCEPT !.lid = Len(granted) + 1, !.type = kind.type, !.ip = kind.ip]
<1>0. l \in LogRecord /\ l.t = written + 1 /\ l.boot = boot /\ l.eid = LOGON
  BY Counted, EventIds, EventIsRecord
<1>1. /\ up = "on" /\ up' = "on" /\ Write(<<x>>)
      /\ boot' = boot /\ granted' = Append(granted, kind) /\ running' = running
  BY DEF Logon
<1>2. /\ Len(granted) + 1 \in Nat /\ kind.type \in Nat /\ kind.ip \in Sources
  BY Counted, EventLogAssumption DEF Sources
<1>3. x \in LogRecord /\ x.t = written + 1 /\ x.boot = boot /\ x.eid = LOGON
      /\ x.lid = Len(granted) + 1
  <2> HIDE DEF l
  <2>. QED
    BY <1>0, <1>2 DEF LogRecord
<1> HIDE DEF x
<1>4. kind \in Grant
  BY DEF Grant
<1>5. IsNext(x, Held(files), written, boot)
  BY <1>3, EventIds DEF IsNext
<1>6. HostInv(Held(files) \cup {x}, written + 1, "on", boot, Append(granted, kind), running)
  BY <1>1, <1>3, <1>4, <1>5, LogonAdds DEF ReadInv
<1>7. /\ InFiles(files') /\ Held(files') = Held(files) \cup {x}
      /\ written' = written + 1 /\ sysmon' = sysmon /\ slice' = <<>>
  BY <1>1, <1>3, WriteOne
<1>8. HostInv(Held(files'), written', up', boot', granted', running')
  BY <1>1, <1>6, <1>7
<1>. QED
  BY <1>7, <1>8, KeptBy

LEMMA PrivilegeKeeps == ASSUME NEW lid \in LoggedOn PROVE ReadInv /\ Privilege(lid) => ReadInv'
<1> SUFFICES ASSUME ReadInv, Privilege(lid) PROVE ReadInv'
  OBVIOUS
<1> DEFINE l == LogEvent(SPECIAL_LOGON)
           x == [l EXCEPT !.lid = lid]
<1>0. l \in LogRecord /\ l.t = written + 1 /\ l.boot = boot /\ l.eid = SPECIAL_LOGON
  BY Counted, EventIds, EventIsRecord
<1>1. /\ up = "on" /\ up' = "on" /\ Write(<<x>>)
      /\ boot' = boot /\ granted' = granted /\ running' = running
  BY DEF Privilege, Ids
<1>2. lid \in Nat /\ lid <= Len(granted)
  BY Counted DEF LoggedOn
<1>3. x \in LogRecord /\ x.t = written + 1 /\ x.boot = boot /\ x.eid = SPECIAL_LOGON
      /\ x.lid = lid
  <2> HIDE DEF l
  <2>. QED
    BY <1>0, <1>2 DEF LogRecord
<1> HIDE DEF x
<1>4. /\ IsNext(x, Held(files), written, boot) /\ x.eid \notin Ending
      /\ x.eid \in Ending \cup {SPECIAL_LOGON}
  BY <1>3, EventIds DEF IsNext, Ending
<1>5. HostInv(Held(files) \cup {x}, written + 1, "on", boot, granted, running)
  BY <1>1, <1>2, <1>3, <1>4, OtherAdds DEF ReadInv
<1>6. /\ InFiles(files') /\ Held(files') = Held(files) \cup {x}
      /\ written' = written + 1 /\ sysmon' = sysmon /\ slice' = <<>>
  BY <1>1, <1>3, WriteOne
<1>7. HostInv(Held(files'), written', up', boot', granted', running')
  BY <1>1, <1>5, <1>6
<1>. QED
  BY <1>6, <1>7, KeptBy

LEMMA OfLogonId ==
  ASSUME NEW l \in LogRecord, NEW lid \in Nat
  PROVE  LET x == [l EXCEPT !.lid = lid]
         IN  x \in LogRecord /\ x.t = l.t /\ x.boot = l.boot /\ x.eid = l.eid /\ x.lid = lid
BY DEF LogRecord

LEMMA UserLogoffKeeps == ASSUME NEW lid \in LoggedOn PROVE ReadInv /\ UserLogoff(lid) => ReadInv'
<1> SUFFICES ASSUME ReadInv, UserLogoff(lid) PROVE ReadInv'
  OBVIOUS
<1> DEFINE l == LogEvent(4647)
           x == [l EXCEPT !.lid = lid]
<1>1. /\ up = "on" /\ up' = "on" /\ Write(<<x>>)
      /\ boot' = boot /\ granted' = granted /\ running' = running
  BY DEF UserLogoff, Ids
<1>2. lid \in DOMAIN granted /\ lid \in Nat /\ granted \in Seq(Grant) /\ 4647 \in LOGOFF
  BY Counted, EventIds DEF LoggedOn
<1>3. l \in LogRecord /\ l.t = written + 1 /\ l.boot = boot /\ l.eid = 4647
  BY Counted, EventIsRecord
<1>4. x \in LogRecord /\ x.t = written + 1 /\ x.boot = boot /\ x.eid = 4647 /\ x.lid = lid
  <2> HIDE DEF l
  <2>. QED
    BY <1>2, <1>3, OfLogonId
<1> HIDE DEF x
<1>5. IsNext(x, Held(files), written, boot)
  BY <1>4, EventIds DEF IsNext
<1>6. HostInv(Held(files) \cup {x}, written + 1, "on", boot, granted, running)
  BY <1>1, <1>2, <1>4, <1>5, LogoffAdds DEF ReadInv
<1>7. /\ InFiles(files') /\ Held(files') = Held(files) \cup {x}
      /\ written' = written + 1 /\ sysmon' = sysmon /\ slice' = <<>>
  BY <1>1, <1>4, WriteOne
<1>8. HostInv(Held(files'), written', up', boot', granted', running')
  BY <1>1, <1>6, <1>7
<1>. QED
  BY <1>7, <1>8, KeptBy

LEMMA LogoffKeeps == ASSUME NEW lid \in LoggedOn PROVE ReadInv /\ Logoff(lid) => ReadInv'
<1> SUFFICES ASSUME ReadInv, Logoff(lid) PROVE ReadInv'
  OBVIOUS
<1> DEFINE l == LogEvent(4634)
           x == [l EXCEPT !.lid = lid]
           h == [granted EXCEPT ![lid] = NobodyOn]
<1>1. /\ up = "on" /\ up' = "on" /\ Write(<<x>>)
      /\ boot' = boot /\ granted' = h /\ running' = running
  BY DEF Logoff
<1>2. lid \in DOMAIN granted /\ lid \in Nat /\ granted \in Seq(Grant) /\ 4634 \in LOGOFF
  BY Counted, EventIds DEF LoggedOn
<1>3. h \in Seq(Grant) /\ Len(h) = Len(granted)
  <2>1. NobodyOn \in Grant
    BY DEF Grant
  <2>. QED
    BY <1>2, <2>1
<1>4. l \in LogRecord /\ l.t = written + 1 /\ l.boot = boot /\ l.eid = 4634
  BY Counted, EventIsRecord
<1>5. x \in LogRecord /\ x.t = written + 1 /\ x.boot = boot /\ x.eid = 4634 /\ x.lid = lid
  <2> HIDE DEF l
  <2>. QED
    BY <1>2, <1>4, OfLogonId
<1> HIDE DEF x, h
<1>6. IsNext(x, Held(files), written, boot)
  BY <1>5, EventIds DEF IsNext
<1>7. HostInv(Held(files) \cup {x}, written + 1, "on", boot, h, running)
  BY <1>1, <1>2, <1>3, <1>5, <1>6, LogoffAdds DEF ReadInv
<1>8. /\ InFiles(files') /\ Held(files') = Held(files) \cup {x}
      /\ written' = written + 1 /\ sysmon' = sysmon /\ slice' = <<>>
  BY <1>1, <1>5, WriteOne
<1>9. HostInv(Held(files'), written', up', boot', granted', running')
  BY <1>1, <1>7, <1>8
<1>. QED
  BY <1>8, <1>9, KeptBy

LEMMA StartKeeps ==
  ASSUME NEW pid \in Pids, NEW parent \in DOMAIN running \cup {0}, NEW lid \in LoggedOn \cup {0}
  PROVE  ReadInv /\ Start(pid, parent, lid) => ReadInv'
<1> SUFFICES ASSUME ReadInv, Start(pid, parent, lid) PROVE ReadInv'
  OBVIOUS
<1> DEFINE eid == IF sysmon THEN SYSMON_PROCESS_CREATE ELSE PROCESS_CREATE
           pguid == IF parent = 0 THEN 0 ELSE running[parent]
           l == LogEvent(eid)
           x == [l EXCEPT !.lid = lid, !.pid = pid, !.guid = written + 1,
                          !.ppid = parent, !.pguid = pguid]
           next == [p \in DOMAIN running \cup {pid} |-> IF p = pid THEN written + 1 ELSE running[p]]
<1>1. /\ up = "on" /\ up' = "on" /\ Write(<<x>>) /\ pid \notin DOMAIN running
      /\ boot' = boot /\ granted' = granted /\ running' = next
  BY DEF Start
<1>2. /\ lid \in Nat /\ lid <= Len(granted) /\ pid \in Nat /\ parent \in Nat
      /\ pguid \in Nat /\ eid \in Nat /\ written + 1 \in Nat
  <2>1. lid \in Nat /\ lid <= Len(granted)
    <3>1. granted \in Seq(Grant) /\ (lid = 0 \/ lid \in DOMAIN granted)
      BY Counted DEF LoggedOn
    <3>. QED
      BY <3>1
  <2>2. pid \in Nat /\ parent \in Nat /\ pguid \in Nat /\ written + 1 \in Nat
    <3>1. Pids \subseteq Nat /\ DOMAIN running \subseteq Pids /\ written \in Nat
      BY Counted, EventLogAssumption
    <3>2. \A p \in DOMAIN running : running[p] \in 1 .. written
      BY Counted
    <3>3. ASSUME NEW p \in DOMAIN running PROVE p \in Nat /\ running[p] \in Nat
      <4>1. p \in Pids /\ running[p] \in 1 .. written
        BY <3>1, <3>2
      <4>2. p \in Nat
        BY <3>1, <4>1
      <4>3. running[p] \in Nat
        BY <3>1, <4>1
      <4>. QED
        BY <4>2, <4>3
    <3>4. pid \in Nat /\ parent \in Nat /\ written + 1 \in Nat
      BY <3>1, <3>3
    <3>5. pguid \in Nat
      <4>1. CASE parent = 0
        BY <4>1
      <4>2. CASE parent # 0
        BY <3>3, <4>2
      <4>. QED
        BY <4>1, <4>2
    <3>. QED
      BY <3>4, <3>5
  <2>3. eid \in Nat
    BY EventIds
  <2>. QED
    BY <2>1, <2>2, <2>3
<1> HIDE DEF eid
<1>0. l \in LogRecord /\ l.t = written + 1 /\ l.boot = boot /\ l.eid = eid
  BY <1>2, Counted, EventIsRecord
<1> HIDE DEF pguid
<1>3. /\ x \in LogRecord /\ x.t = written + 1 /\ x.boot = boot /\ x.eid = eid /\ x.lid = lid
      /\ x.pid = pid /\ x.guid = written + 1 /\ x.ppid = parent /\ x.pguid = pguid
  <2> HIDE DEF l
  <2>. QED
    BY <1>0, <1>2 DEF LogRecord
<1> HIDE DEF x
<1>4. IsNext(x, Held(files), written, boot)
  BY <1>3, EventIds DEF IsNext, eid
<1>5. HostInv(Held(files) \cup {x}, written + 1, "on", boot, granted, next)
  <2>1. /\ HostInv(Held(files), written, "on", boot, granted, running) /\ sysmon \in BOOLEAN
        /\ x.lid <= Len(granted) /\ pid \notin DOMAIN running
        /\ x.pid = pid /\ x.guid = written + 1 /\ x.ppid = parent
    BY <1>1, <1>2, <1>3 DEF ReadInv
  <2>2. x.eid = IF sysmon THEN SYSMON_PROCESS_CREATE ELSE PROCESS_CREATE
    BY <1>3 DEF eid
  <2>3. x.pguid = IF parent = 0 THEN 0 ELSE running[parent]
    BY <1>3 DEF pguid
  <2>4. next = [p \in DOMAIN running \cup {pid} |-> IF p = pid THEN written + 1 ELSE running[p]]
    OBVIOUS
  <2> HIDE DEF next
  <2>. QED
    BY <1>4, <2>1, <2>2, <2>3, <2>4, StartAdds
<1>6. /\ InFiles(files') /\ Held(files') = Held(files) \cup {x}
      /\ written' = written + 1 /\ sysmon' = sysmon /\ slice' = <<>>
  BY <1>1, <1>3, WriteOne
<1>7. HostInv(Held(files'), written', up', boot', granted', running')
  BY <1>1, <1>5, <1>6
<1>. QED
  BY <1>6, <1>7, KeptBy

LEMMA ExitKeeps == ASSUME NEW pid \in DOMAIN running PROVE ReadInv /\ Exit(pid) => ReadInv'
<1> SUFFICES ASSUME ReadInv, Exit(pid) PROVE ReadInv'
  OBVIOUS
<1> DEFINE next == [p \in DOMAIN running \ {pid} |-> running[p]]
<1>1. /\ running' = next /\ slice' = <<>> /\ sysmon' = sysmon /\ up' = up /\ boot' = boot
      /\ granted' = granted /\ written' = written /\ files' = files
  BY DEF Exit
<1>2. RunningNow(Held(files), written, next)
  BY DEF ReadInv, HostInv, RunningNow
<1>3. HostInv(Held(files), written, up, boot, granted, next)
  BY <1>2 DEF ReadInv, HostInv
<1>4. InFiles(files') /\ HostInv(Held(files'), written', up', boot', granted', running')
  BY <1>1, <1>3 DEF ReadInv
<1>. QED
  BY <1>1, <1>4, KeptBy

LEMMA RotateKeeps == ReadInv /\ Rotate => ReadInv'
<1> SUFFICES ASSUME ReadInv, Rotate PROVE ReadInv'
  OBVIOUS
<1> DEFINE none == <<>>
           G == Append(files, none)
<1>1. /\ Len(files) = 1 /\ slice' = <<>> /\ files' = G /\ sysmon' = sysmon /\ up' = up
      /\ boot' = boot /\ granted' = granted /\ running' = running /\ written' = written
  BY DEF Rotate, Ids
<1>2. none \in Seq(LogRecord) /\ DOMAIN none = {}
  OBVIOUS
<1> HIDE DEF none
<1>3. /\ DOMAIN files = {1} /\ files \in Seq(Seq(LogRecord)) /\ files[1] \in Seq(LogRecord)
  <2>1. InFiles(files)
    BY DEF ReadInv
  <2>. QED
    BY <1>1, <2>1, FileTypes
<1>4. /\ G \in Seq(Seq(LogRecord)) /\ Len(G) = 2 /\ DOMAIN G = {1, 2}
      /\ G[1] = files[1] /\ G[2] = none
  <2>1. /\ G \in Seq(Seq(LogRecord)) /\ Len(G) = Len(files) + 1
        /\ G[Len(files) + 1] = none /\ \A i \in 1 .. Len(files) : G[i] = files[i]
    BY <1>2, <1>3, AppendAt
  <2>2. G[1] = files[1]
    BY <1>1, <2>1
  <2>3. DOMAIN G = 1 .. 2
    BY <1>1, <2>1
  <2>. QED
    BY <1>1, <2>1, <2>2, <2>3
<1> HIDE DEF G
<1>5. InFiles(G)
  BY <1>2, <1>3, <1>4 DEF ReadInv, InFiles
<1>6. Held(G) = Held(files)
  BY <1>2, <1>3, <1>4 DEF Held, ToSet
<1>7. InFiles(files') /\ HostInv(Held(files'), written', up', boot', granted', running')
  BY <1>1, <1>5, <1>6 DEF ReadInv
<1>. QED
  BY <1>1, <1>7, KeptBy

LEMMA ClearedFiles == InFiles(<<<<>>>>) /\ Held(<<<<>>>>) = {}
<1> DEFINE none == <<>>
           G == <<none>>
<1>1. none \in Seq(LogRecord) /\ DOMAIN none = {}
  OBVIOUS
<1> HIDE DEF none
<1>2. G \in Seq(Seq(LogRecord)) /\ Len(G) = 1 /\ DOMAIN G = {1} /\ G[1] = none
  BY <1>1
<1> HIDE DEF G
<1>3. InFiles(G) /\ Held(G) = {}
  BY <1>1, <1>2 DEF InFiles, Held, ToSet
<1>. QED
  BY <1>3 DEF G, none

LEMMA NothingRecorded == Recorded({})
BY DEF Recorded, Timely, LogonsApart, BootsInOrder, StartsLinked

LEMMA ClearKeeps == ReadInv /\ Clear => ReadInv'
<1> SUFFICES ASSUME ReadInv, Clear PROVE ReadInv'
  OBVIOUS
<1>1. /\ slice' = <<>> /\ files' = <<<<>>>> /\ sysmon' = sysmon /\ up' = up
      /\ boot' = boot /\ granted' = granted /\ running' = running /\ written' = written
  BY DEF Clear, Ids
<1>2. /\ UpToNow({}, written, up, boot) /\ LoggedNow({}, boot, granted)
      /\ RunningNow({}, written, running)
  BY DEF ReadInv, HostInv, UpToNow, LoggedNow, RunningNow
<1>3. HostInv({}, written, up, boot, granted, running)
  BY <1>2, NothingRecorded DEF HostInv
<1>4. InFiles(files') /\ HostInv(Held(files'), written', up', boot', granted', running')
  BY <1>1, <1>3, ClearedFiles
<1>. QED
  BY <1>1, <1>4, KeptBy

\* However the host reboots, crashes, rotates and clears its logs, what is left in the
\* files tells its logons, boots and processes apart, and what parse_evtx_to_events
\* read has each of these events once.
THEOREM ReadInvariant == LogSpec => []ReadInv
<1>1. LogInit => ReadInv
  <2> SUFFICES ASSUME LogInit PROVE ReadInv
    OBVIOUS
  <2>1. /\ sysmon \in BOOLEAN /\ up = "off" /\ boot = 0 /\ granted = <<>> /\ running = <<>>
        /\ written = 0 /\ files = <<<<>>>> /\ slice = <<>>
    BY DEF LogInit
  <2>2. UpToNow({}, 0, "off", 0) /\ LoggedNow({}, 0, <<>>) /\ RunningNow({}, 0, <<>>)
    <3>1. <<>> \in Seq(Grant) /\ DOMAIN <<>> = {}
      OBVIOUS
    <3>. QED
      BY <3>1, EventLogAssumption DEF UpToNow, LoggedNow, RunningNow
  <2>3. HostInv(Held(files), written, up, boot, granted, running) /\ InFiles(files)
    BY <2>1, <2>2, NothingRecorded, ClearedFiles DEF HostInv
  <2>. QED
    BY <2>1, <2>3 DEF ReadInv
<1>2. ReadInv /\ [LogNext]_logVars => ReadInv'
  <2> SUFFICES ASSUME ReadInv, [LogNext]_logVars PROVE ReadInv'
    OBVIOUS
  <2>1. CASE Boot
    BY <2>1, BootKeeps
  <2>2. CASE ShutDown
    BY <2>2, ShutDownKeeps
  <2>3. CASE GoDown
    BY <2>3, GoDownKeeps
  <2>4. CASE Rotate
    BY <2>4, RotateKeeps
  <2>5. CASE Clear
    BY <2>5, ClearKeeps
  <2>6. CASE \E kind \in Logons : Logon(kind)
    BY <2>6, LogonKeeps
  <2>7. CASE \E lid \in LoggedOn : Privilege(lid) \/ UserLogoff(lid) \/ Logoff(lid)
    BY <2>7, PrivilegeKeeps, UserLogoffKeeps, LogoffKeeps
  <2>8. CASE \E pid \in Pids, parent \in DOMAIN running \cup {0}, lid \in LoggedOn \cup {0} :
                Start(pid, parent, lid)
    BY <2>8, StartKeeps
  <2>9. CASE \E pid \in DOMAIN running : Exit(pid)
    BY <2>9, ExitKeeps
  <2>10. CASE ReadFiles
    <3>1. /\ UNCHANGED <<sysmon, up, boot, granted, running, written, files>>
          /\ slice' \in {FlattenSeq(files), FlattenSeq(Reverse(files))}
      BY <2>10 DEF ReadFiles, Ids
    <3>2. slice' \in Seq(LogRecord) /\ ToSet(slice') = Held(files) /\ TimesApart(slice')
      BY <3>1, FilesRead DEF ReadInv
    <3>3. HostInv(Held(files), written, up, boot, granted, running)'
      BY <3>1 DEF ReadInv, HostInv, Recorded, StartsLinked
    <3>. QED
      BY <3>1, <3>2, <3>3 DEF ReadInv
  <2>11. CASE UNCHANGED logVars
    <3>1. UNCHANGED <<sysmon, up, boot, granted, running, written, files, slice>>
      BY <2>11 DEF logVars
    <3>2. HostInv(Held(files), written, up, boot, granted, running)'
      BY <3>1 DEF ReadInv, HostInv, Recorded, StartsLinked
    <3>. QED
      BY <3>1, <3>2 DEF ReadInv
  <2>. QED
    BY <2>1, <2>2, <2>3, <2>4, <2>5, <2>6, <2>7, <2>8, <2>9, <2>10, <2>11 DEF LogNext, Host
<1>. QED
  BY <1>1, <1>2, PTL DEF LogSpec

\* What was read, or nothing yet, is a part of the log that was not cleared.
Read(s) == s \in Seq(LogRecord) /\ TimesApart(s) /\ Recorded(ToSet(s))

LEMMA SliceIsRecorded == ReadInv => Read(slice)
<1> SUFFICES ASSUME ReadInv PROVE Read(slice)
  OBVIOUS
<1>1. CASE slice = <<>>
  <2> DEFINE none == <<>>
  <2>1. none \in Seq(LogRecord) /\ DOMAIN none = {}
    OBVIOUS
  <2>2. slice = none
    BY <1>1
  <2> HIDE DEF none
  <2>3. ToSet(slice) = {} /\ TimesApart(slice)
    BY <2>1, <2>2 DEF ToSet, TimesApart
  <2>. QED
    BY <2>1, <2>2, <2>3, NothingRecorded DEF Read
<1>2. CASE slice # <<>>
  BY <1>2 DEF Read, ReadInv, HostInv
<1>. QED
  BY <1>1, <1>2

-------------------------------------------------------------------------------
\* Logon sessions and chains.

\* The events among those read that a test by id and logon id lets through.
Of2(S, eids, lid) == {e \in S : e.eid \in eids /\ e.lid = lid}

LEMMA LastOfIsOne ==
  ASSUME NEW s \in Seq(LogRecord), NEW eids, NEW lid, Of2(ToSet(s), eids, lid) # {}
  PROVE  LastOf(s, eids, lid) \in Of2(ToSet(s), eids, lid)
<1> DEFINE P == {i \in DOMAIN s : s[i].eid \in eids /\ s[i].lid = lid}
           t == At(s, P)
<1>0. P \in SUBSET (1 .. Len(s))
  OBVIOUS
<1>1. \A i \in DOMAIN s : s[i] \in ToSet(s)
  BY DEF ToSet
<1>2. P # {}
  BY DEF Of2, ToSet
<1>3. LastOf(s, eids, lid) = Last(t)
  BY DEF LastOf, Where
<1>4. {s[p] : p \in P} \subseteq Of2(ToSet(s), eids, lid)
  BY <1>1 DEF Of2
<1> HIDE DEF P
<1>5. /\ t \in Seq(LogRecord) /\ ToSet(t) = {s[p] : p \in P}
      /\ Len(t) = Cardinality(P) /\ (t = <<>> <=> P = {})
  BY <1>0, AtIsSequence
<1> HIDE DEF t
<1>6. Last(t) \in ToSet(t)
  BY <1>2, <1>5 DEF Last, ToSet
<1>. QED
  BY <1>3, <1>4, <1>5, <1>6

Keeping == {LOGON, PROCESS_CREATE} \cup LOGOFF
LEMMA ParsedEvents ==
  ASSUME NEW s \in Seq(LogRecord)
  PROVE  /\ parse_evtx_to_events(s) \in Seq(LogRecord)
         /\ ToSet(parse_evtx_to_events(s)) = {e \in ToSet(s) : e.eid \in Keeping}
<1> DEFINE P == {i \in DOMAIN s : s[i].eid \in {LOGON, PROCESS_CREATE} \cup LOGOFF}
           t == At(s, P)
<1>1. P \in SUBSET (1 .. Len(s))
  OBVIOUS
<1>2. parse_evtx_to_events(s) = t
  BY DEF parse_evtx_to_events, Where
<1>3. {s[p] : p \in P} = {e \in ToSet(s) : e.eid \in Keeping}
  BY DEF ToSet, Keeping
<1> HIDE DEF P
<1>. QED
  BY <1>1, <1>2, <1>3, AtIsSequence

\* A logon id that one boot gave out: who logged on, and what came of it.
Session(S, l, on) ==
    /\ on \in S /\ on.eid = LOGON /\ on.lid = l /\ l # 0
    /\ \A e \in S : e.eid = LOGON /\ e.lid = l => e = on
    /\ \A e \in S : e.eid \in LOGOFF /\ e.lid = l => on.t < e.t

LEMMA RealSession ==
  ASSUME Read(slice), NEW l \in LogonIds(slice, {LOGON}), OneBoot(l)
  PROVE  \E on : Session(ToSet(slice), l, on)
<1> DEFINE S == ToSet(slice)
           X == {x \in S : x.lid = l}
           boots == {e.boot : e \in X}
           b == [e \in X |-> e.boot]
<1>1. LogonsApart(S) /\ slice \in Seq(LogRecord)
  BY DEF Read, Recorded
<1>2. IsFiniteSet(X)
  <2>1. IsFiniteSet(S)
    BY <1>1, ElementsFinite
  <2> HIDE DEF S
  <2>. QED
    BY <2>1, FS_Subset
<1>3. IsFiniteSet({b[x] : x \in X})
  <2>1. DOMAIN b = X
    OBVIOUS
  <2> HIDE DEF b, X
  <2>. QED
    BY <1>2, <2>1, ImageIsFinite
<1>4. {b[x] : x \in X} = boots
  OBVIOUS
<1>5. Cardinality(boots) = 1
  BY DEF OneBoot
<1>6. PICK c : boots = {c}
  <2> HIDE DEF boots, b, X
  <2>. QED
    BY <1>3, <1>4, <1>5, FS_Singleton
<1>7. \A e, f \in S : e.lid = l /\ f.lid = l => e.boot = f.boot
  <2>1. \A e \in X : e.boot = c
    BY <1>6
  <2>. QED
    BY <2>1
<1>8. PICK on \in S : on.eid = LOGON /\ on.lid = l
  BY DEF LogonIds
<1> HIDE DEF S
<1>9. Session(S, l, on)
  <2>1. l # 0
    BY <1>1, <1>8 DEF LogonsApart
  <2>2. \A e \in S : e.eid = LOGON /\ e.lid = l => e = on
    BY <1>1, <1>7, <1>8 DEF LogonsApart
  <2>3. \A e \in S : e.eid \in LOGOFF /\ e.lid = l => on.t < e.t
    BY <1>1, <1>7, <1>8 DEF LogonsApart
  <2>. QED
    BY <1>8, <2>1, <2>2, <2>3 DEF Session
<1>. QED
  BY <1>9 DEF S

Ends(S, l) == {e \in S : e.eid \in LOGOFF /\ e.lid = l}

\* Where its last logoff was read, and that parse_evtx_to_events keeps it last.
LastEnd(s, l, h) ==
    /\ h \in DOMAIN s /\ s[h].eid \in LOGOFF /\ s[h].lid = l
    /\ \A j \in DOMAIN s : s[j].eid \in LOGOFF /\ s[j].lid = l => j <= h

LEMMA LastOfIsLast ==
  ASSUME NEW s \in Seq(LogRecord), NEW l, Ends(ToSet(s), l) # {}
  PROVE  \E h : LastEnd(s, l, h) /\ LastOf(s, LOGOFF, l) = s[h]
<1> DEFINE P == {i \in DOMAIN s : s[i].eid \in LOGOFF /\ s[i].lid = l}
           t == At(s, P)
<1>1. Len(s) \in Nat /\ DOMAIN s = 1 .. Len(s) /\ P \in SUBSET (1 .. Len(s))
  OBVIOUS
<1>2. P # {}
  BY DEF Ends, ToSet
<1>3. LastOf(s, LOGOFF, l) = Last(t)
  BY DEF LastOf, Where
<1>4. PICK m, at : IsPick(s, P, m, at)
  <2> HIDE DEF P
  <2>. QED
    BY <1>1, AtPositions
<1>5. t # <<>> /\ Len(t) = m
  <2>1. Len(t) = Cardinality(P) /\ (t = <<>> <=> P = {})
    <3> HIDE DEF P
    <3>. QED
      BY <1>1, AtIsSequence
  <2>. QED
    BY <1>2, <1>4, <2>1 DEF IsPick
<1> HIDE DEF P
<1>6. /\ m \in Nat /\ at \in [1 .. m -> P] /\ t = [k \in 1 .. m |-> s[at[k]]]
      /\ \A p \in P : \E k \in 1 .. m : at[k] = p
      /\ \A j, k \in 1 .. m : j < k => at[j] < at[k]
  BY <1>4 DEF IsPick
<1>7. m \in 1 .. m /\ at[m] \in P
  <2>1. 1 .. m # {}
    BY <1>2, <1>6
  <2>. QED
    BY <1>6, <2>1
<1>8. Last(t) = s[at[m]]
  BY <1>5, <1>6, <1>7 DEF Last
<1>9. ASSUME NEW j \in P PROVE j <= at[m]
  <2>0. j \in 1 .. Len(s) /\ at[m] \in 1 .. Len(s)
    BY <1>1, <1>7, <1>9
  <2>1. PICK k \in 1 .. m : at[k] = j
    BY <1>6
  <2>2. k = m \/ k < m
    BY <1>6
  <2>3. j \in Nat /\ at[m] \in Nat
    BY <1>1, <2>0
  <2>. QED
    BY <1>6, <1>7, <2>1, <2>2, <2>3
<1>10. LastEnd(s, l, at[m])
  BY <1>7, <1>9 DEF LastEnd, P
<1>. QED
  BY <1>3, <1>8, <1>10

LEMMA LastIsKept ==
  ASSUME NEW s \in Seq(LogRecord), NEW l, Ends(ToSet(s), l) # {}
  PROVE  \E h : LastEnd(s, l, h) /\ LastOf(parse_evtx_to_events(s), LOGOFF, l) = s[h]
<1> DEFINE P == {i \in DOMAIN s : s[i].eid \in {LOGON, PROCESS_CREATE} \cup LOGOFF}
           t == parse_evtx_to_events(s)
<1>1. Len(s) \in Nat /\ DOMAIN s = 1 .. Len(s) /\ P \in SUBSET (1 .. Len(s))
  OBVIOUS
<1>2. t = At(s, P) /\ t \in Seq(LogRecord)
  BY ParsedEvents DEF parse_evtx_to_events, Where
<1>3. Ends(ToSet(t), l) # {}
  BY ParsedEvents DEF Ends, Keeping
<1> HIDE DEF t
<1>4. PICK k : LastEnd(t, l, k) /\ LastOf(t, LOGOFF, l) = t[k]
  BY <1>2, <1>3, LastOfIsLast
<1>5. PICK m, at : IsPick(s, P, m, at)
  <2> HIDE DEF P
  <2>. QED
    BY <1>1, AtPositions
<1>6. /\ m \in Nat /\ at \in [1 .. m -> P] /\ t = [i \in 1 .. m |-> s[at[i]]]
      /\ \A p \in P : \E i \in 1 .. m : at[i] = p
      /\ \A i, j \in 1 .. m : i < j => at[i] < at[j]
  BY <1>2, <1>5 DEF IsPick
<1>7. k \in 1 .. m /\ t[k] = s[at[k]] /\ at[k] \in DOMAIN s /\ at[k] \in Nat
  BY <1>1, <1>4, <1>6 DEF LastEnd
<1>8. ASSUME NEW j \in DOMAIN s, s[j].eid \in LOGOFF, s[j].lid = l PROVE j <= at[k]
  <2>1. PICK i \in 1 .. m : at[i] = j
    BY <1>6, <1>8
  <2>2. i <= k
    BY <1>4, <1>6, <1>8, <2>1 DEF LastEnd
  <2>3. i = k \/ i < k
    BY <1>6, <1>7, <2>2
  <2>. QED
    BY <1>1, <1>6, <1>7, <1>8, <2>1, <2>3
<1>9. LastEnd(s, l, at[k])
  BY <1>4, <1>7, <1>8 DEF LastEnd
<1>. QED
  BY <1>4, <1>7, <1>9 DEF t

\* What correlate_sessions makes of it.
LEMMA SessionMade ==
  ASSUME Read(slice), NEW l, NEW on, Session(ToSet(slice), l, on)
  PROVE  LET sessions == correlate_sessions(parse_evtx_to_events(slice))
             ends == Ends(ToSet(slice), l)
         IN  /\ l \in DOMAIN sessions
             /\ sessions[l].logon = on.t /\ sessions[l].is_orphaned \in BOOLEAN
             /\ sessions[l].is_orphaned <=> ends = {}
             /\ ends = {} => sessions[l].logoff = 0
             /\ ends # {} => \E h : /\ LastEnd(slice, l, h) /\ sessions[l].logoff = slice[h].t
                                    /\ sessions[l].duration = WholeSeconds(slice[h].t - on.t)
<1> DEFINE S == ToSet(slice)
           events == parse_evtx_to_events(slice)
           E == ToSet(events)
           sessions == correlate_sessions(events)
           ended == EndsIn(events, on)
           off == IF ended THEN LastOf(events, LOGOFF, l).t ELSE 0
           made == [logon |-> on.t, logoff |-> off, is_orphaned |-> ~ ended,
                    duration |-> IF ended THEN WholeSeconds(off - on.t) ELSE 0,
                    type |-> on.type, ip |-> on.ip]
<1>1. events \in Seq(LogRecord) /\ E = {e \in S : e.eid \in Keeping}
  BY ParsedEvents DEF Read
<1>2. on \in E /\ on.eid = LOGON /\ on.lid = l /\ E \subseteq S
  BY <1>1 DEF Session, Keeping
<1>3. Of2(E, {LOGON}, l) = {on} /\ Of2(E, LOGOFF, l) = Ends(S, l)
  BY <1>1, <1>2 DEF Of2, Ends, Session, Keeping
<1>4. Ends(S, l) # {} => \E h : LastEnd(slice, l, h) /\ LastOf(events, LOGOFF, l) = slice[h]
  BY LastIsKept DEF Read
<1> HIDE DEF events, S
<1>5. LastOf(events, {LOGON}, l) = on
  BY <1>1, <1>3, LastOfIsOne
<1>6. ended <=> Ends(S, l) # {}
  BY <1>1, <1>2, <1>3 DEF EndsIn, LogonIds, Of2
<1>7. l \in LogonIds(events, {LOGON})
  BY <1>2 DEF LogonIds
<1>8. l \in DOMAIN sessions /\ sessions[l] = made
  BY <1>5, <1>7 DEF correlate_sessions
<1> HIDE DEF ended, sessions
<1>9. ended \in BOOLEAN
  BY <1>6 DEF ended, EndsIn
<1>10. /\ made.logon = on.t /\ made.is_orphaned = ~ ended
       /\ made.logoff = IF ended THEN off ELSE 0
       /\ made.duration = IF ended THEN WholeSeconds(off - on.t) ELSE 0
  OBVIOUS
<1>11. Ends(S, l) # {} => \E h : LastEnd(slice, l, h) /\ off = slice[h].t
  BY <1>4, <1>6
<1> HIDE DEF made, off
<1>12. /\ l \in DOMAIN sessions
       /\ sessions[l].logon = on.t /\ sessions[l].is_orphaned \in BOOLEAN
       /\ sessions[l].is_orphaned <=> Ends(S, l) = {}
       /\ Ends(S, l) = {} => sessions[l].logoff = 0
       /\ Ends(S, l) # {} => \E h : /\ LastEnd(slice, l, h) /\ sessions[l].logoff = slice[h].t
                                    /\ sessions[l].duration = WholeSeconds(slice[h].t - on.t)
  BY <1>6, <1>8, <1>9, <1>10, <1>11
<1>. QED
  BY <1>12 DEF sessions, events, S

\* The pass of build_logon_chains, one event at a time.
Chain == [logon : Nat, privilege : Nat, pids : Seq(Nat), logoff : Nat, is_orphaned : BOOLEAN]
Chains == UNION {[D -> Chain] : D \in SUBSET Nat}
ChainAt(chains, l) == IF l \in DOMAIN chains THEN chains[l] ELSE NoChain
Enters(e) == e.lid # 0 /\ e.eid \in {LOGON, SPECIAL_LOGON, PROCESS_CREATE} \cup LOGOFF
Entry(chains, e) ==
    IF Enters(e)
    THEN [l \in DOMAIN chains \cup {e.lid} |-> IF l = e.lid THEN Linked(chains, e) ELSE chains[l]]
    ELSE chains

LEMMA ChainTypes ==
  ASSUME NEW chains \in Chains
  PROVE  /\ DOMAIN chains \in SUBSET Nat /\ chains \in [DOMAIN chains -> Chain]
         /\ \A l : ChainAt(chains, l) \in Chain
<1>1. PICK D \in SUBSET Nat : chains \in [D -> Chain]
  BY DEF Chains
<1>2. DOMAIN chains = D
  BY <1>1
<1>3. NoChain \in Chain
  <2>1. <<>> \in Seq(Nat)
    OBVIOUS
  <2>. QED
    BY <2>1 DEF NoChain, Chain
<1>. QED
  BY <1>1, <1>2, <1>3 DEF ChainAt

LEMMA LinkedChain ==
  ASSUME NEW chains \in Chains, NEW e \in LogRecord, Enters(e)
  PROVE  LET c == ChainAt(chains, e.lid)
             r == Linked(chains, e)
         IN  /\ r \in Chain
             /\ r.logon = IF e.eid = LOGON THEN e.t ELSE c.logon
             /\ r.logoff = IF e.eid \in LOGOFF THEN e.t ELSE c.logoff
             /\ r.pids = IF e.eid = PROCESS_CREATE THEN Append(c.pids, e.pid) ELSE c.pids
<1> DEFINE c == ChainAt(chains, e.lid)
           orphan == (e.lid \in DOMAIN chains) => c.is_orphaned
           r == Linked(chains, e)
<1>1. c \in Chain
  BY ChainTypes
<1>2. orphan \in BOOLEAN /\ e.t \in Nat /\ e.pid \in Nat /\ c.pids \in Seq(Nat)
  BY <1>1 DEF LogRecord, Chain
<1>3. Append(c.pids, e.pid) \in Seq(Nat)
  BY <1>2
<1>4. r = CASE e.eid = LOGON -> [c EXCEPT !.logon = e.t, !.is_orphaned = TRUE]
            [] e.eid = SPECIAL_LOGON -> [c EXCEPT !.privilege = e.t, !.is_orphaned = orphan]
            [] e.eid = PROCESS_CREATE -> [c EXCEPT !.pids = Append(@, e.pid),
                                                   !.is_orphaned = orphan]
            [] e.eid \in LOGOFF -> [c EXCEPT !.logoff = e.t, !.is_orphaned = FALSE]
  BY DEF Linked, ChainAt
<1> HIDE DEF c, orphan, r
<1>5. CASE e.eid = LOGON
  <2>1. r = [c EXCEPT !.logon = e.t, !.is_orphaned = TRUE]
    BY <1>4, <1>5, EventIds
  <2>2. e.eid \notin LOGOFF /\ e.eid # PROCESS_CREATE
    BY <1>5, EventIds
  <2>3. r \in Chain /\ r.logon = e.t /\ r.logoff = c.logoff /\ r.pids = c.pids
    BY <1>1, <1>2, <2>1 DEF Chain
  <2>. QED
    BY <1>5, <2>2, <2>3 DEF c, r
<1>6. CASE e.eid = SPECIAL_LOGON
  <2>1. r = [c EXCEPT !.privilege = e.t, !.is_orphaned = orphan]
    BY <1>4, <1>6, EventIds
  <2>2. e.eid \notin LOGOFF /\ e.eid # PROCESS_CREATE /\ e.eid # LOGON
    BY <1>6, EventIds
  <2>3. r \in Chain /\ r.logon = c.logon /\ r.logoff = c.logoff /\ r.pids = c.pids
    BY <1>1, <1>2, <2>1 DEF Chain
  <2>. QED
    BY <2>2, <2>3 DEF c, r
<1>7. CASE e.eid = PROCESS_CREATE
  <2>1. r = [c EXCEPT !.pids = Append(c.pids, e.pid), !.is_orphaned = orphan]
    BY <1>4, <1>7, EventIds
  <2>2. e.eid \notin LOGOFF /\ e.eid # LOGON
    BY <1>7, EventIds
  <2>3. r \in Chain /\ r.logon = c.logon /\ r.logoff = c.logoff /\ r.pids = Append(c.pids, e.pid)
    BY <1>1, <1>2, <1>3, <2>1 DEF Chain
  <2>. QED
    BY <1>7, <2>2, <2>3 DEF c, r
<1>8. CASE e.eid \in LOGOFF
  <2>1. r = [c EXCEPT !.logoff = e.t, !.is_orphaned = FALSE]
    BY <1>4, <1>8, EventIds
  <2>2. e.eid # LOGON /\ e.eid # PROCESS_CREATE
    BY <1>8, EventIds
  <2>3. r \in Chain /\ r.logon = c.logon /\ r.logoff = e.t /\ r.pids = c.pids
    BY <1>1, <1>2, <2>1 DEF Chain
  <2>. QED
    BY <1>8, <2>2, <2>3 DEF c, r
<1>. QED
  BY <1>5, <1>6, <1>7, <1>8 DEF Enters

LEMMA EntryMade ==
  ASSUME NEW chains \in Chains, NEW e \in LogRecord
  PROVE  /\ Entry(chains, e) \in Chains
         /\ DOMAIN chains \subseteq DOMAIN Entry(chains, e)
         /\ Enters(e) => e.lid \in DOMAIN Entry(chains, e)
         /\ \A l : ChainAt(Entry(chains, e), l) =
                     IF Enters(e) /\ l = e.lid THEN Linked(chains, e) ELSE ChainAt(chains, l)
<1>1. DOMAIN chains \in SUBSET Nat /\ chains \in [DOMAIN chains -> Chain]
  BY ChainTypes
<1>2. CASE ~ Enters(e)
  BY <1>2 DEF Entry
<1>3. CASE Enters(e)
  <2> DEFINE D == DOMAIN chains \cup {e.lid}
             made == [l \in D |-> IF l = e.lid THEN Linked(chains, e) ELSE chains[l]]
  <2>1. Entry(chains, e) = made
    BY <1>3 DEF Entry
  <2>2. D \in SUBSET Nat
    BY <1>1 DEF LogRecord
  <2>3. Linked(chains, e) \in Chain
    BY <1>3, LinkedChain
  <2>4. \A l \in D : made[l] \in Chain
    BY <1>1, <2>3
  <2>5. made \in [D -> Chain]
    BY <2>4
  <2>6. \A l : ChainAt(made, l) =
                 IF l = e.lid THEN Linked(chains, e) ELSE ChainAt(chains, l)
    BY DEF ChainAt
  <2> HIDE DEF made
  <2>. QED
    BY <1>3, <2>1, <2>2, <2>5, <2>6 DEF Chains
<1>. QED
  BY <1>2, <1>3

\* What build_logon_chains makes of the events with one logon id.
TimesIn(S, eids, l) == {e.t : e \in Of2(S, eids, l)}

LEMMA ChainMade ==
  ASSUME Read(slice), NEW l, NEW on, Session(ToSet(slice), l, on)
  PROVE  LET chains == build_logon_chains(slice)
             S == ToSet(slice)
         IN  /\ chains[l].logon = on.t
             /\ Ends(S, l) = {} => chains[l].logoff = 0
             /\ \A h : LastEnd(slice, l, h) => chains[l].logoff = slice[h].t
             /\ Len(chains[l].pids) = Cardinality(TimesIn(S, {PROCESS_CREATE}, l))
<1> DEFINE n == Len(slice)
           none == <<>>
           step == [i \in 1 .. n |-> [c \in Chains |-> Entry(c, slice[i])]]
           Loop(g) == [i \in 0 .. n |-> IF i = 0 THEN none ELSE Entry(g[i - 1], slice[i])]
<1>1. n \in Nat /\ DOMAIN slice = 1 .. n /\ \A i \in 1 .. n : slice[i] \in LogRecord
  BY DEF Read
<1>2. \A i, j \in 1 .. n : slice[i].t = slice[j].t => i = j
  BY <1>1 DEF Read, TimesApart
<1>3. none \in Chains
  <2>1. none \in [{} -> Chain]
    OBVIOUS
  <2>2. {} \in SUBSET Nat
    OBVIOUS
  <2> HIDE DEF none
  <2>. QED
    BY <2>1, <2>2 DEF Chains
<1> HIDE DEF none, n
<1>4. step \in Steps(Chains, n)
  BY <1>1, EntryMade DEF Steps
<1>5. PICK f : IsRun(Chains, n, none, step, f)
  <2> HIDE DEF step
  <2>. QED
    BY <1>1, <1>3, <1>4, LoopRuns
<1>6. /\ f \in [0 .. n -> Chains] /\ f[0] = none
      /\ \A i \in 1 .. n : f[i] = Entry(f[i - 1], slice[i])
  <2>1. f \in [0 .. n -> Chains] /\ f[0] = none /\ \A i \in 1 .. n : f[i] = step[i][f[i - 1]]
    BY <1>5 DEF IsRun
  <2>2. ASSUME NEW i \in 1 .. n PROVE f[i - 1] \in Chains
    <3>1. i - 1 \in 0 .. n
      BY <1>1
    <3>. QED
      BY <2>1, <3>1
  <2>. QED
    BY <2>1, <2>2
<1>7. f = Loop(f)
  BY <1>6
<1> DEFINE after == CHOOSE g : g = Loop(g)
<1>8. build_logon_chains(slice) = after[n]
  BY DEF build_logon_chains, Entry, Enters, n, none
<1> HIDE DEF Loop
<1>9. after = Loop(after)
  BY <1>7
<1> USE DEF Loop
<1> HIDE DEF after
<1>10. /\ after[0] = none
       /\ \A i \in 1 .. n : after[i] = Entry(after[i - 1], slice[i])
  <2>1. \A i \in 0 .. n : after[i] = IF i = 0 THEN none ELSE Entry(after[i - 1], slice[i])
    BY <1>9
  <2> HIDE DEF Loop, step
  <2>2. 0 \in 0 .. n /\ \A i \in 1 .. n : i \in 0 .. n /\ i # 0
    BY <1>1
  <2>. QED
    BY <2>1, <2>2
<1> DEFINE At1(i, eids) == slice[i].eid \in eids /\ slice[i].lid = l
           times(i) == {slice[h].t : h \in {k \in 1 .. i : At1(k, {PROCESS_CREATE})}}
           c(i) == ChainAt(after[i], l)
           Known(i) ==
             /\ after[i] \in Chains
             /\ \A h \in 1 .. i : At1(h, {LOGON}) =>
                   l \in DOMAIN after[i] /\ c(i).logon = on.t
             /\ (\A h \in 1 .. i : ~ At1(h, LOGOFF)) => c(i).logoff = 0
             /\ \A h \in 1 .. i :
                   At1(h, LOGOFF) /\ (\A j \in h + 1 .. i : ~ At1(j, LOGOFF)) =>
                      c(i).logoff = slice[h].t
             /\ IsFiniteSet(times(i)) /\ Len(c(i).pids) = Cardinality(times(i))
           T == {i \in 0 .. n : Known(i)}
<1>11. 0 \in T
  <2>1. after[0] \in Chains /\ DOMAIN none = {}
    BY <1>3, <1>10 DEF none
  <2>2. c(0) = NoChain
    BY <1>10, <2>1 DEF ChainAt
  <2>3. c(0).logoff = 0 /\ Len(c(0).pids) = 0
    BY <2>2 DEF NoChain
  <2>4. times(0) = {}
    OBVIOUS
  <2>5. IsFiniteSet(times(0)) /\ Len(c(0).pids) = Cardinality(times(0))
    BY <2>3, <2>4, FS_EmptySet
  <2>6. \A h \in 1 .. 0 : FALSE
    OBVIOUS
  <2> HIDE DEF times, c
  <2>7. Known(0)
    BY <2>1, <2>3, <2>5, <2>6
  <2>. QED
    BY <1>1, <2>7
<1>12. \A i \in 1 .. n : slice[i] \in ToSet(slice)
  BY <1>1 DEF ToSet
<1>13. /\ \A i \in 1 .. n : At1(i, {LOGON}) => slice[i] = on
       /\ l # 0
  BY <1>12 DEF Session
<1>14. ASSUME NEW i \in 1 .. n, i - 1 \in T PROVE i \in T
  <2> DEFINE e == slice[i]
             was == after[i - 1]
             b == ChainAt(was, l)
             r == Linked(was, e)
             mine == Enters(e) /\ l = e.lid
  <2>1. Known(i - 1) /\ after[i] = Entry(was, e) /\ e \in LogRecord /\ was \in Chains
    BY <1>1, <1>10, <1>14
  <2>2. /\ after[i] \in Chains /\ DOMAIN was \subseteq DOMAIN after[i]
        /\ Enters(e) => e.lid \in DOMAIN after[i]
        /\ c(i) = IF mine THEN r ELSE b
    BY <2>1, EntryMade
  <2>3. mine => /\ r.logon = IF e.eid = LOGON THEN e.t ELSE b.logon
                /\ r.logoff = IF e.eid \in LOGOFF THEN e.t ELSE b.logoff
                /\ r.pids = IF e.eid = PROCESS_CREATE THEN Append(b.pids, e.pid) ELSE b.pids
    BY <2>1, LinkedChain
  <2>4. i \in 0 .. n /\ i \in 1 .. i /\ \A h \in 1 .. i : h = i \/ h \in 1 .. i - 1
    BY <1>1
  <2>5. \A eids : eids \subseteq {LOGON, PROCESS_CREATE} \cup LOGOFF => (At1(i, eids) => mine)
    BY <1>13 DEF Enters
  <2>6. /\ At1(i, {LOGON}) => mine /\ e.eid = LOGON
        /\ At1(i, LOGOFF) => mine /\ e.eid \in LOGOFF
        /\ At1(i, {PROCESS_CREATE}) => mine /\ e.eid = PROCESS_CREATE
        /\ mine /\ e.eid = LOGON => At1(i, {LOGON})
        /\ mine /\ e.eid \in LOGOFF => At1(i, LOGOFF)
        /\ mine /\ e.eid = PROCESS_CREATE => At1(i, {PROCESS_CREATE})
    BY <2>5
  <2>7. b.pids \in Seq(Nat) /\ e.pid \in Nat
    <3>1. b \in Chain
      BY <2>1, ChainTypes
    <3>. QED
      BY <2>1, <3>1 DEF Chain, LogRecord
  <2>8. IsFiniteSet(times(i)) /\ Len(c(i).pids) = Cardinality(times(i))
    <3>1. IsFiniteSet(times(i - 1)) /\ Len(b.pids) = Cardinality(times(i - 1))
      BY <2>1
    <3>2. CASE At1(i, {PROCESS_CREATE})
      <4>1. times(i) = times(i - 1) \cup {e.t}
        BY <2>4, <3>2
      <4>2. e.t \notin times(i - 1)
        BY <1>1, <1>2
      <4>3. c(i).pids = Append(b.pids, e.pid)
        BY <2>2, <2>3, <2>6, <3>2
      <4>4. Len(c(i).pids) = Len(b.pids) + 1
        BY <2>7, <4>3
      <4> HIDE DEF times, c, e
      <4>. QED
        <5>1. e.t \notin times(i - 1) /\ IsFiniteSet(times(i - 1))
          BY <3>1, <4>2
        <5>2. IsFiniteSet(times(i - 1) \cup {e.t})
              /\ Cardinality(times(i - 1) \cup {e.t}) = Cardinality(times(i - 1)) + 1
          BY <5>1, FS_AddElement
        <5>. QED
          BY <3>1, <4>1, <4>4, <5>2
    <3>3. CASE ~ At1(i, {PROCESS_CREATE})
      <4>1. times(i) = times(i - 1)
        BY <2>4, <3>3
      <4>2. c(i).pids = b.pids
        BY <2>2, <2>3, <2>6, <3>3
      <4> HIDE DEF times, c
      <4>. QED
        BY <3>1, <4>1, <4>2
    <3>. QED
      BY <3>2, <3>3
  <2> HIDE DEF times, T
  <2>9. ASSUME NEW h \in 1 .. i, At1(h, {LOGON})
        PROVE  l \in DOMAIN after[i] /\ c(i).logon = on.t
    <3>1. CASE At1(i, {LOGON})
      BY <1>13, <2>2, <2>3, <2>6, <3>1
    <3>2. CASE ~ At1(i, {LOGON})
      <4>1. h \in 1 .. i - 1
        BY <2>4, <2>9, <3>2
      <4>2. l \in DOMAIN was /\ b.logon = on.t
        BY <2>1, <2>9, <4>1
      <4>3. c(i).logon = b.logon
        BY <2>2, <2>3, <2>6, <3>2
      <4>. QED
        BY <2>2, <4>2, <4>3
    <3>. QED
      BY <3>1, <3>2
  <2>10. ASSUME \A h \in 1 .. i : ~ At1(h, LOGOFF) PROVE c(i).logoff = 0
    <3>1. ~ At1(i, LOGOFF) /\ \A h \in 1 .. i - 1 : ~ At1(h, LOGOFF)
      BY <2>4, <2>10
    <3>2. b.logoff = 0
      BY <2>1, <3>1
    <3>. QED
      BY <2>2, <2>3, <2>6, <3>1, <3>2
  <2>11. ASSUME NEW h \in 1 .. i, At1(h, LOGOFF), \A j \in h + 1 .. i : ~ At1(j, LOGOFF)
         PROVE  c(i).logoff = slice[h].t
    <3>1. CASE h = i
      BY <2>2, <2>3, <2>6, <2>11, <3>1
    <3>2. CASE h # i
      <4>1. h \in 1 .. i - 1 /\ i \in h + 1 .. i /\ \A j \in h + 1 .. i - 1 : j \in h + 1 .. i
        BY <1>1, <3>2
      <4>2. ~ At1(i, LOGOFF) /\ \A j \in h + 1 .. i - 1 : ~ At1(j, LOGOFF)
        BY <2>11, <4>1
      <4>3. b.logoff = slice[h].t
        BY <2>1, <2>11, <4>1, <4>2
      <4>4. c(i).logoff = b.logoff
        BY <2>2, <2>3, <2>6, <4>2
      <4>. QED
        BY <4>3, <4>4
    <3>. QED
      BY <3>1, <3>2
  <2>12. Known(i)
    BY <2>2, <2>8, <2>9, <2>10, <2>11
  <2>. QED
    BY <2>4, <2>12 DEF T
<1>15. Known(n)
  <2>1. n \in 0 .. n
    BY <1>1
  <2> HIDE DEF T
  <2>2. n \in T
    BY <1>1, <1>11, <1>14, <2>1, GoingUp
  <2>. QED
    BY <2>2 DEF T
<1>16. \A e \in ToSet(slice) : \E h \in 1 .. n : slice[h] = e
  BY <1>1 DEF ToSet
<1>17. l \in DOMAIN after[n] /\ c(n).logon = on.t
  BY <1>15, <1>16 DEF Session
<1>18. c(n) = after[n][l]
  BY <1>17 DEF ChainAt
<1>19. times(n) = TimesIn(ToSet(slice), {PROCESS_CREATE}, l)
  BY <1>12, <1>16 DEF TimesIn, Of2
<1>20. Ends(ToSet(slice), l) = {} => c(n).logoff = 0
  BY <1>12, <1>15 DEF Ends
<1>21. ASSUME NEW h, LastEnd(slice, l, h) PROVE c(n).logoff = slice[h].t
  <2>1. h \in 1 .. n /\ At1(h, LOGOFF)
    BY <1>1, <1>21 DEF LastEnd
  <2>2. ASSUME NEW j \in h + 1 .. n PROVE ~ At1(j, LOGOFF)
    <3>1. j \in DOMAIN slice /\ ~ (j <= h)
      BY <1>1, <2>1
    <3>. QED
      BY <1>21, <3>1 DEF LastEnd
  <2> HIDE DEF c
  <2>. QED
    BY <1>15, <2>1, <2>2
<1>22. Len(c(n).pids) = Cardinality(times(n))
  BY <1>15
<1> HIDE DEF c, times
<1>. QED
  BY <1>8, <1>17, <1>18, <1>19, <1>20, <1>21, <1>22

\* The network logons that find_lateral_movement lists.
LEMMA LateralListed ==
  ASSUME NEW sessions, NEW l \in DOMAIN sessions
  PROVE  LET lateral == find_lateral_movement(sessions)
         IN  (sessions[l].type = 3 /\ sessions[l].ip # "-") <=>
                \E ip \in DOMAIN lateral : l \in lateral[ip]
<1> DEFINE remote == {k \in DOMAIN sessions : sessions[k].type = 3 /\ sessions[k].ip # "-"}
           lateral == find_lateral_movement(sessions)
<1>1. lateral = [ip \in {sessions[k].ip : k \in remote} |-> {k \in remote : sessions[k].ip = ip}]
  BY DEF find_lateral_movement
<1> HIDE DEF lateral
<1>2. (\E ip \in DOMAIN lateral : l \in lateral[ip]) <=> l \in remote
  <2> HIDE DEF remote
  <2>1. DOMAIN lateral = {sessions[k].ip : k \in remote}
    BY <1>1
  <2>2. \A ip \in DOMAIN lateral : lateral[ip] = {k \in remote : sessions[k].ip = ip}
    BY <1>1
  <2>. QED
    BY <2>1, <2>2
<1>. QED
  BY <1>2 DEF lateral

LEMMA SessionsInOrder == Read(slice) => SessionsAreReal
<1> DEFINE S == ToSet(slice)
           events == parse_evtx_to_events(slice)
           sessions == correlate_sessions(events)
           chains == build_logon_chains(slice)
           lateral == find_lateral_movement(sessions)
<1> SUFFICES ASSUME Read(slice), NEW l \in LogonIds(slice, {LOGON}), OneBoot(l)
             PROVE  /\ sessions[l].is_orphaned <=> TimesOf(LOGOFF, l) = {}
                    /\ ~sessions[l].is_orphaned =>
                          /\ sessions[l].logoff \in TimesOf(LOGOFF, l)
                          /\ sessions[l].logoff > sessions[l].logon
                          /\ sessions[l].duration =
                                (sessions[l].logoff - sessions[l].logon) \div Second
                    /\ {chains[l].logon} = TimesOf({LOGON}, l)
                    /\ chains[l].logon = sessions[l].logon /\ chains[l].logoff = sessions[l].logoff
                    /\ Len(chains[l].pids) = Cardinality(TimesOf({PROCESS_CREATE}, l))
                    /\ (sessions[l].type = 3 /\ sessions[l].ip # "-") <=>
                            \E ip \in DOMAIN lateral : l \in lateral[ip]
  BY DEF SessionsAreReal
<1>1. PICK on : Session(S, l, on)
  BY RealSession
<1>2. /\ l \in DOMAIN sessions /\ sessions[l].logon = on.t
      /\ sessions[l].is_orphaned \in BOOLEAN /\ (sessions[l].is_orphaned <=> Ends(S, l) = {})
      /\ Ends(S, l) = {} => sessions[l].logoff = 0
      /\ Ends(S, l) # {} => \E h : /\ LastEnd(slice, l, h) /\ sessions[l].logoff = slice[h].t
                                   /\ sessions[l].duration = WholeSeconds(slice[h].t - on.t)
  BY <1>1, SessionMade
<1>3. /\ chains[l].logon = on.t
      /\ Ends(S, l) = {} => chains[l].logoff = 0
      /\ \A h : LastEnd(slice, l, h) => chains[l].logoff = slice[h].t
      /\ Len(chains[l].pids) = Cardinality(TimesIn(S, {PROCESS_CREATE}, l))
  BY <1>1, ChainMade
<1>4. (sessions[l].type = 3 /\ sessions[l].ip # "-") <=> \E ip \in DOMAIN lateral : l \in lateral[ip]
  <2> HIDE DEF sessions
  <2>. QED
    BY <1>2, LateralListed
<1>5. \A e \in S : e.t \in Nat
  BY DEF Read, Recorded, Timely, LogRecord
<1> HIDE DEF sessions, chains, lateral
<1>6. /\ TimesOf(LOGOFF, l) = {e.t : e \in Ends(S, l)}
      /\ TimesOf({LOGON}, l) = {e.t : e \in Of2(S, {LOGON}, l)}
      /\ TimesOf({PROCESS_CREATE}, l) = TimesIn(S, {PROCESS_CREATE}, l)
  BY DEF TimesOf, Ends, Of2, TimesIn
<1>0. \A h \in DOMAIN slice : slice[h] \in S
  BY DEF ToSet
<1> HIDE DEF S
<1>7. Of2(S, {LOGON}, l) = {on}
  BY <1>1 DEF Of2, Session
<1>8. {chains[l].logon} = TimesOf({LOGON}, l)
  BY <1>3, <1>6, <1>7
<1>9. sessions[l].is_orphaned <=> TimesOf(LOGOFF, l) = {}
  BY <1>2, <1>6
<1>10. chains[l].logon = sessions[l].logon /\ chains[l].logoff = sessions[l].logoff
  BY <1>2, <1>3
<1>11. ASSUME ~ sessions[l].is_orphaned
       PROVE  /\ sessions[l].logoff \in TimesOf(LOGOFF, l) /\ sessions[l].logoff > sessions[l].logon
              /\ sessions[l].duration = (sessions[l].logoff - sessions[l].logon) \div Second
  <2>1. PICK h : /\ LastEnd(slice, l, h) /\ sessions[l].logoff = slice[h].t
                 /\ sessions[l].duration = WholeSeconds(slice[h].t - on.t)
    BY <1>2, <1>11
  <2>2. slice[h] \in Ends(S, l)
    BY <1>0, <2>1 DEF LastEnd, Ends
  <2>3. on.t < slice[h].t /\ on.t \in Nat /\ slice[h].t \in Nat
    BY <1>1, <1>5, <2>2 DEF Ends, Session
  <2>4. WholeSeconds(slice[h].t - on.t) = (slice[h].t - on.t) \div Second
    <3> DEFINE d == slice[h].t - on.t
               q == d \div Second
    <3>1. d >= 0 /\ d \in Nat
      BY <2>3
    <3> HIDE DEF d
    <3>2. q >= 0
      BY <3>1, AnalysisAssumption
    <3>3. WholeSeconds(d) = LET secs == IF d >= 0 THEN q ELSE -((-d) \div Second)
                            IN  IF secs < 0 THEN secs + U64 ELSE secs
      BY DEF WholeSeconds
    <3>4. q \in Int
      BY <3>1, AnalysisAssumption
    <3> HIDE DEF q
    <3>5. WholeSeconds(d) = IF q < 0 THEN q + U64 ELSE q
      BY <3>1, <3>3
    <3>6. WholeSeconds(d) = q
      BY <3>2, <3>4, <3>5
    <3>. QED
      BY <3>6 DEF d, q
  <2>. QED
    BY <1>2, <1>6, <2>1, <2>2, <2>3, <2>4
<1>. QED
  BY <1>3, <1>4, <1>6, <1>8, <1>9, <1>10, <1>11

\* Whatever the host does and in whatever order its files are read, the sessions
\* and the chains that correlate_sessions and build_logon_chains make of a logon id
\* that one boot gave out are those that there were, and end when one of its
\* logoffs says that they did.
THEOREM AlwaysSessionsAreReal == LogSpec => []SessionsAreReal
<1>1. ReadInv => SessionsAreReal
  BY SliceIsRecorded, SessionsInOrder
<1>. QED
  BY <1>1, ReadInvariant, PTL

-------------------------------------------------------------------------------
\* Boot cycles.

\* By time, which tells all events apart.
LEMMA EventsByTime ==
  ASSUME NEW s \in Seq(LogRecord), TimesApart(s)
  PROVE  LET r == ByEventTime(s)
         IN  /\ r \in Seq(LogRecord) /\ Len(r) \in Nat /\ DOMAIN r = 1 .. Len(r)
             /\ ToSet(r) = ToSet(s)
             /\ \A k, l \in 1 .. Len(r) : k < l => r[k].t < r[l].t
<1> DEFINE P == DOMAIN s
           before(i, j) == \/ s[i].t < s[j].t
                           \/ s[i].t = s[j].t /\ i < j
           m == Cardinality(P)
           R == {p \in P \X P : before(p[1], p[2])}
           kth(k) == CHOOSE x \in P : Cardinality({y \in P : before(y, x)}) = k - 1
           all == [k \in 1 .. m |-> kth(k)]
           r == ByEventTime(s)
<1>0. P = 1 .. Len(s) /\ Len(s) \in Nat /\ \A i \in P : s[i] \in LogRecord
  OBVIOUS
<1>1. P = 1 .. Len(s) /\ Len(s) \in Nat /\ \A i \in P : s[i] \in LogRecord /\ s[i].t \in Nat
  BY <1>0 DEF LogRecord
<1>2. IsFiniteSet(P)
  BY <1>1, FS_Interval
<1>3. \A x, y \in P : <<x, y>> \in R <=> before(x, y)
  OBVIOUS
<1>4. \A x, y \in P : before(x, y) => s[x].t < s[y].t
  BY DEF TimesApart
<1>5. /\ \A x \in P : ~ before(x, x)
      /\ \A x, y \in P : x # y => before(x, y) \/ before(y, x)
      /\ \A x, y, z \in P : before(x, y) /\ before(y, z) => before(x, z)
  BY <1>1 DEF TimesApart
<1> HIDE DEF P, before
<1>6. \A x \in P : {y \in P : before(y, x)} = Before(R, P, x)
  <2> HIDE DEF R
  <2>. QED
    BY <1>3 DEF Before
<1>7. Orders(R, P)
  <2> HIDE DEF R
  <2>. QED
    BY <1>3, <1>5 DEF Orders
<1>8. all = Ranked(R, P)
  <2>1. \A k \in 1 .. m : kth(k) = CHOOSE x \in P : Cardinality(Before(R, P, x)) = k - 1
    <3> HIDE DEF R, m
    <3>. QED
      BY <1>6
  <2> HIDE DEF R, kth
  <2>. QED
    BY <2>1 DEF Ranked
<1> HIDE DEF R, all
<1>9. /\ m \in Nat /\ all \in [1 .. m -> P]
      /\ \A p \in P : \E k \in 1 .. m : all[k] = p
      /\ \A k, l \in 1 .. m : k < l => <<all[k], all[l]>> \in R
  BY <1>2, <1>7, <1>8, RankedSequence
<1> DEFINE sorted == Sorted(P, before)
<1>10. r = [k \in DOMAIN sorted |-> s[sorted[k]]]
  BY Zenon DEF ByEventTime, P, before
<1> USE DEF all
<1>11. sorted = SubSeq(all, 1, m)
  BY Zenon DEF Sorted
<1> HIDE DEF all, m, sorted
<1>12. sorted = all /\ DOMAIN all = 1 .. m
  BY <1>9, <1>11, SequenceOf
<1>13. r = [k \in 1 .. m |-> s[all[k]]]
  BY <1>10, <1>12
<1> HIDE DEF r
<1>14. r \in [1 .. m -> LogRecord]
  BY <1>1, <1>9, <1>13
<1>15. r \in Seq(LogRecord) /\ Len(r) = m /\ DOMAIN r = 1 .. m
  BY <1>9, <1>14, SequenceOf
<1>16. ToSet(r) = ToSet(s)
  BY <1>9, <1>13, <1>15 DEF ToSet, P
<1>17. ASSUME NEW k \in 1 .. m, NEW l \in 1 .. m, k < l PROVE r[k].t < r[l].t
  <2>1. all[k] \in P /\ all[l] \in P /\ before(all[k], all[l])
    BY <1>3, <1>9, <1>17
  <2>2. s[all[k]].t < s[all[l]].t
    BY <1>4, <2>1
  <2>. QED
    BY <1>13, <2>2
<1>. QED
  BY <1>9, <1>15, <1>16, <1>17 DEF r

\* What follows a boot's marker, before the next, is of that boot.
LEMMA OfThatBoot ==
  ASSUME NEW S, Timely(S), BootsInOrder(S), NEW e \in S, e.eid # BOOT,
         NEW b \in S, b.eid = BOOT, b.t < e.t,
         \A x \in S : x.eid = BOOT /\ x.t < e.t => x.t <= b.t
  PROVE  e.boot = b.boot
<1>1. \A x \in S : x.t \in Nat /\ x.boot \in Nat
  BY DEF Timely, LogRecord
<1>2. ~ (e.boot < b.boot)
  BY <1>1 DEF BootsInOrder
<1>3. ASSUME b.boot < e.boot PROVE FALSE
  <2>1. e.boot \in b.boot + 1 .. e.boot
    BY <1>1, <1>3
  <2>2. PICK m \in S : m.eid = BOOT /\ m.boot = e.boot
    BY <2>1 DEF BootsInOrder, BootMarked
  <2>3. m.t <= e.t /\ m # e
    BY <2>2 DEF BootsInOrder
  <2>4. m.t # e.t
    BY <2>3 DEF Timely
  <2>5. m.t < e.t
    BY <1>1, <2>3, <2>4
  <2>6. m.t <= b.t
    BY <2>2, <2>5
  <2>7. b.t < m.t
    BY <1>3, <2>2 DEF BootsInOrder
  <2>. QED
    BY <1>1, <2>6, <2>7
<1>. QED
  BY <1>1, <1>2, <1>3

\* What comes next after the end of a boot is the marker of the next one.
LEMMA AfterShutdown ==
  ASSUME NEW S, Timely(S), BootsInOrder(S), NEW p \in S, p.eid \in Ending,
         NEW e \in S, p.t < e.t, \A x \in S : ~ (p.t < x.t /\ x.t < e.t)
  PROVE  e.eid = BOOT /\ e.boot = p.boot + 1
<1>1. \A x \in S : x.t \in Nat /\ x.boot \in Nat
  BY DEF Timely, LogRecord
<1>2. p.boot < e.boot
  <2>1. e.boot # p.boot
    <3> SUFFICES ASSUME e.boot = p.boot PROVE FALSE
      OBVIOUS
    <3>1. e.t <= p.t
      BY DEF BootsInOrder
    <3>. QED
      BY <1>1, <3>1
  <2>2. ~ (e.boot < p.boot)
    BY <1>1 DEF BootsInOrder
  <2>. QED
    BY <1>1, <2>1, <2>2
<1>3. p.boot + 1 \in p.boot + 1 .. e.boot
  BY <1>1, <1>2
<1>4. PICK m \in S : m.eid = BOOT /\ m.boot = p.boot + 1
  BY <1>3 DEF BootsInOrder, BootMarked
<1>5. p.t < m.t
  BY <1>1, <1>4 DEF BootsInOrder
<1>6. m.t <= e.t
  <2>1. CASE m.boot = e.boot
    BY <1>4, <2>1 DEF BootsInOrder
  <2>2. CASE m.boot < e.boot
    <3>1. m.t < e.t
      BY <2>2 DEF BootsInOrder
    <3>. QED
      BY <1>1, <3>1
  <2>. QED
    BY <1>1, <1>2, <1>4, <2>1, <2>2
<1>7. m.t = e.t
  BY <1>1, <1>5, <1>6
<1>. QED
  BY <1>4, <1>7 DEF Timely

\* What comes last before a boot's marker is what tells of the end of the boot
\* before it, if anything does.
LEMMA BeforeBoot ==
  ASSUME NEW S, Timely(S), BootsInOrder(S), NEW e \in S, e.eid = BOOT,
         NEW q \in S, q.eid \in Ending, q.boot = e.boot - 1,
         NEW p \in S, p.t < e.t, \A x \in S : ~ (p.t < x.t /\ x.t < e.t)
  PROVE  p = q
<1>1. \A x \in S : x.t \in Nat /\ x.boot \in Nat
  BY DEF Timely, LogRecord
<1>2. q.boot < e.boot
  BY <1>1
<1>3. q.t < e.t
  BY <1>2 DEF BootsInOrder
<1>4. q.t <= p.t
  BY <1>1, <1>3
<1>5. ~ (p.boot < q.boot)
  <2> SUFFICES ASSUME p.boot < q.boot PROVE FALSE
    OBVIOUS
  <2>1. p.t < q.t
    BY DEF BootsInOrder
  <2>. QED
    BY <1>1, <1>4, <2>1
<1>6. p.boot # e.boot
  <2> SUFFICES ASSUME p.boot = e.boot PROVE FALSE
    OBVIOUS
  <2>1. e.t <= p.t
    BY DEF BootsInOrder
  <2>. QED
    BY <1>1, <2>1
<1>7. ~ (e.boot < p.boot)
  <2> SUFFICES ASSUME e.boot < p.boot PROVE FALSE
    OBVIOUS
  <2>1. e.t < p.t
    BY DEF BootsInOrder
  <2>. QED
    BY <1>1, <2>1
<1>8. p.boot = q.boot
  BY <1>1, <1>5, <1>6, <1>7
<1>9. p.t <= q.t
  BY <1>8 DEF BootsInOrder
<1>10. p.t = q.t
  BY <1>1, <1>4, <1>9
<1>. QED
  BY <1>10 DEF Timely

\* A boot ends in one way.
LEMMA OneEnd ==
  ASSUME NEW S, Timely(S), BootsInOrder(S), NEW p \in S, NEW q \in S,
         p.eid \in Ending, q.eid \in Ending, p.boot = q.boot
  PROVE  p = q
<1>1. p.t \in Nat /\ q.t \in Nat
  BY DEF Timely, LogRecord
<1>2. p.t <= q.t /\ q.t <= p.t
  BY DEF BootsInOrder
<1>3. p.t = q.t
  BY <1>1, <1>2
<1>. QED
  BY <1>3 DEF Timely

\* The pass of segment_by_boot_cycle, one event at a time.
Markers == {BOOT, SHUTDOWN, UNEXPECTED_SHUTDOWN}
Prior == {"Unknown", "Clean", "Unexpected"}
Cycle == [boot : Nat, shutdown : Nat, prior : Prior, events : Seq(LogRecord)]
CycleStates == [cycles : Seq(Cycle), current : {<<>>} \cup {<<c>> : c \in Cycle}, prior : Prior]
NewCycle(e, prior) == [boot |-> e.t, shutdown |-> 0, prior |-> prior, events |-> <<>>]

LEMMA NothingIsSeq == ASSUME NEW X PROVE <<>> \in Seq(X) /\ ToSet(<<>>) = {}
<1>1. <<>> \in Seq(X) /\ DOMAIN <<>> = {}
  OBVIOUS
<1>. QED
  BY <1>1 DEF ToSet

LEMMA BootEvent ==
  ASSUME NEW st \in CycleStates, NEW e \in LogRecord, e.eid = BOOT
  PROVE  LET r == AtEvent(st, e)
         IN  /\ r \in CycleStates /\ NewCycle(e, st.prior) \in Cycle
             /\ r.cycles = st.cycles \o st.current
             /\ r.current = <<NewCycle(e, st.prior)>> /\ r.prior = "Unknown"
<1> DEFINE new == NewCycle(e, st.prior)
           r == AtEvent(st, e)
<1>1. st.prior \in Prior /\ st.cycles \in Seq(Cycle) /\ st.current \in Seq(Cycle) /\ e.t \in Nat
  <2>1. \A c \in Cycle : <<c>> \in Seq(Cycle)
    OBVIOUS
  <2>. QED
    BY <2>1, NothingIsSeq DEF CycleStates, LogRecord
<1>2. new \in Cycle
  BY <1>1, NothingIsSeq DEF NewCycle, Cycle
<1>3. r = [cycles |-> st.cycles \o st.current, current |-> <<new>>, prior |-> "Unknown"]
  BY EventIds DEF AtEvent, AtBoot, NewCycle
<1> HIDE DEF new, r
<1>4. st.cycles \o st.current \in Seq(Cycle)
  BY <1>1
<1>5. r \in CycleStates
  BY <1>2, <1>3, <1>4 DEF CycleStates, Prior
<1>6. r.cycles = st.cycles \o st.current /\ r.current = <<new>> /\ r.prior = "Unknown"
  BY <1>3
<1>. QED
  BY <1>2, <1>5, <1>6 DEF new, r

\* What an event that is no boot changes of a cycle.
Goes(c, d, e) ==
    /\ d.boot = c.boot /\ d.prior = c.prior
    /\ d.shutdown = IF e.eid = SHUTDOWN THEN e.t ELSE c.shutdown
    /\ ToSet(d.events) = IF e.eid \in Markers THEN ToSet(c.events) ELSE ToSet(c.events) \cup {e}

LEMMA OtherEvent ==
  ASSUME NEW st \in CycleStates, NEW e \in LogRecord, e.eid # BOOT
  PROVE  LET r == AtEvent(st, e)
         IN  /\ r \in CycleStates /\ r.cycles = st.cycles
             /\ r.prior = IF e.eid = SHUTDOWN THEN "Clean"
                          ELSE IF e.eid = UNEXPECTED_SHUTDOWN THEN "Unexpected" ELSE st.prior
             /\ st.current = <<>> => r.current = <<>>
             /\ \A c \in Cycle : st.current = <<c>> =>
                   \E d \in Cycle : r.current = <<d>> /\ Goes(c, d, e)
<1> DEFINE r == AtEvent(st, e)
           none == <<>>
<1>1. /\ st.prior \in Prior /\ st.cycles \in Seq(Cycle) /\ e.t \in Nat
      /\ st.current = none \/ \E c \in Cycle : st.current = <<c>>
      /\ st = [cycles |-> st.cycles, current |-> st.current, prior |-> st.prior]
  BY DEF CycleStates, LogRecord
<1>2. BOOT # SHUTDOWN /\ BOOT # UNEXPECTED_SHUTDOWN /\ SHUTDOWN # UNEXPECTED_SHUTDOWN
  BY EventIds
<1>3. \A c : <<c>> # none /\ DOMAIN <<c>> = {1} /\ <<c>>[1] = c
  OBVIOUS
<1>4. CASE e.eid = SHUTDOWN
  <2> DEFINE cur == [i \in DOMAIN st.current |-> [st.current[i] EXCEPT !.shutdown = e.t]]
  <2>1. r = [st EXCEPT !.prior = "Clean", !.current = cur]
    BY <1>2, <1>4 DEF AtEvent
  <2>2. ASSUME st.current = none PROVE cur = none
    <3>1. DOMAIN none = {}
      OBVIOUS
    <3>. QED
      BY <2>2, <3>1
  <2>3. ASSUME NEW c \in Cycle, st.current = <<c>>
        PROVE  \E d \in Cycle : cur = <<d>> /\ Goes(c, d, e)
    <3> DEFINE d == [c EXCEPT !.shutdown = e.t]
    <3>1. cur = <<d>>
      BY <2>3
    <3>2. d \in Cycle /\ Goes(c, d, e)
      BY <1>1, <1>4 DEF Cycle, Goes, Markers
    <3>. QED
      BY <3>1, <3>2
  <2> HIDE DEF cur
  <2>4. cur \in {<<>>} \cup {<<c>> : c \in Cycle}
    BY <1>1, <2>2, <2>3
  <2>5. r.cycles = st.cycles /\ r.prior = "Clean" /\ r.current = cur /\ r \in CycleStates
    BY <1>1, <2>1, <2>4 DEF CycleStates, Prior
  <2> HIDE DEF r
  <2>. QED
    BY <1>4, <2>2, <2>3, <2>5 DEF r
<1>5. CASE e.eid = UNEXPECTED_SHUTDOWN
  <2>1. r = [st EXCEPT !.prior = "Unexpected"]
    BY <1>2, <1>5 DEF AtEvent
  <2>2. r.cycles = st.cycles /\ r.prior = "Unexpected" /\ r.current = st.current /\ r \in CycleStates
    BY <1>1, <2>1 DEF CycleStates, Prior
  <2>3. \A c \in Cycle : Goes(c, c, e)
    BY <1>2, <1>5 DEF Goes, Markers
  <2> HIDE DEF r
  <2>. QED
    BY <1>2, <1>5, <2>2, <2>3 DEF r
<1>6. CASE e.eid # SHUTDOWN /\ e.eid # UNEXPECTED_SHUTDOWN
  <2>1. r = InCycle(st, e)
    BY <1>6 DEF AtEvent
  <2>2. CASE st.current = none
    <3>1. r = st
      BY <2>1, <2>2 DEF InCycle
    <3> HIDE DEF r
    <3>. QED
      BY <1>3, <1>6, <2>2, <3>1 DEF r
  <2>3. CASE st.current # none
    <3>1. PICK c \in Cycle : st.current = <<c>>
      BY <1>1, <2>3
    <3> DEFINE d == [c EXCEPT !.events = Append(@, e)]
               cur == [st.current EXCEPT ![1].events = Append(@, e)]
    <3>2. cur = <<d>>
      BY <3>1, SMTT(20)
    <3>3. r = [st EXCEPT !.current[1].events = Append(@, e)]
      BY <2>1, <2>3 DEF InCycle
    <3>4. r = [st EXCEPT !.current = cur]
      BY <3>3
    <3>5. c.events \in Seq(LogRecord) /\ Append(c.events, e) \in Seq(LogRecord)
      BY DEF Cycle
    <3>6. ToSet(Append(c.events, e)) = ToSet(c.events) \cup {e}
      <4> DEFINE s == c.events
                 t == Append(s, e)
      <4>1. /\ DOMAIN t = 1 .. Len(s) + 1 /\ t[Len(s) + 1] = e
            /\ \A i \in 1 .. Len(s) : t[i] = s[i]
            /\ DOMAIN s = 1 .. Len(s) /\ Len(s) \in Nat
        BY <3>5, LastAndAppend
      <4> HIDE DEF s, t
      <4>2. ToSet(t) = ToSet(s) \cup {e}
        BY <4>1 DEF ToSet
      <4>. QED
        BY <4>2 DEF s, t
    <3>7. d \in Cycle /\ d.boot = c.boot /\ d.prior = c.prior /\ d.shutdown = c.shutdown
          /\ d.events = Append(c.events, e)
      BY <3>5 DEF Cycle
    <3>8. Goes(c, d, e)
      BY <1>6, <3>6, <3>7 DEF Goes, Markers
    <3> HIDE DEF cur, d
    <3>9. r.cycles = st.cycles /\ r.prior = st.prior /\ r.current = <<d>> /\ r \in CycleStates
      BY <1>1, <3>2, <3>4, <3>7 DEF CycleStates
    <3>10. \A x \in Cycle : st.current = <<x>> => x = c
      BY <1>3, <3>1
    <3> HIDE DEF r
    <3>. QED
      BY <1>6, <2>3, <3>7, <3>8, <3>9, <3>10 DEF r
  <2>. QED
    BY <2>2, <2>3
<1>. QED
  BY <1>4, <1>5, <1>6

\* What is known of the cycles once the events P have been passed: they are those
\* of the boots among them, in their order, and the last may still go on; and
\* how the host went down last, if nothing came after.
Boots(P) == {e \in P : e.eid = BOOT}
Logged(S, eid, b) == \E e \in S : e.eid = eid /\ e.boot = b
Told(S, b) == IF Logged(S, SHUTDOWN, b) THEN "Clean"
              ELSE IF Logged(S, UNEXPECTED_SHUTDOWN, b) THEN "Unexpected" ELSE "Unknown"
Says(e) == IF e.eid = SHUTDOWN THEN "Clean"
           ELSE IF e.eid = UNEXPECTED_SHUTDOWN THEN "Unexpected" ELSE "Unknown"
AllCycles(st) == st.cycles \o st.current

Tells(c, b, S, P) ==
    /\ c.boot = b.t
    /\ ToSet(c.events) = {e \in P : e.boot = b.boot /\ e.eid \notin Markers}
    /\ c.shutdown # 0 <=> Logged(P, SHUTDOWN, b.boot)
    /\ c.prior = Told(S, b.boot - 1)

CyclesTell(cycles, S, P) ==
    /\ cycles \in Seq(Cycle)
    /\ \A b \in Boots(P) : \E j \in 1 .. Len(cycles) : cycles[j].boot = b.t
    /\ \A j \in 1 .. Len(cycles) : \E b \in Boots(P) : Tells(cycles[j], b, S, P)
    /\ \A i, j \in 1 .. Len(cycles) : i < j => cycles[i].boot < cycles[j].boot

CyclesTo(st, S, P, how) ==
    /\ st \in CycleStates
    /\ st.prior = how
    /\ CyclesTell(AllCycles(st), S, P)
    /\ st.current = <<>> => Boots(P) = {}
    /\ \A c \in Cycle : st.current = <<c>> => \A b \in Boots(P) : b.t <= c.boot

LEMMA CurrentIsLast ==
  ASSUME NEW s \in Seq(Cycle), NEW c \in Cycle
  PROVE  LET a == s \o <<c>>
         IN  /\ a \in Seq(Cycle) /\ Len(a) = Len(s) + 1 /\ Len(s) \in Nat
             /\ a[Len(s) + 1] = c /\ \A i \in 1 .. Len(s) : a[i] = s[i]
OBVIOUS

LEMMA StateParts ==
  ASSUME NEW st \in CycleStates
  PROVE  /\ st.cycles \in Seq(Cycle) /\ AllCycles(st) \in Seq(Cycle) /\ st.prior \in Prior
         /\ st.current = <<>> \/ \E c \in Cycle : st.current = <<c>>
         /\ st.current = <<>> => AllCycles(st) = st.cycles
<1>1. /\ st.cycles \in Seq(Cycle) /\ st.prior \in Prior
      /\ st.current = <<>> \/ \E c \in Cycle : st.current = <<c>>
  BY DEF CycleStates
<1>2. \A c \in Cycle : st.cycles \o <<c>> \in Seq(Cycle)
  BY <1>1, CurrentIsLast
<1>3. st.cycles \o <<>> = st.cycles
  BY <1>1
<1>. QED
  BY <1>1, <1>2, <1>3 DEF AllCycles

LEMMA BootCycle ==
  ASSUME NEW S, Timely(S), BootsInOrder(S), NEW e \in S, e.eid = BOOT,
         NEW P, P = {f \in S : f.t < e.t}, NEW st,
         CyclesTo(st, S, P, Told(S, e.boot - 1))
  PROVE  CyclesTo(AtEvent(st, e), S, P \cup {e}, "Unknown")
<1> DEFINE Q == P \cup {e}
           a == AllCycles(st)
           new == NewCycle(e, st.prior)
           r == AtEvent(st, e)
           z == AllCycles(r)
           m == Len(a)
<1>1. e \in LogRecord /\ st \in CycleStates
      /\ \A x \in S : x.t \in Nat /\ x.boot \in Nat
  BY DEF Timely, LogRecord, CyclesTo
<1>2. /\ r \in CycleStates /\ new \in Cycle
      /\ r.cycles = a /\ r.current = <<new>> /\ r.prior = "Unknown"
  BY <1>1, BootEvent DEF AllCycles
<1>3. a \in Seq(Cycle)
  BY <1>1, StateParts
<1>4. z \in Seq(Cycle) /\ Len(z) = m + 1 /\ m \in Nat /\ z[m + 1] = new /\ \A i \in 1 .. m : z[i] = a[i]
  <2>1. z = a \o <<new>>
    BY <1>2 DEF AllCycles
  <2> HIDE DEF new, a, z
  <2>. QED
    BY <1>2, <1>3, <2>1, CurrentIsLast
<1>5. new.boot = e.t /\ new.shutdown = 0 /\ new.prior = st.prior /\ ToSet(new.events) = {}
  <2>1. new.boot = e.t /\ new.shutdown = 0 /\ new.prior = st.prior /\ new.events = <<>>
    BY DEF NewCycle
  <2>. QED
    BY <2>1, NothingIsSeq
<1> HIDE DEF a, new, r, z, m
<1>6. /\ \A b \in Boots(P) : \E j \in 1 .. m : a[j].boot = b.t
      /\ \A j \in 1 .. m : \E b \in Boots(P) : Tells(a[j], b, S, P)
      /\ \A i, j \in 1 .. m : i < j => a[i].boot < a[j].boot
  BY DEF CyclesTo, CyclesTell, a, m
<1>7. e \notin P /\ Boots(Q) = Boots(P) \cup {e}
  BY <1>1 DEF Boots
<1>8. \A b \in Boots(Q) : \E j \in 1 .. Len(z) : z[j].boot = b.t
  <2>1. m + 1 \in 1 .. Len(z) /\ \A j \in 1 .. m : j \in 1 .. Len(z)
    BY <1>4
  <2>. QED
    BY <1>4, <1>5, <1>6, <1>7, <2>1
<1>9. e.eid \in Markers /\ e.eid # SHUTDOWN
  BY EventIds DEF Markers
<1>10. \A b : Logged(Q, SHUTDOWN, b) <=> Logged(P, SHUTDOWN, b)
  BY <1>9 DEF Logged
<1>11. \A x \in P : x.boot # e.boot
  <2> SUFFICES ASSUME NEW x \in P, x.boot = e.boot PROVE FALSE
    OBVIOUS
  <2>1. x \in S /\ x.t < e.t
    OBVIOUS
  <2>2. e.t <= x.t
    BY <2>1 DEF BootsInOrder
  <2>. QED
    BY <1>1, <2>1, <2>2
<1>12. ASSUME NEW j \in 1 .. m PROVE \E b \in Boots(Q) : Tells(z[j], b, S, Q)
  <2>1. PICK b \in Boots(P) : Tells(a[j], b, S, P)
    BY <1>6
  <2>2. {x \in Q : x.boot = b.boot /\ x.eid \notin Markers}
           = {x \in P : x.boot = b.boot /\ x.eid \notin Markers}
    BY <1>9
  <2>3. Tells(z[j], b, S, Q)
    BY <1>4, <1>10, <2>1, <2>2 DEF Tells
  <2>. QED
    BY <1>7, <2>3
<1>13. Tells(new, e, S, Q)
  <2>1. {x \in Q : x.boot = e.boot /\ x.eid \notin Markers} = {}
    BY <1>9, <1>11
  <2>2. ~ Logged(Q, SHUTDOWN, e.boot)
    BY <1>9, <1>11 DEF Logged
  <2>3. st.prior = Told(S, e.boot - 1)
    BY DEF CyclesTo
  <2>. QED
    BY <1>5, <2>1, <2>2, <2>3 DEF Tells
<1>14. \A j \in 1 .. m : a[j].boot < e.t
  <2> SUFFICES ASSUME NEW j \in 1 .. m PROVE a[j].boot < e.t
    OBVIOUS
  <2>1. PICK b \in Boots(P) : Tells(a[j], b, S, P)
    BY <1>6
  <2>2. b.t < e.t
    BY <2>1 DEF Boots
  <2>. QED
    BY <2>1, <2>2 DEF Tells
<1>15. \A j \in 1 .. Len(z) : \E b \in Boots(Q) : Tells(z[j], b, S, Q)
  <2> SUFFICES ASSUME NEW j \in 1 .. Len(z) PROVE \E b \in Boots(Q) : Tells(z[j], b, S, Q)
    OBVIOUS
  <2>1. CASE j \in 1 .. m
    BY <1>12, <2>1
  <2>2. CASE j = m + 1
    BY <1>4, <1>7, <1>13, <2>2
  <2>3. j \in 1 .. m \/ j = m + 1
    BY <1>4
  <2>. QED
    BY <2>1, <2>2, <2>3
<1>16. \A i, j \in 1 .. Len(z) : i < j => z[i].boot < z[j].boot
  <2> SUFFICES ASSUME NEW i \in 1 .. Len(z), NEW j \in 1 .. Len(z), i < j
               PROVE  z[i].boot < z[j].boot
    OBVIOUS
  <2>1. i \in 1 .. m /\ (j \in 1 .. m \/ j = m + 1)
    BY <1>4
  <2>. QED
    BY <1>4, <1>5, <1>6, <1>14, <2>1
<1>17. CyclesTell(z, S, Q)
  BY <1>4, <1>8, <1>15, <1>16 DEF CyclesTell
<1>18. \A b \in Boots(Q) : b.t <= new.boot
  BY <1>1, <1>5, <1>7 DEF Boots
<1>19. r.current # <<>> /\ \A c : r.current = <<c>> => c = new
  BY <1>2
<1>. QED
  BY <1>2, <1>17, <1>18, <1>19 DEF CyclesTo, r, z

LEMMA OtherCycle ==
  ASSUME NEW S, Timely(S), BootsInOrder(S), NEW e \in S, e.eid # BOOT,
         NEW P, P = {f \in S : f.t < e.t}, NEW st, CyclesTo(st, S, P, "Unknown")
  PROVE  CyclesTo(AtEvent(st, e), S, P \cup {e}, Says(e))
<1> DEFINE Q == P \cup {e}
           a == AllCycles(st)
           r == AtEvent(st, e)
           z == AllCycles(r)
           s == st.cycles
<1>1. /\ e \in LogRecord /\ st \in CycleStates /\ e.t >= 1
      /\ \A x \in S : x.t \in Nat /\ x.boot \in Nat
  BY DEF Timely, LogRecord, CyclesTo
<1>2. /\ r \in CycleStates /\ r.cycles = s
      /\ r.prior = IF e.eid = SHUTDOWN THEN "Clean"
                   ELSE IF e.eid = UNEXPECTED_SHUTDOWN THEN "Unexpected" ELSE st.prior
      /\ st.current = <<>> => r.current = <<>>
      /\ \A c \in Cycle : st.current = <<c>> => \E d \in Cycle : r.current = <<d>> /\ Goes(c, d, e)
  BY <1>1, OtherEvent
<1>3. /\ s \in Seq(Cycle) /\ a \in Seq(Cycle)
      /\ st.current = <<>> \/ \E c \in Cycle : st.current = <<c>>
      /\ st.current = <<>> => a = s
      /\ r.current = <<>> => z = s
  BY <1>1, <1>2, StateParts
<1>4. st.prior = "Unknown"
  BY DEF CyclesTo
<1>5. r.prior = Says(e)
  BY <1>2, <1>4 DEF Says
<1>6. Boots(Q) = Boots(P)
  BY DEF Boots
<1>7. CyclesTell(a, S, P)
  BY DEF CyclesTo
<1> HIDE DEF r
<1>8. CASE st.current = <<>>
  <2>1. Boots(P) = {} /\ z = a
    BY <1>2, <1>3, <1>8 DEF CyclesTo
  <2> HIDE DEF a, z, s
  <2>2. \A j \in 1 .. Len(a) : FALSE
    BY <1>7, <2>1 DEF CyclesTell
  <2>3. CyclesTell(z, S, Q)
    BY <1>3, <1>6, <2>1, <2>2 DEF CyclesTell
  <2>. QED
    BY <1>2, <1>5, <1>6, <2>1, <2>3 DEF CyclesTo, z, r
<1>9. ASSUME NEW c \in Cycle, st.current = <<c>>
      PROVE  CyclesTo(AtEvent(st, e), S, Q, Says(e))
  <2> DEFINE m == Len(s)
  <2>1. PICK d \in Cycle : r.current = <<d>> /\ Goes(c, d, e)
    BY <1>2, <1>9
  <2>2. /\ Len(a) = m + 1 /\ m \in Nat /\ a[m + 1] = c
        /\ \A i \in 1 .. m : a[i] = s[i]
        /\ z \in Seq(Cycle) /\ Len(z) = m + 1 /\ z[m + 1] = d
        /\ \A i \in 1 .. m : z[i] = s[i]
    <3>1. a = s \o <<c>> /\ z = s \o <<d>>
      BY <1>2, <1>9, <2>1 DEF AllCycles
    <3> HIDE DEF a, z, s
    <3>. QED
      BY <1>3, <3>1, CurrentIsLast
  <2> HIDE DEF a, z, s, m
  <2>3. /\ \A b \in Boots(P) : \E j \in 1 .. m + 1 : a[j].boot = b.t
        /\ \A j \in 1 .. m + 1 : \E b \in Boots(P) : Tells(a[j], b, S, P)
        /\ \A i, j \in 1 .. m + 1 : i < j => a[i].boot < a[j].boot
    BY <1>7, <2>2 DEF CyclesTell
  <2>4. m + 1 \in 1 .. m + 1 /\ \A j \in 1 .. m : j \in 1 .. m + 1 /\ j < m + 1
    BY <2>2
  <2>5. PICK b \in Boots(P) : Tells(c, b, S, P)
    BY <2>2, <2>3, <2>4
  <2>6. \A x \in Boots(P) : x.t <= b.t
    <3>1. c.boot = b.t /\ \A x \in Boots(P) : x.t <= c.boot
      BY <1>9, <2>5 DEF CyclesTo, Tells
    <3>. QED
      BY <3>1
  <2>7. e.boot = b.boot
    <3>1. b \in S /\ b.eid = BOOT /\ b.t < e.t
      BY DEF Boots
    <3>2. \A x \in S : x.eid = BOOT /\ x.t < e.t => x.t <= b.t
      BY <2>6 DEF Boots
    <3>. QED
      BY <3>1, <3>2, OfThatBoot
  <2>8. \A k : Logged(Q, SHUTDOWN, k) <=> Logged(P, SHUTDOWN, k) \/ (e.eid = SHUTDOWN /\ e.boot = k)
    BY DEF Logged
  <2>9. Tells(d, b, S, Q)
    <3>1. d.boot = b.t /\ d.prior = Told(S, b.boot - 1)
      BY <2>1, <2>5 DEF Goes, Tells
    <3>2. ToSet(d.events) = {x \in Q : x.boot = b.boot /\ x.eid \notin Markers}
      <4>1. ToSet(c.events) = {x \in P : x.boot = b.boot /\ x.eid \notin Markers}
        BY <2>5 DEF Tells
      <4>2. ToSet(d.events) = IF e.eid \in Markers THEN ToSet(c.events) ELSE ToSet(c.events) \cup {e}
        BY <2>1 DEF Goes
      <4>. QED
        BY <2>7, <4>1, <4>2
    <3>3. d.shutdown # 0 <=> Logged(Q, SHUTDOWN, b.boot)
      <4>1. c.shutdown # 0 <=> Logged(P, SHUTDOWN, b.boot)
        BY <2>5 DEF Tells
      <4>2. d.shutdown = IF e.eid = SHUTDOWN THEN e.t ELSE c.shutdown
        BY <2>1 DEF Goes
      <4>3. e.t # 0
        BY <1>1
      <4>. QED
        BY <2>7, <2>8, <4>1, <4>2, <4>3
    <3>. QED
      BY <3>1, <3>2, <3>3 DEF Tells
  <2>10. ASSUME NEW j \in 1 .. m PROVE \E x \in Boots(Q) : Tells(z[j], x, S, Q)
    <3>1. PICK x \in Boots(P) : Tells(a[j], x, S, P)
      BY <2>3, <2>4
    <3>2. x.t < b.t
      <4>1. a[j].boot < a[m + 1].boot
        BY <2>3, <2>4
      <4>. QED
        BY <2>2, <2>5, <3>1, <4>1 DEF Tells
    <3>3. x.boot # e.boot
      <4> SUFFICES ASSUME x.boot = b.boot PROVE FALSE
        BY <2>7
      <4>1. x \in S /\ b \in S /\ b.eid = BOOT
        BY DEF Boots
      <4>2. b.t <= x.t
        BY <4>1 DEF BootsInOrder
      <4>. QED
        BY <1>1, <3>2, <4>1, <4>2
    <3>4. {y \in Q : y.boot = x.boot /\ y.eid \notin Markers}
             = {y \in P : y.boot = x.boot /\ y.eid \notin Markers}
      BY <3>3
    <3>5. Logged(Q, SHUTDOWN, x.boot) <=> Logged(P, SHUTDOWN, x.boot)
      BY <2>8, <3>3
    <3>6. Tells(z[j], x, S, Q)
      BY <2>2, <3>1, <3>4, <3>5 DEF Tells
    <3>. QED
      BY <1>6, <3>6
  <2>11. \A j \in 1 .. Len(z) : \E x \in Boots(Q) : Tells(z[j], x, S, Q)
    <3> SUFFICES ASSUME NEW j \in 1 .. Len(z) PROVE \E x \in Boots(Q) : Tells(z[j], x, S, Q)
      OBVIOUS
    <3>1. CASE j \in 1 .. m
      BY <2>10, <3>1
    <3>2. CASE j = m + 1
      BY <1>6, <2>2, <2>9, <3>2
    <3>3. j \in 1 .. m \/ j = m + 1
      BY <2>2
    <3>. QED
      BY <3>1, <3>2, <3>3
  <2>12. \A i \in 1 .. m + 1 : z[i].boot = a[i].boot
    <3>1. d.boot = c.boot
      BY <2>1 DEF Goes
    <3>2. \A i \in 1 .. m + 1 : i \in 1 .. m \/ i = m + 1
      BY <2>2
    <3>. QED
      BY <2>2, <3>1, <3>2
  <2>13. CyclesTell(z, S, Q)
    BY <1>6, <2>2, <2>3, <2>11, <2>12 DEF CyclesTell
  <2>14. r.current # <<>> /\ \A x : r.current = <<x>> => x = d
    BY <2>1
  <2>15. \A x \in Boots(Q) : x.t <= d.boot
    BY <1>6, <1>9, <2>1 DEF CyclesTo, Goes
  <2>. QED
    BY <1>2, <1>5, <2>13, <2>14, <2>15 DEF CyclesTo, z, r
<1>. QED
  BY <1>3, <1>8, <1>9

\* What segment_by_boot_cycle makes of the events read.
LEMMA CyclesMade ==
  ASSUME Read(slice)
  PROVE  CyclesTell(segment_by_boot_cycle(slice), ToSet(slice), ToSet(slice))
<1> DEFINE S == ToSet(slice)
           sorted == ByEventTime(slice)
           n == Len(sorted)
           base == [cycles |-> <<>>, current |-> <<>>, prior |-> "Unknown"]
           step == [i \in 1 .. n |-> [st \in CycleStates |-> AtEvent(st, sorted[i])]]
           Loop(g) == [i \in 0 .. n |-> IF i = 0 THEN base ELSE AtEvent(g[i - 1], sorted[i])]
<1>1. Timely(S) /\ BootsInOrder(S)
  BY DEF Read, Recorded
<1>2. /\ sorted \in Seq(LogRecord) /\ n \in Nat /\ DOMAIN sorted = 1 .. n /\ ToSet(sorted) = S
      /\ \A k, l \in 1 .. n : k < l => sorted[k].t < sorted[l].t
  BY EventsByTime DEF Read
<1> HIDE DEF sorted, n
<1>3. /\ \A k \in 1 .. n : sorted[k] \in LogRecord /\ sorted[k] \in S /\ sorted[k].t \in Nat
      /\ \A e \in S : \E k \in 1 .. n : sorted[k] = e
  <2>1. \A k \in 1 .. n : sorted[k] \in LogRecord
    BY <1>2
  <2>2. /\ \A k \in 1 .. n : sorted[k] \in S
        /\ \A e \in S : \E k \in 1 .. n : sorted[k] = e
    BY <1>2 DEF ToSet
  <2>3. \A e \in LogRecord : e.t \in Nat
    BY DEF LogRecord
  <2>. QED
    BY <2>1, <2>2, <2>3
<1> HIDE DEF S
<1>4. base \in CycleStates
  <2>1. <<>> \in Seq(Cycle)
    BY NothingIsSeq
  <2>. QED
    BY <2>1 DEF CycleStates, Prior
<1>5. \A st \in CycleStates : \A e \in LogRecord : AtEvent(st, e) \in CycleStates
  BY BootEvent, OtherEvent
<1> HIDE DEF base
<1>6. step \in Steps(CycleStates, n)
  BY <1>3, <1>5 DEF Steps
<1>7. PICK f : IsRun(CycleStates, n, base, step, f)
  <2> HIDE DEF step
  <2>. QED
    BY <1>2, <1>4, <1>6, LoopRuns
<1>8. /\ f \in [0 .. n -> CycleStates] /\ f[0] = base
      /\ \A i \in 1 .. n : f[i] = AtEvent(f[i - 1], sorted[i])
  <2>1. f \in [0 .. n -> CycleStates] /\ f[0] = base /\ \A i \in 1 .. n : f[i] = step[i][f[i - 1]]
    BY <1>7 DEF IsRun
  <2>2. ASSUME NEW i \in 1 .. n PROVE f[i - 1] \in CycleStates
    <3>1. i - 1 \in 0 .. n
      BY <1>2
    <3>. QED
      BY <2>1, <3>1
  <2>. QED
    BY <2>1, <2>2
<1>9. f = Loop(f)
  BY <1>8
<1> DEFINE after == CHOOSE g : g = Loop(g)
<1>10. segment_by_boot_cycle(slice) = AllCycles(after[n])
  BY DEF segment_by_boot_cycle, AllCycles, n, sorted, base
<1> HIDE DEF Loop
<1>11. after = Loop(after)
  BY <1>9
<1> USE DEF Loop
<1> HIDE DEF after
<1>12. /\ after[0] = base
       /\ \A i \in 1 .. n : after[i] = AtEvent(after[i - 1], sorted[i])
  <2>1. \A i \in 0 .. n : after[i] = IF i = 0 THEN base ELSE AtEvent(after[i - 1], sorted[i])
    BY <1>11
  <2> HIDE DEF Loop, step
  <2>2. 0 \in 0 .. n /\ \A i \in 1 .. n : i \in 0 .. n /\ i # 0
    BY <1>2
  <2>. QED
    BY <2>1, <2>2
<1> DEFINE seen(i) == {sorted[h] : h \in 1 .. i}
           how(i) == IF i = 0 THEN "Unknown" ELSE Says(sorted[i])
           Known(i) == CyclesTo(after[i], S, seen(i), how(i))
           T == {i \in 0 .. n : Known(i)}
<1>13. 0 \in T
  <2>1. base.prior = "Unknown" /\ base.current = <<>> /\ AllCycles(base) = <<>>
    BY DEF base, AllCycles
  <2>2. seen(0) = {} /\ how(0) = "Unknown"
    OBVIOUS
  <2>3. Boots({}) = {} /\ \A c : <<>> # <<c>>
    BY DEF Boots
  <2>4. CyclesTell(<<>>, S, {})
    <3>1. <<>> \in Seq(Cycle) /\ Len(<<>>) = 0
      BY NothingIsSeq
    <3>2. \A j \in 1 .. 0 : FALSE
      OBVIOUS
    <3>. QED
      BY <2>3, <3>1, <3>2 DEF CyclesTell
  <2> HIDE DEF seen, how
  <2>5. Known(0)
    BY <1>4, <1>12, <2>1, <2>2, <2>3, <2>4 DEF CyclesTo
  <2>. QED
    BY <1>2, <2>5
<1>14. ASSUME NEW i \in 1 .. n, i - 1 \in T PROVE i \in T
  <2> DEFINE e == sorted[i]
             st == after[i - 1]
             P == {x \in S : x.t < e.t}
  <2>1. Known(i - 1) /\ after[i] = AtEvent(st, e) /\ e \in S /\ i - 1 \in Nat /\ i # 0 /\ i \in 0 .. n
    BY <1>2, <1>3, <1>12, <1>14
  <2>2. seen(i - 1) = P
    <3>1. \A h \in 1 .. i - 1 : sorted[h] \in P
      BY <1>2, <1>3
    <3>2. ASSUME NEW x \in P PROVE \E h \in 1 .. i - 1 : sorted[h] = x
      <4>1. PICK h \in 1 .. n : sorted[h] = x
        BY <1>3
      <4>2. ~ (i < h) /\ h # i
        BY <1>2, <1>3, <4>1
      <4>3. h \in 1 .. i - 1
        BY <1>2, <4>2
      <4>. QED
        BY <4>1, <4>3
    <3>. QED
      BY <3>1, <3>2
  <2>3. seen(i) = P \cup {e}
    <3>1. \A h \in 1 .. i : h = i \/ h \in 1 .. i - 1
      BY <1>2
    <3>2. \A h \in 1 .. i - 1 : h \in 1 .. i
      BY <1>2
    <3>3. seen(i) = seen(i - 1) \cup {e}
      BY <2>1, <3>1, <3>2
    <3>. QED
      BY <2>2, <3>3
  \* Between an event and the next in order there is none.
  <2>4. ASSUME i - 1 # 0
        PROVE  /\ sorted[i - 1] \in S /\ sorted[i - 1].t < e.t
               /\ \A x \in S : ~ (sorted[i - 1].t < x.t /\ x.t < e.t)
    <3>1. i - 1 \in 1 .. n
      BY <1>2, <2>1, <2>4
    <3>2. sorted[i - 1] \in S /\ sorted[i - 1].t < e.t
      BY <1>2, <1>3, <3>1
    <3>3. ASSUME NEW x \in S, sorted[i - 1].t < x.t, x.t < e.t PROVE FALSE
      <4>1. PICK h \in 1 .. n : sorted[h] = x
        BY <1>3
      <4>2. ~ (i < h) /\ h # i
        BY <1>2, <1>3, <3>3, <4>1
      <4>3. ~ (h < i - 1) /\ h # i - 1
        BY <1>2, <1>3, <3>1, <3>3, <4>1
      <4>. QED
        BY <1>2, <4>2, <4>3
    <3>. QED
      BY <3>2, <3>3
  <2>5. CyclesTo(st, S, P, how(i - 1)) /\ how(i) = Says(e)
    BY <2>1, <2>2
  <2>6. SHUTDOWN # UNEXPECTED_SHUTDOWN /\ BOOT \notin Ending
    BY EventIds DEF Ending
  <2>7. CASE e.eid = BOOT
    <3> DEFINE p == sorted[i - 1]
               b == e.boot - 1
    <3>1. e.boot \in Nat /\ \A x \in S : x.boot \in Nat
      BY <1>1, <2>1 DEF Timely, LogRecord
    <3>2. ASSUME i - 1 # 0, p.eid \in Ending PROVE how(i - 1) = Told(S, b)
      <4>1. p \in S /\ e.boot = p.boot + 1
        BY <1>1, <2>1, <2>4, <3>2, AfterShutdown
      <4>2. p.boot = b
        BY <3>1, <4>1
      <4>3. \A x \in S : x.eid \in Ending /\ x.boot = b => x = p
        BY <1>1, <3>2, <4>1, <4>2, OneEnd
      <4>4. Told(S, b) = Says(p)
        BY <2>6, <3>2, <4>1, <4>2, <4>3 DEF Told, Says, Logged, Ending
      <4>. QED
        BY <3>2, <4>4
    <3>3. ASSUME ~ (i - 1 # 0 /\ p.eid \in Ending) PROVE how(i - 1) = Told(S, b)
      <4>1. how(i - 1) = "Unknown"
        BY <3>3 DEF Says, Ending
      <4>2. ASSUME NEW q \in S, q.eid \in Ending, q.boot = b PROVE FALSE
        <5>1. q.t < e.t
          BY <1>1, <2>1, <3>1, <4>2 DEF BootsInOrder
        <5>2. PICK h \in 1 .. i - 1 : sorted[h] = q
          BY <2>2, <5>1
        <5>3. i - 1 # 0
          BY <2>1, <5>2
        <5>4. p = q
          BY <1>1, <2>1, <2>4, <2>7, <4>2, <5>3, BeforeBoot
        <5>. QED
          BY <3>3, <4>2, <5>3, <5>4
      <4>3. Told(S, b) = "Unknown"
        BY <4>2 DEF Told, Logged, Ending
      <4>. QED
        BY <4>1, <4>3
    <3>4. how(i - 1) = Told(S, e.boot - 1)
      BY <3>2, <3>3
    <3> HIDE DEF P, e, how, b, p
    <3>5. CyclesTo(AtEvent(st, e), S, P \cup {e}, "Unknown")
      BY <1>1, <2>1, <2>5, <2>7, <3>4, BootCycle DEF P
    <3>6. how(i) = "Unknown"
      BY <2>5, <2>6, <2>7 DEF Says, Ending
    <3>. QED
      BY <2>1, <2>3, <3>5, <3>6
  <2>8. CASE e.eid # BOOT
    <3>1. ASSUME i - 1 # 0 PROVE sorted[i - 1].eid \notin Ending
      BY <1>1, <2>1, <2>4, <2>8, <3>1, AfterShutdown
    <3>2. how(i - 1) = "Unknown"
      BY <3>1 DEF Says, Ending
    <3> HIDE DEF P, how
    <3>3. CyclesTo(AtEvent(st, e), S, P \cup {e}, Says(e))
      BY <1>1, <2>1, <2>5, <2>8, <3>2, OtherCycle DEF P
    <3>. QED
      BY <2>1, <2>3, <2>5, <3>3
  <2>. QED
    BY <2>7, <2>8
<1>15. Known(n)
  <2>1. n \in 0 .. n
    BY <1>2
  <2> HIDE DEF T
  <2>2. n \in T
    BY <1>2, <1>13, <1>14, <2>1, GoingUp
  <2>. QED
    BY <2>2 DEF T
<1>16. seen(n) = S
  BY <1>2, <1>3
<1> HIDE DEF seen, how
<1>. QED
  BY <1>10, <1>15, <1>16 DEF CyclesTo, S

LEMMA CyclesInOrder == Read(slice) => CyclesAreReal
<1> DEFINE S == ToSet(slice)
           cycles == segment_by_boot_cycle(slice)
           markers == {BOOT, SHUTDOWN, UNEXPECTED_SHUTDOWN}
           logged(eid, b) == \E e \in S : e.eid = eid /\ e.boot = b
           Real(c, e) == /\ c.boot = e.t
                         /\ ToSet(c.events) = {f \in S : f.boot = e.boot /\ f.eid \notin markers}
                         /\ c.shutdown # 0 <=> logged(SHUTDOWN, e.boot)
                         /\ c.prior = IF logged(SHUTDOWN, e.boot - 1) THEN "Clean"
                                      ELSE IF logged(UNEXPECTED_SHUTDOWN, e.boot - 1)
                                      THEN "Unexpected" ELSE "Unknown"
<1> SUFFICES ASSUME Read(slice) PROVE CyclesAreReal
  OBVIOUS
<1>1. CyclesTell(cycles, S, S) /\ Timely(S)
  BY CyclesMade DEF Read, Recorded
<1> HIDE DEF cycles, S
<1>2. DOMAIN cycles = 1 .. Len(cycles)
  BY <1>1 DEF CyclesTell
<1>3. \A i, j \in DOMAIN cycles : i < j => cycles[i].boot < cycles[j].boot
  BY <1>1, <1>2 DEF CyclesTell
<1>4. ASSUME NEW e \in S, e.eid = BOOT PROVE \E i \in DOMAIN cycles : Real(cycles[i], e)
  <2>1. PICK i \in 1 .. Len(cycles) : cycles[i].boot = e.t
    BY <1>1, <1>4 DEF CyclesTell, Boots
  <2>2. PICK b \in Boots(S) : Tells(cycles[i], b, S, S)
    BY <1>1, <2>1 DEF CyclesTell
  <2>3. b \in S /\ b.t = e.t
    BY <2>1, <2>2 DEF Boots, Tells
  <2>4. b = e
    BY <1>1, <2>3 DEF Timely
  <2>5. Real(cycles[i], e)
    BY <2>2, <2>4 DEF Tells, Told, Logged, Markers
  <2>. QED
    BY <1>2, <2>1, <2>5
<1>. QED
  BY <1>3, <1>4 DEF CyclesAreReal, cycles, S

\* Whatever the host does and in whatever order its files are read, the boot cycles
\* that segment_by_boot_cycle makes of the boots whose marker is left each have the
\* events of their boot, and tell how the host went down before as the log does:
\* cleanly, unexpectedly, or not at all.
THEOREM AlwaysCyclesAreReal == LogSpec => []CyclesAreReal
<1>1. ReadInv => CyclesAreReal
  BY SliceIsRecorded, CyclesInOrder
<1>. QED
  BY <1>1, ReadInvariant, PTL

-------------------------------------------------------------------------------
\* The tree of processes.

StartsOf(s) == ToSet(Starts(s))

LEMMA StartsRead ==
  ASSUME NEW s \in Seq(LogRecord)
  PROVE  /\ Starts(s) \in Seq(LogRecord)
         /\ StartsOf(s) = {e \in ToSet(s) : e.eid \in Starting}
<1> DEFINE P == {i \in DOMAIN s : s[i].eid \in {PROCESS_CREATE, SYSMON_PROCESS_CREATE}}
<1>1. P \in SUBSET (1 .. Len(s))
  OBVIOUS
<1>2. Starts(s) = At(s, P)
  BY DEF Starts, Where
<1>3. {s[p] : p \in P} = {e \in ToSet(s) : e.eid \in Starting}
  BY DEF ToSet, Starting
<1> HIDE DEF P
<1>. QED
  BY <1>1, <1>2, <1>3, AtIsSequence DEF StartsOf

\* Nodes for starts: one under every key, and of that key.
NodesOf(nodes, E) ==
    /\ nodes = [k \in DOMAIN nodes |-> nodes[k]]
    /\ DOMAIN nodes = {ProcessKey(e) : e \in E}
    /\ \A k \in DOMAIN nodes : nodes[k] \in E /\ ProcessKey(nodes[k]) = k

LEMMA NodeInserted ==
  ASSUME NEW nodes, NEW E, NodesOf(nodes, E), NEW e
  PROVE  NodesOf(Insert(nodes, e), E \cup {e})
<1> DEFINE D == DOMAIN nodes \cup {ProcessKey(e)}
           made == [k \in D |-> IF k = ProcessKey(e) THEN e ELSE nodes[k]]
<1>1. Insert(nodes, e) = made
  BY DEF Insert
<1>2. D = {ProcessKey(x) : x \in E \cup {e}}
  BY DEF NodesOf
<1>3. \A k \in D : made[k] \in E \cup {e} /\ ProcessKey(made[k]) = k
  BY DEF NodesOf
<1>4. DOMAIN made = D /\ made = [k \in D |-> made[k]]
  OBVIOUS
<1> HIDE DEF made, D
<1>. QED
  BY <1>1, <1>2, <1>3, <1>4 DEF NodesOf

LEMMA NodesMade ==
  ASSUME NEW s \in Seq(LogRecord)
  PROVE  NodesOf(from_events(s), StartsOf(s))
<1> DEFINE starts == Starts(s)
           n == Len(starts)
           none == <<>>
           Keys == {ProcessKey(e) : e \in LogRecord}
           Trees == UNION {[D -> LogRecord] : D \in SUBSET Keys}
           step == [i \in 1 .. n |-> [t \in Trees |-> Insert(t, starts[i])]]
           Loop(g) == [i \in 0 .. n |-> IF i = 0 THEN none ELSE Insert(g[i - 1], starts[i])]
<1>1. starts \in Seq(LogRecord)
  BY StartsRead
<1>2. n \in Nat /\ DOMAIN starts = 1 .. n /\ \A i \in 1 .. n : starts[i] \in LogRecord
  BY <1>1
<1> HIDE DEF starts, n
<1>3. none \in Trees /\ NodesOf(none, {})
  <2>1. none \in [{} -> LogRecord] /\ DOMAIN none = {} /\ none = [k \in {} |-> none[k]]
    OBVIOUS
  <2>2. {} \in SUBSET Keys
    OBVIOUS
  <2> HIDE DEF none
  <2>. QED
    BY <2>1, <2>2 DEF NodesOf
<1> HIDE DEF none
<1>4. ASSUME NEW t \in Trees, NEW e \in LogRecord PROVE Insert(t, e) \in Trees
  <2>1. PICK D \in SUBSET Keys : t \in [D -> LogRecord]
    OBVIOUS
  <2> DEFINE F == D \cup {ProcessKey(e)}
             made == [k \in F |-> IF k = ProcessKey(e) THEN e ELSE t[k]]
  <2>2. Insert(t, e) = made
    BY <2>1 DEF Insert
  <2>3. made \in [F -> LogRecord]
    BY <2>1
  <2>4. F \in SUBSET Keys
    OBVIOUS
  <2>. QED
    BY <2>2, <2>3, <2>4
<1> HIDE DEF Trees
<1>5. step \in Steps(Trees, n)
  BY <1>2, <1>4 DEF Steps
<1>6. PICK f : IsRun(Trees, n, none, step, f)
  <2> HIDE DEF step
  <2>. QED
    BY <1>2, <1>3, <1>5, LoopRuns
<1>7. /\ f \in [0 .. n -> Trees] /\ f[0] = none
      /\ \A i \in 1 .. n : f[i] = Insert(f[i - 1], starts[i])
  <2>1. f \in [0 .. n -> Trees] /\ f[0] = none /\ \A i \in 1 .. n : f[i] = step[i][f[i - 1]]
    BY <1>6 DEF IsRun
  <2>2. ASSUME NEW i \in 1 .. n PROVE f[i - 1] \in Trees
    <3>1. i - 1 \in 0 .. n
      BY <1>2
    <3>. QED
      BY <2>1, <3>1
  <2>. QED
    BY <2>1, <2>2
<1>8. f = Loop(f)
  BY <1>7
<1> DEFINE nodes == CHOOSE g : g = Loop(g)
<1>9. from_events(s) = nodes[n]
  BY DEF from_events, n, starts, none
<1> HIDE DEF Loop
<1>10. nodes = Loop(nodes)
  BY <1>8
<1> USE DEF Loop
<1> HIDE DEF nodes
<1>11. /\ nodes[0] = none
       /\ \A i \in 1 .. n : nodes[i] = Insert(nodes[i - 1], starts[i])
  <2>1. \A i \in 0 .. n : nodes[i] = IF i = 0 THEN none ELSE Insert(nodes[i - 1], starts[i])
    BY <1>10
  <2> HIDE DEF Loop, step
  <2>2. 0 \in 0 .. n /\ \A i \in 1 .. n : i \in 0 .. n /\ i # 0
    BY <1>2
  <2>. QED
    BY <2>1, <2>2
<1> DEFINE seen(i) == {starts[h] : h \in 1 .. i}
           T == {i \in 0 .. n : NodesOf(nodes[i], seen(i))}
<1>12. 0 \in T
  <2>1. seen(0) = {}
    OBVIOUS
  <2>2. 0 \in 0 .. n
    BY <1>2
  <2> HIDE DEF seen
  <2>3. NodesOf(nodes[0], seen(0))
    BY <1>3, <1>11, <2>1
  <2>. QED
    BY <2>2, <2>3
<1>13. ASSUME NEW i \in 1 .. n, i - 1 \in T PROVE i \in T
  <2>1. seen(i) = seen(i - 1) \cup {starts[i]}
    <3>1. \A h \in 1 .. i : h = i \/ h \in 1 .. i - 1
      BY <1>2
    <3>2. i \in 1 .. i /\ \A h \in 1 .. i - 1 : h \in 1 .. i
      BY <1>2
    <3>. QED
      BY <3>1, <3>2
  <2> HIDE DEF seen
  <2>2. NodesOf(nodes[i], seen(i))
    BY <1>11, <1>13, <2>1, NodeInserted
  <2>. QED
    BY <1>2, <2>2
<1>14. NodesOf(nodes[n], seen(n))
  <2>1. n \in 0 .. n
    BY <1>2
  <2> HIDE DEF T
  <2>2. n \in T
    BY <1>2, <1>12, <1>13, <2>1, GoingUp
  <2>. QED
    BY <2>2 DEF T
<1>15. seen(n) = StartsOf(s)
  BY <1>2 DEF StartsOf, ToSet, starts
<1> HIDE DEF seen
<1>. QED
  BY <1>9, <1>14, <1>15

\* A line above a process: one node after the other, each under the key of the
\* parent of the one before, and no key twice.
FromStart(line, e) == IF line = <<>> THEN e ELSE Last(line)
KeysIn(line) == {ProcessKey(x) : x \in ToSet(line)}

Line(line, nodes, e, E) ==
    /\ line \in Seq(E)
    /\ \A i, j \in 1 .. Len(line) : ProcessKey(line[i]) = ProcessKey(line[j]) => i = j
    /\ \A i \in 1 .. Len(line) :
          /\ ParentKey(IF i = 1 THEN e ELSE line[i - 1]) \in DOMAIN nodes
          /\ line[i] = nodes[ParentKey(IF i = 1 THEN e ELSE line[i - 1])]
    /\ IsFiniteSet(KeysIn(line)) /\ Cardinality(KeysIn(line)) = Len(line)

Further(line, nodes, e) ==
    LET parent == ParentKey(FromStart(line, e))
    IN  IF parent \in DOMAIN nodes \ KeysIn(line) THEN Append(line, nodes[parent]) ELSE line

LEMMA LineGrows ==
  ASSUME NEW E, NEW nodes, NodesOf(nodes, E), NEW e \in E, NEW line, Line(line, nodes, e, E),
         LET parent == ParentKey(FromStart(line, e)) IN parent \in DOMAIN nodes \ KeysIn(line)
  PROVE  LET parent == ParentKey(FromStart(line, e))
         IN  /\ Line(Append(line, nodes[parent]), nodes, e, E)
             /\ Len(Append(line, nodes[parent])) = Len(line) + 1
<1> DEFINE parent == ParentKey(FromStart(line, e))
           x == nodes[parent]
           m == Len(line)
           more == Append(line, x)
<1>1. x \in E /\ ProcessKey(x) = parent /\ parent \in DOMAIN nodes /\ parent \notin KeysIn(line)
  BY DEF NodesOf
<1>2. /\ line \in Seq(E) /\ m \in Nat /\ DOMAIN line = 1 .. m
      /\ \A i \in 1 .. m : line[i] \in ToSet(line)
      /\ \A y \in ToSet(line) : \E i \in 1 .. m : line[i] = y
  BY DEF Line, ToSet
<1> HIDE DEF parent, x, m
<1>3. /\ more \in Seq(E) /\ Len(more) = m + 1 /\ DOMAIN more = 1 .. m + 1 /\ more[m + 1] = x
      /\ \A i \in 1 .. m : more[i] = line[i]
      /\ line # <<>> => Last(line) = line[m]
  BY <1>1, <1>2, LastAndAppend DEF m
<1> HIDE DEF more
<1>4. \A i \in 1 .. m + 1 : i \in 1 .. m \/ i = m + 1
  BY <1>2
<1>5. \A i \in 1 .. m : ProcessKey(line[i]) # ProcessKey(x)
  BY <1>1, <1>2 DEF KeysIn
<1>6. \A i, j \in 1 .. m + 1 : ProcessKey(more[i]) = ProcessKey(more[j]) => i = j
  BY <1>3, <1>4, <1>5 DEF Line, m
<1>7. KeysIn(more) = KeysIn(line) \cup {parent}
  <2>1. ToSet(more) = ToSet(line) \cup {x}
    BY <1>2, <1>3, <1>4 DEF ToSet
  <2>. QED
    BY <1>1, <2>1 DEF KeysIn
<1>8. IsFiniteSet(KeysIn(more)) /\ Cardinality(KeysIn(more)) = m + 1
  BY <1>1, <1>7, FS_AddElement DEF Line, m
<1>9. line = <<>> <=> m = 0
  BY <1>2 DEF m
<1>10. ASSUME NEW i \in 1 .. m + 1
       PROVE  /\ ParentKey(IF i = 1 THEN e ELSE more[i - 1]) \in DOMAIN nodes
              /\ more[i] = nodes[ParentKey(IF i = 1 THEN e ELSE more[i - 1])]
  <2>1. CASE i \in 1 .. m
    <3>1. i # 1 => i - 1 \in 1 .. m
      BY <1>2, <2>1
    <3>2. (IF i = 1 THEN e ELSE more[i - 1]) = (IF i = 1 THEN e ELSE line[i - 1])
      BY <1>3, <3>1
    <3>. QED
      BY <1>3, <2>1, <3>2 DEF Line, m
  <2>2. CASE i = m + 1
    <3>1. (IF i = 1 THEN e ELSE more[i - 1]) = FromStart(line, e)
      <4>1. i - 1 = m /\ (i = 1 <=> m = 0)
        BY <1>2, <2>2
      <4>2. m # 0 => m \in 1 .. m
        BY <1>2
      <4>. QED
        BY <1>3, <1>9, <4>1, <4>2 DEF FromStart
    <3>. QED
      BY <1>1, <1>3, <2>2, <3>1 DEF parent, x
  <2>. QED
    BY <1>4, <2>1, <2>2
<1>11. Line(more, nodes, e, E)
  BY <1>3, <1>6, <1>8, <1>10 DEF Line
<1>. QED
  BY <1>3, <1>11 DEF more, x, parent, m

\* The line that ancestors_of follows, which has ended.
LEMMA LineFollowed ==
  ASSUME NEW E, IsFiniteSet(E), NEW nodes, NodesOf(nodes, E), NEW e \in E
  PROVE  LET first == nodes[ProcessKey(e)]
             line == ancestors_of(nodes, ProcessKey(e))
         IN  /\ first \in E /\ Line(line, nodes, first, E)
             /\ ParentKey(FromStart(line, first)) \notin DOMAIN nodes \ KeysIn(line)
<1> DEFINE key == ProcessKey(e)
           first == nodes[key]
           n == Cardinality(DOMAIN nodes)
           none == <<>>
           Lines == {l \in Seq(E) : Line(l, nodes, first, E)}
           step == [i \in 1 .. n |-> [l \in Lines |-> Further(l, nodes, first)]]
           Loop(g) == [i \in 0 .. n |-> IF i = 0 THEN none ELSE Further(g[i - 1], nodes, first)]
<1>1. first \in E
  BY DEF NodesOf
<1>2. IsFiniteSet(DOMAIN nodes) /\ n \in Nat
  <2> DEFINE k == [x \in E |-> ProcessKey(x)]
  <2>1. DOMAIN nodes = {k[x] : x \in E} /\ DOMAIN k = E
    BY DEF NodesOf
  <2> HIDE DEF k
  <2>2. IsFiniteSet(DOMAIN nodes)
    BY <2>1, ImageIsFinite
  <2>. QED
    BY <2>2, FS_CardinalityType
<1> HIDE DEF first, n
<1>3. none \in Lines
  <2>1. none \in Seq(E) /\ Len(none) = 0 /\ ToSet(none) = {}
    BY NothingIsSeq
  <2>2. \A i \in 1 .. 0 : FALSE
    OBVIOUS
  <2>3. KeysIn(none) = {}
    BY <2>1 DEF KeysIn
  <2> HIDE DEF none
  <2>. QED
    BY <2>1, <2>2, <2>3, FS_EmptySet DEF Line
<1> HIDE DEF none
<1>4. \A l \in Lines : Further(l, nodes, first) \in Lines
  <2> SUFFICES ASSUME NEW l \in Lines PROVE Further(l, nodes, first) \in Lines
    OBVIOUS
  <2>1. CASE ParentKey(FromStart(l, first)) \in DOMAIN nodes \ KeysIn(l)
    <3> DEFINE more == Append(l, nodes[ParentKey(FromStart(l, first))])
    <3>1. Further(l, nodes, first) = more
      BY <2>1 DEF Further
    <3>2. Line(more, nodes, first, E)
      BY <1>1, <2>1, LineGrows
    <3>3. more \in Seq(E)
      BY <3>2 DEF Line
    <3>. QED
      BY <3>1, <3>2, <3>3
  <2>2. CASE ~ (ParentKey(FromStart(l, first)) \in DOMAIN nodes \ KeysIn(l))
    BY <2>2 DEF Further
  <2>. QED
    BY <2>1, <2>2
<1>5. step \in Steps(Lines, n)
  <2> HIDE DEF Lines
  <2>. QED
    BY <1>4 DEF Steps
<1>6. PICK f : IsRun(Lines, n, none, step, f)
  <2> HIDE DEF step, Lines
  <2>. QED
    BY <1>2, <1>3, <1>5, LoopRuns
<1>7. /\ f \in [0 .. n -> Lines] /\ f[0] = none
      /\ \A i \in 1 .. n : f[i] = Further(f[i - 1], nodes, first)
  <2> HIDE DEF Lines
  <2>1. f \in [0 .. n -> Lines] /\ f[0] = none /\ \A i \in 1 .. n : f[i] = step[i][f[i - 1]]
    BY <1>6 DEF IsRun
  <2>2. ASSUME NEW i \in 1 .. n PROVE f[i - 1] \in Lines
    <3>1. i - 1 \in 0 .. n
      BY <1>2
    <3>. QED
      BY <2>1, <3>1
  <2>. QED
    BY <2>1, <2>2
<1>8. f = Loop(f)
  BY <1>7
<1> DEFINE line == CHOOSE g : g = Loop(g)
<1>9. ancestors_of(nodes, key) = line[n]
  BY DEF ancestors_of, Further, FromStart, KeysIn, n, first, none
<1> HIDE DEF Loop
<1>10. line = Loop(line)
  BY <1>8
<1> USE DEF Loop
<1> HIDE DEF line
<1>11. /\ line[0] = none
       /\ \A i \in 1 .. n : line[i] = Further(line[i - 1], nodes, first)
  <2>1. \A i \in 0 .. n : line[i] = IF i = 0 THEN none ELSE Further(line[i - 1], nodes, first)
    BY <1>10
  <2> HIDE DEF Loop, step
  <2>2. 0 \in 0 .. n /\ \A i \in 1 .. n : i \in 0 .. n /\ i # 0
    BY <1>2
  <2>. QED
    BY <2>1, <2>2
<1> DEFINE ends(l) == ParentKey(FromStart(l, first)) \notin DOMAIN nodes \ KeysIn(l)
           T == {i \in 0 .. n : line[i] \in Lines /\ (ends(line[i]) \/ Len(line[i]) = i)}
<1>12. 0 \in T
  <2>1. Len(none) = 0
    BY DEF none
  <2> HIDE DEF ends, Lines
  <2>. QED
    BY <1>2, <1>3, <1>11, <2>1
<1>13. ASSUME NEW i \in 1 .. n, i - 1 \in T PROVE i \in T
  <2> DEFINE l == line[i - 1]
  <2>1. l \in Lines /\ (ends(l) \/ Len(l) = i - 1) /\ line[i] = Further(l, nodes, first)
    BY <1>11, <1>13
  <2>2. line[i] \in Lines
    BY <1>4, <2>1
  <2>3. ends(line[i]) \/ Len(line[i]) = i
    <3>1. CASE ends(l)
      <4>1. Further(l, nodes, first) = l
        BY <3>1 DEF Further
      <4>. QED
        BY <2>1, <3>1, <4>1
    <3>2. CASE ~ ends(l)
      <4> DEFINE more == Append(l, nodes[ParentKey(FromStart(l, first))])
      <4>1. Further(l, nodes, first) = more
        BY <3>2 DEF Further
      <4>2. Len(more) = Len(l) + 1
        BY <1>1, <2>1, <3>2, LineGrows
      <4>3. Len(l) = i - 1
        BY <2>1, <3>2
      <4>. QED
        BY <1>2, <2>1, <4>1, <4>2, <4>3
    <3>. QED
      BY <3>1, <3>2
  <2> HIDE DEF ends, Lines, l
  <2>. QED
    BY <1>2, <2>2, <2>3
<1>14. line[n] \in Lines /\ (ends(line[n]) \/ Len(line[n]) = n)
  <2>1. n \in 0 .. n
    BY <1>2
  <2> HIDE DEF T
  <2>2. n \in T
    BY <1>2, <1>12, <1>13, <2>1, GoingUp
  <2>. QED
    BY <2>2 DEF T
<1>15. ends(line[n])
  <2> DEFINE l == line[n]
  <2> SUFFICES ASSUME Len(l) = n PROVE ends(l)
    BY <1>14
  <2>1. Line(l, nodes, first, E)
    BY <1>14
  <2>2. KeysIn(l) \subseteq DOMAIN nodes
    <3>1. l \in Seq(E)
      BY <2>1 DEF Line
    <3>2. ToSet(l) \subseteq E
      BY <3>1, ElementsFinite
    <3>. QED
      BY <3>2 DEF KeysIn, NodesOf
  <2>3. Cardinality(KeysIn(l)) = Cardinality(DOMAIN nodes)
    BY <2>1 DEF Line, n
  <2>4. KeysIn(l) = DOMAIN nodes
    BY <1>2, <2>2, <2>3, FS_Subset
  <2>. QED
    BY <2>4
<1>16. Line(line[n], nodes, first, E)
  BY <1>14
<1>. QED
  BY <1>1, <1>9, <1>15, <1>16 DEF first

\* Going up such a line from the start that a node is for, the guids come down:
\* whoever starts a process was started before it.
LEMMA GuidsComeDown ==
  ASSUME NEW E, NEW nodes, NEW e \in E, NEW line, Line(line, nodes, e, E),
         \A x \in E : x.guid \in Nat /\ x.pguid \in Nat /\ x.pguid < x.guid,
         \A x \in E : ParentKey(x) \in DOMAIN nodes => nodes[ParentKey(x)].guid = x.pguid
  PROVE  /\ \A i \in 1 .. Len(line) :
               line[i].guid = IF i = 1 THEN e.pguid ELSE line[i - 1].pguid
         /\ \A i, j \in 1 .. Len(line) : i <= j => line[j].guid <= line[i].guid
<1> DEFINE m == Len(line)
           from(i) == IF i = 1 THEN e ELSE line[i - 1]
<1>1. m \in Nat /\ \A i \in 1 .. m : line[i] \in E
  BY DEF Line
<1>2. ASSUME NEW i \in 1 .. m PROVE line[i].guid = from(i).pguid
  <2>1. from(i) \in E
    <3>1. i # 1 => i - 1 \in 1 .. m
      BY <1>1
    <3>. QED
      BY <1>1, <3>1
  <2>2. ParentKey(from(i)) \in DOMAIN nodes /\ line[i] = nodes[ParentKey(from(i))]
    BY DEF Line
  <2> HIDE DEF from
  <2>. QED
    BY <2>1, <2>2
<1>3. ASSUME NEW i \in 1 .. m, i # 1 PROVE line[i].guid < line[i - 1].guid
  <2>1. i - 1 \in 1 .. m
    BY <1>1, <1>3
  <2>2. line[i].guid = line[i - 1].pguid
    BY <1>2, <1>3
  <2>. QED
    BY <1>1, <2>1, <2>2
<1>4. ASSUME NEW i \in 1 .. m
      PROVE  \A j \in 1 .. m : i <= j => line[j].guid <= line[i].guid
  <2> DEFINE T == {j \in 0 .. m : j >= i => line[j].guid <= line[i].guid}
  <2>1. 0 \in T
    BY <1>1
  <2>2. ASSUME NEW j \in 1 .. m, j - 1 \in T PROVE j \in T
    <3> SUFFICES ASSUME j >= i PROVE line[j].guid <= line[i].guid
      BY <1>1
    <3>1. CASE j = i
      BY <1>1, <3>1
    <3>2. CASE j # i
      <4>1. j # 1 /\ j - 1 \in 1 .. m /\ j - 1 >= i
        BY <1>1, <3>2
      <4>2. line[j - 1].guid <= line[i].guid
        BY <2>2, <4>1
      <4>3. line[j].guid < line[j - 1].guid
        BY <1>3, <4>1
      <4>. QED
        BY <1>1, <4>1, <4>2, <4>3
    <3>. QED
      BY <3>1, <3>2
  <2>3. \A j \in 0 .. m : j \in T
    <3> HIDE DEF T
    <3>. QED
      BY <1>1, <2>1, <2>2, GoingUp
  <2>. QED
    BY <1>1, <2>3
<1>. QED
  BY <1>2, <1>4

\* What tells the parent of a start: the guid, or an id that has not come back.
LEMMA ParentFound ==
  ASSUME NEW S, StartsLinked(S), NEW E, \A e \in E : e \in S /\ e.eid \in Starting,
         NEW nodes, NodesOf(nodes, E),
         \A e, f \in E : ProcessKey(e) = ProcessKey(f) => e = f,
         \A e \in E : e.pguid # 0 => \/ sysmon
                                     \/ \E f \in E : f.guid = e.pguid
                                     \/ ParentKey(e) \notin DOMAIN nodes
  PROVE  /\ \A x \in E : ParentKey(x) \in DOMAIN nodes => nodes[ParentKey(x)].guid = x.pguid
         /\ \A x, y \in E : y.guid = x.pguid =>
               ParentKey(x) \in DOMAIN nodes /\ nodes[ParentKey(x)] = y
<1>1. \A x \in E : /\ x \in S /\ x.eid \in Starting /\ x.pid # 0
                   /\ (x.pguid = 0 <=> x.ppid = 0)
                   /\ (x.eid = SYSMON_PROCESS_CREATE <=> sysmon)
  BY DEF StartsLinked
<1>2. \A x, y \in E : y.guid = x.pguid => y.pid = x.ppid
  BY <1>1 DEF StartsLinked
<1>3. \A x, y \in E : x.eid = y.eid
  BY <1>1 DEF Starting
<1>4. \A k \in DOMAIN nodes : nodes[k] \in E /\ ProcessKey(nodes[k]) = k
  BY DEF NodesOf
<1>5. \A x \in E : ProcessKey(x) \in DOMAIN nodes
  BY DEF NodesOf
<1>6. \A x, y \in E : y.guid = x.pguid => ProcessKey(y) = ParentKey(x)
  BY <1>2, <1>3 DEF ProcessKey, ParentKey
<1>7. \A x, y \in E : y.guid = x.pguid =>
          ParentKey(x) \in DOMAIN nodes /\ nodes[ParentKey(x)] = y
  <2> SUFFICES ASSUME NEW x \in E, NEW y \in E, y.guid = x.pguid
               PROVE  ParentKey(x) \in DOMAIN nodes /\ nodes[ParentKey(x)] = y
    OBVIOUS
  <2>1. ProcessKey(y) = ParentKey(x)
    BY <1>6
  <2>2. ParentKey(x) \in DOMAIN nodes
    BY <1>5, <2>1
  <2>3. nodes[ParentKey(x)] \in E /\ ProcessKey(nodes[ParentKey(x)]) = ProcessKey(y)
    BY <1>4, <2>1, <2>2
  <2>. QED
    BY <2>2, <2>3
<1>8. ASSUME NEW x \in E, ParentKey(x) \in DOMAIN nodes
      PROVE  nodes[ParentKey(x)].guid = x.pguid
  <2> DEFINE y == nodes[ParentKey(x)]
  <2>1. y \in E /\ ProcessKey(y) = ParentKey(x) /\ y.eid = x.eid
    BY <1>3, <1>4, <1>8
  <2> HIDE DEF y
  <2>2. CASE x.eid = SYSMON_PROCESS_CREATE
    BY <2>1, <2>2 DEF ProcessKey, ParentKey, y
  <2>3. CASE x.eid # SYSMON_PROCESS_CREATE
    <3>1. y.pid = x.ppid
      BY <2>1, <2>3 DEF ProcessKey, ParentKey
    <3>2. x.pguid # 0 /\ ~ sysmon
      BY <1>1, <2>1, <2>3, <3>1
    <3>3. PICK f \in E : f.guid = x.pguid
      BY <1>8, <3>2
    <3>4. y = f
      BY <1>7, <3>3 DEF y
    <3>. QED
      BY <3>3, <3>4 DEF y
  <2>. QED
    BY <2>2, <2>3
<1>. QED
  BY <1>7, <1>8

LEMMA AncestorsInOrder == Read(slice) => AncestorsAreReal
<1> DEFINE S == ToSet(slice)
           nodes == from_events(slice)
           starts == ToSet(Starts(slice))
           unique == \A e, f \in starts : ProcessKey(e) = ProcessKey(f) => e = f
           known == \A e \in starts :
                       e.pguid # 0 => \/ sysmon
                                      \/ \E f \in starts : f.guid = e.pguid
                                      \/ ParentKey(e) \notin DOMAIN nodes
           Above(e) == ancestors_of(nodes, ProcessKey(e))
<1> SUFFICES ASSUME Read(slice), NEW e \in starts
             PROVE  IsInjective(Above(e)) /\ (unique /\ known => TrueLine(Above(e), e))
  BY DEF AncestorsAreReal
<1> DEFINE first == nodes[ProcessKey(e)]
           line == Above(e)
           m == Len(line)
<1>1. slice \in Seq(LogRecord) /\ Timely(S) /\ StartsLinked(S)
  BY DEF Read, Recorded
<1>2. NodesOf(nodes, starts) /\ starts = {x \in S : x.eid \in Starting}
  BY <1>1, NodesMade, StartsRead DEF StartsOf
<1>3. IsFiniteSet(starts)
  <2>1. IsFiniteSet(S)
    BY <1>1, ElementsFinite
  <2> HIDE DEF S, starts
  <2>. QED
    BY <1>2, <2>1, FS_Subset
<1> HIDE DEF starts, nodes, S
<1>4. /\ first \in starts /\ Line(line, nodes, first, starts)
      /\ ParentKey(FromStart(line, first)) \notin DOMAIN nodes \ KeysIn(line)
  BY <1>2, <1>3, LineFollowed
<1> HIDE DEF line
<1>5. m \in Nat /\ DOMAIN line = 1 .. m /\ line \in Seq(starts) /\ \A i \in 1 .. m : line[i] \in starts
  BY <1>4 DEF Line
<1>6. IsInjective(line)
  <2>1. \A i, j \in 1 .. m : line[i] = line[j] => i = j
    BY <1>4 DEF Line
  <2> HIDE DEF m
  <2>. QED
    BY <1>5, <2>1 DEF IsInjective
<1>7. ASSUME unique, known PROVE TrueLine(line, e)
  <2>1. first = e
    <3>1. ProcessKey(e) \in DOMAIN nodes
      BY <1>2 DEF NodesOf
    <3>2. ProcessKey(first) = ProcessKey(e)
      BY <1>2, <3>1 DEF NodesOf
    <3>. QED
      BY <1>4, <1>7, <3>2
  <2> HIDE DEF first
  <2>2. /\ \A x \in starts : ParentKey(x) \in DOMAIN nodes => nodes[ParentKey(x)].guid = x.pguid
        /\ \A x, y \in starts : y.guid = x.pguid =>
              ParentKey(x) \in DOMAIN nodes /\ nodes[ParentKey(x)] = y
    <3>1. \A x, y \in starts : ProcessKey(x) = ProcessKey(y) => x = y
      BY <1>7
    <3>2. \A x \in starts : x.pguid # 0 => \/ sysmon
                                           \/ \E f \in starts : f.guid = x.pguid
                                           \/ ParentKey(x) \notin DOMAIN nodes
      BY <1>7
    <3>3. \A x \in starts : x \in S /\ x.eid \in Starting
      BY <1>2
    <3>4. StartsLinked(S) /\ NodesOf(nodes, starts)
      BY <1>1, <1>2
    <3> HIDE DEF unique, known
    <3>. QED
      BY <3>1, <3>2, <3>3, <3>4, ParentFound
  <2>3. \A x \in starts : x.guid \in Nat /\ x.pguid \in Nat /\ x.pguid < x.guid
    BY <1>1, <1>2 DEF StartsLinked, Timely, LogRecord
  <2>4. /\ \A i \in 1 .. m : line[i].guid = IF i = 1 THEN e.pguid ELSE line[i - 1].pguid
        /\ \A i, j \in 1 .. m : i <= j => line[j].guid <= line[i].guid
    BY <1>4, <2>1, <2>2, <2>3, GuidsComeDown
  <2> DEFINE last == IF line = <<>> THEN e ELSE Last(line)
  <2>5. \A x \in starts : x.guid # last.pguid
    <3> SUFFICES ASSUME NEW x \in starts, x.guid = last.pguid PROVE FALSE
      OBVIOUS
    <3>1. last \in starts /\ last = FromStart(line, first)
          /\ (line # <<>> => m \in 1 .. m /\ last = line[m])
      <4>1. line # <<>> => m \in 1 .. m /\ Last(line) = line[m] /\ Last(line) \in starts
        BY <1>4, <1>5, LastAndAppend
      <4>. QED
        BY <2>1, <4>1 DEF FromStart
    <3> HIDE DEF last
    <3>2. ParentKey(last) \in DOMAIN nodes /\ nodes[ParentKey(last)] = x
      BY <2>2, <3>1
    <3>3. ParentKey(last) \in KeysIn(line)
      BY <1>4, <3>1, <3>2
    <3>4. PICK i \in 1 .. m : ProcessKey(line[i]) = ParentKey(last)
      BY <1>5, <3>3 DEF KeysIn, ToSet
    <3>5. ProcessKey(x) = ParentKey(last)
      BY <1>2, <3>2 DEF NodesOf
    <3>6. x = line[i]
      BY <1>5, <1>7, <3>4, <3>5
    <3>7. last = line[m] /\ m \in 1 .. m /\ i <= m
      <4>1. line # <<>>
        BY <1>5, <3>4
      <4>. QED
        BY <1>5, <3>1, <4>1
    <3>8. last.guid <= x.guid
      BY <2>4, <3>6, <3>7
    <3>9. last.pguid < last.guid /\ last.guid \in Nat /\ x.guid \in Nat
      BY <2>3, <3>1
    <3>. QED
      BY <3>8, <3>9
  <2>6. TrueLine(line, e)
    BY <1>5, <2>4, <2>5 DEF TrueLine, starts
  <2>. QED
    BY <2>6
<1>. QED
  BY <1>6, <1>7 DEF line

\* Whatever the host does and in whatever order its files are read, the line that
\* ancestors_of finds above a process ends and repeats nobody, and it is the true
\* one if the events tell the processes apart.
THEOREM AlwaysAncestorsAreReal == LogSpec => []AncestorsAreReal
<1>1. ReadInv => AncestorsAreReal
  BY SliceIsRecorded, AncestorsInOrder
<1>. QED
  BY <1>1, ReadInvariant, PTL

==============================================================================
