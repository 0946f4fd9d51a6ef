------------------------------ MODULE MCAnalyses ------------------------------
(***************************************************************************)
(* Small instances of what is made of events: the correlation pass over a  *)
(* timeline, and the sessions, cycles and trees of a host's event logs.    *)
(* They share no state: a behaviour is of one of them, the other stands    *)
(* still.                                                                  *)
(***************************************************************************)
EXTENDS CorrelationPass, EventLog

VARIABLE part

MCInit ==
    /\ part \in {"timeline", "logs"}
    /\ Init /\ LogInit
    /\ part = "logs" => arriving = {}
    /\ part = "timeline" => ~sysmon

MCNext ==
    /\ UNCHANGED part
    /\ \/ part = "timeline" /\ Next /\ UNCHANGED logVars
       \/ part = "logs" /\ LogNext /\ UNCHANGED vars

MCSpec == MCInit /\ [][MCNext]_<<part, vars, logVars>>

-------------------------------------------------------------------------------
\* A logon over the network and one at the console.
MCLogons == {[type |-> 3, ip |-> "i"], [type |-> 2, ip |-> "-"]}

\* Evidence for the correlation pass: small cases, each the events of one family
\* of rules together with near misses of them.

Path(dir, stem, ext) == [dir |-> dir, stem |-> stem, ext |-> ext]
NoPath == Path(<<>>, <<>>, "")

Event(id, ts, type, host, ents, path) ==
    [id |-> id, ts |-> ts, type |-> type, ents |-> ents, host |-> host, path |-> path,
     source |-> "disk", words |-> {}, pid |-> NoValue, ppid |-> NoValue, threads |-> NoValue,
     state |-> ""]

Memory(id, type, ents, pid, ppid, threads, state) ==
    [id |-> id, ts |-> 9, type |-> type, ents |-> ents, host |-> "h1", path |-> NoPath,
     source |-> "memory", words |-> {}, pid |-> pid, ppid |-> ppid, threads |-> threads,
     state |-> state]

User(n) == <<"user", n>>
Ip(n) == <<"ip", n>>
Proc(n) == <<"proc", <<<<n>>, "exe">>>>

A == <<"a">>
AB == <<"a", "b">>
BA == <<"b", "a">>

\* One executable, dropped, moved into system32 (twice), installed, confirmed.
Implant ==
    {Event(1, 1, "FileCreate", "h1", <<>>, Path(<<"users">>, A, "exe")),
     Event(2, 4, "FileRename", "h1", <<>>, Path(<<"system32">>, A, "exe")),
     Event(3, 4, "FileRename", NoHost, <<>>, Path(<<"system32">>, A, "exe")),
     Event(4, 3, "FileRename", "h2", <<>>, Path(<<"system32">>, A, "exe")),
     Event(5, 6, "ServiceInstall", "h1", <<>>, Path(<<"system32">>, A, "exe")),
     Event(6, 6, "RegistryModify", "h1", <<>>, Path(<<"hklm">>, A, "")),
     Event(7, 8, "RegistryModify", "h1", <<>>, Path(<<"hklm">>, A, ""))}

\* Failed logons of two addresses and two accounts, a success, what was written and staged after.
Entry ==
    {Event(1, 2, "LogonFailure", "h1", <<Ip("i"), User("u")>>, NoPath),
     Event(2, 3, "LogonFailure", "h1", <<Ip("i"), User("u")>>, NoPath),
     Event(3, 3, "LogonFailure", "h1", <<Ip("k"), User("u")>>, NoPath),
     Event(4, 4, "LogonSuccess", "h1", <<User("u"), Ip("i")>>, NoPath),
     Event(5, 5, "FileCreate", "h1", <<User("v"), User("u")>>, Path(<<"users">>, A, "exe")),
     Event(6, 4, "FileCreate", "h1", <<User("u")>>, Path(<<"users">>, A, "zip")),
     Event(7, 6, "FileCreate", "h1", <<User("u")>>, Path(<<"users">>, A, "lnk")),
     Event(8, 3, "LogonFailure", "h1", <<Ip("k"), User("v")>>, NoPath)}

\* A file copied under the same words and deleted; sessions across hosts.
Copies ==
    {Event(1, 4, "FileDelete", "h1", <<>>, Path(<<"users">>, AB, "txt")),
     Event(2, 2, "FileCreate", "h1", <<>>, Path(<<"users", "downloads">>, BA, "txt")),
     Event(3, 6, "FileCreate", "h1", <<>>, Path(<<"users">>, BA, "txt")),
     Event(4, 3, "FileCreate", "h2", <<>>, Path(<<"users">>, BA, "txt")),
     Event(5, 1, "RdpLogon", "h1", <<User("u"), Ip("i")>>, NoPath),
     Event(6, 3, "RdpLogon", "h2", <<Ip("i"), User("u")>>, NoPath),
     Event(7, 2, "RdpLogon", NoHost, <<Ip("i"), User("u")>>, NoPath)}

\* Connections to one unknown and one cloud address, and a short-lived process.
Traffic ==
    {Event(1, 0, "NetworkConnect", "h1", <<Ip("i")>>, NoPath),
     Event(2, 1, "NetworkConnect", "h1", <<Ip("i"), Proc("p")>>, NoPath),
     Event(3, 2, "NetworkConnect", "h1", <<Ip("i")>>, NoPath),
     Event(4, 3, "NetworkConnect", "h1", <<Ip("i")>>, NoPath),
     Event(5, 3, "NetworkConnect", NoHost, <<Ip("i"), Ip("cloud")>>, NoPath),
     Event(6, 1, "ProcessExec", "h1", <<Proc("p")>>, NoPath),
     Event(7, 2, "ProcessExit", "h1", <<Proc("p")>>, NoPath)}

\* A dump: two dead orphans of one reused pid, of the image (1) and of another
\* (8); an injected live process (2), whose first socket only the image ties to
\* them and whose second one reaches the endpoint that theirs did; and the file
\* the live process was started from.
Dump ==
    {Memory(1, "ProcessExec", <<Proc("a")>>, 1, 7, 0, ""),
     Memory(2, "ProcessExec", <<Proc("a")>>, 2, 8, 3, ""),
     Memory(3, "MemoryInjection", <<Proc("a")>>, 2, NoValue, NoValue, ""),
     Memory(4, "NetworkConnect", <<Proc("a"), Ip("i")>>, 2, NoValue, NoValue, "ESTABLISHED"),
     Memory(5, "NetworkConnect", <<Proc("a"), Ip("k")>>, 2, NoValue, NoValue, "LISTEN"),
     Memory(6, "NetworkConnect", <<Proc("a"), Ip("k")>>, 1, NoValue, NoValue, "CLOSED"),
     Event(7, 1, "FileCreate", "h1", <<>>, Path(<<"users">>, A, "exe")),
     Memory(8, "ProcessExec", <<Proc("b")>>, 1, 7, 0, "")}

\* Executions and file times that the sources of one host disagree about.
From(source, e) == [e EXCEPT !.source = source]
Saying(words, e) == [e EXCEPT !.words = {words}]
Image == <<<<"path", "a">>>>

Disputed ==
    {From("MFT", Event(1, 4, "FileCreate", "h1", Image, NoPath)),
     From("MFT", Event(2, 1, "FileModify", "h1", Image, NoPath)),
     From("MFT", Event(3, 1, "FileCreate", "h1", Image, NoPath)),
     From("Prefetch", Event(4, 2, "ProcessExec", "h1", Image, NoPath)),
     From("Prefetch", Event(5, 6, "FileModify", "h1", Image, NoPath)),
     From("Event Log", Event(6, 5, "ProcessExec", "h1", Image, NoPath)),
     From("USN Journal", Event(7, 4, "FileDelete", "h1", Image, NoPath))}

\* A burst of journal records, and one that is too late for it.
Churn ==
    {From("USN Journal", Event(1, 2, "FileModify", "h1", <<>>, NoPath)),
     From("USN Journal", Event(2, 3, "FileModify", "h1", <<>>, NoPath)),
     From("USN Journal", Event(3, 3, "FileCreate", "h1", <<>>, NoPath)),
     From("USN Journal", Event(4, 2, "FileDelete", "h1", <<>>, NoPath)),
     From("USN Journal", Event(5, 5, "FileDelete", "h1", <<>>, NoPath)),
     From("MFT", Event(6, 3, "FileModify", "h1", <<>>, NoPath))}

\* A task and a service set up over the network, run, and their traces deleted.
Remote ==
    {Saying("Type 3", From("Event Log", Event(1, 2, "LogonSuccess", "h1", <<>>, NoPath))),
     From("Event Log", Event(2, 3, "ScheduledTaskCreate", "h1", <<>>, NoPath)),
     From("Event Log", Event(3, 3, "ScheduledTaskRun", "h1", <<>>, NoPath)),
     From("Event Log", Event(4, 3, "ServiceInstall", "h1", <<>>, NoPath)),
     Saying("delete catalog", From("Prefetch", Event(5, 4, "ProcessExec", "h1", <<>>, NoPath))),
     Saying("WindowsImageBackup",
            From("USN Journal", Event(6, 5, "FileDelete", "h1", <<>>, NoPath))),
     Saying("/tmp/", Event(7, 3, "FileCreate", "h1", <<>>, NoPath))}

MCScenarios == {{}, Implant, Entry, Copies, Traffic, Dump, Disputed, Churn, Remote}
===============================================================================
