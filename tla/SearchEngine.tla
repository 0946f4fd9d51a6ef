----------------------------- MODULE SearchEngine -----------------------------
(***************************************************************************)
(* The navigator's background search: a thread that takes requests from    *)
(* one channel and puts answers on another.  It drains the requests that   *)
(* are waiting and works on the latest alone.                              *)
(***************************************************************************)
EXTENDS FileTree

CONSTANTS
    AllNodes,    \* a request that searches the whole tree
    Idle         \* the thread waits for a request

VARIABLES requests, working, answers

engineVars == <<requests, working, answers>>

EngineInit ==
    /\ requests = <<>>
    /\ working = Idle
    /\ answers = <<>>

Ask(query, within) == requests' = Append(requests, [query |-> query, within |-> within])

\* recv, and try_recv until the channel is empty.
Take_Fault ==
    /\ working = Idle /\ requests # <<>>
    /\ working' = Head(requests)
    /\ requests' = <<>>
    /\ UNCHANGED answers
Take ==
    /\ working = Idle /\ requests # <<>>
    /\ working' = Last(requests)
    /\ requests' = <<>>
    /\ UNCHANGED answers

Answer ==
    /\ working # Idle
    /\ answers' = Append(answers,
           [query |-> working.query,
            matches |-> IF working.within = AllNodes THEN Searched(working.query)
                        ELSE Narrowed(working.query, working.within)])
    /\ working' = Idle
    /\ UNCHANGED requests

EngineStep == Take \/ Answer

IsSequence(s) == s \in Seq({s[i] : i \in DOMAIN s})

EngineTypeOK ==
    LET fits(request) == request.within = AllNodes \/ IsSequence(request.within)
    IN  /\ IsSequence(requests) /\ \A i \in DOMAIN requests : fits(requests[i])
        /\ working = Idle \/ fits(working)
        /\ IsSequence(answers) /\ \A i \in DOMAIN answers : IsSequence(answers[i].matches)
===============================================================================
