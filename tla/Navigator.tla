------------------------------- MODULE Navigator -------------------------------
(***************************************************************************)
(* The navigator's event loop: draw, wait a moment for a key, take up the  *)
(* answers of the background search, and send the search that was typed    *)
(* once no key has come for the debounce period.  Keys act on the file     *)
(* list (FileList); the search runs in its own thread (SearchEngine), so   *)
(* its answers arrive when the view and the query may be other ones.       *)
(***************************************************************************)
EXTENDS FileList, SearchEngine

CONSTANT
    Sessions     \* bounds of a session: the keys used in it, the texts typed
                 \* (with their prefixes), and how many requests may be waiting

VARIABLES
    at,                  \* where the loop is: "key", "poll", "fire" or "ended"
    session,             \* which of Sessions this one is
    view,                \* what the list shows (FileList)
    searching,           \* the search bar is open
    search_query,        \* the text in the search bar
    pending_search,      \* it has changed since it was last sent
    prev_search_query,   \* the text last sent
    search_results,      \* the matches on show
    search_cursor,       \* the one that the last jump was to
    saved,               \* the view to go back to (pre_search_dir and the others)
    answered,            \* history: the query that search_results answers
    opened               \* history: what was shown when the search bar opened

barVars == <<searching, saved, opened>>
queryVars == <<search_query, pending_search>>
resultVars == <<search_results, search_cursor, answered>>
vars == <<engineVars, at, session, view, barVars, queryVars, prev_search_query, resultVars>>

Init ==
    /\ EngineInit
    /\ at = "key" /\ session \in Sessions
    /\ view = FirstView
    /\ searching = FALSE
    /\ search_query = <<>> /\ pending_search = FALSE /\ prev_search_query = <<>>
    /\ search_results = <<>> /\ search_cursor = 0 /\ answered = <<>>
    /\ saved = [Kept(view) EXCEPT !.collapsed = {}]
    /\ opened = view

-------------------------------------------------------------------------------
\* Keys.

Pressed(key) ==
    /\ at = "key" /\ key \in session.keys
    /\ at' = "poll"
    /\ UNCHANGED <<session, engineVars, prev_search_query>>

\* Movement keys do the same whether the search bar is open or not.
Move(key) ==
    /\ Pressed(key) /\ key \in Moves
    /\ view' = Moved(view, key)
    /\ UNCHANGED <<barVars, queryVars, resultVars>>

\* Going back clears the query, in the search bar too.
AfterBack == IF CanGoBack(view) THEN <<>> ELSE search_query

Left ==
    /\ Pressed("Left")
    /\ view' = Outward(view)
    /\ search_query' = IF LeavesList(view) THEN AfterBack ELSE search_query
    /\ UNCHANGED <<barVars, pending_search, resultVars>>

Right ==
    /\ Pressed("Right")
    /\ view' = IF OnClosedFolder(view) \/ searching THEN Opened(view) ELSE Inside(view)
    /\ UNCHANGED <<barVars, queryVars, resultVars>>

EnterFolder ==
    /\ ~searching /\ Pressed("Enter")
    /\ view' = Inside(view)
    /\ UNCHANGED <<barVars, queryVars, resultVars>>

GoBack ==
    /\ ~searching /\ Pressed("Backspace")
    /\ view' = Back(view)
    /\ search_query' = AfterBack
    /\ UNCHANGED <<barVars, pending_search, resultVars>>

\* s, Space and f.
Rearrange(key) ==
    /\ ~searching /\ Pressed(key) /\ key \in {"s", "Space", "f"}
    /\ view' = CASE key = "s" -> Resorted(view)
                 [] key = "Space" -> Toggled(view)
                 [] key = "f" -> Refiltered(view)
    /\ UNCHANGED <<barVars, queryVars, resultVars>>

\* begin_search
OpenSearch ==
    /\ ~searching /\ Pressed("/")
    /\ searching' = TRUE
    /\ saved' = Kept(view)
    /\ opened' = view
    /\ search_query' = <<>>
    /\ search_results' = <<>> /\ search_cursor' = 0 /\ answered' = <<>>
    /\ UNCHANGED <<view, pending_search>>

\* n and N go round the matches.
CycleMatch(key) ==
    /\ ~searching /\ Pressed(key) /\ key \in {"n", "N"}
    /\ IF search_results = <<>> THEN UNCHANGED <<view, search_cursor>>
       ELSE LET count == Len(search_results)
            IN  /\ search_cursor' = (search_cursor + IF key = "n" THEN 1 ELSE count - 1) % count
                /\ view' = JumpedTo(view, search_results[search_cursor' + 1])
    /\ UNCHANGED <<barVars, queryVars, search_results, answered>>

\* A letter typed in the search bar, or its last letter taken away.
Type(letter) ==
    /\ searching /\ Pressed(letter) /\ Append(search_query, letter) \in session.texts
    /\ search_query' = Append(search_query, letter)
    /\ pending_search' = TRUE
    /\ UNCHANGED <<view, barVars, resultVars>>

Erase ==
    /\ searching /\ Pressed("Backspace")
    /\ search_query' = IF search_query = <<>> THEN <<>> ELSE Front(search_query)
    /\ pending_search' = TRUE
    /\ UNCHANGED <<view, barVars, resultVars>>

ConfirmSearch ==
    /\ searching /\ Pressed("Enter")
    /\ searching' = FALSE
    /\ pending_search' = FALSE
    /\ UNCHANGED <<view, saved, opened, search_query, resultVars>>

\* cancel_search, which takes the saved stack and folders away.
CancelSearch ==
    /\ searching /\ Pressed("Esc")
    /\ searching' = FALSE
    /\ pending_search' = FALSE
    /\ view' = Restored(view, saved)
    /\ saved' = [saved EXCEPT !.path_stack = <<>>, !.collapsed = {}]
    /\ search_query' = <<>>
    /\ search_results' = <<>> /\ answered' = <<>>
    /\ UNCHANGED <<opened, search_cursor>>

Quit ==
    /\ at = "key"
    /\ \/ ~searching /\ "Esc" \in session.keys
       \/ "Ctrl-C" \in session.keys
    /\ at' = "ended"
    /\ UNCHANGED <<session, engineVars, view, barVars, queryVars, prev_search_query, resultVars>>

Key ==
    \/ \E key \in session.keys : Move(key) \/ Rearrange(key) \/ CycleMatch(key) \/ Type(key)
    \/ Left \/ Right \/ EnterFolder \/ GoBack
    \/ OpenSearch \/ Erase \/ ConfirmSearch \/ CancelSearch \/ Quit

NoKey ==
    /\ at = "key"
    /\ at' = "poll"
    /\ UNCHANGED <<session, engineVars, view, barVars, queryVars, prev_search_query, resultVars>>

-------------------------------------------------------------------------------
\* The rest of the loop.

\* Only answers to the query as it is now are taken up.
Accepted_Fault(answer) == TRUE
Accepted(answer) == answer.query = search_query

\* poll_search_results, one answer a step, until there is none.
TakeAnswer ==
    /\ at = "poll" /\ answers # <<>>
    /\ answers' = Tail(answers)
    /\ IF Accepted(Head(answers))
       THEN LET matches == Head(answers).matches
            IN  /\ search_results' = matches
                /\ search_cursor' = 0
                /\ answered' = Head(answers).query
                /\ view' = IF matches = <<>> THEN view ELSE JumpedTo(view, matches[1])
       ELSE UNCHANGED <<view, resultVars>>
    /\ UNCHANGED <<at, session, requests, working, barVars, queryVars, prev_search_query>>

NoAnswer ==
    /\ at = "poll" /\ answers = <<>>
    /\ at' = "fire"
    /\ UNCHANGED <<session, engineVars, view, barVars, queryVars, prev_search_query, resultVars>>

\* Narrowing, if the query extends the one before and there are results.
Within ==
    IF search_results # <<>> /\ prev_search_query # <<>>
       /\ IsPrefix(prev_search_query, search_query)
    THEN search_results ELSE AllNodes

\* fire_debounced_search: the debounce period is over, or nothing is pending.
Fire ==
    /\ at = "fire" /\ pending_search /\ Len(requests) < session.waiting
    /\ at' = "key"
    /\ pending_search' = FALSE
    /\ IF search_query = <<>>
       THEN /\ view' = Restored(view, saved)
            /\ search_results' = <<>> /\ answered' = <<>>
            /\ UNCHANGED <<requests, prev_search_query, search_cursor>>
       ELSE /\ Ask(search_query, Within)
            /\ prev_search_query' = search_query
            /\ UNCHANGED <<view, resultVars>>
    /\ UNCHANGED <<session, working, answers, barVars, search_query>>

NotDue ==
    /\ at = "fire"
    /\ at' = "key"
    /\ UNCHANGED <<session, engineVars, view, barVars, queryVars, prev_search_query, resultVars>>

Engine == EngineStep /\ UNCHANGED <<at, session, view, barVars, queryVars, prev_search_query,
                                    resultVars>>

Next == Key \/ NoKey \/ TakeAnswer \/ NoAnswer \/ Fire \/ NotDue \/ Engine

Spec == Init /\ [][Next]_vars

\* The loop waits 50 ms for a key and goes on, once it has taken up the answers
\* there are; the search thread keeps running;
\* a pending search is looked at again and again until its time has come.  (Each
\* step is named by its guard and by what it alone does to a variable or two.)
LoopTurns ==
    /\ at # "ended" /\ (at = "poll" => answers = <<>>)
    /\ at' = CASE at = "key" -> "poll" [] at = "poll" -> "fire" [] at = "fire" -> "key"
AnswerIsTaken == at = "poll" /\ answers # <<>> /\ answers' = Tail(answers)
SearchIsSent ==
    /\ at = "fire" /\ pending_search /\ Len(requests) < session.waiting
    /\ at' = "key" /\ pending_search' = FALSE
RequestIsTaken == working = Idle /\ requests # <<>> /\ working' = Last(requests)
RequestIsAnswered == working # Idle /\ working' = Idle

FairSpec ==
    /\ Spec
    /\ WF_at(LoopTurns) /\ WF_answers(AnswerIsTaken)
    /\ SF_<<at, pending_search>>(SearchIsSent)
    /\ WF_working(RequestIsTaken) /\ WF_working(RequestIsAnswered)

-------------------------------------------------------------------------------
\* Properties.

NavTypeOK ==
    /\ EngineTypeOK
    /\ view \in ViewType /\ opened \in ViewType
    /\ searching \in BOOLEAN
    /\ saved \in [current_dir : Nodes, selected : Nat, path_stack : Seq(Nodes),
                  collapsed : SUBSET Dirs]
    /\ IsSequence(search_results) /\ search_cursor \in Nat

\* While the search bar is open, the view to go back to is the one it was opened
\* on, but for the order and the filter, which no key in the bar changes.
WayBack ==
    searching =>
        /\ opened \in ListedViews /\ saved = Kept(opened)
        /\ view.sort_mode = opened.sort_mode /\ view.flagged_filter = opened.flagged_filter

\* Neither cursor ever points past its list, whatever shrank the list since it
\* was moved: a handler that indexes with it would panic.
CursorsInRange ==
    /\ CursorOnRow(view)
    /\ search_cursor < Len(search_results) \/ search_results = <<>>

\* "Cancel search and restore pre-search position (including collapse state)":
\* Esc gives back the very view that the search bar was opened on, after any
\* jumps, moves, folders opened or directories left in between.
CancelRestoresView == [][CancelSearch => view' = opened]_vars

\* Backing out of a folder lands on that folder, in the directory from which it
\* was entered, though searches opened, closed and cancelled in between.
BackLandsOnFolder ==
    [][(GoBack \/ Left) /\ view'.current_dir # view.current_dir =>
        /\ Row(view').node = view.current_dir
        /\ view.path_stack # <<>> /\ view'.current_dir = Last(view.path_stack)]_vars

\* A node that the list can come to have a row for: it lies below the directory,
\* in folders that a jump opens all.
Listable(n) ==
    /\ Passes(n, view.flagged_filter)
    /\ \E i \in 1 .. MaxLevels + 1 :
          /\ i + 1 \in DOMAIN Lineage[n] /\ Lineage[n][i + 1] = view.current_dir
          /\ \A j \in 2 .. i : Lineage[n][j] \in Dirs

\* A jump to a match leaves the cursor on it, however deep it was collapsed, if
\* the directory shown has it below and the filter lets it through.
MatchIsUnderCursor ==
    [][(TakeAnswer /\ Accepted(Head(answers))) \/ CycleMatch("n") \/ CycleMatch("N") =>
        \/ search_results' = <<>>
        \/ Listable(search_results'[search_cursor' + 1]) =>
               Row(view').node = search_results'[search_cursor' + 1]]_vars

\* An answer that is shown fits the query as it is now, best match first: an
\* answer to what was typed before never passes for it.
AnswersFit ==
    [][search_results' # search_results /\ search_results' # <<>> =>
        /\ \A n \in ToSet(search_results') : n # Root /\ Has(Tree[n].name, search_query)
        /\ search_cursor' = 0
        /\ \A n \in ToSet(search_results') :
              LET best == search_results'[1]
              IN  Tree[n].name = search_query => Tree[best].name = search_query]_vars

\* There is no search, or it has been answered.
Settled ==
    ~searching \/ at = "ended" \/ search_query = <<>> \/ answered = search_query

\* Once the typing stops, the results are those of the text that stands there,
\* whatever requests were drained and answers dropped on the way.
AnswerArrives ==
    []<>Settled \/ []<><<search_query' # search_query \/ searching' # searching>>_vars

\* An answer has every file that a search of the whole tree would show.
AnswersComplete ==
    [][answered' # answered /\ answered' # <<>> =>
        ToSet(search_results') = ToSet(Searched(answered'))]_vars
===============================================================================
