------------------------------- MODULE FileList -------------------------------
(***************************************************************************)
(* The navigator's view of the tree: the directory that is shown, which    *)
(* folders below it are collapsed, the flat list made of them, the cursor, *)
(* and the stack of directories that Backspace goes back through.  Every   *)
(* operation of `App' on them is a function from view to view.             *)
(***************************************************************************)
EXTENDS FileTree

CONSTANTS
    Page,        \* visible_height: the rows that a page key moves by
    MaxLevels    \* 1000: the folders that a jump opens at most

ASSUME ListAssumption == Page \in Nat /\ MaxLevels \in Nat

\* refresh_entries: depth first, skipping files that the filter leaves out.  The
\* rows under a folder are made of the rows, one level less of them, under those in
\* it; there are no more levels than nodes.
Listing(dir, collapsed, mode, filtered) ==
    LET under[levels \in 0 .. Cardinality(Nodes)] ==
            LET lower == under[levels - 1]
            IN  [n \in Nodes |->
                    IF levels = 0 THEN <<>>
                    ELSE LET kids == Children[n][mode][filtered]
                         IN  FlattenSeq([i \in DOMAIN kids |->
                                 <<[node |-> kids[i], depth |-> Cardinality(Nodes) - levels]>> \o
                                 (IF kids[i] \in Dirs \ collapsed THEN lower[kids[i]]
                                  ELSE <<>>)])]
    IN  under[Cardinality(Nodes)][dir]
Flattened(v) == Listing(v.current_dir, v.collapsed, v.sort_mode, v.flagged_filter)

Refreshed_Fault(v) == [v EXCEPT !.entries = Flattened(v)]
Refreshed(v) ==
    LET list == Flattened(v)
    IN  [v EXCEPT !.entries = list,
                  !.selected = IF list = <<>> THEN 0
                               ELSE IF @ >= Len(list) THEN Len(list) - 1 ELSE @]

\* App::new: at the root, every folder collapsed.
FirstView ==
    Refreshed([current_dir |-> Root, selected |-> 0, entries |-> <<>>, collapsed |-> Dirs,
               path_stack |-> <<>>, sort_mode |-> SortModes[1], flagged_filter |-> FALSE])

\* The row under the cursor (which counts from 0), and where a node's row is.
Row(v) == v.entries[v.selected + 1]
Position(v, n) ==
    LET at == {i \in DOMAIN v.entries : v.entries[i].node = n}
    IN  IF at = {} THEN 0 ELSE (CHOOSE i \in at : \A j \in at : i <= j) - 1

OnFolder(v) == v.entries # <<>> /\ Row(v).node \in Dirs
OnOpenFolder(v) == OnFolder(v) /\ Row(v).node \notin v.collapsed
OnClosedFolder(v) == OnFolder(v) /\ Row(v).node \in v.collapsed

\* navigate_into
Inside(v) ==
    IF ~OnFolder(v) THEN v
    ELSE Refreshed([v EXCEPT !.path_stack = Append(@, v.current_dir),
                             !.current_dir = Row(v).node, !.selected = 0])

\* navigate_back: to the directory on the stack, or to the parent if there is
\* none; nowhere at the root.
CanGoBack(v) ==
    \/ v.path_stack # <<>>
    \/ Tree[v.current_dir].parent \in Nodes \ {v.current_dir}
Back(v) ==
    LET to == IF v.path_stack # <<>> THEN Last(v.path_stack) ELSE Tree[v.current_dir].parent
        up == Refreshed([v EXCEPT !.current_dir = to,
                                  !.path_stack = IF @ = <<>> THEN @ ELSE Front(@)])
    IN  IF CanGoBack(v) THEN [up EXCEPT !.selected = Position(up, v.current_dir)] ELSE v

\* jump_to_parent_in_tree, whose last resort is navigate_back.
LeavesList(v) == v.entries # <<>> /\ ~OnOpenFolder(v) /\ Row(v).depth = 0
Outward(v) ==
    IF v.entries = <<>> THEN v
    ELSE IF OnOpenFolder(v) THEN Refreshed([v EXCEPT !.collapsed = @ \cup {Row(v).node}])
    ELSE IF LeavesList(v) THEN Back(v)
    ELSE LET above == {i \in 1 .. v.selected : v.entries[i].depth < Row(v).depth}
         IN  [v EXCEPT !.selected = (CHOOSE i \in above : \A j \in above : j <= i) - 1]

\* toggle_collapse, and the `l' and Right keys on a closed folder.
Toggled(v) ==
    IF ~OnFolder(v) THEN v
    ELSE Refreshed([v EXCEPT !.collapsed = IF Row(v).node \in @ THEN @ \ {Row(v).node}
                                           ELSE @ \cup {Row(v).node}])
Opened(v) ==
    IF OnClosedFolder(v) THEN Refreshed([v EXCEPT !.collapsed = @ \ {Row(v).node}]) ELSE v

\* handle_nav_key: movement within the list.
Moves == {"Up", "Down", "Home", "End", "PageUp", "PageDown"}
Moved(v, key) ==
    LET last == Len(v.entries) - 1
        up(by) == IF v.selected < by THEN 0 ELSE v.selected - by
        down(by) == IF v.selected + by > last THEN last ELSE v.selected + by
        to == CASE key = "Up" -> up(1) [] key = "PageUp" -> up(Page) [] key = "Home" -> 0
                [] key = "Down" -> down(1) [] key = "PageDown" -> down(Page)
                [] key = "End" -> last
    IN  IF v.entries = <<>> THEN v ELSE [v EXCEPT !.selected = to]

\* ensure_expanded_to: the folders above a node, up to the one that is shown or
\* to the root, whichever comes first, in as many turns as there may be.
Above_Fault(v, n) == {Tree[n].parent} \cap Nodes
Above(v, n) ==
    LET turn[k \in 0 .. MaxLevels] ==
            IF k = 0 THEN [node |-> n, folders |-> {}]
            ELSE LET last == turn[k - 1]
                     p == Tree[last.node].parent
                 IN  IF p \in Nodes \ {v.current_dir, Root}
                     THEN [node |-> p, folders |-> last.folders \cup {p}] ELSE last
    IN  turn[MaxLevels].folders

\* jump_to_search_result
JumpedTo(v, n) ==
    LET open == Refreshed([v EXCEPT !.collapsed = @ \ Above(v, n)])
    IN  [open EXCEPT !.selected = Position(open, n)]

Resorted(v) ==
    LET i == CHOOSE i \in DOMAIN SortModes : SortModes[i] = v.sort_mode
    IN  Refreshed([v EXCEPT !.sort_mode = SortModes[(i % Len(SortModes)) + 1]])
Refiltered(v) == Refreshed([v EXCEPT !.flagged_filter = ~@])

\* What begin_search keeps of a view and cancel_search puts back.
Kept_Fault(v) == [current_dir |-> v.current_dir, selected |-> v.selected,
                  path_stack |-> v.path_stack, collapsed |-> Dirs]
Kept(v) == [current_dir |-> v.current_dir, selected |-> v.selected,
            path_stack |-> v.path_stack, collapsed |-> v.collapsed]
Restored_Fault(v, kept) ==
    Refreshed([v EXCEPT !.current_dir = kept.current_dir, !.selected = kept.selected,
                        !.collapsed = kept.collapsed])
Restored(v, kept) ==
    Refreshed([v EXCEPT !.current_dir = kept.current_dir, !.selected = kept.selected,
                        !.path_stack = kept.path_stack, !.collapsed = kept.collapsed])

-------------------------------------------------------------------------------
Rows == [node : Nodes, depth : Nat]
ViewType ==
    [current_dir : Nodes, selected : Nat, entries : Seq(Rows), collapsed : SUBSET Dirs,
     path_stack : Seq(Nodes), sort_mode : ToSet(SortModes), flagged_filter : BOOLEAN]

\* The views whose rows are what the directory, the folders, the order and the
\* filter make them, with the cursor on one of them.
CursorOnRow(v) == v.selected < Len(v.entries) \/ <<v.entries, v.selected>> = <<<<>>, 0>>
ListedViews == {v \in ViewType : v.entries = Flattened(v) /\ CursorOnRow(v)}
===============================================================================
