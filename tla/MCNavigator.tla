------------------------------ MODULE MCNavigator ------------------------------
(***************************************************************************)
(* A small file system with a folder inside a folder, a file that is not   *)
(* flagged, an orphan, and two lost folders that lie in one another; and   *)
(* the keys of five kinds of session.                                      *)
(***************************************************************************)
EXTENDS Navigator

File(name, parent, rank, size) ==
    [name |-> name, parent |-> parent, is_dir |-> FALSE, flagged |-> TRUE,
     rank |-> [Name |-> rank, Size |-> size]]
Dir(name, parent, rank) ==
    [name |-> name, parent |-> parent, is_dir |-> TRUE, flagged |-> FALSE,
     rank |-> [Name |-> rank, Size |-> 0]]

MCTree == <<Dir(<<>>, 1, 0),
            Dir(<<"a">>, 1, 1),
            Dir(<<"b", "a">>, 2, 2),
            File(<<"a", "b">>, 3, 3, 1),
            [File(<<"b", "a", "a">>, 1, 4, 2) EXCEPT !.flagged = FALSE],
            File(<<"b", "b">>, 1, 5, 1),
            File(<<"a", "a">>, 99, 6, 1),
            Dir(<<"b">>, 9, 7),
            Dir(<<"a", "a">>, 8, 8)>>

MCSortModes == <<"Name", "Size">>
A == <<"a">>
AA == <<"a", "a">>
AB == <<"a", "b">>

Session(keys, texts, waiting) == [keys |-> keys, texts |-> texts, waiting |-> waiting]

\* Typing and erasing, alone or with the search cancelled and opened again; going
\* round the matches of a list that is filtered; a search while leaving and
\* entering folders; every other key.
MCSessions ==
    {Session({"/", "a", "b", "Backspace"}, {<<>>, A, AA, AB}, 1),
     Session({"/", "a", "Backspace", "Esc", "Ctrl-C"}, {<<>>, A, AA}, 2),
     Session({"/", "a", "Enter", "n", "N", "f"}, {<<>>, A}, 1),
     Session({"/", "a", "Esc", "Left", "Right", "Enter"}, {<<>>, A}, 1),
     Session({"Up", "Down", "Home", "End", "PageUp", "PageDown", "Left", "Right", "Enter",
              "Backspace", "s", "Space", "f"}, {}, 1)}
===============================================================================
