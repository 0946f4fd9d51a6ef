----------------------------- MODULE MCFrontDoor -----------------------------
(***************************************************************************)
(* Small instances of FrontDoor: which evidence is passed together.        *)
(***************************************************************************)
EXTENDS FrontDoor

\* A case of images, dumps and a collection, and a run on the dumps alone.
AllThenDumps == {Kinds, {"dumps"}}

DiskOnly == {{"disk"}}
=============================================================================
