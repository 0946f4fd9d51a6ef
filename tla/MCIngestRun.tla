----------------------------- MODULE MCIngestRun -----------------------------
(***************************************************************************)
(* Small instances of IngestRun: two processes, two sources, an ordinary   *)
(* unit and the synthetic one.                                             *)
(***************************************************************************)
EXTENDS IngestLedger, TLC

CONSTANTS p1, p2, folder, image, evtx, mirror, tmp1, tmp2

TwoSources == {<<folder, image>>, <<image, folder>>}
OneSource  == {<<folder>>, <<image>>}
ImageOnly  == {<<image>>}

AllPlaces == Sources \cup TempDirs \cup {FixedPlace}
AllKeys   == Sources \cup {DefaultKey}

ProcSymmetry == Permutations(Procs)
=============================================================================
