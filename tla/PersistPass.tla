------------------------------ MODULE PersistPass ------------------------------
(***************************************************************************)
(* How a correlation pass writes what it found (TimelineStore::            *)
(* run_and_persist, persist_correlation).                                  *)
(*                                                                         *)
(* Each INSERT is a transaction of its own, so a pass may be cut off       *)
(* between the row of a finding and its members, or between two findings.  *)
(* A pass never removes what an earlier one stored.  What it found is a    *)
(* parameter here; CorrelationPass computes it.                            *)
(***************************************************************************)
EXTENDS Integers, Sequences, SequencesExt

CONSTANT MaxPasses  \* bound: passes over one case

ASSUME PassAssumption == MaxPasses \in Nat

VARIABLES
    phase,    \* "idle" or "persist"
    firings,  \* for each pass begun, its findings in order
    stored,   \* how many of them the pass has inserted a row for
    rows,     \* the correlations table: [pass, nth, members]
    open      \* TRUE: the members of the last row are still to be stored

persistVars == <<phase, firings, stored, rows, open>>

\* A finding, and its members: a row of the timeline and its role.
Role == {"anchor", "consequent", "supporting"}
Code == {"relocate", "persist", "copy-delete", "bruteforce", "logon-malware", "exfil-stage",
         "regconfirm", "lateral-move", "beaconing", "network-risk", "shared-ioc",
         "injected-c2", "disk-file-running", "proc-migration", "proc-migration-degraded"}
Finding == [code : Code, members : Seq(Nat \X Role), first : Int, last : Int]

Pass == Len(firings)

PersistInit ==
    /\ phase = "idle"
    /\ firings = <<>>
    /\ stored = 0
    /\ rows = <<>>
    /\ open = FALSE

\* The rules have been matched; the loop over what they found begins.
Begin(found) ==
    /\ phase = "idle" /\ Pass < MaxPasses
    /\ phase' = "persist"
    /\ firings' = Append(firings, found)
    /\ stored' = 0
    /\ UNCHANGED <<rows, open>>

\* INSERT INTO correlations.
InsertRow ==
    /\ phase = "persist" /\ ~open /\ stored < Len(firings[Pass])
    /\ stored' = stored + 1
    /\ rows' = Append(rows, [pass |-> Pass, nth |-> stored + 1, members |-> <<>>])
    /\ open' = (firings[Pass][stored + 1].members # <<>>)
    /\ UNCHANGED <<phase, firings>>

\* INSERT INTO correlation_members, for the row currval('correlation_seq').
InsertMember ==
    /\ open
    /\ LET n == Len(rows)
           have == rows[n].members
           all == firings[Pass][stored].members
       IN  /\ rows' = [rows EXCEPT ![n].members = Append(have, all[Len(have) + 1])]
           /\ open' = (Len(have) + 1 < Len(all))
    /\ UNCHANGED <<phase, firings, stored>>

\* The pass returns its findings, or ends early: an insert fails or the
\* process dies.
Finish ==
    /\ phase = "persist" /\ ~open /\ stored = Len(firings[Pass])
    /\ phase' = "idle"
    /\ UNCHANGED <<firings, stored, rows, open>>

CutOff_Fault ==
    /\ phase = "persist"
    /\ phase' = "idle" /\ open' = FALSE
    /\ rows' = SelectSeq(rows, LAMBDA r : r.pass # Pass \/ r.nth > 1)
    /\ UNCHANGED <<firings, stored>>
CutOff ==
    /\ phase = "persist"
    /\ phase' = "idle" /\ open' = FALSE
    /\ UNCHANGED <<firings, stored, rows>>

PersistNext ==
    \/ \E found \in Seq(Finding) : Begin(found)
    \/ InsertRow \/ InsertMember \/ Finish \/ CutOff

PersistSpec == PersistInit /\ [][PersistNext]_persistVars

-------------------------------------------------------------------------------
\* Properties.

\* The rows of every pass, cut off or not, are a prefix of its findings, in
\* their order, each stored with its members in order; only the last row of a
\* pass can miss some, and no pass writes between the rows of another.
RowsArePrefix ==
    \A k \in DOMAIN rows :
        LET r == rows[k]
            follows == k > 1 /\ rows[k - 1].pass = r.pass
            found == firings[r.pass][r.nth].members
        IN  /\ r.pass \in 1 .. Pass /\ r.nth \in DOMAIN firings[r.pass]
            /\ r.nth = IF follows THEN rows[k - 1].nth + 1 ELSE 1
            /\ k > 1 => rows[k - 1].pass <= r.pass
            /\ IsPrefix(r.members, found)
            /\ k < Len(rows) /\ rows[k + 1].pass = r.pass => r.members = found

-------------------------------------------------------------------------------
\* The inductive strengthening behind RowsArePrefix.

Row == [pass : Nat, nth : Nat, members : Seq(Nat \X Role)]

PersistTypeOK ==
    /\ phase \in {"idle", "persist"}
    /\ firings \in Seq(Seq(Finding))
    /\ stored \in Nat
    /\ rows \in Seq(Row)
    /\ open \in BOOLEAN

\* The pass's rows are the last ones of the table, as many as its loop has
\* inserted, and all but an open one are complete.
LoopAgrees ==
    LET n == Len(rows)
    IN  phase = "persist" =>
            /\ Pass > 0 /\ stored <= Len(firings[Pass])
            /\ IF n > 0 /\ rows[n].pass = Pass THEN stored = rows[n].nth ELSE stored = 0
            /\ stored > 0 =>
                  IF open THEN Len(rows[n].members) < Len(firings[Pass][stored].members)
                  ELSE rows[n].members = firings[Pass][stored].members
            /\ open => stored > 0

OpenInPass == open => phase = "persist"
===============================================================================
