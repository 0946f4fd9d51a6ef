---------------------------- MODULE TemporalRules -----------------------------
(***************************************************************************)
(* The temporal rules of issen-correlation (temporal_rule.rs), which the   *)
(* narrative view evaluates over the whole timeline.  A rule is            *)
(* [anchor, within, sequence, absent, discrepancy]: filters                *)
(* [type, source, words] on the anchor, on events that must and must not be*)
(* within the symmetric window around it, and clauses [role, type, source, *)
(* words, gap, direction] about events of the same entity at contradictory *)
(* times, wherever they are.                                               *)
(*                                                                         *)
(* An event's `words` are those phrases the rules look for that its        *)
(* description contains.                                                   *)
(***************************************************************************)
EXTENDS CorrelationRules

CONSTANTS Moment,     \* the windows of seconds and minutes
          MinGap,     \* min_delta_seconds
          AnySource   \* a filter without a source

Filter(type, source) == [type |-> type, source |-> source, words |-> {}]
Described(type, source, words) == [Filter(type, source) EXCEPT !.words = words]

FilterMatches(e, filter) ==
    /\ e.type = filter.type
    /\ filter.source \in {AnySource, e.source}
    /\ filter.words = {} \/ filter.words \cap e.words # {}

-------------------------------------------------------------------------------
\* The bundled rules: an anchor followed by others, one that others should have
\* come with, and one whose time another source contradicts.

TemporalRule(anchor, within, sequence, absent, discrepancy) ==
    [anchor |-> anchor, within |-> within, sequence |-> sequence,
     absent |-> absent, discrepancy |-> discrepancy]

With(anchor, within, sequence) == TemporalRule(anchor, within, sequence, {}, <<>>)
Without(anchor, within, filter) == TemporalRule(anchor, within, <<>>, {filter}, <<>>)
Against(anchor, within, type, direction) ==
    TemporalRule(anchor, within, <<>>, {},
                 <<[role |-> "path", type |-> type, source |-> "MFT", words |-> {},
                    gap |-> MinGap, direction |-> direction]>>)

Log(type) == Filter(type, "Event Log")
Usn(type) == Filter(type, "USN Journal")
Ran(source) == Filter("ProcessExec", source)
RanAs(words) == Described("ProcessExec", "Prefetch", {words})
OfAny(type) == Filter(type, AnySource)

FirstRules ==
    [hollow_process          |-> Without(Ran("Event Log"), Moment, Filter("FileModify", "Prefetch")),
     boot_log_predates_mft   |-> Against(Log("SystemBoot"), Hour, "FileCreate", "before"),
     born_after_modify       |-> Against(Filter("FileCreate", "MFT"), Day, "FileModify", "after"),
     ran_then_deleted        |-> With(Ran("Prefetch"), Hour, <<Usn("FileDelete")>>),
     pam_hook_artifact       |->
        With(OfAny("LogonSuccess"), Moment,
             <<Described("FileCreate", AnySource, {"/tmp/", "/var/tmp/", "/dev/shm/"})>>)]

\* Credentials, evasion and impact.
DamageRules ==
    [sam_hive_copy           |->
        With(Described("FileAccess", "Event Log", {"\\config\\SAM"}), Moment, <<Usn("FileCreate")>>),
     failures_then_success   |-> With(Log("LogonSuccess"), Moment, <<Log("LogonFailure")>>),
     exec_predates_birth     |-> Against(Ran("Prefetch"), Day, "FileCreate", "before"),
     amcache_predates_birth  |-> Against(Ran("Amcache"), Day, "FileCreate", "before"),
     dropper_deleted         |-> With(Log("ScheduledTaskCreate"), Moment, <<Usn("FileDelete")>>),
     shadow_copy_deletion    |-> With(RanAs("delete shadows"), Moment, <<Usn("FileDelete")>>),
     backup_catalog_deleted  |->
        With(RanAs("delete catalog"), Moment,
             <<Described("FileDelete", "USN Journal", {"WindowsImageBackup"})>>),
     mass_file_modify        |->
        With(Usn("FileModify"), Moment,
             <<Usn("FileModify"), Usn("FileCreate"), Usn("FileDelete")>>)]

\* Persistence, lateral movement and execution.
FootholdRules ==
    [service_start_exec      |->
        With(Log("ServiceInstall"), Moment, <<OfAny("ServiceStart"), OfAny("ProcessExec")>>),
     task_run_exec           |->
        With(Log("ScheduledTaskCreate"), Moment, <<OfAny("ScheduledTaskRun"), OfAny("ProcessExec")>>),
     crontab_near_exec       |-> With(Filter("FileModify", "Crontab"), Moment, <<OfAny("ProcessExec")>>),
     task_without_logon      |-> Without(Log("ScheduledTaskCreate"), Moment, OfAny("LogonSuccess")),
     new_account_then_logon  |->
        With(Log("UserAccountChange"), Moment, <<Log("PolicyChange"), Log("LogonSuccess")>>),
     exec_without_log        |-> Without(Ran("Prefetch"), Moment, Ran("Event Log")),
     network_logon_service   |->
        With(Described("LogonSuccess", "Event Log", {"Type 3"}), Moment, <<Log("ServiceInstall")>>),
     remote_task_run         |->
        With(Log("ScheduledTaskCreate"), Moment, <<Log("ScheduledTaskRun")>>),
     service_install_start   |-> With(Log("ServiceInstall"), Moment, <<Log("ServiceStart")>>)]

BundledTemporalRules ==
    [name \in DOMAIN FirstRules \cup DOMAIN DamageRules \cup DOMAIN FootholdRules |->
        CASE name \in DOMAIN FirstRules -> FirstRules[name]
          [] name \in DOMAIN DamageRules -> DamageRules[name]
          [] OTHER -> FootholdRules[name]]

-------------------------------------------------------------------------------
\* The evaluation of one rule.

\* The anchor itself is left out, by its record hash.
Around(anchor, within, events) ==
    Where(events, LAMBDA e : e.id # anchor.id /\ Dist(anchor, e) <= within)

Contradicts(clause, anchor, e) ==
    IF clause.direction = "after" THEN anchor.ts > e.ts + clause.gap
    ELSE anchor.ts + clause.gap < e.ts

\* What a clause compares the anchor with: clause by clause, entity by entity,
\* event by event.
Compared(rule, anchor, events) ==
    FlattenSeq([k \in DOMAIN rule.discrepancy |->
        LET clause == rule.discrepancy[k]
            refs == Where(anchor.ents, LAMBDA r : r[1] = clause.role)
            sharing(r) == Where(events, LAMBDA e :
                              /\ e.id # anchor.id
                              /\ FilterMatches(e, clause)
                              /\ r \in ToSet(e.ents))
        IN  FlattenSeq([i \in DOMAIN refs |->
                LET es == sharing(refs[i])
                IN  [j \in DOMAIN es |-> <<clause, es[j]>>]])])

\* The first comparison that contradicts the anchor's time, if any does.
FirstContradiction_Fault(rule, anchor, events) ==
    LET pairs == Compared(rule, anchor, events)
    IN  IF pairs # <<>> /\ Contradicts(pairs[1][1], anchor, pairs[1][2])
        THEN <<pairs[1][2]>> ELSE <<>>
FirstContradiction(rule, anchor, events) ==
    LET hits == Where(Compared(rule, anchor, events),
                          LAMBDA p : Contradicts(p[1], anchor, p[2]))
    IN  IF hits = <<>> THEN <<>> ELSE <<hits[1][2]>>

\* evaluate_temporal: a finding [anchor, matched] for each anchor all of whose
\* clauses hold.
EvaluateTemporal(rule, events) ==
    LET anchors == Where(events, LAMBDA e : FilterMatches(e, rule.anchor))
        matches(a, filter) ==
            Where(Around(a, rule.within, events), LAMBDA e : FilterMatches(e, filter))
        contradiction(a) == FirstContradiction(rule, a, events)
        fires(a) ==
            /\ \A k \in DOMAIN rule.sequence : matches(a, rule.sequence[k]) # <<>>
            /\ \A filter \in rule.absent : matches(a, filter) = <<>>
            /\ rule.discrepancy # <<>> => contradiction(a) # <<>>
        firing == Where(anchors, fires)
    IN  [i \in DOMAIN firing |->
            [anchor |-> firing[i].id,
             matched |-> [k \in DOMAIN rule.sequence |->
                             matches(firing[i], rule.sequence[k])[1].id]
                         \o [k \in DOMAIN contradiction(firing[i]) |->
                                contradiction(firing[i])[k].id]]]
===============================================================================
