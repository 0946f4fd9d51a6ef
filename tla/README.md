# A TLA+ model of issen

`issen` takes forensic evidence (disk images, folders, archives, memory dumps,
UAC collections), parses it into one timeline in a DuckDB case database,
correlates and scans that timeline, and lets an examiner browse the file system.
Its main promise is that it can be stopped anywhere and run again: nothing is
lost, duplicated or believed finished when it is not. This directory models the
parts of the program that carry the promise, the threads that read the evidence,
the rules that draw conclusions from it and the navigator's event loop. TLC
checks them on small instances; TLAPS proves the central invariants, and that the
store, the shared reader and the correlation pass implement their abstract
specifications, for all values of the constants.

Source paths below are relative to `src/crates/`.

## 1. Inventory

| Component | Source | State it keeps | Operations |
|---|---|---|---|
| Case store, resumable part | `issen-timeline/src/{ingest,store}.rs` | tables `timeline`, `ingest_log`, `evidence_sources`, `pipeline_state` | `commit_parse_job`, `completed_units`, `register_evidence_source`, `record_stage_state` |
| Ingest run | `issen-cli/src/commands/ingest.rs`, `CaseLock` | the lock file; per run: skip-lists, parsed units | set up, parse in parallel, commit in input order |
| Evidence walker | `issen-fswalker/src/{orchestrator,isolate,sources}.rs`, `issen-core/src/plugin/traits.rs` | a temporary extraction directory per archive | discover, skip, parse each (artifact, parser) in isolation |
| Source-level parallel map | `issen-cli/src/parallel_sources.rs` | a thread pool | ordered parallel map with a cap, nested loops inside |
| Progress | `issen-fswalker/src/progress.rs`, `issen-cli/src/*_progress.rs` | counters, worker slots | claim and free a slot |
| Unpacking | `issen-unpack/src/{backing,bzseek,deflate_seek,registry}.rs` | spill files, a block cache, a checkpoint index, temporary directories | decide where an image's bytes go, copy, seek, open nested containers |
| Front door | `issen-cli/src/pipeline.rs`, `commands/pipeline_run.rs` | rows of `pipeline_state`; per run: fingerprints, actions | classify, fingerprint, plan, mark, execute |
| Memory leg | `issen-cli/src/commands/correlate_mem.rs`, `issen-mem` | rows in `timeline` | load every dump of a directory, best effort |
| Correlation | `issen-timeline/src/{correlate_runner,correlations}.rs`, `issen-correlation` | tables of correlations and members | fetch, run rules, persist |
| Event log analysis | `issen-evtx` | none | sessions, chains, boot cycles, process trees, detections, joins |
| Scan and findings | `issen-cli/src/scanning.rs`, `issen-timeline/src/findings.rs` | `scan_findings` | match events against feeds and rules |
| Feed cache | `issen-signatures/src/feeds/{downloader,fetcher}.rs` | per feed a `data` and a `metadata.json` | conditional download, store |
| Feed loader | `issen-signatures/src/feeds/loader.rs` | none | read the cache into an engine |
| Navigator: file list and search | `issen-navigator/src/{app,search,main}.rs`, `issen-mft-tree` | the view, its stack, the query, two channels | keys, background search, debounce, narrowing |
| Navigator: workbench | `issen-navigator/src/investigation` | a view switcher | read-only views |
| Disk triage, archive extraction, decryption, remote I/O, parsers, matching engines, remote-access scanners | their own crates | mostly none | pure or I/O |
| Queries, export, report, epochs | `issen-timeline/src/{query,tquery,export,epoch}.rs`, `issen-report` | none | read-only SQL, rendering |

How they interact:

    operator --evidence--> front door --(stage)--> ingest --> walker --> parsers
                              |   |                  |  \--> pool, slots, unpacking
                              |   +--> memory leg    +-- case lock, commit_parse_job
                              |   +--> correlate, scan ----> timeline (read)
                              +-- pipeline_state (read once, then rewritten)
    feed update --> feed cache --> (loader) --> scan
    examiner --keys--> navigator <==channels==> search thread

Everything that lasts meets in the case database and in files (`*.ingest.lock`,
the feed cache); two processes meet only through those. Within an ingest the
threads of one pool meet in the progress slots, the spill volume and a shared
bzip2 reader. The navigator is a program of its own.

What is hard about it, and what makes each part correct:

* **Store.** Rows and completion marker of a unit are written by four statements
  of one transaction. Correct: they never disagree, a complete unit is never
  degraded, whatever is interrupted.
* **Ingest run.** The skip-list is read before a parse that does not hold the
  database and is trusted afterwards; sources finish in any order; a process may
  die and leave its lock. Correct: one session at a time, a skipped unit is
  complete, events are stored once and under the right source, and everything is
  ingested in the end.
* **Reading evidence.** A thread that waits for its own nested loop takes other
  work; slots are claimed by many; free space is probed once and then written to
  by all; a cursor and a cache are shared under two locks that are let go between
  lookup, decode and insert; a checkpoint's window is cut from a buffer that
  slides. Correct: the parse ends, a slot shows its one artifact, an image is
  whole or an error, and a seek answers what reading from the start would.
* **Front door.** Rows are read once, each row is rewritten in two transactions,
  stages fail and die between them. Correct: "done" means done, results follow
  the legs they are computed from, and re-running brings the case up to date.
* **Correlation.** An entity index and a sorted slice stand for a scan of every
  row; findings are stored one transaction at a time; evidence keeps arriving
  between passes. Correct: the nearest partner is found, what is reported is what
  the rule says, a pass cut off leaves a prefix, more evidence does not take a
  finding away.
* **Event logs.** Files come in any order, cut and cleared; logon ids start again
  at every boot and process ids come back. Correct: what is reconstructed is what
  the host did, as far as it was recorded.
* **Navigator.** Answers arrive for queries that have changed since; every key
  moves some of directory, cursor, folders and stack. Correct: nothing points past
  a list, the way back exists, an answer is for the query that stands.
* **Feed cache.** Two files are written in place and one vouches for the other.
  Correct: however an update is interrupted, the tag never vouches for stale or
  truncated data.

`PROJECT.json` lists the hazards at their lines with the property that covers
each, and the reason where none does.

## 2. Modules

| Module | Models | Proofs |
|---|---|---|
| `UnitLedger` | abstract specification: one value per unit, published in one step, never removed, a whole one replaced only by a whole one | |
| `IngestStore` | the tables and `commit_parse_job`, statement by statement | |
| `IngestRun` | `ingest::run` and `CaseLock`: EXTENDS `IngestStore`, adds processes, sources, the operator | `IngestRunProofs` |
| `IngestLedger` | the refinement mapping of `IngestRun` to `UnitLedger` | `IngestRunProofs` |
| `MCIngestRun` | instances of `IngestRun` | |
| `FrontDoor`, `MCFrontDoor` | planning, marking and executing stages; the legs; the operator | `FrontDoorProofs` |
| `FeedCache` | `download_feed` and `store_data` on one feed | `FeedCacheProofs` |
| `SourcePool` | the pool's threads, nested loops, held sources, progress slots | `UnpackProofs` |
| `SpillVolume` | where an archived image's bytes go | `UnpackProofs` |
| `PlainReader` | abstract specification: what a reader of one file does | |
| `BzSeek` | the shared reader of a `.tar.bz2`, which implements `PlainReader` for every member | `UnpackProofs` |
| `DeflateSeek` | the checkpoint index of a DEFLATE stream | `UnpackProofs` |
| `MCUnpack` | the four above side by side | |
| `Slices` | sorting and filtering of rows, external (the standard library) | `SliceProofs` |
| `CorrelationRules`, `MemoryRules`, `TemporalRules` | every rule of the pass and of the narrative view, as operators | `CorrelationPassProofs` |
| `PersistPass` | abstract specification: how a pass writes whatever it found, one INSERT at a time | `CorrelationPassProofs` |
| `CorrelationPass` | fetch, match with the rules, persist; evidence that arrives in between; it implements `PersistPass` | `CorrelationPassProofs` |
| `EventAnalysis` | sessions, chains, cycles, trees, as operators | `EventLogProofs` |
| `EventLog` | a Windows host and its log files, external | `EventLogProofs` |
| `MCAnalyses` | `CorrelationPass` and `EventLog` side by side | |
| `FileTree` | the arena of the MFT tree, its order, what a search finds | `NavigatorProofs` |
| `FileList` | the view, every operation of `App` on it a function from view to view | `NavigatorProofs` |
| `SearchEngine` | the search thread and its two channels | `NavigatorProofs` |
| `Navigator`, `MCNavigator` | the event loop: EXTENDS both | `NavigatorProofs` |

In every module a definition named `X_Something`, placed before `X`, is a faulty
form of `X`: substituted for it, it must break the property listed beside it in
`PROJECT.json` ("mutants"). It is not part of any specification.

### IngestStore and IngestRun

`timeline[j]` is the sequence of batches inserted for unit `j` and not deleted; a
batch stands for all the events one parse produced (whose artifact, which content
of it, whether the parser got everything). `ingest_log[j]` is the unit's marker.
A unit's identity is the record (key, place, unit): the code hashes the
coordinates NUL-separated, which is injective up to SHA-256 collisions.
`txn[p]` is the open transaction of a process: a private copy of the unit's rows
and marker that each statement changes (`BeginTxn`, `DeleteRows`, `InsertRows`,
`LogUnit`), that `CommitTxn` publishes, and that a failure or death drops.

A run goes idle → setup → parse → commit → idle:

| Action | Code |
|---|---|
| `AcquireLock`, `ReleaseLock` | `CaseLock::acquire`, its `Drop` |
| `RegisterNext` | phase A, one source: `register_evidence_source` and `completed_units` (nothing under `--refresh`) |
| `run_auto_parse_jobs` | phase B, one source: skip, parse in isolation, the synthetic `$MFT`/`$MFTMirr` unit |
| `OpenFails` | `with_evidence` returns an error for the source |
| `AbortAtSource` | `out.context("Pipeline execution failed")?` in phase C |
| `BeginUnit`, `CommitStep`, `NextSource` | phase C |
| `FailRun` | a statement fails and `?` returns: rollback, lock released |
| `Crash` | the process dies: rollback by the database, lock file stays |
| `ClearStaleLock` | the operator follows the message "delete a stale *.ingest.lock" |
| `ReacquireArtifact` | external: evidence appears or changes between runs |

A parse touches neither the database nor another source, so one step stands for
it; what the threads of a parse share is `SourcePool`'s subject. `Place` is where
an artifact's path lies: the folder itself, or, for an image or archive, a
temporary directory never used before; the synthetic unit always carries the path
`\$MFTMirr`. `Complete` and `CompleteWithRecoveries` behave alike, and so do the
four other completions, so the instances use one of each.

DuckDB's own lock on the database file is left out. It only removes behaviours,
so the safety results rest on the case lock alone.

`IngestLedger` maps a unit's ledger entry to its rows and marker together: the
batch, whole if the marker says complete, when both are there, and else `Absent`. The
statements of a transaction map to stutters and its commit to `Publish`.

### FrontDoor

The stages' work is abstracted to what it was computed from: `timeline[kind]` is
the version of a kind of evidence last loaded and whether the load ended,
`derived[stage]` the timeline and rules a result came from. A *version* of a kind
of evidence is the list of (path, size) passed: between versions the operator
passes other files to the same case (`-o`). `pipeline_state` has one row per
stage, rewritten as `record_stage_state` does, by a DELETE and an INSERT in
separate transactions.

| Action | Code |
|---|---|
| `Start` | classify the evidence, unpack archived dumps, take the fingerprints |
| `BeginCollection`, `EndCollection` | the collection leg, before the stages, with no row |
| `LoadPrior` | `load_prior` and `resolve_actions` |
| `DeleteRow`, `InsertIncomplete` | `recorder.record(stage, Incomplete, fp)` |
| `BeginStage`, `EndStage` | `RealExecutor::execute`; for ingest under the case lock |
| `DeleteRow`, `InsertDone` | `recorder.record(stage, Done, fp)` |
| `Fail`, `IngestRefused` | an error returned by a statement, a stage, or the lock |
| `Crash`, `ClearStaleLock`, `ChangeInput` | process death; the operator |

A fingerprint is the version of the input it is taken from and, for dumps, the
directory they lie in: a dump inside an archive is unpacked to a new temporary
directory by every run (`extracted`, the constant `Zipped`).

### FeedCache

Writing a file is two steps, truncate and fill; a file another process filled
meanwhile may end up mixed (`Torn`). `MakeRequest` reads the etag; `AnswerOk` and
`AnswerNotModified` are the server's replies (200 with or without an etag, 304);
then `store_data` writes data and metadata without an etag, and `download_feed`
writes the metadata again with it. `Interrupted` stops an update between any two
steps. The server is external: it answers 304 exactly when the tag is that of its
present content and never returns to an earlier content. In `TruncateForTag` the
reading back of the metadata and the truncation are one step.

### SourcePool, SpillVolume, BzSeek, DeflateSeek

**SourcePool.** Each thread has a stack, since what it takes while it waits it
finishes first. `BeginSource` (`with_evidence`, which finds any subset of the
artifacts), `OpenSourceFails`, `BeginFile` (`claim_worker`: the first idle slot,
or none), `EndFile` (the guard's `Drop`), `EndSource`. The pool is external:
`MayHelp` says when a thread may take something that is not its own.

**SpillVolume.** An open probes RAM and free space once (`statvfs`, sysinfo), then
for every entry decides between the file itself, RAM and the volume
(`decide_backing`), copies, and refuses what is larger than declared or does not
fit. `PassOver` is a stream's member that is no image; `FirstEntry` hands out the
first backing, or fails if there is none. Several sources do so on one volume.
Sizes are small units, and the fractions of the code (a quarter of RAM between a
floor and a ceiling) are kept.

**BzSeek.** `BeginRead`, `Lookup` (under the cache lock), `SeekInner` and
`DecodeBlock` (under the file lock), `Insert` (under the cache lock again), and
`FailRead`. One unit stands for 512 bytes. `PlainReader` says what the caller of
`Read + Seek` may expect of a file: `ReadsLikePlainFile` is that specification
with the member's window for its file, and the cache and locks are hidden. `last`
is what the caller got from its last call; a read that fails moves nothing.
`LayoutAssumption` says that the blocks cut up the stream and a member's window
holds its file; both are tables computed by recursion over the stream.

**DeflateSeek.** A stream is the distances of its symbols, every literal a
different byte, so a byte from the wrong place shows. `Inflate`, `Boundary`
(record a checkpoint at a block's end once the interval has passed), `Slide` and
`Done` are the loop of the index build; `ReadAt` is a read, `Output` what it
decodes from a checkpoint's window on. Huffman coding and the
bit buffer, part of the checkpoint, are abstracted.

### CorrelationRules, MemoryRules, TemporalRules, CorrelationPass

The rules are operators over sequences of events in the order of `fetch_events`.
`Rule(code)` is the table of RuleSpecs (types, window, order, host scope, guard);
`Evaluate` walks the candidates the entity index leaves (`ReducedCandidates`) and
keeps the first of the nearest, as the code's strict comparison does;
`CopyDeletePairs` bisects a sorted slice. Paths are records of words, and the
directory and extension lists keep a few members of each. `TemporalRules` has the
bundled rules clause by clause, `EvaluateTemporal` with its anchors, symmetric
window, absences and discrepancies.

`PersistPass` is a pass that has found something, whatever it is, and persists it
with one step per INSERT (`InsertRow`, `InsertMember`); `CutOff` is a failed insert
or a death between any two. A later pass adds to the rows of an earlier one.
`CorrelationPass` EXTENDS it: events are stored (`Store`), the timeline is fetched
and all findings of the slice are computed (`Match`), and these are persisted
(`StoreFinding`, `EndPass`). `EvidenceAssumption` says that the evidence is finite,
that its rows have their fields and are told apart by their ids, and that no parser
stores an event of the type that fronts a burst (the pass makes those itself).
Sorting, by time and then id, picks the element with so many before it (`Sorted`),
and filtering is by positions (`At`, `Where`): what `sort_by` and `filter` return,
in a form the provers can expand, unlike `SortSeq` and `SelectSeq`. These are in
`Slices`, since the analyses of event logs and the navigator sort and filter too.

### EventAnalysis, EventLog

`EventLog` is a host that boots, shuts down, loses power, gives out logon ids from
the same start after each boot, starts processes with ids of dead ones, and writes
its log, which goes on in a second file or is cleared. A console session may log
two logoffs, the user's request (4647, `UserLogoff`) and the end (4634, `Logoff`),
or either alone; any other session logs its end. All of this is external.
`ReadFiles` is the program's: the events of all files in the order in which the
directory lists them, either of the two. Everything else is a function of that
slice. Only `correlate_sessions` and `find_lateral_movement` have a caller in the
program (`analyse_evtx_sessions`); chains, cycles and trees are offered by the
library and are given the same slice unfiltered. Of two logoffs of one logon,
`correlate_sessions` keeps the one that is read last, which the order of the files
decides; `SessionsAreReal` asks that it is one of the session's. Durations are whole
seconds (`WholeSeconds`), so a short session has 0. `CyclesAreReal` is about the
boots whose marker is left; what came before the first marker is left open (section
5).

The loops over the slice (`build_logon_chains`, `segment_by_boot_cycle`,
`ProcessTree::from_events`) are recursive functions of the number of events gone
through, with the body of the loop as an operator (`Linked`, `AtEvent`, `Insert`).
`ancestors_of` goes round as often as there are nodes: each turn of the code's
`while` but the last adds a node that was not met before, so more turns change
nothing. Sorting a boot's events is stable, by time and then place (`ByEventTime`).

### FileTree, FileList, SearchEngine, Navigator

`FileList` turns every operation of `App` that touches the list into a function
from view to view: `Inside`, `Back`, `Outward`, `Toggled`, `Opened`, `Moved`,
`JumpedTo`, `Resorted`, `Refiltered`, `Kept`, `Restored`. `path_stack` keeps
directories only, since the cursor beside them is never read back. `Navigator` is
the loop of `main.rs`: a key or none (`Key`, `NoKey`), `poll_search_results` with
one step per answer (`TakeAnswer`) until there is none (`NoAnswer`), then `Fire` or
`NotDue` for the debounced search. `SearchEngine` drains the waiting
requests and answers the latest. The detail panel, scrolling and drawing are left
out: no handler reads them. `answered` and `opened` are history variables.

Nothing is assumed of the tree but types: a parent may be unknown, and folders lost
from the tree may lie in one another, as two of the instance do. So each recursion
over it is stated with an end. `Listing` goes down as many levels as there are
nodes, which is never too few, since a folder is entered from the root or from a
list, and below the root no way down comes back (the code's stack has no bound, and
a list of folders in one another would not end; `BackLandsOnFolder`'s invariant says
that none is ever shown). `Lineage` is a node, its parent and so on until one is
unknown or met before, which is the fallback that gives an orphan its path; `Depth`
counts slashes in it. `Above` has the turns of `ensure_expanded_to`, `MaxLevels` of
them (1000 in the code).

## 3. Runs

| Run | Instance | Question and answer |
|---|---|---|
| `ingest_safety` | 2 processes, 2 folders always passed together in either order, 2 units, 2 faults, `--refresh` on or off | Marker and rows agree, one session, skip-lists stay true, events once, right key, no downgrade, nothing taken away, and the store implements `UnitLedger`: all hold |
| `ingest_live` | 1 process, 2 folders, 2 faults, `FairSpec` | Every run ends and every artifact's unit is committed in the end |
| `ingest_archive` | one archive, ingested again | `EventsOnce` fails: the unit's path is temporary |
| `ingest_solo` | two folders ingested by separate runs | `EvidenceKept` fails: both are keyed `default` and the synthetic unit has a fixed path |
| `ingest_stale` | an artifact acquired again | `SkippedIsCurrent` fails for an ordinary unit: content is no part of the identity (the synthetic unit, computed by every run, is left out) |
| `front_door` | all three kinds, or dumps alone; disk, dumps and rules change once; 2 faults; `--rerun` on or off | `DoneIsFinished`, `LegsFirst`, `FreshAfterLegs`, `Converges` hold |
| `front_door_stale` | disk only, one fault | `SkippedIsFresh` fails: a stop between the done mark of ingest and the incomplete mark of correlate |
| `feed_cache` | 1 process, 3 contents, 3 interruptions | The etag vouches for the data, and updating again always repairs the cache |
| `unpack` | 2 threads on up to 3 sources of up to 2 artifacts; 2 of 8 archives opened at once on a volume of 6 units; 2 members of one `.tar.bz2` in 4 blocks, cache of 2; every DEFLATE stream of up to 5 symbols, window 2 | Slots agree, the parse ends, images are whole or errors, the reserve is kept by each decision, opens end, members read like plain files, seeks answer the data: all hold |
| `analyses` | 8 families of 6 to 8 events arriving in any order, 2 passes, each cut off anywhere; or a host of 3 boots, 5 events, 2 process ids, 2 ticks to a second | What the rules find is what they say, whatever ties a migration is reported, rows are prefixes, more evidence keeps pairs, the narrative is monotone; sessions, cycles and trees are the host's: all hold |
| `navigator` | a tree of 9 nodes with an orphan, nested folders and two lost folders in one another; 5 kinds of session | Cursors stay in range, Esc restores, Back lands on its folder, matches lie under the cursor, answers fit and arrive: all hold |
| `navigator_narrow` | the same | `AnswersComplete` fails: a search narrows the answer to another query |

The five runs expected to fail are findings: each contradicts a line of the
repository quoted in `PROJECT.json`. Where the code does guarantee the property
under some use, the passing run of the same module keeps it, which is why
`ingest_safety` passes its folders always together: `EventsOnce` and
`EvidenceKept` are promises of the code under that use only.

**Bounds.** `MaxFaults` bounds crashes and failures of a behaviour; two let a
fault hit a run that recovers from another, three let every one of an update's
steps be interrupted in turn. `MaxVersion` bounds contents: two tell stale from
current; the server gets three, so that a tag can be two contents behind. Two
sources and two units are the fewest with which keys, places and the fixed path
can collide. `TempDirs` and `MaxExtracted` bound directory names used; when the
names run out the archive instance has no more steps, hence its
`CHECK_DEADLOCK FALSE`. With a cap on faults a behaviour has finitely many of
them, which the liveness properties need: a program that dies for ever finishes
nothing. Three sources on two threads are the fewest with which a thread holds two
sources while the other helps a third. A cache of two blocks evicts while two
threads read four. A window of two and a segment of one make the buffer slide
three times in five symbols. Two passes let one be cut off before the other, and
each family holds a hit of its rules and near misses in host, window, order or
guard. Three boots let what was said of one shutdown be carried to the wrong
boot; two process ids let one come back; five events hold a session that is
logged off twice. `Second` is 2 so that a session may last less than a second, and
`U64` 100, far from every real duration. `Sessions` bounds the keys of a
session, the texts that can stand in the bar and the requests waiting; without it
the product of all keys is out of reach, and each kind of session has the keys that
interact. `MaxResults` is 3 so that an answer is cut, `Gram` 2 so that both the
index and the plain scan answer, `MaxLevels` 2, the depth of the tree's folders.

**Fairness.** `IngestRun!FairSpec`: a live process keeps executing (weak fairness
of its `Progress`), the operator re-runs the command, and clears a stale lock:
the code asks him to in its error message. Nothing is assumed of evidence,
crashes or failures. `FrontDoor!FairSpec`: the command progresses, and the
operator re-runs it on all the evidence and clears a stale lock, strongly fair as
other commands, on part of the evidence, may come between. Inputs change finitely
often. `FeedCache!FairSpec`: updates keep being run. `MCUnpack!FairSpec`: every
pool thread runs, and an open that has begun is a thread that waits for nobody.
`Navigator!FairSpec`: the loop turns (it waits for a key with a timeout), it takes
the answers there are, a search
that stays due is sent (strong fairness, as every key postpones it), and the
search thread takes and answers. Nobody is obliged to press a key.

**Deadlock** is not checked where the system may stop: an archive ingested with
no directory names left, the unpack and analysis instances once everything has
been read, and the navigator once it is left.

## 4. Proofs

TLAPS proves the following for all constants that satisfy the modules' named
ASSUMEs: any number of processes, sources, units, versions, faults, threads, slots,
readers, blocks, nodes, answers. Each proof has the form: the initial states
satisfy an inductive invariant, every action preserves it (one step per action, one
below it per conjunct it can disturb), the invariant implies the property.

* **`IngestRunProofs`.** `TypeCorrect`, `SessionsExclude` (`OneSession`),
  `MarkerAlwaysMatches` (`MarkerMatchesRows`), `SkipListAlwaysSound`
  (`SkipListSound`) and `NeverDowngraded` (`NoDowngrade`). None of the invariants
  is inductive alone. `IInv` adds: a process in session owns the lock file
  (`LockOwned`), which makes sessions exclusive even when stale files are removed;
  a transaction is open only in the commit phase (`TxnInCommit`), so by exclusion
  no other process changes the unit under it; a waiting unit is whole exactly when
  its completion says so (`JobsDeclared`); and what the private copy holds after
  each statement (`TxnCopy`), so that publishing it preserves the agreement. The
  skip-list stays true because only its owner commits and a commit keeps complete
  units complete.

  `StoreImplementsLedger` (`ImplementsLedger`): every statement of a transaction
  maps to a stutter and its commit to one `Publish`, which never takes an entry
  away and replaces a whole one by a whole one only; the last part needs
  `TxnCopy` and `JobsDeclared`.

  `RowsAlwaysAttributed` (`Attributed`), `EventsAlwaysOnce` (`EventsOnce`) and
  `EvidenceNeverLost` (`EvidenceKept`) are about what a unit is *called*. They rest
  on `Filing`: a run has registered the sources it has passed, and whatever is
  parsed, in an open transaction or stored is filed under the id of the source it
  came from and, unless that is unpacked, at the one place its artifact has.
  Hypotheses:
  `SeveralSources` (no run is given one source alone) for all three, and
  `Archives = {}` for `EventsOnce`. The code does not enforce these: they are the
  use under which it keeps the promise. The instance of `ingest_safety` satisfies
  them; `ingest_solo` and `ingest_archive` drop one each and TLC shows the promise
  broken.
* **`FrontDoorProofs`.** `TypeCorrect`, `DoneAlwaysFinished` (`DoneIsFinished`),
  `LegsAlwaysFirst` (`LegsFirst`) and `AlwaysFreshAfterLegs` (`FreshAfterLegs`).
  `IInv` adds that the fingerprints of a run are those of inputs that do not change
  under it (`FingerprintsHold`) and that the stage in flight has an incomplete row,
  or none, until it has finished (`InFlight`). For the last two, `LInv` adds that
  the stages with a fingerprint are those that apply (`FingerprintsApply`), that a
  leg which is not, or no longer, to be run has ended on the evidence passed
  (`LegsEnded`), that a run that plans a leg plans the results too and after it
  (`ResultsFollow`), and that the results a run has written are those of the
  timeline as it is (`ResultsFresh`).
* **`FeedCacheProofs`.** `TypeCorrect` for any number of processes, and, assuming
  `OneUpdater`, `TagAlwaysVouches` (`TagVouches`). `IInv` says that a stored tag
  is never ahead of the server and is behind any response being stored, and that
  once the tag is being written the data is the response's (`InUpdate`). Without
  `OneUpdater` it is false (section 5).
* **`UnpackProofs`.** Of `SourcePool`: `PoolTypeCorrect` and `SlotsAlwaysAgree`
  (`SlotsAgree`), for any number of threads and slots and any nesting of what the
  threads take while they wait. `SlotsAgree` is inductive with the types: a claimed
  slot is that of the one frame, on whichever stack, that holds its guard.

  Of `SpillVolume`: `SpillTypeCorrect`, `BackingsAlwaysWhole`
  (`WholeOrError`) and `ReserveAlwaysKept` (`SpoolKeepsReserve`). `SInv` adds
  that a zip entry being copied is capped at what its header declared and has not
  passed the cap by more than the one unit that betrays the lie (`ZipWithinCap`).

  Of `DeflateSeek`: `IndexAlwaysHolds` and `AnswersAlwaysData` (`AnswersAreData`),
  for every stream, window, segment and interval. `DInv` says that the buffer holds
  the end of what has been decoded (`BufferIsTail`), through every slide; that a
  checkpoint's window is the decoded bytes before it as far as a reference reaches
  (`WindowsReach`); and that the index is not finished before the stream is
  (`BuiltToTheEnd`). That a read from the last checkpoint before an offset then
  decodes the same bytes is an argument by least counterexample over the recursive
  table of what a read puts out (`OutputIsDecoded`).

  Of `BzSeek`: `BzTypeCorrect` and `ReadersImplementPlain`
  (`ReadsLikePlainFile`): for any number of threads, blocks and cache sizes, a
  member read through the shared cursor and cache is read as a plain file. `BInv`
  says that the cache holds what its keys say (`CacheIsStream`), that the cursor of
  the file is where the thread that holds it put it (`CursorIsOwn`), and, of each
  thread between any two of its locks, that what it has decoded or copied is the
  piece of the stream it is about to return (`EveryReadGoesOn`).
* **`CorrelationPassProofs`.** `PersistTypeCorrect` and `RowsAlwaysPrefix`
  (`RowsArePrefix`) of `PersistPass`, for any findings of any passes cut off
  anywhere. `PInv` adds that the rows of the pass in hand are the last of the
  table, as many as its loop has counted, and all but an open one complete
  (`LoopAgrees`, `OpenInPass`). `PassImplementsPersist` shows the pass with its
  rules to implement `PersistPass`, so `PassRowsAlwaysPrefix` follows for it.

  What a pass finds is proved from `FoundInTimeline`, proved first:
  what is being stored is what the rules make of what was fetched, and that is the
  rows of the timeline in order of time. It is inductive with `OneEvidence` (a row
  is arriving or stored, out of one scenario). From it follow, for evidence of any
  size: `AlwaysNearestIsFound` (`NearestIsFound`: the entity index and the sorted
  slice leave out no nearest partner a scan would find, and of two equally near the
  earlier row is reported), `AlwaysBurstBehindBruteforce` (`BurstBehindBruteforce`: behind every
  brute-force finding are enough failures, no gap too long, before the logon) and
  `AlwaysTiedPairsAreReported` (`TiedPairsAreReported`: wherever the socket that
  ties a dead process to an injection stands among the others, the pair is reported,
  and no chain is reported that its members do not show). Two are about what later
  evidence does: `AlwaysKeepsPairs` (`MoreEvidenceKeepsPairs`), since the nearest of more
  candidates is still one, and `AlwaysNarrativeMonotone` (`NarrativeIsMonotone`):
  every bundled rule has one of three shapes, each shape's answer is a claim about
  the *set* of events (`Claims`, `TemporalFinds`); when the set grows, a claim that
  needs no absence stays true and a claim of absence is never gained (`ClaimsGrow`).

  These rest on lemmas about each rule: what it finds, as a set stated by a scan of
  its input (`PairRuleFinds`, `CopyDeleteFinds`, `SharedIocFinds`,
  `BeaconingFinds`, `NetworkRiskFinds`, `InjectedC2Finds`, `DiskFileFinds`,
  `ChainsAreOfTied`), that the loop over failures yields the runs (`RunsAreLinked`),
  that bisection of a sorted slice cuts a prefix (`PartitionIsPrefix`), and on all of
  the rules together (`PassFinds`).
* **`SliceProofs`.** The lemmas on `Slices` that three proof modules EXTEND: sorting
  a finite set by a strict total order lists it (`RankedSequence`), picking positions
  keeps order (`AtPositions`, `AtIsSequence`), flattening is a union (`FlattenRuns`,
  `FlattenIsSequence`).
* **`EventLogProofs`.** `AlwaysSessionsAreReal` (`SessionsAreReal`),
  `AlwaysCyclesAreReal` (`CyclesAreReal`) and `AlwaysAncestorsAreReal`
  (`AncestorsAreReal`), for a host with any number of boots, process ids, kinds of
  logon and events, whose log lies in one file or in two, read in either order.
  The inductive invariant `ReadInv` (`ReadInvariant`) says of the log's files that
  each event is held once, and of the events held (`Recorded`) what the host's
  history makes true, whatever was cleared before them: times tell events apart
  (`Timely`), a boot gives out a logon id once, and whatever ends it comes later
  (`LogonsApart`), boots follow each other and each that comes after an event left
  over has its marker (`BootsInOrder`), a start names its parent (`StartsLinked`).
  The properties are about what is read alone, but `Recorded` is not inductive
  without `UpToNow`, `LoggedNow` and `RunningNow`, which tie the events to the
  host as it is: an id that is given out now was neither given out nor ended in
  this boot before. Then each analysis is
  shown, for any slice of these events in any order, to find what is recorded:
  `correlate_sessions` by the lemmas on filtering, the three loops by an invariant
  of the number of turns (`LoopRuns`, `GoingUp`), since the recursive functions
  are unrolled one turn at a time. The walk to the root ends in the true line
  because a line that repeats nobody cannot be longer than there are nodes.
* **`NavigatorProofs`.** `NavTypeCorrect`, `CursorsAlwaysInRange`
  (`CursorsInRange`), `CancelAlwaysRestores` (`CancelRestoresView`),
  `AnswersAlwaysFit` (`AnswersFit`), `MatchAlwaysUnderCursor` (`MatchIsUnderCursor`)
  and `BackAlwaysLands` (`BackLandsOnFolder`), for every tree and session. `NInv` adds that
  the rows of the view are always what its directory, folders, order and filter make
  them (`ListedViews`) and, while the search bar is open, that the way back is the
  view it was opened on in the order and filter of now (`WayBack`). So refreshing
  what is put back gives the same rows, and the same cursor on them. `AnswersFit`
  needs `ChannelsFit`: every answer under way fits the query it was asked for,
  and every request narrows the whole tree or nodes below the root. That the best
  match comes first rests on `EveryRank`: in a finite set that is ordered strictly
  and totally, every place is taken by some element.

  The last two need to know which rows a listing has. `ListedByWays` says it: those
  of the nodes that the filter lets through and to which an *open way* leads, from
  child to child through folders that are not collapsed. For a match, the lineage of
  the node is such a way read upwards (`LineageClimbs`), and the folders on it are
  those that the jump opens (`AboveOpens`), so the match has a row and the cursor
  finds it (`JumpLands`). For the way back, the directories of the stack and the one
  on show are a *trail* (`Placed`): it begins at the root and each is reached from
  the one before by a way that is open. Every key must keep that, the one in question
  being a folder that is closed: what can be closed has a row, so it lies below the
  directory on show; the trail's folders lie above; and a node below the root has one
  depth (`OneDepth`), so none of them is the one closed. With the trail, the folder
  that is left has a row in the directory gone back to, and the last resort of
  `navigate_back`, the parent of a directory with an empty stack, is never taken but
  at the root, where it goes nowhere. The view that the search bar goes back to is
  part of the invariant (`AllPlaced`), since Esc brings its folders and its stack back
  together.

The proofs of `UnpackProofs` are of `PoolSpec`, `SpillSpec`, `BzSpec` and
`DefSpec`; the run `unpack` interleaves the four, which share no state.

One theorem, of `BzSeek`, rests on a fact about data that TLC evaluates on the
instance and that is stated as an ASSUME, since the data is computed by recursion:
`LayoutAssumption` (where blocks and members begin). It gives types and bounds,
nothing of what the property says. The other ASSUMEs say what the constants are and
which of them are told apart.

**Model-checked only:** the liveness properties (`RunEnds`, `EveryUnitLogged`,
`Converges`, `KeepsUpToDate`, `PoolEnds`, `OpensEnd`, `AnswerArrives`; fairness
and ENABLED are outside the prover), and the violations. Every safety property
that a passing run checks is stated by a theorem.

## 5. Divergences seen that no run states

Met while modelling; the models follow the code.

* A `sequence` of a temporal rule asks for an event within the window on either
  side of the anchor, though the rules' docs say "followed by" (`TemporalRules`,
  `Around`).
* Of several connections that tie a dead process to an injection, the first row that
  yields a chain ends the scan. So a pair makes one correlation at most, where
  `issen-correlation/src/tier_c/proc_migration.rs:99-102` promises one for each
  dead, injected and shared-endpoint chain; and a chain may be called degraded
  although a later connection shares an endpoint with a freed socket, where lines
  20-24 promise that form only without one (`MemoryRules`, `ChainOf`; the family
  `Dump` of `analyses` has both cases). `TiedPairsAreReported` asks for neither.
* Two `issen feed update` at once may leave the etag of one beside the data of the
  other, and later updates then report the stale data "still fresh"
  (`issen-signatures/src/feeds/downloader.rs:124`, `:183`): nothing keeps a second
  one out (`FeedCache` with two `Procs`; its run and theorem have one).
* `ruleset_descriptors` promises a descriptor of "every correlation rule the engine
  can emit" (`issen-correlation/src/ruleset.rs:66`) and has none for
  `NET-IOC-SHARED`, `NET-RISK-COMPOSITE` and `NET-BEACON-PERIODIC`, which
  `runner.rs` beside it emits at 619, 713 and 779.
* More sources than threads may hold extracted artifacts at a time, although
  `issen-cli/src/parallel_sources.rs:27-29` bounds them: a waiting thread may begin
  another source (`SourcePool`, `MayHelp`).
* Two archives opened at once can fill the spill volume in spite of the reserve
  (`issen-unpack/src/backing.rs:201`): each probes before the other writes.
* The fingerprint of an archived dump holds its temporary path, so memory and what
  follows it run again every time; adding a second source to a case renames the
  first one's key, so its events are stored again.
* A nested image that opens makes the registry drop the loose artifacts beside it
  (`issen-unpack/src/registry.rs`).
* Event logs: logons of different boots that share an id become one session, and a
  logoff before its logon gives a negative difference, cast to a huge duration
  (`session.rs:80-83`); of a request to log off and the end that followed, the one
  read last gives the time, the request if its file is listed last; a chain whose logoff is read before its logon is marked
  orphaned though `logon_chain.rs:29` says "no corresponding logoff"; events before
  the first boot marker are dropped, where `boot_cycle.rs:45-46` promises a
  synthetic cycle; with process ids that came back, the ancestors of a process may
  contain itself.
* After a failed `finish`, the remote writer writes an empty object when dropped
  (`issen-remote-io/src/writer.rs:36`).

## 6. Not modelled, and why

* The optional signature scan at the end of `ingest::run`, `--evidence-source`,
  and the front door's `--only`, `--no-scan`, `--no-correlate`, which `run` never
  sets. Units committed are the same with or without them, except that
  `--evidence-source` replaces the key `default`.
* Two front doors on one case: one command at a time here.
* The evidence engine, attack flows, clustering, clock skew and timestomp checks of
  `issen-correlation`; of `issen-evtx`, frequency analysis, gap inference,
  detections, joins with other artifacts, anti-forensics, diffs and cloud logs:
  pure functions of rows, mostly tables of names.
* The container registry's recursion, split images, `archive_entries`, tar name
  parsing and the choice of a temporary directory.
* What parsers, memory analysis and signature engines compute: binary formats,
  data rather than control; over half of the lines of the repository.
* Queries, export, report, the workbench's views, remote I/O, decryption, progress
  rendering: read-only, pure or I/O. `PROJECT.json` "components" has a reason for
  each.
* Loss of committed data (disk failure): the database's durability is assumed.

## 7. Plan

Built, in this order: the resumable core (`IngestStore`, `IngestRun`,
`UnitLedger`, `FrontDoor`, `FeedCache`) and the proofs of its main invariants; the
correlation pass; the threads of an ingest; the navigator; the event logs; the
proofs of section 4, with the three refinements.

Next, most important first:

1. The front door over the real ingest: a stage *ingest* made of `IngestRun`'s
   steps, for `--rerun` with refresh off.
2. The container registry's recursion into nested containers.
3. A reader of the feed cache during an update.
4. Two front doors on one case: rows read once and overwritten.
