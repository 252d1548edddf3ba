# TLA+ models of dlpduck

dlpduck watches a drop folder, extracts the text of every document it finds,
scans it against rules, and files the document in an archive, a quarantine or a
failed folder, with an audit trail, an index and a content store beside it. The
program has no database: its state is files, and its concurrency control is a
file lock. These modules model that state and those locks.

Paths below are relative to `src/dlpduck/` unless they name another directory.

## Inventory

| Part | State | Operations | Hard behaviour | What makes it correct |
| --- | --- | --- | --- | --- |
| operation lock (`operations.py`, `Pipeline._discard_job_lock_dir`) | `<root>/.operations.lock`, its flock, the `_LOCAL_LOCKS` table of each process | `operation_lock()` blocking or not, nested; deletion of the directory under the lock | threads and processes, a lock file that is deleted and created again, refused and crashed calls | mutual exclusion; the table empties; a non-blocking call returns |
| ingest pipeline (`pipeline.py`) | drop folder, `_processing/<job_id>/` (manifest, PDF), archive, quarantine, `failed/`, index, content store, receipts | `run_job`, `stage`, `claim`, `process`, `commit`, `commit_failed`, `resume_staged` | crash between any two writes, identical arrivals, several replicas, a delivery whose outcome is unknown | nothing lost, nothing audited or delivered twice, first verdict stands, every commit completed |
| failure queue (`failures.py`) | `resolution.json` in a staged or failed folder | `retry`, `resolve` | a retry against a sweep, an arrival and a commit | the same, plus the confirmation of a second delivery |
| purge (`pipeline.py`, `content.py`) | content store, filed PDFs | soft and hard purge | purge against an interrupted commit, a reprocess, a reindex | purged stays purged |
| receipts (`operations.py`) | one JSON file per arrival | `receipt`, `finish_receipt` | written by a claim, finished by whoever commits | each receipt ends, and says what happened |
| reprocess (`reprocess.py`) | later index rows, `transitions/` | `commit`, `release`, recovery | optimistic sequence numbers, a transition that crashed | append-only history, the PDF where the row says |
| index and compaction (`index.py`) | Parquet files | `write_row`, `compact_partition` | compaction against a reassessment | no row lost, no sequence number used twice |
| reindex (`reindex.py`) | the index, rebuilt | `run` | rebuild against ingest, after a purge | no verdict changed, no purged text restored |
| audit trail (`audit.py`) | `dt=*/events.jsonl`, trim checkpoint | `append`, `redact`, `write_trim_checkpoint`, `verify`, `events` | several processes, torn lines, trimming | one unbroken chain, no false alarm |
| retention (`retention.py`) | partitions of all stores | `apply_retention` | crash between checkpoint and deletion | what is left still verifies |
| leader election (`leader.py`) | a Kubernetes Lease | `_tick`, `_release` | expiry, late and lost answers | at most one holder; a holder in the end |
| watcher (`watcher.py`) | tracked sizes, poll counts | `discover_ready`, `_run` | files that grow, late companions | only stable files, every one of them |
| sweep and daemon (`cli.py`) | none of its own | startup and periodic sweep, shutdown | a sweep next to the watcher | staged work is finished |
| plugins, sinks, spool (`plugins/`) | spool files | `PluginRunner.run`, `Spool.append`, `drain` | failures after delivery, two drains | order kept, nothing lost |
| extraction (`extract.py`, `extract_worker.py`) | none | pages to lines and offsets | mixed pages, rows, coarse rendering, timeouts | nothing unread passes as read |
| decision (`disposition.py`, `engine.py`, `rules.py`, `masking.py`, `types.py`) | none | pure functions | windows and offsets at the edges, matches across lines | a verdict that follows from the text; offsets that find it again |
| console (`console/`) | session files, throttle table | handlers, reveal, login | a value found again from a mask and a position | reveal shows the match |
| search, configuration, tracing, deployment | none | queries, parsing | - | - |

The parts meet in the work directory. The watcher calls `run_job()` (inline mode)
or `stage()` (`cluster.parallel_extraction`); the sweep calls `resume_staged()`;
the console calls the failure queue, purge and reprocess from background threads.
They meet at two locks: `job_lock(job_id)` around a claim, an extraction or a
retry, and the work directory's own lock (`@serialized`) around a commit, a
resolve, a purge, a transition or a compaction. Both are `operation_lock()`. The
audit trail has a file lock of its own; the Lease is taken by conditional PUTs;
reindex, retention and the drains of a spool take no lock at all.

## Modules

| Module | Models | Checked by |
| --- | --- | --- |
| `JobMutex` | what `operation_lock()` promises: a mutex that a crash or the deletion of its directory also releases | abstract specification |
| `OperationLock` | the lock itself, step by step | `operation_lock`, `OperationLockProofs` |
| `IngestPipeline` | the life of a document up to its filing, with the failure queue and purge | `ingest_*`, `uncertain_lost`, `purge_undone`, `IngestPipelineProofs`, `IngestSafetyProofs`, `IngestOutcomeProofs` |
| `Reassess` | the life of a document after its filing: reassessment, release, purge, compaction, reindex | `reassess`, `purge_overtaken`, `ReassessProofs` |
| `Ledger` | what the audit trail promises: a chain that grows at its end and is trimmed at its front, up to its anchor | abstract specification |
| `AuditTrail` | the trail's files, with redaction and retention | `audit_trail`, `torn_append`, `AuditTrailProofs` |
| `AuditVerify` | a run of `verify()` beside the trail it reads without a lock; extends `AuditTrail` | `audit_trail` |
| `Watching` | leader election, discovery of files and the daemon's start and stop | `watching`, `WatchingProofs` |
| `Extraction` | from pages to lines and offsets; operators only | through `Screening` |
| `Spool` | the delivery of events, the spool and its drains | through `Screening` |
| `Screening` | from the bytes of a document to verdict, event and reveal; composes `Extraction` and `Spool` | `screening`, `ScreeningProofs` |
| `MC...` | the constants of the small instances | |
| `...Proofs` | theorems for all values of the constants | TLAPS |

Definitions with the comment "Variant" are plausible mistakes of the code, used
only to show that the properties notice them.

### OperationLock

`pc[t]` is where thread `t` is in `operation_lock()`/`_locked_file()`; `registry`,
`ref`, `mutex` and `users` are the `_LOCAL_LOCKS` table, the entry a caller took
from it, the owner of the entry's `RLock` and its use count; `fd`, `file`, `dir`
and `flock` are the open descriptor, the inode the path names, the existence of
the directory and the kernel's lock on each inode. Inodes and mutex objects are
drawn from finite sets and used again when nobody refers to them. One action is
one system call or one critical section of `_REGISTRY_LOCK`.

`Owns(t)` is: inside the with-block, the directory not deleted yet. That is what
`JobMutex` calls ownership: `commit()` and `commit_failed()` delete the directory
as their last act on a job, and from then on a newcomer may lock a fresh file.

### IngestPipeline

The state is the disk, seen as far as the properties tell it apart:

| Variable | Code |
| --- | --- |
| `drop` | files in `source.path` |
| `staged[d]` | `_processing/<job_id>/`: which of `manifest.json`, `document.pdf`, `resolution.json` exist, and the manifest (receipt, steps, recorded verdict) |
| `failed[d]` | `failed/<job_id>/` |
| `filed[d]` | the roots (archive, quarantine) that hold the PDF |
| `index[d]`, `text[d]` | the job's first index row, its row in the content store |
| `receipt[r]` | `receipts/<job_id>/<receipt_id>.json` |
| `trail[d]` | the job's `job.completed` events |
| `jobLock[d]`, `mainLock` | `JobMutex` owners of `job_lock(job_id)` and of the `@serialized` lock |
| `pc[w]`, `job[w]` | where worker `w` is and what it holds in memory: its call, the manifest it has read, its verdict, what `rmtree` has listed |
| `delivered`, `confirmed`, `erased` | history the properties speak of: emit phases run, second deliveries accepted, what purges deleted |

One action is one durable write (or one lock operation). `Crash` can come between
any two: it stands for the death of the process and for an unexpected exception,
which end the same way, with the locks released and the files as they are. The
time extraction takes is the worker waiting in `wait_main` with the job's lock.
Every worker has a process of its own; threads of one process are excluded from
more interleavings, never from fewer. Two facts of the lock that matter here are
modelled: ownership of `job_lock()` ends when `commit()` deletes its directory,
and a retry's nested calls re-enter the lock it holds.

The document is a model value, its `job_id` is the value (the code hashes the
content). Extraction and scan are one action, `Process`, which picks any member
of `Verdicts[d]`: the same document may be judged differently the next time,
because rules change and extraction can time out.

### Reassess

One document. `rows` is the index: rows, each in a file of its own or in the
merged one, with sequence number, disposition, `pending_release` and path; `pdf`
the roots that hold `<job_id>.pdf`; `text` the content store, as the number of
purges begun when the text was read from its document, whenever it is written; `trans` is `transitions/<job_id>.json`;
`events` counts the audit events per assessment; `lock` is the owner of
`@serialized`, which `OperationLock` implements.

One action is one durable write. `commit()` is `Recover`, `Scope`, `Evaluate` (in
the rules or the extract mode), `WriteAssessment` (which reads the sequence number
again under the lock and records the transition), then the steps of
`_apply_transition()`: `MovePdf`, `UnlinkSource`, `ApplyText`, `ApplyRow`,
`ApplyEvent`, `Finish`. `Release` records a transition of its own; `Recover` starts
on one that was left behind. `Refresh` is the extract mode with an unchanged
verdict: it writes the text without a lock. `StartPurge`...
`PurgeEnd`, `StartCompact` and `RemoveOriginal`, `StartReindex`...`RebuildText`
(no lock, with the list of jobs, of purged jobs and of files it read at the start,
however many purges have begun since)
and `StartIngest`...`IngestText` are the others who write to the same stores.
`Stop` is the death of a process anywhere.

`dropped`, `halted`, `raced` and `overtaken` are history: assessments whose
transition was overwritten, a purge that was interrupted, the three ways in which the
place of a PDF and its row are known to part, and text that was read before a purge
and stored or recorded after it had begun (see "What the properties leave out" and
finding 4).

### AuditTrail

`log` is the set of lines of all `dt=*/events.jsonl` files, each with the day of its
partition, the number of the write that made it (`at`) and whether it ended in a
newline; `dirs` the partition directories; `checkpoint` is `.chain_checkpoint.json`;
`lock` the file lock. Files are read in the order of their days and lines in the order
of their writes; the numbers are both orders at once, because nothing is written to an
older day (`Ordered`, proved). The number of its write is also an event's hash: what
matters of SHA-256 is that two events never share one. A line that does not parse has
the kind "unreadable".

`append()` is `StartAppend` (take the lock, read the end of the trail again) and
`WriteLine`; `CutWrite` is a write cut short, which leaves a torn line without its
newline, and the next line is joined to it, as the file's append mode does.
`redact()` is `StartRedact` and `Rewrite`, then the append of `audit.redacted`; the
lock is given up in between, as in the code. `apply_retention` is `PlanRetention`,
the announcement, `WriteCheckpoint`, `RemovePartition` one by one and the
conclusion, without the trail's lock. Days pass (`Midnight`) at any moment.
`Verified` is the verdict of `verify()` on the trail as it stands at one moment,
`EventsPage` is `events()`.

`AuditVerify` adds a run of `verify()` as the code carries it out: `StartVerify` reads
the checkpoint, `ListPartitions` the names of the files, `ReadPartition` one file, and
every step of the trail may fall between two of them. A file is read in one step, so
a line that is read while it is being written is not modelled.

`Ledger` is what is left for a reader: `chain`, the readable events as a set of
records linked by number and hash; `anchor`, the checkpoint; `gap`, whether retention
has gone on without a record of what it takes. `Extend` puts an event linked to the end
there, `Tear` takes the last one away, `Seal` moves the anchor forward to an event of
the chain, `Trim` removes a prefix up to the anchor, `Skip` opens a gap: a trim may
then go beyond the anchor, and a chain that has gone altogether starts again from the
end a writer had read.

### Watching

`lease` is the Lease as the API server keeps it (external: one object, updated
only by a PUT that names its current `resourceVersion`); `leader[r]` is
`_is_leader`; `call[r]` the request in flight: a PUT decided on a reading that may
be old by the time it arrives (`fresh`), with the age that `renewTime` will have.
`folder` holds, per name, the number and size of the document there and the
number of the document its companion belongs to. `tracked`, `ready` and `work` are
`Watcher._tracked`, what is left of the list a poll returned, and the claim in
progress: `Read`, `UnlinkSource` and `TakeCompanion` are the three steps of a claim
that touch the drop folder; `ClaimFails` is an exception of any of them, after which
the loop goes on with the next file. `Tick` is one round of the election, `Clock` one tick
of every clock; `Signal`, `StopElection` and `Released` are the shutdown of `run()`.
A clock that would pass the renewal deadline of a healthy leader is a fault
(`late`): `config.py` refuses settings in which a renewal cannot come in time.

### Extraction, Spool, Screening

A page says what PDFium and RapidOCR, which are external, would return for it:
native runs, OCR boxes, rotation, area, ink, whether rendering fails. A text is a
sequence of tokens; a rule's pattern is a sequence of sets of tokens.
`Extraction` has `Boxes` (native, OCR or both, without the boxes the code takes
for duplicates), `Group` and `Tolerance2` (rows), what is rendered coarsely or refused, line
numbers and offsets. `Screening` has the engine: rules of line and of document scope, windows, context,
line limits, validators, masks, `Decide`, `Rederive` for the console's reveal and
`Message` for the syslog sink. The actions of a job are `Extract` (or its refusal,
crash or timeout), `ScanAll`, `Assess`, `Emit`. From there `Spool` takes the
event: live delivery, `Spool.append()` in its two steps, crashes, the operator's
confirmation, and any number of `replay-sink` drains, each with the list it took
at the start. No lock protects a spool, and none is modelled.

## Runs

| Run | Instance | Shows |
| --- | --- | --- |
| `operation_lock` | 3 threads, 2 processes, 3 inodes, 2 mutex objects, nesting depth 2 | typing, exclusion between all and between threads of one process, no leak in the table, refinement of `JobMutex`, return of non-blocking calls |
| `ingest_inline` | 1 content in 2 files; watcher, aged sweep, operator; 2 crashes, 1 operator call; verdicts archive or failed; a critical sink | typing, `CompletionAuditedOnce`, `IndexAudited`, `NeverLost` |
| `ingest_cluster` | 1 content in 2 files; claiming watcher, 2 sweepers, operator; 1 crash, 2 operator calls; verdicts that disagree; a critical sink | `ManifestHeld`, `DeliverOnce`, `NeverLost`, `VerdictKept`, `ReceiptFinal` |
| `ingest_fault` | 2 contents in 3 files; watcher and aged sweep; 1 crash; no operator | `CommitComplete`, `EventuallySettled`, `EventuallyClaimed` |
| `reassess` | 2 workers, 3 assessments, 1 purge, 1 death | `AuditedOnce`, `AssessmentAudited`, `PdfWhereRowSays`, `PurgeFinal`, `HistoryKept`, `NoUnattendedRelease` |
| `audit_trail` | 2 processes and one run of `verify()`, 3 days, 4 appends, 1 fault, retention of 0 days | `AlarmSeenAtSomeMoment`, `NoFalseAlarm`, `TrimExplained`, `RedactionAccounted`, `LossBounded`, refinement of `Ledger` |
| `watching` | 2 replicas, 1 name, 2 documents of 3 writes with companions, lease of 1 tick, 2 stable polls, 1 grace poll, 1 fault | `LeaderHoldsLease`, `OneClaimer`, `HalfWrittenOnlyAfterPause`, `CompanionWithItsDocument`, `EventuallyTaken` |
| `screening` | one job with any of 224 documents, or three jobs with a blank one; 4 rules; 2 drains; 1 fault | `ArchivedWasRead`, `RevealIsTheMatch`, `RowsTogether`, `SpoolLosesNothing`, `SpoolInOrder` |
| `uncertain_lost` | claim-only, a critical sink, no crash | finding: the record of an uncertain delivery is overwritten |
| `purge_undone` | inline, 1 crash, 1 operator call | finding: a resumed commit restores purged text |
| `torn_append` | as `audit_trail`, without the run of `verify()` | finding: the event after a torn line is lost too |
| `purge_overtaken` | as `reassess`, 2 assessments, no death | finding: a reindex restores purged text |

**Bounds.** Three threads are the fewest with a pair inside a process and a pair
across processes, two files of one content the fewest that meet as duplicates,
three inodes as many as three threads can tell apart at one time, four receipts
more than two files and two retries draw. Two crashes let a resumption be
interrupted itself. `MaxCrash` and `MaxCall` bound the faults and the operator's
calls, and nothing else of `IngestPipeline` is capped. In `Reassess` three
assessments give compaction two rows of its own to merge besides the first, and
let a release follow a reassessment. In `AuditTrail` three days give retention a
prefix of two partitions, four appends a redaction and its record beside the
retention's own events; the run does not check for deadlock, because days and
appends run out. In `Watching` two documents under one name are the fewest for a
companion or a tracked size to reach the wrong one, and three writes let a size
stand still between the first and the last. In `Screening` two pages are the
fewest with a match at a page's end, three boxes the fewest whose order and rows
can disagree; jobs end there, so it does not check for deadlock either.
`Reassess`, `AuditTrail`, `AuditVerify`, `Watching` have a type invariant that held on the same
instances and is kept in the module as the description of the state; those of
`Reassess` and `AuditTrail` are proved, and so is `PageIsNewest` of `AuditTrail`,
which no run has. The run of `audit_trail` follows a `verify()` only as long as the
trail verifies (`Judged`), which is what `AlarmSeenAtSomeMoment` is about.

**Symmetry.** Workers of `Reassess`, processes of `AuditTrail`, jobs and drains of
`Screening` are interchangeable, and no liveness is checked in these runs.
`Watching` checks liveness and uses none.

**What the properties leave out.** Where a property has an exemption, it is a
behaviour of the code that the run showed, and it is named:

- `run_job()` gives `job_lock()` up between its claim and its second acquisition
  (`pipeline.py:936-955`). Another worker may take the job there, and when it is
  interrupted in its commit the waiting one extracts again with a verdict of its
  own, or finds the index row and removes the staging directory with the rest of
  the commit undone. It takes that window and a fault beside it. So
  `CommitComplete` is checked with one crash and no operator, and `IndexAudited`
  with assessments that agree on where a document is filed. The comment at
  `pipeline.py:947-950` ("nothing could be mid-extraction on this job_id yet")
  overlooks the window. `ReceiptFinal` lets a finished receipt change into and out
  of "duplicate" for the same reason.
- A reassessment or a release that begins after another worker's transition has
  crashed, and before a recovery, overwrites the file of that transition
  (`reprocess.py:647`): its event is never appended (`dropped`), and its PDF may
  stay where the crash left it (`raced`).
- Reindex takes no lock. A rebuild may replace row 1 after a concurrent commit
  (`HistoryKept` speaks of the rows after it), or record a place that the PDF has
  left (`raced`).
- `PurgeFinal` is about a purge that nobody overtakes: a rebuild, a refresh, a
  reassessment or an ingest that has the text in memory when the purge begins may
  write it afterwards (`overtaken`). Finding 4 is that case, told for the rebuild
  and the refresh.
- `NoFalseAlarm` is about the trail at one moment, `AlarmSeenAtSomeMoment` about a run
  of `verify()` during which the trail verified at every moment. Neither covers a run
  during which a trim or a redaction is carried out: see the end of the findings.
- Two retention runs that overlap: the second moves the checkpoint and then fails
  on the directory that the first has removed; until the next run the trail is
  behind its checkpoint (`NoFalseAlarm` speaks of trails ahead of it). If the newest
  partition to be removed is there and nothing in it can be read, no checkpoint is
  written and older partitions go all the same (`hole`, from
  `audit.py:244-258`; a torn write makes it). The trail may then start without an
  explanation, and when it is gone altogether, numbers start again from the old
  checkpoint: a record of a redaction can name a later event with the same number.
  `TrimExplained` and the second half of `RedactionAccounted` speak of trails without
  such a hole. The run with one fault does not reach the double number; the attempt to
  prove the property did.
- `Watcher._tracked` survives the time a replica stands by, so a stale size could
  count as a stable one. It takes a missed deadline: a replica that stands by because
  a request failed has not lost the lease, so nobody else has watched meanwhile
  (`TrackInv`). A ready list is worked off without another look at the size or at the
  leader flag. What a missed deadline leads to is told at the end of the
  findings; `LeaderHoldsLease`,
  `OneClaimer` and the two properties of files are about the runs without one (`late`).
  A companion left by a crashed or failed claim is given to the next document of its
  name (`orphan`).
- An OCR box that covers most of a native run is taken for a duplicate of it, with
  the image text beside it that the box may also hold (`extract.py:243`), and native
  runs of fewer than `NATIVE_MIN_CHARS` characters in all give way to OCR:
  `ArchivedWasRead` speaks of what was read, boxes and runs.
- `SpoolInOrder` is about the list of one drain. Two drains, or a crash between a
  delivery and the removal of its entry, deliver twice (at least once is what the
  spool promises), and an entry's time is taken before it is written.

**Fairness** (`ingest_fault`, `operation_lock`, `watching`). Weak fairness of the
steps of a call that has started: extraction is killed at
`extraction.timeout_seconds`, the rest is local I/O. Weak fairness of the poll loop
for every file (`watcher.py:160-199` goes through all ready files at every poll).
Strong fairness of the sweep for every directory: each pass (`cli.py:610-622`)
visits all of them in order and meets a job that is sometimes, not always, locked.
In `Watching`, weak fairness of the election thread, the poll loop and the claims
of a running replica, of the restart of a stopped pod (a Deployment's task), of the
clock, and of a sender for a file it has begun. No fairness of crashes, operators,
companions, or callers who hold a lock: `NonBlockingReturns` holds although nobody
has to leave a with-block.

`Quiescent` is the state of `IngestPipeline` in which nobody is in a call; every
other state without a successor would be reported as a deadlock, and none is. That
also shows that the `raise` of `commit()` for an uncertain emit
(`pipeline.py:711-714`) is unreachable from its callers.

## Findings

1. **The record of an uncertain delivery is lost, and a receipt stays "received"**
   (`uncertain_lost`). `run_job()` looks at the index before it claims so that "an
   earlier job staged during an uncertain emit isn't overwritten"
   (`pipeline.py:899-900`); `stage()` claims without that look, and in claim-only mode
   the lock is free between a claim and the sweep. A second identical file replaces the
   manifest: the record is gone, and nothing names the first receipt any more. The
   comment at `pipeline.py:363-369` describes the latter as the bug that the lock in
   `claim()` prevents; it takes no uncertain emit, only the second file.
2. **A purge is undone** (`purge_undone`). A job whose commit crashed between its
   index row and the `stores` checkpoint can be purged; the sweep that resumes
   the commit writes the text again. `src/SECURITY.md:34` says that no recovery
   path puts purged content back.
3. **An acknowledged event is lost after a torn line** (`torn_append`). The module
   docstring of `durability.py` (3-5) says that an unclean shutdown costs the
   append-only files "at most the record in flight". `AuditLog.append()` writes
   its line directly after a torn one, readers skip the joined line, and the event
   whose append had returned is gone. `LossBounded` shows that it is one event per
   torn write, and `ImplementsLedger` that the chain stays linked.
4. **A reindex restores purged text** (`purge_overtaken`). `src/SECURITY.md:71-73`
   says that reindex "refuses to re-extract content for a job the trail records as
   purged, so a rebuild cannot reverse an erasure". `run()` asks the trail once
   (`reindex.py:157`) and extracts every missing document after that; the text of one
   that is purged meanwhile is written without another look and without the lock. The
   other half of `ErasureStands` fails too, with a longer trace: a reassessment in
   extract mode reads the document without the lock, and when the verdict is unchanged
   it stores the text (`reprocess.py:477`), also when a hard purge has removed text and
   PDF since, against `src/SECURITY.md:34`. That extract mode gives back what a soft
   purge took, from a PDF that is still there, is intended (`reprocess.py:470-476`) and
   not counted.

Three more disagreements are seen in the models, or beside them, and have no run:

- **Two replicas claim at once.** `leader.py:1` and `17-18`: "exactly one replica runs
  the drop-folder watch loop", "only the pod holding the Lease actually polls".
  `_is_leader` changes only when a tick ends, and nothing compares it with the time of
  the last renewal: a replica whose tick hangs past the lease's duration goes on with
  its list while another has taken the lease over. `OneWatchLoop` of `Watching` is that
  sentence; as an invariant of the instance of `watching` it fails, with the one fault
  spent on the missed deadline.
- **A trim is reported as a break.** `retention.py:15-18` writes the checkpoint first
  because "otherwise verify() would report an authorized trim as if it were tampering".
  `verify()` reads the checkpoint (`audit.py:576`) before it lists the partitions. A
  retention run that falls between the two makes it report the first event that is
  left, although the trail verifies before and after; `AuditVerify` has this behaviour,
  and it is why `AlarmSeenAtSomeMoment` asks for every moment of the run. The window is
  short: a partition removed after the list was made ends the run with an exception
  instead.
- **A released lease is not taken over at once.** The comment at `leader.py:220-223`
  says that clearing `holderIdentity` "lets the next candidate take over immediately".
  The release also sets `renewTime` to now, and a candidate takes over only a Lease
  that has expired, so it waits a full lease duration; the model's `Released` does the
  same.

## Proofs

All theorems hold for every value of the constants that satisfies the module's
one assumption (`ThreadAssumption`, `PipelineAssumption`, `ParameterAssumption`:
the constants have the expected kinds, and the "nobody" values are outside the
sets they belong to; `ScreeningProofs` uses none). Nothing bounds the number of
threads, workers, replicas, documents, drains, crashes or calls. Four theorems of
`IngestOutcomeProofs` have a hypothesis on the constants as well; the paragraph on
that module says which and why.

**`OperationLockProofs`.** `MutualExclusion` is not inductive: a thread owns the
lock because of what it saw two system calls earlier. The invariant `IInv` says
what that was. A caller past `flock()` has a file open (`OpenInv`) and holds its
flock (`FlockInv`); a caller past the inode check that has not deleted the
directory has open the file that the path names (`PathInv`), so two owners would
hold one flock; the directory is deleted only from inside (`DiscardInv`); a caller
has its entry of the table (`RefInv`), and an entry in the table has a user and
belongs to one process (`RegistryInv`), without which the use count could drop
below zero. `Refinement` shows that every step is a step of `JobMutex` or a
stutter: only `CheckSame` makes an owner, and it finds none (`CheckSameAcquires`);
every other step leaves the owner or takes it away (`OwnersShrink`).

`OneThreadPerProcess` and `NoEntryLeft` are about the table in front of the file. The
use count of an entry is exactly the number of calls that its process's threads are
in, nested ones included, so the entry is dropped with the last of them (`CountInv`,
over the finite set `Holdings`). So a caller refers to the entry that is in the table,
and from the mutex on owns it (`HolderInv`); when no thread is in a call the count
says that there is no entry.

**`IngestPipelineProofs`.** `TypeCorrect`. `TypeOK` alone is not inductive,
because a call that goes on to commit files the document under the verdict it
carries. `CarryInv` adds that every call has a document, that one that waits for
or begins a commit has a verdict, and that one past `Snapshot` has a verdict a
document is filed under. The proof has one step per action; the lemmas before it
say what `Goto`, `Leave`, `Return` and `WriteManifest` keep.

**`IngestSafetyProofs`.** `ManifestIsHeld` rests on `OwnInv` (every label inside a
`job_lock()` block implies ownership, every label of a commit also ownership of
the global lock and agreement of the manifest in memory with the one on disk) and
`BareInv` (without `manifest.json` there is nothing to read). The argument is a
frame: a step of one worker changes locks that were free or its own, and
manifests of documents whose lock it holds (`OwnStep`).

`AuditedOnce` adds `OnceInv`: a receipt not drawn yet is nowhere (`FreshInv`); one
drawn for a claim is nowhere but with its worker until `ClaimManifest` (`NewAt`);
when the trail has an event of the receipt in a manifest, the manifest has the
marker `audit_started` (`MarkedInv`), so `_completion_already_audited()` looks; and
a worker about to append has set the marker and found no event (`AppendAt`), which
stays true because nobody else commits the job (`OwnInv`). With two workers in one
commit, or with a claim that reuses a receipt, the invariant breaks.

**`IngestOutcomeProofs`.** What becomes of a document. The invariants are about who
writes a variable (`Writers`) and how a worker gets to a label, so that one lemma per
variable serves all steps.

- `DeliveredOnce`: a job is delivered at most once more than an operator has
  confirmed. `EmitInv`: nothing is delivered before the row is there; a manifest that
  was assessed and shows no trace of an emit has all its deliveries confirmed; and
  who is at the sinks has marked `emit_started` before. A crash between the delivery
  and the mark therefore leaves a job that no sweep delivers again.
- `NoneIsLost`, for one poll loop (`OneWatcher`): a daemon has one `Watcher`
  (`cli.py:627`), and replicas poll only as leader. With a second loop it is false:
  the second takes the file that the first is claiming for a duplicate of it, and
  removes it from the drop folder while the first has not copied it yet. `KeepInv`: a
  document of which the row or the mark `pdf` is there is filed or erased, so who
  removes a staging directory because of them loses nothing. `ArriveInv`: a worker has
  its document safe, or is the arrival that stages it and has not unlinked the source.
- `RowsAreAudited`, `FirstVerdictStands` and `FinishedReceiptStands` assume that the
  watcher only stages (`ClaimOnly`), or that assessments of one document agree on where
  it is filed (`FilingAgreed`; for the receipts, on failure too: `VerdictAgreed`).
  An inline job gives its lock up between its claim and its commit, and a sweep that
  takes it in this window assesses it too; two verdicts would then mix in one manifest.
  Extraction and rules are deterministic as long as the configuration is not changed,
  which is what the second alternative says; under `cluster.parallel_extraction` the
  first alternative holds whatever the assessments do. `IssuedInv` says that no two
  jobs share a receipt, `RangeInv` that every verdict on record is one an assessment
  may reach, and `FitInv` that with `ClaimOnly` the PDF, the event, the row and the
  receipt have the verdict of the manifest.

**`ReassessProofs`.** All arguments start from `Typed`: `TypeOK` with the types of
what a worker has read, and with the fact that a recorded transition is complete.
`LockKept` and `TypedAfter` say what a step of one worker has to leave in order;
there is one lemma per group of actions. None of the six properties is inductive,
and each has its own invariant.

- `ReleasedByHand` needs `MoveInv`: the transition of a reassessment names as its
  destination quarantine or the place where the PDF already is. The PDF is moved by
  the transition on disk, perhaps much later and by another process, so it is the
  record and not the writer that has to be right.
- `PurgeIsFinal` needs `PurgeInv`: text older than the last purge can be in the
  store or in a transition only until the purge has reached that place, and once it
  has passed, a transition carried out has no such text any more, and whoever else
  brings some back, from memory, is noted as having overtaken the purge.
- `NothingRewritten` needs `RowsInv`: rows with one number agree, the numbers have
  no gap, a compaction has the merged copy of every file it will remove, and a
  recorded transition is for the number after one that is there. `RowsStep` shows
  that a step then only adds first rows, copies and the next assessment. The
  greatest sequence number (`CurrentIsGreatest`) exists because the numbers are
  bounded; `Least` and `Greatest` derive that from the well-foundedness of finite
  subsets, the induction theorems being out of reach.
- `EventsOnce` and `EventsComplete` rest on `RowsInv` and need `AuditAt`: a writer
  that has just recorded a transition knows that its number is not audited
  (`NextNumber`: no row has it, so by `AuditedOnce` no event has); the row is there
  before the event; the event is there before the transition goes. `AuditOthers`
  shows that nobody else can disturb this, because who writes the transition or the
  trail has the lock.
- `PdfInPlace` needs `PlaceInv`, which says where the PDF is at every moment, unless
  transitions raced (`raced`): without a transition, where the row of the greatest
  number says, from whichever file it is read (`AtRest`); with one, at one of its two
  ends (`OnTheMove`); who carries it out has moved the PDF before anything else
  (`Moved`); and the assessment somebody is about to write was read from a row that is
  still there (`Judged`). `PdfStep` lists how a step can change the set of places,
  `RacedWrite` when a write makes a race.

**`WatchingProofs`.** `LeaderHoldsLease` and `OneClaimer` follow from one invariant,
`ElectionInv`. A replica *needs* the lease when it leads or still has files to claim
(`Needs`). `InTime` says that without a missed deadline the lease names every such
replica and has not run out, and that no request is older than a lease lasts, since
an accepted request sets the renewal time it was made with. `Sound` says what a
request whose version is still current was decided on: no lease, the replica's own,
or one that had run out. `ServeStep` puts the two together: if a write to the lease
is accepted, nobody else needed the lease, and all other requests are stale.

`HalfWrittenPaused` adds three invariants on top. Sizes are remembered only by who
holds the lease (`TrackInv`); what is remembered of a file is no more than there is of
it, and as long as it has that size, no longer than it has paused (`SizeInv`); so a
file on a list that is still half-written has paused long enough. While one replica
claims or polls, the others have nothing on their lists (`Alone`). An exception that
the property made at first, for a replica that came back to what it remembered, turned
out to be unnecessary.

`CompanionGoesAlong` needs `CompanionInv`, for every name that no crash has left a
companion under: the companion in the folder came for the document there, or for the
one whose claim is about to take it (`OfItsDocument`); a document whose companion came
still has it (`StillThere`); and a list or a claim knows whether one came
(`KnownToList`, `KnownToClaim`).

**`ScreeningProofs`.** `SpoolLosesNothing` needs what a drain relies on between a
delivery and the removal of the entry: the collector has the event of the entry's
job (`SpoolInv`). Then it does not matter who else removes entries or sets them aside.
`SpoolOrder` adds what a drain has behind it: every entry of its list that it has
dealt with is with the collector or set aside (`Behind`), which nobody takes back; and
it works off the oldest entry that is left, so that all older ones are behind it. What
happens before the emit phase does not matter, so both theorems hold for all
documents, rules and limits.

**`AuditTrailProofs`.** One invariant, `Base`, is inductive and carries all
properties; each of them then needs one or two more that are inductive relative to it.

- `Typed`: types, no two lines with one number, and a redaction between its read and
  its rewrite has in hand what is in its partition, because it holds the lock and
  retention can only take the whole of it.
- `Ordered`: lines are in the order of the days, and nobody is about to write to a day
  before the newest partition. The clock may pass midnight during a write; the next one
  waits for the lock.
- `Planned`: the plan of a retention run has every partition older than one in it,
  nothing removed comes back, and after the announcement, which is itself an append,
  nobody writes to a day of the plan any more.
- `Chained`: events have rising numbers and each but the first names its predecessor
  (`Linked`); the checkpoint is one of them or behind them all, and what it covers is
  out of the writers' reach (`Sealed`); what a writer has read is still the end, or
  retention has taken everything and the checkpoint is that end (`Tails`); and a
  removal takes nothing the checkpoint does not cover (`Covered`, without a hole).

`TrimsExplained` follows the first event (`Front`): it is new, or retention made it the
first by taking what the checkpoint covers. `PagesAreNewest` is a lemma about any state
in `Base`: numbers rise with the writes, so what the early stop has not opened cannot
be on the page (`PageOfChain`). `LossesBounded` counts: every cut write pays for the
unended line it may leave, and that line for the one event that is later joined to it
(`Losses`; no acknowledged event is in an unended line). `RedactionsAccounted` has two
halves. A record names an emptied event before it (`Recorded`), which needs that a
redaction still to be explained is of an event that no append can tear away and no
number can be given again (`Owing`). An emptied event has a record, is owed one, or was
cut off from it (`Accounted`): a trim that takes the record has taken the event before
it. `NoFalseAlarms` adds that without a torn write every line is whole and every
partition has one, so there is no hole (`Whole`); then each event's predecessor is the
line read before it, or the checkpoint (`ChainUnbroken`). `LedgerImplemented` maps every
step to a step of `Ledger` or a stutter (`LedgerWrite`, `LedgerCheckpoint`,
`LedgerRemove`).

Liveness stays with TLC: TLAPS, as used here, does not reason about `ENABLED`
and fairness.

## Only model-checked

- Liveness: `NonBlockingReturns` of `OperationLock`, `EventuallySettled` and
  `EventuallyClaimed` of `IngestPipeline`, `EventuallyTaken` of `Watching`.
- `CommitComplete` of `IngestPipeline`. It holds with one crash and no operator: with
  more, a staging directory can be removed with the rest of a commit undone (see
  above). Its argument counts crashes, and there is no invariant that does not.
- `ArchivedWasRead`, `RevealIsTheMatch` and `RowsTogether` of `Screening`: what folds
  over lines and characters compute, which would take induction over the data.

## Not modelled, and why

- `reject_at_claim()`: a file refused at claim has no content hash and a life of
  its own in `failed/`. The check of a staged PDF against its directory's name,
  receipt metadata and the manifest's second write with it.
- Audit events other than those named above; `integrity: none`; clocks that go back;
  edits of the trail by anybody but the program (what `verify()` would detect is
  not asked, only that it does not cry wolf).
- The inside of `write_atomically()`, `atomic_write()` and `copy_durably()`: each is
  one step, the old file or the new one. `rmtree` of `failed/<job_id>` is one step;
  `rmtree` of the staging directory is not, because claims race it.
- Retention of the stores other than the audit trail: the same loop without a
  checkpoint, over partitions nobody writes to any more.
- The arithmetic of validators, the keyed digest, loading of rulesets, image
  conversion, PDF metadata, OCR confidence: data that no property tells apart.
- Signatures, redirects and retries of the HTTP sinks, the plugin loader and the
  effect of enrich plugins on a job.
- Sessions, the login throttle, OIDC, roles, CSRF and page rendering of the
  console, search, tracing, the Helm chart: no state in common with the document
  stores. Configuration appears as the constants of the modules.

No module that a proof uses declares a `RECURSIVE` operator.
