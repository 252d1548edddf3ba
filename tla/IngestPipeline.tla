--------------------------- MODULE IngestPipeline ---------------------------
(***************************************************************************)
(* The life of a document in src/dlpduck/pipeline.py, from the drop folder *)
(* through _processing/<job_id>/ to the archive, quarantine or failed      *)
(* folder, and the operator's queue of src/dlpduck/failures.py beside it.  *)
(*                                                                         *)
(* A worker is one thread of the daemon or of the console.  The steps of a *)
(* call are its durable writes: one action per file that is created,       *)
(* replaced or removed, so that a crash (or an exception) can come between *)
(* any two of them and another worker can run there.  job_lock() and the   *)
(* @serialized lock are JobMutex locks (OperationLock shows that they are):*)
(* deleting the lock directory ends the ownership of job_lock().  Every    *)
(* worker has a process of its own; threads that share one are excluded    *)
(* from more interleavings, never from fewer.                              *)
(***************************************************************************)
EXTENDS Naturals, Sequences, FiniteSets

CONSTANTS
  Doc,        \* contents; a document's job_id is the hash of its content
  File,       \* files that arrive in the drop folder
  DocOf,      \* the content of each file
  Verdicts,   \* the verdicts that assessments of each content may reach
  Watcher,    \* poll loops (the leader's)
  Sweeper,    \* threads that run resume_staged()
  Operator,   \* console or CLI users who retry, resolve and purge
  Receipt,    \* receipt ids (uuid4 in the code)
  ClaimOnly,  \* cluster.parallel_extraction: the watcher only stages
  SweepAged,  \* the sweep leaves directories alone that a call may be working on
  CriticalSink, \* an emit plugin that is critical may raise
  MaxCrash,   \* bound on crashes and unexpected exceptions
  MaxCall,    \* bound on operator calls
  Nobody, NoReceipt, NoDoc, NoFile

Worker == Watcher \cup Sweeper \cup Operator
Filing == {"archive", "quarantine"}
Outcome == Filing \cup {"failed"}
Step == {"assessed", "pdf", "audit_started", "audit", "stores", "emit_started",
         "emitted"}
Entry == {"dir", "man", "pdf", "res"}
Status == {"unused", "issued", "received", "duplicate"} \cup Outcome
CallOp == {"none", "run", "stage", "sweep", "retry_staged", "retry_failed",
           "resolve_staged", "resolve_failed", "purge", "hard_purge"}

ASSUME PipelineAssumption ==
  /\ DocOf \in [File -> Doc]
  /\ Verdicts \in [Doc -> SUBSET Outcome]
  /\ Nobody \notin Worker /\ NoReceipt \notin Receipt
  /\ NoDoc \notin Doc /\ NoFile \notin File
  /\ ClaimOnly \in BOOLEAN /\ SweepAged \in BOOLEAN /\ CriticalSink \in BOOLEAN
  /\ MaxCrash \in Nat /\ MaxCall \in Nat

VARIABLES
  drop,      \* the files in the drop folder
  staged,    \* _processing/<job_id>/: its entries and its manifest
  failed,    \* failed/<job_id>/: entries
  filed,     \* the roots that hold the document's PDF
  index,     \* disposition of the first index row, or "none"
  text,      \* whether the content store holds the document's text
  receipt,   \* status of each receipt; "issued" is drawn but not stored yet
  trail,     \* the job.completed events of each job, in order
  delivered, \* how often the emit phase has run for each job
  confirmed, \* how often an operator accepted a possible second delivery
  erased,    \* what purges of each job have deleted
  jobLock,   \* owner of job_lock(job_id)
  mainLock,  \* owner of the @serialized lock
  pc, job,   \* where each worker is, and what it carries in memory
  crashes, calls

disk    == <<drop, staged, failed, filed, index, text>>
record  == <<receipt, trail, delivered, confirmed, erased>>
lock    == <<jobLock, mainLock>>
control == <<pc, job>>
bound   == <<crashes, calls>>
vars    == <<disk, record, lock, control, bound>>

Manifest == [rcpt : Receipt \cup {NoReceipt}, steps : SUBSET Step,
             assessed : Outcome \cup {"none"}]
Opened(r) == [rcpt |-> r, steps |-> {}, assessed |-> "none"]
Blank == Opened(NoReceipt)
Staging == [has : SUBSET Entry, man : Manifest]
CallRecord == [op : CallOp, doc : Doc \cup {NoDoc}, file : File \cup {NoFile},
               man : Manifest, disp : Outcome \cup {"none"}, rm : SUBSET Entry]
CallWith(op, d, f, r, disp) == [op |-> op, doc |-> d, file |-> f, disp |-> disp,
                                man |-> Opened(r), rm |-> {}]
NewCall(op, d, f) == CallWith(op, d, f, NoReceipt, "none")
NoCall == NewCall("none", NoDoc, NoFile)

CommitPc == {"snapshot", "copy_pdf", "mark_pdf", "audit", "audit_append",
             "mark_audit", "stores", "write_text", "mark_stores", "emit",
             "deliver", "mark_emitted", "finish_receipt", "drop_failed"}
FailPc == {"failed_pdf", "failed_meta"}
RemovePc == {"list", "remove", "list_dup", "remove_dup"}
PcStates == {"idle", "claim", "write_manifest", "write_pdf", "unlink_source",
             "write_receipt", "relock", "dup", "dup_finish", "dup_unlink",
             "finish", "wait_main", "sweep_lock", "resume", "retry_confirm",
             "retry_unresolve", "retry_check", "retry_done", "resolve",
             "purge_text", "purge_pdf", "purge_end"}
            \cup CommitPc \cup FailPc \cup RemovePc

TypeOK ==
  /\ drop \subseteq File
  /\ staged \in [Doc -> Staging]
  /\ failed \in [Doc -> SUBSET {"dir", "pdf", "meta", "res"}]
  /\ filed \in [Doc -> SUBSET Filing]
  /\ index \in [Doc -> Filing \cup {"none"}]
  /\ text \in [Doc -> BOOLEAN]
  /\ receipt \in [Receipt -> Status]
  /\ trail \in [Doc -> Seq([rcpt : Receipt \cup {NoReceipt}, disp : Filing])]
  /\ delivered \in [Doc -> Nat]
  /\ confirmed \in [Doc -> Nat]
  /\ erased \in [Doc -> SUBSET {"text", "pdf"}]
  /\ jobLock \in [Doc -> Worker \cup {Nobody}]
  /\ mainLock \in Worker \cup {Nobody}
  /\ pc \in [Worker -> PcStates]
  /\ job \in [Worker -> CallRecord]
  /\ crashes \in 0..MaxCrash
  /\ calls \in 0..MaxCall

Init ==
  /\ drop = File
  /\ staged = [d \in Doc |-> [has |-> {}, man |-> Blank]]
  /\ failed = [d \in Doc |-> {}]
  /\ filed = [d \in Doc |-> {}]
  /\ index = [d \in Doc |-> "none"]
  /\ text = [d \in Doc |-> FALSE]
  /\ receipt = [r \in Receipt |-> "unused"]
  /\ trail = [d \in Doc |-> <<>>]
  /\ delivered = [d \in Doc |-> 0]
  /\ confirmed = [d \in Doc |-> 0]
  /\ erased = [d \in Doc |-> {}]
  /\ jobLock = [d \in Doc |-> Nobody]
  /\ mainLock = Nobody
  /\ pc = [w \in Worker |-> "idle"]
  /\ job = [w \in Worker |-> NoCall]
  /\ crashes = 0
  /\ calls = 0

-----------------------------------------------------------------------------
(* Helpers.                                                                *)

Goto(w, label) == pc' = [pc EXCEPT ![w] = label]

\* The staging directory s with new entries, and without some.
Filled(s, new) == [has |-> s.has \cup new, man |-> s.man]
Emptied(s, gone) == [has |-> s.has \ gone,
                     man |-> IF "man" \in gone THEN Blank ELSE s.man]

\* Variant: the outcome of an interrupted emit is taken for a failure.
UncertainNever(m) == FALSE

Uncertain(m) == "emit_started" \in m.steps /\ "emitted" \notin m.steps

\* write_atomically(manifest.json) of the manifest the worker has in memory.
WriteManifest(w, m) ==
  /\ staged' = [staged EXCEPT ![job[w].doc] =
                   [has |-> @.has \cup {"dir", "man"}, man |-> m]]
  /\ job' = [job EXCEPT ![w].man = m]

Checkpoint(w, step) ==
  WriteManifest(w, [job[w].man EXCEPT !.steps = @ \cup {step}])

\* finish_receipt(): a receipt that was never stored is left alone.
Finish(r, status) ==
  receipt' = IF r = NoReceipt THEN receipt
             ELSE IF receipt[r] \in {"unused", "issued"} THEN receipt
             ELSE [receipt EXCEPT ![r] = status]

\* Where the caller of a pipeline call continues: the operator's retry holds
\* job_lock() around the calls it makes, everybody else leaves its block.
Outer(op) == CASE op = "retry_staged" -> "retry_check"
               [] op = "retry_failed" -> "retry_done"
               [] OTHER -> "idle"

\* The locks after the worker has left every block it is in.
Unlocked(w) == [d \in Doc |-> IF jobLock[d] = w THEN Nobody ELSE jobLock[d]]
MainUnlocked(w) == IF mainLock = w THEN Nobody ELSE mainLock

\* The call is over for good: returned, or ended by an exception or a crash.
Leave(w) ==
  /\ Goto(w, "idle")
  /\ job' = [job EXCEPT ![w] = NoCall]
  /\ jobLock' = Unlocked(w)
  /\ mainLock' = MainUnlocked(w)

\* The innermost call returns to its caller, who keeps what is left in locks.
Return(w, locks) ==
  IF Outer(job[w].op) = "idle"
  THEN Leave(w)
  ELSE /\ Goto(w, Outer(job[w].op))
       /\ jobLock' = locks
       /\ mainLock' = MainUnlocked(w)
       /\ UNCHANGED job

\* Every claim and every recorded duplicate draws a fresh receipt id; it is
\* drawn here when the call starts, and stored where the code stores it.
Begin(w, op, d, f, disp) ==
  /\ \E r \in Receipt : receipt[r] = "unused"
  /\ LET r == CHOOSE r \in Receipt : receipt[r] = "unused" IN
       /\ receipt' = [receipt EXCEPT ![r] = "issued"]
       /\ job' = [job EXCEPT ![w] = CallWith(op, d, f, r, disp)]

At(w, label) == pc[w] = label
D(w) == job[w].doc

\* What the worker reads from manifest.json when there is none.
OnDisk(d) == IF "man" \in staged[d].has THEN staged[d].man ELSE Blank

-----------------------------------------------------------------------------
(* Arrival: run_job(), stage(), claim().                                   *)

\* Variant: run_job() claims without a look at the index.
StartRunUnchecked(w, f) ==
  /\ ~ClaimOnly
  /\ At(w, "idle") /\ f \in drop
  /\ Begin(w, "run", DocOf[f], f, "none")
  /\ Goto(w, "claim")
  /\ UNCHANGED <<disk, trail, delivered, confirmed, erased, lock, bound>>

\* run_job(): an arrival of content that is already indexed is not claimed.
StartRun(w, f) ==
  LET d == DocOf[f] IN
  /\ ~ClaimOnly
  /\ At(w, "idle") /\ f \in drop
  /\ Begin(w, "run", d, f, index[d])
  /\ Goto(w, IF index[d] = "none" THEN "claim" ELSE "dup")
  /\ UNCHANGED <<disk, trail, delivered, confirmed, erased, lock, bound>>

\* stage(): claim and stop; the sweep does the rest.
StartStage(w, f) ==
  /\ ClaimOnly
  /\ At(w, "idle") /\ f \in drop
  /\ Begin(w, "stage", DocOf[f], f, "none")
  /\ Goto(w, "claim")
  /\ UNCHANGED <<disk, trail, delivered, confirmed, erased, lock, bound>>

\* job_lock(blocking=False); a retry that calls run_job() already holds it.
ClaimLock(w) ==
  /\ At(w, "claim")
  /\ jobLock[D(w)] \in {Nobody, w}
  /\ jobLock' = [jobLock EXCEPT ![D(w)] = w]
  /\ Goto(w, "write_manifest")
  /\ UNCHANGED <<disk, record, mainLock, job, bound>>

ClaimContended(w) ==
  /\ At(w, "claim")
  /\ jobLock[D(w)] \notin {Nobody, w}
  /\ Goto(w, "dup")
  /\ UNCHANGED <<disk, record, lock, job, bound>>

\* Variant: the source goes before the bytes are staged.
ClaimManifestMove(w) ==
  /\ At(w, "write_manifest")
  /\ WriteManifest(w, Opened(job[w].man.rcpt))
  /\ drop' = drop \ {job[w].file}
  /\ Goto(w, "write_pdf")
  /\ UNCHANGED <<failed, filed, index, text, record, lock, bound>>

\* Whatever manifest the directory held is replaced.
ClaimManifest(w) ==
  /\ At(w, "write_manifest")
  /\ WriteManifest(w, Opened(job[w].man.rcpt))
  /\ Goto(w, "write_pdf")
  /\ UNCHANGED <<drop, failed, filed, index, text, record, lock, bound>>

ClaimPdf(w) ==
  /\ At(w, "write_pdf")
  /\ staged' = [staged EXCEPT ![D(w)] = Filled(@, {"pdf"})]
  /\ Goto(w, "unlink_source")
  /\ UNCHANGED <<drop, failed, filed, index, text, record, lock, job, bound>>

UnlinkSource(w) ==
  /\ At(w, "unlink_source")
  /\ drop' = drop \ {job[w].file}
  /\ Goto(w, "write_receipt")
  /\ UNCHANGED <<staged, failed, filed, index, text, record, lock, job, bound>>

\* The receipt is stored and the block of claim()'s job_lock() ends; stage()
\* returns here, run_job() goes on to take the lock again.
ClaimReceipt(w) ==
  /\ At(w, "write_receipt")
  /\ receipt' = [receipt EXCEPT ![job[w].man.rcpt] = "received"]
  /\ IF job[w].op = "stage"
     THEN Leave(w)
     ELSE /\ Goto(w, "relock")
          /\ jobLock' = IF job[w].op = "run" THEN Unlocked(w) ELSE jobLock
          /\ UNCHANGED <<job, mainLock>>
  /\ UNCHANGED <<disk, trail, delivered, confirmed, erased, bound>>

Relock(w) ==
  /\ At(w, "relock")
  /\ jobLock[D(w)] \in {Nobody, w}
  /\ jobLock' = [jobLock EXCEPT ![D(w)] = w]
  /\ Goto(w, "finish")
  /\ UNCHANGED <<disk, record, mainLock, job, bound>>

-----------------------------------------------------------------------------
(* _record_duplicate_arrival().                                            *)

DupReceipt(w) ==
  /\ At(w, "dup")
  /\ receipt' = [receipt EXCEPT ![job[w].man.rcpt] = "received"]
  /\ Goto(w, "dup_finish")
  /\ UNCHANGED <<disk, trail, delivered, confirmed, erased, lock, job, bound>>

DupFinish(w) ==
  /\ At(w, "dup_finish")
  /\ Finish(job[w].man.rcpt, "duplicate")
  /\ Goto(w, "dup_unlink")
  /\ UNCHANGED <<disk, trail, delivered, confirmed, erased, lock, job, bound>>

\* Variant: a duplicate's source stays in the drop folder.
DupUnlinkNot(w) ==
  /\ At(w, "dup_unlink")
  /\ Return(w, jobLock)
  /\ UNCHANGED <<disk, record, bound>>

DupUnlink(w) ==
  /\ At(w, "dup_unlink")
  /\ drop' = drop \ {job[w].file}
  /\ Return(w, jobLock)
  /\ UNCHANGED <<staged, failed, filed, index, text, record, bound>>

-----------------------------------------------------------------------------
(* _finish_staged() and process().                                         *)

FinishDuplicate(w) ==
  /\ At(w, "finish")
  /\ index[D(w)] # "none"
  /\ Finish(OnDisk(D(w)).rcpt, "duplicate")
  /\ job' = [job EXCEPT ![w].disp = index[D(w)]]
  /\ Goto(w, "list_dup")
  /\ UNCHANGED <<disk, trail, delivered, confirmed, erased, lock, bound>>

\* Variant: _finish_staged() does not look at the index.
ProcessAgain(w) ==
  /\ At(w, "finish")
  /\ "pdf" \in staged[D(w)].has
  /\ \E o \in Verdicts[D(w)] : job' = [job EXCEPT ![w].disp = o]
  /\ Goto(w, "wait_main")
  /\ UNCHANGED <<disk, record, lock, bound>>

\* Extraction and scan.  One document may be judged differently the next time:
\* the rules have been edited, or extraction timed out.
Process(w) ==
  /\ At(w, "finish")
  /\ index[D(w)] = "none" /\ "pdf" \in staged[D(w)].has
  /\ \E o \in Verdicts[D(w)] : job' = [job EXCEPT ![w].disp = o]
  /\ Goto(w, "wait_main")
  /\ UNCHANGED <<disk, record, lock, bound>>

\* Another worker finished (and failed) the job between this one's claim and
\* its second job_lock(): read_bytes() raises.
FinishLost(w) ==
  /\ At(w, "finish")
  /\ index[D(w)] = "none" /\ "pdf" \notin staged[D(w)].has
  /\ Leave(w)
  /\ UNCHANGED <<disk, record, bound>>

-----------------------------------------------------------------------------
(* commit() and commit_failed().                                           *)

Committing == <<drop, failed, index, text, filed, record, lock, bound>>

TakeMain(w) ==
  /\ At(w, "wait_main")
  /\ mainLock = Nobody
  /\ mainLock' = w
  /\ job' = [job EXCEPT ![w].man = OnDisk(D(w))]
  /\ Goto(w, "snapshot")
  /\ UNCHANGED <<disk, record, jobLock, bound>>

\* Variant: a failed job is committed like any other.
SnapshotAny(w) ==
  /\ At(w, "snapshot")
  /\ IF job[w].man.assessed = "none"
     THEN WriteManifest(w, [job[w].man EXCEPT !.assessed = job[w].disp,
                                              !.steps = @ \cup {"assessed"}])
     ELSE UNCHANGED <<staged, job>>
  /\ Goto(w, "copy_pdf")
  /\ UNCHANGED Committing

Snapshot(w) ==
  /\ At(w, "snapshot")
  /\ IF job[w].man.assessed = "none"
     THEN WriteManifest(w, [job[w].man EXCEPT !.assessed = job[w].disp,
                                              !.steps = @ \cup {"assessed"}])
     ELSE UNCHANGED <<staged, job>>
  /\ Goto(w, IF job[w].disp = "failed" THEN "failed_pdf" ELSE "copy_pdf")
  /\ UNCHANGED Committing

\* A step that the manifest records as done is passed over.
SkipDone(w) ==
  /\ \E s \in {<<"copy_pdf", "pdf", "audit">>, <<"stores", "stores", "emit">>,
                <<"emit", "emitted", "finish_receipt">>} :
       /\ At(w, s[1]) /\ s[2] \in job[w].man.steps
       /\ Goto(w, s[3])
  /\ UNCHANGED <<staged, job>> /\ UNCHANGED Committing

\* The checkpoint that closes a step.
Mark(w) ==
  /\ \E s \in {<<"mark_pdf", "pdf", "audit">>, <<"mark_audit", "audit", "stores">>,
                <<"mark_stores", "stores", "emit">>,
                <<"mark_emitted", "emitted", "finish_receipt">>} :
       /\ At(w, s[1])
       /\ Checkpoint(w, s[2])
       /\ Goto(w, s[3])
  /\ UNCHANGED Committing

CopyPdf(w) ==
  /\ At(w, "copy_pdf") /\ "pdf" \notin job[w].man.steps
  /\ filed' = [filed EXCEPT ![D(w)] = @ \cup {job[w].disp}]
  /\ Goto(w, "mark_pdf")
  /\ UNCHANGED <<drop, staged, failed, index, text, record, lock, job, bound>>

\* Variants: the trail is never read; the marker is believed without it.
AlreadyAuditedNever(w) == FALSE
AlreadyAuditedByMarker(w) == "audit_started" \in job[w].man.steps

\* _completion_already_audited(): the trail is read only after audit_started.
AlreadyAudited(w) ==
  LET m == job[w].man IN
  /\ m.rcpt # NoReceipt /\ "audit_started" \in m.steps
  /\ \E i \in DOMAIN trail[D(w)] : trail[D(w)][i].rcpt = m.rcpt

AuditKnown(w) ==
  /\ At(w, "audit")
  /\ "audit" \in job[w].man.steps \/ AlreadyAudited(w)
  /\ Checkpoint(w, "audit")
  /\ Goto(w, "stores")
  /\ UNCHANGED Committing

AuditStart(w) ==
  /\ At(w, "audit")
  /\ "audit" \notin job[w].man.steps /\ ~AlreadyAudited(w)
  /\ Checkpoint(w, "audit_started")
  /\ Goto(w, "audit_append")
  /\ UNCHANGED Committing

AuditAppend(w) ==
  /\ At(w, "audit_append")
  /\ trail' = [trail EXCEPT ![D(w)] =
                 Append(@, [rcpt |-> job[w].man.rcpt, disp |-> job[w].disp])]
  /\ Goto(w, "mark_audit")
  /\ UNCHANGED <<disk, receipt, delivered, confirmed, erased, lock, job, bound>>

WriteIndex(w) ==
  /\ At(w, "stores") /\ "stores" \notin job[w].man.steps
  /\ index' = [index EXCEPT ![D(w)] = job[w].disp]
  /\ Goto(w, "write_text")
  /\ UNCHANGED <<drop, staged, failed, filed, text, record, lock, job, bound>>

WriteText(w) ==
  /\ At(w, "write_text")
  /\ text' = [text EXCEPT ![D(w)] = TRUE]
  /\ Goto(w, "mark_stores")
  /\ UNCHANGED <<drop, staged, failed, filed, index, record, lock, job, bound>>

\* commit() raises when the outcome of an earlier emit is uncertain; the
\* callers never get here with such a manifest, so no worker stops here.
EmitStart(w) ==
  /\ At(w, "emit") /\ "emitted" \notin job[w].man.steps
  /\ ~Uncertain(job[w].man)
  /\ Checkpoint(w, "emit_started")
  /\ Goto(w, "deliver")
  /\ UNCHANGED Committing

Deliver(w) ==
  /\ At(w, "deliver")
  /\ delivered' = [delivered EXCEPT ![D(w)] = @ + 1]
  /\ Goto(w, "mark_emitted")
  /\ UNCHANGED <<disk, receipt, trail, confirmed, erased, lock, job, bound>>

\* A critical plugin raises after it may have delivered: staging is kept.
DeliverFails(w) ==
  /\ CriticalSink
  /\ At(w, "deliver")
  /\ delivered' = [delivered EXCEPT ![D(w)] = @ + 1]
  /\ Leave(w)
  /\ UNCHANGED <<disk, receipt, trail, confirmed, erased, bound>>

FailPdf(w) ==
  /\ At(w, "failed_pdf")
  /\ failed' = [failed EXCEPT ![D(w)] = @ \cup {"dir", "pdf"}]
  /\ Goto(w, "failed_meta")
  /\ UNCHANGED <<drop, staged, filed, index, text, record, lock, job, bound>>

FailMeta(w) ==
  /\ At(w, "failed_meta")
  /\ failed' = [failed EXCEPT ![D(w)] = @ \cup {"meta"}]
  /\ Goto(w, "finish_receipt")
  /\ UNCHANGED <<drop, staged, filed, index, text, record, lock, job, bound>>

FinishReceipt(w) ==
  /\ At(w, "finish_receipt")
  /\ Finish(job[w].man.rcpt, job[w].disp)
  /\ Goto(w, IF job[w].disp = "failed" THEN "list" ELSE "drop_failed")
  /\ UNCHANGED <<disk, trail, delivered, confirmed, erased, lock, job, bound>>

\* A failure that this commit supersedes goes, resolved or not.
DropFailed(w) ==
  /\ At(w, "drop_failed")
  /\ failed' = [failed EXCEPT ![D(w)] = {}]
  /\ Goto(w, "list")
  /\ UNCHANGED <<drop, staged, filed, index, text, record, lock, job, bound>>

\* rmtree(staging_dir): list the directory, remove what was listed in any
\* order, remove the directory (which fails, unnoticed, when it has got a new
\* entry meanwhile).  commit() and commit_failed() then discard the lock
\* directory, which ends their ownership of job_lock().
ListStaging(w) ==
  /\ pc[w] \in {"list", "list_dup"}
  /\ job' = [job EXCEPT ![w].rm = staged[D(w)].has \ {"dir"}]
  /\ Goto(w, IF At(w, "list") THEN "remove" ELSE "remove_dup")
  /\ UNCHANGED <<disk, record, lock, bound>>

RemoveEntry(w) ==
  /\ pc[w] \in {"remove", "remove_dup"}
  /\ \E e \in job[w].rm :
       /\ staged' = [staged EXCEPT ![D(w)] = Emptied(@, {e})]
       /\ job' = [job EXCEPT ![w].rm = @ \ {e}]
  /\ UNCHANGED <<drop, failed, filed, index, text, record, lock, pc, bound>>

RemoveDir(w) ==
  /\ pc[w] \in {"remove", "remove_dup"}
  /\ job[w].rm = {}
  /\ staged' = [staged EXCEPT ![D(w)] = IF @.has = {"dir"} THEN Emptied(@, {"dir"})
                                                        ELSE @]
  /\ Return(w, IF At(w, "remove") THEN Unlocked(w) ELSE jobLock)
  /\ UNCHANGED <<drop, failed, filed, index, text, record, bound>>

-----------------------------------------------------------------------------
(* resume_staged() and _resume_one().                                      *)

\* Variant: the sweep takes only jobs that nobody has assessed.
StartSweepFresh(w, d) ==
  /\ At(w, "idle")
  /\ SweepAged => \A v \in Worker : D(v) # d
  /\ {"dir", "pdf"} \subseteq staged[d].has /\ "res" \notin staged[d].has
  /\ OnDisk(d).assessed = "none"
  /\ job' = [job EXCEPT ![w] = NewCall("sweep", d, NoFile)]
  /\ Goto(w, "sweep_lock")
  /\ UNCHANGED <<disk, record, lock, bound>>

\* The look at the directory, before its lock is asked for.  min_age_seconds
\* is longer than any call on the job can take; it is 0 for the sweep of
\* parallel_extraction and for the one at startup.
StartSweep(w, d) ==
  /\ At(w, "idle")
  /\ SweepAged => \A v \in Worker : D(v) # d
  /\ {"dir", "pdf"} \subseteq staged[d].has /\ "res" \notin staged[d].has
  /\ job' = [job EXCEPT ![w] = NewCall("sweep", d, NoFile)]
  /\ Goto(w, "sweep_lock")
  /\ UNCHANGED <<disk, record, lock, bound>>

\* Variant: the sweep does not ask who holds the lock.
SweepLockUnchecked(w) ==
  /\ At(w, "sweep_lock")
  /\ jobLock' = [jobLock EXCEPT ![D(w)] = w]
  /\ Goto(w, "resume")
  /\ UNCHANGED <<disk, record, mainLock, job, bound>>

SweepLock(w) ==
  /\ At(w, "sweep_lock")
  /\ jobLock[D(w)] = Nobody
  /\ jobLock' = [jobLock EXCEPT ![D(w)] = w]
  /\ Goto(w, "resume")
  /\ UNCHANGED <<disk, record, mainLock, job, bound>>

SweepContended(w) ==
  /\ At(w, "sweep_lock")
  /\ jobLock[D(w)] # Nobody
  /\ Leave(w)
  /\ UNCHANGED <<disk, record, bound>>

\* The PDF went before the lock was taken: read_bytes() raises, and the pass
\* of the sweep ends with it.
ResumeGone(w) ==
  /\ At(w, "resume")
  /\ "pdf" \notin staged[D(w)].has
  /\ Leave(w)
  /\ UNCHANGED <<disk, record, bound>>

\* Nothing is done: the delivery is uncertain, or the retry's own call of
\* resume_staged() finds the item resolved (again).
ResumeDeclined(w) ==
  /\ At(w, "resume")
  /\ "pdf" \in staged[D(w)].has
  /\ \/ Uncertain(OnDisk(D(w)))
     \/ job[w].op = "retry_staged" /\ "res" \in staged[D(w)].has
  /\ Return(w, jobLock)
  /\ UNCHANGED <<disk, record, bound>>

\* Variant: the receipt is written whether or not there is one already.
ResumeReceived(w) ==
  LET m == OnDisk(D(w)) IN
  /\ At(w, "resume")
  /\ "pdf" \in staged[D(w)].has /\ ~Uncertain(m)
  /\ receipt' = [r \in Receipt |-> IF r = m.rcpt THEN "received" ELSE receipt[r]]
  /\ IF m.assessed = "none"
     THEN Goto(w, "finish") /\ UNCHANGED job
     ELSE /\ job' = [job EXCEPT ![w].disp = m.assessed]
          /\ Goto(w, "wait_main")
  /\ UNCHANGED <<disk, trail, delivered, confirmed, erased, lock, bound>>

\* The receipt is stored if it never was; an assessed job goes to commit with
\* the verdict of its manifest, any other to _finish_staged().
Resume(w) ==
  LET m == OnDisk(D(w)) IN
  /\ At(w, "resume")
  /\ "pdf" \in staged[D(w)].has /\ ~Uncertain(m)
  /\ ~(job[w].op = "retry_staged" /\ "res" \in staged[D(w)].has)
  /\ receipt' = [r \in Receipt |-> IF r = m.rcpt /\ receipt[r] = "issued"
                                  THEN "received" ELSE receipt[r]]
  /\ IF m.assessed = "none"
     THEN Goto(w, "finish") /\ UNCHANGED job
     ELSE /\ job' = [job EXCEPT ![w].disp = m.assessed]
          /\ Goto(w, "wait_main")
  /\ UNCHANGED <<disk, trail, delivered, confirmed, erased, lock, bound>>

-----------------------------------------------------------------------------
(* FailureQueue: retry() and resolve().                                    *)

\* The checks of _retry_locked(), made under the item's job_lock().
StartRetryStaged(w, d) ==
  /\ At(w, "idle") /\ calls < MaxCall
  /\ {"dir", "pdf"} \subseteq staged[d].has
  /\ jobLock[d] = Nobody
  /\ jobLock' = [jobLock EXCEPT ![d] = w]
  /\ job' = [job EXCEPT ![w] = NewCall("retry_staged", d, NoFile)]
  /\ calls' = calls + 1
  /\ Goto(w, "retry_confirm")
  /\ UNCHANGED <<disk, record, mainLock, crashes>>

\* The operator has confirmed a possible second delivery.
RetryConfirm(w) ==
  LET m == OnDisk(D(w)) IN
  /\ At(w, "retry_confirm")
  /\ IF Uncertain(m)
     THEN /\ WriteManifest(w, [m EXCEPT !.steps = @ \ {"emit_started"}])
          /\ confirmed' = [confirmed EXCEPT ![D(w)] = @ + 1]
     ELSE UNCHANGED <<staged, job, confirmed>>
  /\ Goto(w, "retry_unresolve")
  /\ UNCHANGED <<drop, failed, filed, index, text, receipt, trail, delivered,
                 erased, lock, bound>>

RetryUnresolve(w) ==
  /\ At(w, "retry_unresolve")
  /\ staged' = [staged EXCEPT ![D(w)] = Emptied(@, {"res"})]
  /\ Goto(w, "resume")
  /\ UNCHANGED <<drop, failed, filed, index, text, record, lock, job, bound>>

\* folder.exists(): an error for the operator, or an audit event.
RetryCheck(w) ==
  /\ At(w, "retry_check")
  /\ Leave(w)
  /\ UNCHANGED <<disk, record, bound>>

\* A copy of the failed PDF goes through run_job() under the item's lock.
StartRetryFailed(w, d) ==
  /\ At(w, "idle") /\ calls < MaxCall
  /\ "pdf" \in failed[d]
  /\ jobLock[d] = Nobody
  /\ jobLock' = [jobLock EXCEPT ![d] = w]
  /\ Begin(w, "retry_failed", d, NoFile, index[d])
  /\ calls' = calls + 1
  /\ Goto(w, IF index[d] = "none" THEN "claim" ELSE "dup")
  /\ UNCHANGED <<disk, trail, delivered, confirmed, erased, mainLock, crashes>>

RetryDone(w) ==
  /\ At(w, "retry_done")
  /\ failed' = IF job[w].disp = "failed" THEN failed
               ELSE [failed EXCEPT ![D(w)] = {}]
  /\ Leave(w)
  /\ UNCHANGED <<drop, staged, filed, index, text, record, bound>>

StartResolve(w, d, op) ==
  /\ At(w, "idle") /\ calls < MaxCall
  /\ mainLock = Nobody
  /\ "dir" \in IF op = "resolve_staged" THEN staged[d].has ELSE failed[d]
  /\ mainLock' = w
  /\ job' = [job EXCEPT ![w] = NewCall(op, d, NoFile)]
  /\ calls' = calls + 1
  /\ Goto(w, "resolve")
  /\ UNCHANGED <<disk, record, jobLock, crashes>>

\* write_atomically(resolution.json) raises when the folder is gone.
Resolve(w) ==
  LET d == D(w) IN
  /\ At(w, "resolve")
  /\ IF job[w].op = "resolve_staged"
     THEN /\ staged' = IF "dir" \in staged[d].has
                       THEN [staged EXCEPT ![d] = Filled(@, {"res"})]
                       ELSE staged
          /\ UNCHANGED failed
     ELSE /\ failed' = [failed EXCEPT ![d] = IF "dir" \in @ THEN @ \cup {"res"}
                                                          ELSE @]
          /\ UNCHANGED staged
  /\ Leave(w)
  /\ UNCHANGED <<drop, filed, index, text, record, bound>>

-----------------------------------------------------------------------------
(* purge_content(), of any job, whatever is stored of it.                   *)

StartPurge(w, d, op) ==
  /\ At(w, "idle") /\ calls < MaxCall
  /\ mainLock = Nobody
  /\ mainLock' = w
  /\ job' = [job EXCEPT ![w] = NewCall(op, d, NoFile)]
  /\ calls' = calls + 1
  /\ Goto(w, "purge_text")
  /\ UNCHANGED <<disk, record, jobLock, crashes>>

PurgeText(w) ==
  /\ At(w, "purge_text")
  /\ text' = [text EXCEPT ![D(w)] = FALSE]
  /\ erased' = [erased EXCEPT ![D(w)] = @ \cup (IF text[D(w)] THEN {"text"} ELSE {})]
  /\ Goto(w, IF job[w].op = "hard_purge" THEN "purge_pdf" ELSE "purge_end")
  /\ UNCHANGED <<drop, staged, failed, filed, index, receipt, trail, delivered,
                 confirmed, lock, job, bound>>

PurgePdf(w) ==
  /\ At(w, "purge_pdf")
  /\ filed' = [filed EXCEPT ![D(w)] = {}]
  /\ erased' = [erased EXCEPT ![D(w)] = @ \cup (IF filed[D(w)] = {} THEN {} ELSE {"pdf"})]
  /\ Goto(w, "purge_end")
  /\ UNCHANGED <<drop, staged, failed, index, text, receipt, trail, delivered,
                 confirmed, lock, job, bound>>

PurgeEnd(w) ==
  /\ At(w, "purge_end")
  /\ Leave(w)
  /\ UNCHANGED <<disk, record, bound>>

-----------------------------------------------------------------------------
\* The process dies, or an unexpected exception leaves every block: the locks
\* go and the files stay as they are.
Crash(w) ==
  /\ crashes < MaxCrash
  /\ ~At(w, "idle")
  /\ Leave(w)
  /\ crashes' = crashes + 1
  /\ UNCHANGED <<disk, record, calls>>

Claim(w) ==
  \/ ClaimLock(w) \/ ClaimContended(w) \/ ClaimManifest(w) \/ ClaimPdf(w)
  \/ UnlinkSource(w) \/ ClaimReceipt(w) \/ Relock(w)
  \/ DupReceipt(w) \/ DupFinish(w) \/ DupUnlink(w)

Commit(w) ==
  \/ TakeMain(w) \/ Snapshot(w) \/ SkipDone(w) \/ Mark(w) \/ CopyPdf(w)
  \/ AuditKnown(w) \/ AuditStart(w) \/ AuditAppend(w)
  \/ WriteIndex(w) \/ WriteText(w) \/ EmitStart(w) \/ Deliver(w)
  \/ FailPdf(w) \/ FailMeta(w) \/ FinishReceipt(w) \/ DropFailed(w)
  \/ ListStaging(w) \/ RemoveEntry(w) \/ RemoveDir(w)

Continue(w) ==
  \/ FinishDuplicate(w) \/ Process(w) \/ FinishLost(w)
  \/ SweepLock(w) \/ SweepContended(w)
  \/ ResumeGone(w) \/ ResumeDeclined(w) \/ Resume(w)

Operate(w) ==
  \/ RetryConfirm(w) \/ RetryUnresolve(w) \/ RetryCheck(w) \/ RetryDone(w)
  \/ Resolve(w) \/ PurgeText(w) \/ PurgePdf(w) \/ PurgeEnd(w)

\* The steps a call takes by itself.
Work(w) == Claim(w) \/ Commit(w) \/ Continue(w) \/ Operate(w)

Call(w) ==
  \/ /\ w \in Watcher
     /\ \E f \in File : StartRun(w, f) \/ StartStage(w, f)
  \/ /\ w \in Sweeper
     /\ \E d \in Doc : StartSweep(w, d)
  \/ /\ w \in Operator
     /\ \E d \in Doc :
          \/ StartRetryStaged(w, d) \/ StartRetryFailed(w, d)
          \/ \E op \in {"resolve_staged", "resolve_failed"} : StartResolve(w, d, op)
          \/ \E op \in {"purge", "hard_purge"} : StartPurge(w, d, op)

\* Nobody is in a call: the system may rest.
Quiescent == (\A w \in Worker : At(w, "idle")) /\ UNCHANGED vars

Next ==
  \/ \E w \in Worker : Call(w) \/ Work(w) \/ DeliverFails(w) \/ Crash(w)
  \/ Quiescent

Spec == Init /\ [][Next]_vars

-----------------------------------------------------------------------------
(* Properties.                                                             *)

Ids(d) == {trail[d][i].rcpt : i \in DOMAIN trail[d]} \ {NoReceipt}

\* commit() and commit_failed() work on a manifest they have read into memory
\* and write back at every checkpoint: while a worker is in one of them, it
\* holds the job's lock and the global one, and nobody changes the manifest
\* on disk behind its back (the lost update claim() takes the lock against).
ManifestHeld ==
  \A w \in Worker : pc[w] \in CommitPc \cup FailPc =>
     /\ mainLock = w /\ jobLock[D(w)] = w
     /\ staged[D(w)].man = job[w].man

\* However often a commit is interrupted and resumed, a receipt's
\* job.completed event is in the audit trail at most once.
CompletionAuditedOnce ==
  \A d \in Doc : \A i, j \in DOMAIN trail[d] :
     trail[d][i].rcpt = trail[d][j].rcpt /\ trail[d][i].rcpt # NoReceipt => i = j

\* An index row stands for a document that was filed under that disposition
\* and whose completion is in the audit trail, crash or no crash; only a hard
\* purge takes the PDF away again.
IndexAudited ==
  \A d \in Doc : index[d] # "none" =>
     /\ \E i \in DOMAIN trail[d] : trail[d][i].disp = index[d]
     /\ index[d] \in filed[d] \/ "pdf" \in erased[d]

\* The first verdict on a document is never replaced by a later arrival, a
\* resumed commit or a retry: they find it and stop, or repeat it.
VerdictKept ==
  [][\A d \in Doc : index[d] # "none" => index'[d] = index[d]]_vars

\* Plugins that deliver to the outside run at most once for a job, plus once
\* for every time an operator has accepted a possible second delivery.
DeliverOnce == \A d \in Doc : delivered[d] <= 1 + confirmed[d]

\* A document that has arrived is always somewhere: in the drop folder, in
\* its staging directory, filed, or in the failed folder, unless a hard purge
\* has erased it.
NeverLost ==
  \A d \in {DocOf[f] : f \in File} :
     \/ \E f \in drop : DocOf[f] = d
     \/ "pdf" \in staged[d].has \cup failed[d]
     \/ filed[d] # {}
     \/ "pdf" \in erased[d]

\* A finished receipt is never open again, and one that says where the document
\* was filed never says another place.  (It may change into and out of
\* "duplicate": a claim that waited for a commit which was interrupted finds the
\* index row and takes the receipt of the manifest for its own.)
ReceiptFinal ==
  [][\A r \in Receipt : receipt[r] \in Outcome \cup {"duplicate"} =>
        /\ receipt'[r] \in Outcome \cup {"duplicate"}
        /\ receipt[r] \in Filing => receipt'[r] \in {receipt[r], "duplicate"}]_vars

\* Nothing of a commit is left undone: when no call is working on a job that has
\* an index row and its staging directory is gone, the text is stored, the emit
\* phase has run, and the failed folder holds no failure that the commit
\* superseded.
CommitComplete ==
  \A d \in Doc :
     /\ index[d] # "none" /\ "pdf" \notin staged[d].has
     /\ \A w \in Worker : D(w) # d
     => /\ text[d] \/ "text" \in erased[d]
        /\ delivered[d] > 0
        /\ failed[d] = {}

\* Purged text stays purged.
PurgeStays == \A d \in Doc : "text" \in erased[d] => ~text[d]

\* A job whose delivery is uncertain keeps its staging directory until an
\* operator confirms a second delivery.
UncertainKept ==
  [][\A d \in Doc : Uncertain(OnDisk(d)) =>
        \/ OnDisk(d)' = OnDisk(d)
        \/ "emitted" \in OnDisk(d)'.steps
        \/ confirmed'[d] > confirmed[d]]_vars

-----------------------------------------------------------------------------
(* Fairness: a call that has started goes on (extraction is killed at its  *)
(* timeout), the poll loop comes back to every file that is still there,   *)
(* and each pass of the sweep comes to every directory.                    *)

FairSpec ==
  /\ Spec
  /\ \A w \in Worker : WF_vars(Work(w))
  /\ \A w \in Watcher, f \in File : WF_vars(StartRun(w, f) \/ StartStage(w, f))
  /\ \A w \in Sweeper, d \in Doc : SF_vars(StartSweep(w, d))

\* A staged document does not wait for ever: it is committed, or failed, or
\* left to an operator because its delivery is uncertain or it was resolved.
EventuallySettled ==
  \A d \in Doc :
     "pdf" \in staged[d].has ~>
        \/ "pdf" \notin staged[d].has
        \/ "res" \in staged[d].has
        \/ Uncertain(OnDisk(d))

\* Every file leaves the drop folder.
EventuallyClaimed == \A f \in File : f \in drop ~> f \notin drop
=============================================================================
