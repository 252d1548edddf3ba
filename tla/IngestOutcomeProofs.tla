------------------------ MODULE IngestOutcomeProofs ------------------------
(***************************************************************************)
(* What becomes of a document in IngestPipeline, for all constants: it is  *)
(* not lost, it is delivered once, its verdict and its receipt stand, and  *)
(* an index row has its PDF and its completion event.  What a worker holds *)
(* and carries comes from IngestSafetyProofs.                              *)
(***************************************************************************)
EXTENDS IngestSafetyProofs

USE PipelineAssumption DEF PipelineAssumption

-----------------------------------------------------------------------------
(* What a step can do, whichever it is: the invariants below are preserved *)
(* because of who writes a variable, and how a worker gets where it is.    *)

Move(w) == Call(w) \/ Work(w) \/ DeliverFails(w) \/ Crash(w)

LEMMA NextIsMove ==
  ASSUME [Next]_vars
  PROVE  (\E w \in Worker : Move(w)) \/ UNCHANGED vars
BY DEF Next, Move, Quiescent

\* Who writes a file or a record.
LEMMA Writers ==
  ASSUME NEW w \in Worker, Move(w)
  PROVE  /\ index' = index \/ WriteIndex(w)
         /\ filed' = filed \/ CopyPdf(w) \/ PurgePdf(w)
         /\ erased' = erased \/ PurgeText(w) \/ PurgePdf(w)
         /\ \/ failed' = failed
            \/ FailPdf(w) \/ FailMeta(w) \/ DropFailed(w) \/ RetryDone(w) \/ Resolve(w)
         /\ delivered' = delivered \/ Deliver(w) \/ DeliverFails(w)
         /\ confirmed' = confirmed \/ RetryConfirm(w)
         /\ trail' = trail \/ AuditAppend(w)
         /\ drop' = drop \/ UnlinkSource(w) \/ DupUnlink(w)
         /\ \/ receipt' = receipt
            \/ \E f \in File : StartRun(w, f) \/ StartStage(w, f)
            \/ \E d \in Doc : StartRetryFailed(w, d)
            \/ ClaimReceipt(w) \/ DupReceipt(w) \/ DupFinish(w)
            \/ FinishDuplicate(w) \/ Resume(w) \/ FinishReceipt(w)
         /\ \/ staged' = staged
            \/ ClaimManifest(w) \/ ClaimPdf(w) \/ Snapshot(w) \/ Mark(w)
            \/ AuditKnown(w) \/ AuditStart(w) \/ EmitStart(w) \/ RemoveEntry(w)
            \/ RemoveDir(w) \/ RetryConfirm(w) \/ RetryUnresolve(w) \/ Resolve(w)
<1> USE DEF disk, record, lock, bound, Committing
<1>1. CASE Call(w)
  BY <1>1 DEF Call, StartRun, StartStage, StartSweep, StartRetryStaged,
              StartRetryFailed, StartResolve, StartPurge
<1>2. CASE Claim(w)
  BY <1>2 DEF Claim, ClaimLock, ClaimContended, ClaimManifest, ClaimPdf,
              UnlinkSource, ClaimReceipt, Relock, DupReceipt, DupFinish, DupUnlink
<1>3. CASE Commit(w)
  <2>1. CASE TakeMain(w) \/ Snapshot(w) \/ SkipDone(w) \/ Mark(w) \/ AuditKnown(w)
             \/ AuditStart(w) \/ EmitStart(w)
    BY <2>1 DEF TakeMain, Snapshot, SkipDone, Mark, AuditKnown, AuditStart, EmitStart
  <2>2. CASE CopyPdf(w) \/ AuditAppend(w) \/ WriteIndex(w) \/ WriteText(w) \/ Deliver(w)
    BY <2>2 DEF CopyPdf, AuditAppend, WriteIndex, WriteText, Deliver
  <2>3. CASE FailPdf(w) \/ FailMeta(w) \/ FinishReceipt(w) \/ DropFailed(w)
             \/ ListStaging(w) \/ RemoveEntry(w) \/ RemoveDir(w)
    BY <2>3 DEF FailPdf, FailMeta, FinishReceipt, DropFailed, ListStaging, RemoveEntry,
                RemoveDir
  <2>4. QED
    BY <1>3, <2>1, <2>2, <2>3 DEF Commit
<1>4. CASE Continue(w)
  BY <1>4 DEF Continue, FinishDuplicate, Process, FinishLost, SweepLock,
              SweepContended, ResumeGone, ResumeDeclined, Resume
<1>5. CASE Operate(w)
  BY <1>5 DEF Operate, RetryConfirm, RetryUnresolve, RetryCheck, RetryDone, Resolve,
              PurgeText, PurgePdf, PurgeEnd
<1>6. CASE DeliverFails(w) \/ Crash(w)
  BY <1>6 DEF DeliverFails, Crash
<1>7. QED
  BY <1>1, <1>2, <1>3, <1>4, <1>5, <1>6 DEF Move, Work

\* A return leads to idle or to the operator's retry.
LEMMA ReturnArrives ==
  ASSUME Known, NEW w \in Worker, NEW locks, Return(w, locks)
  PROVE  \/ pc'[w] = "idle"
         \/ pc'[w] = "retry_check" /\ job[w].op = "retry_staged" /\ job' = job
         \/ pc'[w] = "retry_done" /\ job[w].op = "retry_failed" /\ job' = job
BY DEF Return, Leave, Goto, Outer, Known, Typed, PcType

\* How a worker gets where it is.
LEMMA Arrivals ==
  ASSUME Known, NEW w \in Worker, Move(w)
  PROVE  /\ pc'[w] = "claim" => Call(w)
         /\ pc'[w] = "write_manifest" => ClaimLock(w)
         /\ pc'[w] = "write_pdf" => ClaimManifest(w)
         /\ pc'[w] = "unlink_source" => ClaimPdf(w)
         /\ pc'[w] = "write_receipt" => UnlinkSource(w)
         /\ pc'[w] = "relock" => ClaimReceipt(w)
         /\ pc'[w] = "dup" => ClaimContended(w) \/ Call(w)
         /\ pc'[w] = "dup_finish" => DupReceipt(w)
         /\ pc'[w] = "dup_unlink" => DupFinish(w)
         /\ pc'[w] = "finish" => Relock(w) \/ Resume(w)
         /\ pc'[w] = "wait_main" => Process(w) \/ Resume(w)
         /\ pc'[w] = "list_dup" => FinishDuplicate(w)
         /\ pc'[w] = "snapshot" => TakeMain(w)
         /\ pc'[w] \in {"copy_pdf", "failed_pdf"} => Snapshot(w)
         /\ pc'[w] = "mark_pdf" => CopyPdf(w)
         /\ pc'[w] = "audit" => \/ Mark(w) /\ pc[w] = "mark_pdf"
                                \/ /\ SkipDone(w) /\ pc[w] = "copy_pdf"
                                   /\ "pdf" \in job[w].man.steps
         /\ pc'[w] = "audit_append" => AuditStart(w)
         /\ pc'[w] = "mark_audit" => AuditAppend(w)
         /\ pc'[w] = "stores" => AuditKnown(w) \/ (Mark(w) /\ pc[w] = "mark_audit")
         /\ pc'[w] = "write_text" => WriteIndex(w)
         /\ pc'[w] = "mark_stores" => WriteText(w)
         /\ pc'[w] = "emit" => \/ Mark(w) /\ pc[w] = "mark_stores"
                               \/ /\ SkipDone(w) /\ pc[w] = "stores"
                                  /\ "stores" \in job[w].man.steps
         /\ pc'[w] = "deliver" => EmitStart(w)
         /\ pc'[w] = "mark_emitted" => Deliver(w)
         /\ pc'[w] = "failed_meta" => FailPdf(w)
         /\ pc'[w] = "finish_receipt" => \/ Mark(w) /\ pc[w] = "mark_emitted"
                                         \/ SkipDone(w) /\ pc[w] = "emit"
                                         \/ FailMeta(w)
         /\ pc'[w] = "drop_failed" => FinishReceipt(w)
         /\ pc'[w] = "list" => FinishReceipt(w) \/ DropFailed(w)
         /\ pc'[w] = "remove" => \/ ListStaging(w) /\ pc[w] = "list"
                                 \/ RemoveEntry(w) /\ pc[w] = "remove"
         /\ pc'[w] = "remove_dup" => \/ ListStaging(w) /\ pc[w] = "list_dup"
                                     \/ RemoveEntry(w) /\ pc[w] = "remove_dup"
         /\ pc'[w] = "retry_check" => DupUnlink(w) \/ RemoveDir(w) \/ ResumeDeclined(w)
         /\ pc'[w] = "retry_done" => DupUnlink(w) \/ RemoveDir(w) \/ ResumeDeclined(w)
         /\ pc'[w] = "sweep_lock" => Call(w)
         /\ pc'[w] = "resume" => SweepLock(w) \/ RetryUnresolve(w)
         /\ pc'[w] = "retry_confirm" => Call(w)
         /\ pc'[w] = "retry_unresolve" => RetryConfirm(w)
<1> USE DEF Known, Typed, PcType, At, Goto
<1>1. CASE Call(w)
  BY <1>1 DEF Call, StartRun, StartStage, StartSweep, StartRetryStaged,
              StartRetryFailed, StartResolve, StartPurge
<1>2. CASE Claim(w)
  BY <1>2, ReturnArrives
     DEF Claim, ClaimLock, ClaimContended, ClaimManifest, ClaimPdf,
         UnlinkSource, ClaimReceipt, Leave, Relock, DupReceipt, DupFinish, DupUnlink
<1>3. CASE Commit(w)
  <2>1. CASE TakeMain(w) \/ Snapshot(w) \/ SkipDone(w) \/ Mark(w) \/ AuditKnown(w)
             \/ AuditStart(w) \/ EmitStart(w)
    BY <2>1 DEF TakeMain, Snapshot, SkipDone, Mark, AuditKnown, AuditStart, EmitStart
  <2>2. CASE CopyPdf(w) \/ AuditAppend(w) \/ WriteIndex(w) \/ WriteText(w) \/ Deliver(w)
    BY <2>2 DEF CopyPdf, AuditAppend, WriteIndex, WriteText, Deliver
  <2>3. CASE FailPdf(w) \/ FailMeta(w) \/ FinishReceipt(w) \/ DropFailed(w)
             \/ ListStaging(w) \/ RemoveEntry(w)
    BY <2>3 DEF FailPdf, FailMeta, FinishReceipt, DropFailed, ListStaging, RemoveEntry
  <2>4. CASE RemoveDir(w)
    <3>1. PICK locks : Return(w, locks)
      BY <2>4 DEF RemoveDir
    <3>2. QED
      BY <2>4, <3>1, ReturnArrives
  <2>5. QED
    BY <1>3, <2>1, <2>2, <2>3, <2>4 DEF Commit
<1>4. CASE Continue(w)
  BY <1>4, ReturnArrives
     DEF Continue, FinishDuplicate, Process, FinishLost, SweepLock,
         SweepContended, ResumeGone, ResumeDeclined, Resume, Leave
<1>5. CASE Operate(w)
  BY <1>5 DEF Operate, RetryConfirm, RetryUnresolve, RetryCheck, RetryDone, Resolve,
              PurgeText, PurgePdf, PurgeEnd, Leave
<1>6. CASE DeliverFails(w) \/ Crash(w)
  BY <1>6 DEF DeliverFails, Crash, Leave
<1>7. QED
  BY <1>1, <1>2, <1>3, <1>4, <1>5, <1>6 DEF Move, Work

\* What a call keeps in memory until it is over.
Keeps(w) == /\ job'[w].doc = job[w].doc /\ job'[w].op = job[w].op
            /\ job'[w].file = job[w].file
SameDisp(w) == job'[w].disp = job[w].disp

LEMMA KeepsField ==
  ASSUME Known, NEW w \in Worker, NEW m, NEW x,
         \/ job' = job
         \/ job' = [job EXCEPT ![w].man = m]
         \/ job' = [job EXCEPT ![w].rm = x]
  PROVE  Keeps(w) /\ SameDisp(w) /\ \A v \in Worker : v # w => job'[v] = job[v]
BY DEF Known, Typed, JobType, CallRecord, Keeps, SameDisp

LEMMA KeepsDisp ==
  ASSUME Known, NEW w \in Worker, NEW o, job' = [job EXCEPT ![w].disp = o]
  PROVE  Keeps(w) /\ job'[w].disp = o /\ job'[w].man = job[w].man
         /\ \A v \in Worker : v # w => job'[v] = job[v]
BY DEF Known, Typed, JobType, CallRecord, Keeps

\* A step is the start of a call, or its end, or goes on with it.
LEMMA Course ==
  ASSUME Known, NEW w \in Worker, Move(w)
  PROVE  /\ \A v \in Worker : v # w => pc'[v] = pc[v] /\ job'[v] = job[v]
         /\ \/ Call(w) /\ pc[w] = "idle"
            \/ pc[w] # "idle" /\ Leave(w)
            \/ /\ pc[w] # "idle" /\ pc'[w] # "idle" /\ Keeps(w)
               /\ SameDisp(w) \/ Process(w) \/ Resume(w) \/ FinishDuplicate(w)
<1> USE DEF At
<1>0. ASSUME NEW locks, Return(w, locks)
      PROVE  Leave(w) \/ (job' = job /\ \E l \in {"retry_check", "retry_done"} : Goto(w, l))
  BY <1>0 DEF Return, Outer
<1>1. \A l \in PcStates : Goto(w, l) => /\ pc'[w] = l
                                        /\ \A v \in Worker : v # w => pc'[v] = pc[v]
  BY DEF Known, Typed, PcType, Goto
<1>2. Leave(w) => \A v \in Worker : v # w => pc'[v] = pc[v] /\ job'[v] = job[v]
  BY DEF Known, Typed, PcType, JobType, Leave, Goto
<1> DEFINE Goes == /\ \E l \in PcStates \ {"idle"} : Goto(w, l)
                   /\ \/ job' = job
                      \/ \E m : job' = [job EXCEPT ![w].man = m]
                      \/ \E x : job' = [job EXCEPT ![w].rm = x]
                      \/ /\ \E o : job' = [job EXCEPT ![w].disp = o]
                         /\ Process(w) \/ Resume(w) \/ FinishDuplicate(w)
<1>3. ASSUME Goes, pc[w] # "idle"
      PROVE  /\ \A v \in Worker : v # w => pc'[v] = pc[v] /\ job'[v] = job[v]
             /\ pc[w] # "idle" /\ pc'[w] # "idle" /\ Keeps(w)
             /\ SameDisp(w) \/ Process(w) \/ Resume(w) \/ FinishDuplicate(w)
  <2>1. PICK l \in PcStates \ {"idle"} : Goto(w, l)
    BY <1>3
  <2>2. pc'[w] # "idle" /\ \A v \in Worker : v # w => pc'[v] = pc[v]
    BY <1>1, <2>1
  <2>3. /\ \A v \in Worker : v # w => job'[v] = job[v]
        /\ Keeps(w)
        /\ SameDisp(w) \/ Process(w) \/ Resume(w) \/ FinishDuplicate(w)
    BY <1>3, KeepsField, KeepsDisp
  <2>4. QED
    BY <1>3, <2>2, <2>3
<1>4. CASE Claim(w)
  <2>1. pc[w] # "idle" /\ (Leave(w) \/ Goes)
    BY <1>0, <1>4
       DEF Claim, ClaimLock, ClaimContended, ClaimManifest, ClaimPdf, UnlinkSource,
           ClaimReceipt, Relock, DupReceipt, DupFinish, DupUnlink, WriteManifest, PcStates
  <2>2. QED
    BY <1>2, <1>3, <2>1 DEF Leave
<1>5. CASE Commit(w)
  <2>1. pc[w] # "idle" /\ (Leave(w) \/ Goes)
    <3>1. CASE TakeMain(w) \/ Snapshot(w) \/ AuditKnown(w) \/ AuditStart(w) \/ EmitStart(w)
      BY <3>1 DEF TakeMain, Snapshot, AuditKnown, AuditStart, EmitStart, Checkpoint,
                  WriteManifest, PcStates, CommitPc, FailPc
    <3>2. CASE SkipDone(w)
      BY <3>2 DEF SkipDone, PcStates, CommitPc
    <3>3. CASE Mark(w)
      <4>1. PICK s \in {<<"mark_pdf", "pdf", "audit">>, <<"mark_audit", "audit", "stores">>,
                       <<"mark_stores", "stores", "emit">>,
                       <<"mark_emitted", "emitted", "finish_receipt">>} :
              pc[w] = s[1] /\ Checkpoint(w, s[2]) /\ Goto(w, s[3])
        BY <3>3 DEF Mark
      <4>2. pc[w] # "idle" /\ s[3] \in PcStates \ {"idle"}
        BY <4>1 DEF PcStates, CommitPc
      <4>3. \E m : job' = [job EXCEPT ![w].man = m]
        BY <4>1 DEF Checkpoint, WriteManifest
      <4>4. QED
        BY <4>1, <4>2, <4>3
    <3>4. CASE CopyPdf(w) \/ AuditAppend(w) \/ WriteIndex(w) \/ WriteText(w) \/ Deliver(w)
      BY <3>4 DEF CopyPdf, AuditAppend, WriteIndex, WriteText, Deliver, PcStates, CommitPc
    <3>5. CASE FailPdf(w) \/ FailMeta(w) \/ FinishReceipt(w) \/ DropFailed(w)
               \/ ListStaging(w) \/ RemoveDir(w)
      BY <1>0, <3>5 DEF FailPdf, FailMeta, FinishReceipt, DropFailed, ListStaging,
                  RemoveDir, PcStates, CommitPc, FailPc, RemovePc
    <3>6. CASE RemoveEntry(w)
      <4>1. Goto(w, pc[w]) /\ pc[w] \in {"remove", "remove_dup"}
        BY <3>6 DEF RemoveEntry, Goto, Known, Typed, PcType
      <4>2. QED
        BY <3>6, <4>1 DEF RemoveEntry, PcStates, RemovePc
    <3>7. QED
      BY <1>5, <3>1, <3>2, <3>3, <3>4, <3>5, <3>6 DEF Commit
  <2>2. QED
    BY <1>2, <1>3, <2>1 DEF Leave
<1>6. CASE Continue(w)
  <2>1. pc[w] # "idle" /\ (Leave(w) \/ Goes)
    BY <1>0, <1>6
       DEF Continue, FinishDuplicate, Process, FinishLost, SweepLock,
           SweepContended, ResumeGone, ResumeDeclined, Resume, PcStates, RemovePc
  <2>2. QED
    BY <1>2, <1>3, <2>1 DEF Leave
<1>7. CASE Operate(w)
  <2>1. pc[w] # "idle" /\ (Leave(w) \/ Goes)
    BY <1>7
       DEF Operate, RetryConfirm, RetryUnresolve, RetryCheck, RetryDone, Resolve,
           PurgeText, PurgePdf, PurgeEnd, WriteManifest, PcStates
  <2>2. QED
    BY <1>2, <1>3, <2>1 DEF Leave
<1>8. CASE DeliverFails(w) \/ Crash(w)
  BY <1>2, <1>8 DEF DeliverFails, Crash
<1>9. CASE Call(w)
  <2>1. /\ pc[w] = "idle"
        /\ \E l \in PcStates : Goto(w, l)
        /\ \E c : job' = [job EXCEPT ![w] = c]
    BY <1>9 DEF Call, StartRun, StartStage, StartSweep, StartRetryStaged,
                StartRetryFailed, StartResolve, StartPurge, Begin, PcStates
  <2>2. \A v \in Worker : v # w => job'[v] = job[v]
    BY <2>1 DEF Known, Typed, JobType
  <2>3. QED
    BY <1>1, <1>9, <2>1, <2>2
<1>10. QED
  BY <1>4, <1>5, <1>6, <1>7, <1>8, <1>9 DEF Move, Work

\* A call is beside the job where it needs no look at its lock.
AsidePc == {"idle", "resolve", "purge_text", "purge_pdf", "purge_end"}

\* How a job's lock changes hands.
LEMMA LockCourse ==
  ASSUME Known, NEW w \in Worker, Move(w)
  PROVE  /\ mainLock' = mainLock \/ mainLock \in {Nobody, w}
         /\ \A d \in Doc :
              \/ jobLock'[d] = jobLock[d]
              \/ jobLock[d] = w /\ jobLock'[d] = Nobody
              \/ /\ jobLock[d] \in {Nobody, w} /\ jobLock'[d] = w
                 /\ job'[w].doc = d /\ pc'[w] \notin AsidePc
         /\ Leave(w) => \A d \in Doc : jobLock'[d] # w
<1> USE DEF At, D, disk, record, lock, bound, Committing
<1> DEFINE Same == UNCHANGED jobLock
           Less == jobLock' = Unlocked(w)
           Mine == \E d \in Doc : /\ jobLock[d] \in {Nobody, w}
                                  /\ jobLock' = [jobLock EXCEPT ![d] = w]
                                  /\ job'[w].doc = d /\ pc'[w] \notin AsidePc
           Main == mainLock' = mainLock \/ mainLock \in {Nobody, w}
<1>0. w # Nobody
  OBVIOUS
<1>1. ASSUME Main, Same \/ Less \/ Mine, Leave(w) => Less
      PROVE  /\ Main
             /\ \A d \in Doc :
                  \/ jobLock'[d] = jobLock[d]
                  \/ jobLock[d] = w /\ jobLock'[d] = Nobody
                  \/ /\ jobLock[d] \in {Nobody, w} /\ jobLock'[d] = w
                     /\ job'[w].doc = d /\ pc'[w] \notin AsidePc
             /\ Leave(w) => \A d \in Doc : jobLock'[d] # w
  <2>1. Less => \A d \in Doc : /\ jobLock'[d] # w
                               /\ \/ jobLock'[d] = jobLock[d]
                                  \/ jobLock[d] = w /\ jobLock'[d] = Nobody
    BY <1>0 DEF Unlocked
  <2>2. Mine => \A d \in Doc : \/ jobLock'[d] = jobLock[d]
                               \/ /\ jobLock[d] \in {Nobody, w} /\ jobLock'[d] = w
                                  /\ job'[w].doc = d /\ pc'[w] \notin AsidePc
    BY DEF Known, Typed, LockType
  <2>3. QED
    BY <1>1, <2>1, <2>2
<1>2. Leave(w) => Main /\ Less
  BY DEF Leave, MainUnlocked
<1>3. \A locks : Return(w, locks) => Main /\ (Less \/ jobLock' = locks)
  BY <1>2 DEF Return, MainUnlocked
<1>4. Leave(w) => pc'[w] = "idle"
  BY DEF Leave, Goto, Known, Typed, PcType
<1>5. pc[w] # "idle" => job[w].doc \in Doc
  BY DEF Known, CarryInv, CarryAt
<1>6. CASE ClaimLock(w) \/ Relock(w) \/ SweepLock(w)
  <2>1. Main /\ job' = job /\ job[w].doc \in Doc
    BY <1>5, <1>6 DEF ClaimLock, Relock, SweepLock
  <2>2. pc'[w] \in {"write_manifest", "finish", "resume"}
    BY <1>6 DEF ClaimLock, Relock, SweepLock, Goto, Known, Typed, PcType
  <2>3. /\ jobLock[job[w].doc] \in {Nobody, w}
        /\ jobLock' = [jobLock EXCEPT ![job[w].doc] = w]
    BY <1>6 DEF ClaimLock, Relock, SweepLock
  <2>4. Mine
    BY <2>1, <2>2, <2>3 DEF AsidePc
  <2>5. QED
    BY <1>1, <1>4, <2>1, <2>2, <2>4
<1>7. CASE Claim(w) /\ ~ClaimLock(w) /\ ~Relock(w)
  <2>1. Main /\ (Same \/ Less)
    BY <1>2, <1>3, <1>7
       DEF Claim, ClaimContended, ClaimManifest, ClaimPdf, UnlinkSource, ClaimReceipt,
           DupReceipt, DupFinish, DupUnlink
  <2>2. QED
    BY <1>1, <1>2, <2>1
<1>8. CASE Commit(w)
  <2>1. Main /\ (Same \/ Less)
    <3>1. CASE TakeMain(w) \/ Snapshot(w) \/ SkipDone(w) \/ Mark(w) \/ AuditKnown(w)
               \/ AuditStart(w) \/ EmitStart(w)
      BY <3>1 DEF TakeMain, Snapshot, SkipDone, Mark, AuditKnown, AuditStart, EmitStart
    <3>2. CASE CopyPdf(w) \/ AuditAppend(w) \/ WriteIndex(w) \/ WriteText(w) \/ Deliver(w)
      BY <3>2 DEF CopyPdf, AuditAppend, WriteIndex, WriteText, Deliver
    <3>3. CASE FailPdf(w) \/ FailMeta(w) \/ FinishReceipt(w) \/ DropFailed(w)
               \/ ListStaging(w) \/ RemoveEntry(w)
      BY <3>3 DEF FailPdf, FailMeta, FinishReceipt, DropFailed, ListStaging, RemoveEntry
    <3>4. CASE RemoveDir(w)
      BY <1>3, <3>4 DEF RemoveDir
    <3>5. QED
      BY <1>8, <3>1, <3>2, <3>3, <3>4 DEF Commit
  <2>2. QED
    BY <1>1, <1>2, <2>1
<1>9. CASE Continue(w) /\ ~SweepLock(w)
  <2>1. Main /\ (Same \/ Less)
    BY <1>2, <1>3, <1>9
       DEF Continue, FinishDuplicate, Process, FinishLost, SweepContended, ResumeGone,
           ResumeDeclined, Resume
  <2>2. QED
    BY <1>1, <1>2, <2>1
<1>10. CASE Operate(w)
  <2>1. Main /\ (Same \/ Less)
    BY <1>2, <1>10
       DEF Operate, RetryConfirm, RetryUnresolve, RetryCheck, RetryDone, Resolve,
           PurgeText, PurgePdf, PurgeEnd
  <2>2. QED
    BY <1>1, <1>2, <2>1
<1>11. CASE DeliverFails(w) \/ Crash(w)
  BY <1>1, <1>2, <1>11 DEF DeliverFails, Crash
<1>12. CASE Call(w)
  <2>1. Main /\ (Same \/ Mine)
    <3>1. CASE \E d \in Doc : StartRetryStaged(w, d)
      <4>1. PICK d \in Doc : StartRetryStaged(w, d)
        BY <3>1
      <4>2. pc'[w] = "retry_confirm" /\ jobLock[d] = Nobody /\ UNCHANGED mainLock
            /\ jobLock' = [jobLock EXCEPT ![d] = w]
        BY <4>1 DEF StartRetryStaged, Goto, Known, Typed, PcType
      <4>3. PICK c : c = NewCall("retry_staged", d, NoFile)
        OBVIOUS
      <4>4. job'[w] = c /\ c.doc = d
        <5>1. c.doc = d
          BY <4>3 DEF NewCall, CallWith
        <5>2. job' = [job EXCEPT ![w] = c]
          BY <4>1, <4>3 DEF StartRetryStaged
        <5>3. QED
          BY <5>1, <5>2 DEF Known, Typed, JobType
      <4>5. QED
        BY <4>2, <4>4 DEF AsidePc
    <3>2. CASE \E d \in Doc : StartRetryFailed(w, d)
      <4>1. PICK d \in Doc : StartRetryFailed(w, d)
        BY <3>2
      <4>2. pc'[w] \in {"claim", "dup"} /\ jobLock[d] = Nobody /\ UNCHANGED mainLock
            /\ jobLock' = [jobLock EXCEPT ![d] = w]
        BY <4>1 DEF StartRetryFailed, Goto, Known, Typed, PcType
      <4>3. job'[w].doc = d
        <5>1. index[d] \in Outcome \cup {"none"} /\ "retry_failed" \in CallOp
              /\ NoFile \in File \cup {NoFile}
          BY DEF Known, Typed, FileType, Outcome, CallOp
        <5>2. Begin(w, "retry_failed", d, NoFile, index[d])
          BY <4>1 DEF StartRetryFailed
        <5>3. PICK c \in CallRecord : c.doc = d /\ job' = [job EXCEPT ![w] = c]
          BY <5>1, <5>2, BeginFacts DEF Known
        <5>4. QED
          BY <5>3 DEF Known, Typed, JobType
      <4>4. QED
        BY <4>2, <4>3 DEF AsidePc
    <3>3. QED
      BY <1>12, <3>1, <3>2
         DEF Call, StartRun, StartStage, StartSweep, StartResolve, StartPurge
  <2>2. pc'[w] # "idle"
    BY <1>12 DEF Call, StartRun, StartStage, StartSweep, StartRetryStaged,
                 StartRetryFailed, StartResolve, StartPurge, Goto, Known, Typed, PcType
  <2>3. QED
    BY <1>1, <1>4, <2>1, <2>2
<1>13. QED
  BY <1>6, <1>7, <1>8, <1>9, <1>10, <1>11, <1>12 DEF Move, Work, Claim, Continue


\* What becomes of a manifest: it is opened by a claim, emptied by rmtree,
\* assessed, checkpointed, or released by the operator's confirmation.
Opens(w, d) == /\ ClaimManifest(w)
               /\ staged'[d].man.rcpt = job[w].man.rcpt
               /\ staged'[d].man.steps = {} /\ staged'[d].man.assessed = "none"
Empties(w, d) == RemoveEntry(w) /\ staged'[d].man = Blank
Judges(w, d) == /\ Snapshot(w) /\ staged[d].man.assessed = "none"
                /\ staged'[d].man.rcpt = staged[d].man.rcpt
                /\ staged'[d].man.steps = staged[d].man.steps \cup {"assessed"}
                /\ staged'[d].man.assessed = job[w].disp
Marks(w, d, step) == /\ staged'[d].man.rcpt = staged[d].man.rcpt
                     /\ staged'[d].man.steps = staged[d].man.steps \cup {step}
                     /\ staged'[d].man.assessed = staged[d].man.assessed
Checks(w, d) == \/ Marks(w, d, "pdf") /\ Mark(w) /\ pc[w] = "mark_pdf"
                \/ Marks(w, d, "audit_started") /\ AuditStart(w)
                \/ Marks(w, d, "audit") /\ AuditKnown(w)
                \/ Marks(w, d, "audit") /\ Mark(w) /\ pc[w] = "mark_audit"
                \/ Marks(w, d, "stores") /\ Mark(w) /\ pc[w] = "mark_stores"
                \/ Marks(w, d, "emit_started") /\ EmitStart(w)
                \/ Marks(w, d, "emitted") /\ Mark(w) /\ pc[w] = "mark_emitted"
Confirms(w, d) == /\ RetryConfirm(w) /\ confirmed'[d] = confirmed[d] + 1
                  /\ Uncertain(staged[d].man)
                  /\ staged'[d].man.rcpt = staged[d].man.rcpt
                  /\ staged'[d].man.steps = staged[d].man.steps \ {"emit_started"}
                  /\ staged'[d].man.assessed = staged[d].man.assessed
Rewrites(w, d) == /\ d = job[w].doc /\ jobLock[d] = w
                  /\ \/ Opens(w, d) \/ Empties(w, d) \/ Judges(w, d)
                     \/ Checks(w, d) \/ Confirms(w, d)
ManCourse(w) == \A d \in Doc : staged'[d].man = staged[d].man \/ Rewrites(w, d)

\* What the commit has in memory is what is on disk.
LEMMA BusyFacts ==
  ASSUME Known, NEW w \in Worker, pc[w] \in BusyPc
  PROVE  /\ job[w].doc \in Doc /\ jobLock[job[w].doc] = w /\ mainLock = w
         /\ staged[job[w].doc].man = job[w].man
BY DEF Known, CarryInv, CarryAt, OwnInv, OwnAt, HoldPc, BusyPc, CommitPc, FailPc

LEMMA HoldFacts ==
  ASSUME Known, NEW w \in Worker, pc[w] \in HoldPc
  PROVE  job[w].doc \in Doc /\ jobLock[job[w].doc] = w
BY DEF Known, CarryInv, CarryAt, OwnInv, OwnAt, HoldPc, BusyPc, CommitPc, FailPc, RemovePc

LEMMA WholeManifest ==
  ASSUME Known, NEW d \in Doc
  PROVE  OnDisk(d) = staged[d].man /\ staged[d].man \in Manifest
BY ConstantTypes DEF OnDisk, Known, BareInv, Typed, StagedType, Staging

LEMMA CheckpointMarks ==
  ASSUME Known, NEW w \in Worker, pc[w] \in BusyPc, NEW step \in Step, Checkpoint(w, step)
  PROVE  /\ job[w].doc \in Doc /\ jobLock[job[w].doc] = w
         /\ Marks(w, job[w].doc, step)
         /\ \A d \in Doc : d # job[w].doc => staged'[d] = staged[d]
<1>1. PICK m : m = [job[w].man EXCEPT !.steps = @ \cup {step}]
  OBVIOUS
<1>2. job[w].man \in Manifest
  BY DEF Known, Typed, JobType, CallRecord
<1>3. /\ m \in Manifest /\ m.rcpt = job[w].man.rcpt
      /\ m.steps = job[w].man.steps \cup {step} /\ m.assessed = job[w].man.assessed
  BY <1>1, <1>2, StepManifest DEF Manifest, Known, Typed
<1>4. WriteManifest(w, m)
  BY <1>1 DEF Checkpoint
<1>5. QED
  BY <1>3, <1>4, BusyFacts, WriteManifestFacts DEF Known, Typed, Marks

LEMMA Manifests ==
  ASSUME Known, NEW w \in Worker, Move(w)
  PROVE  ManCourse(w)
<1> USE DEF At, D, disk, record, lock, bound, Committing
<1>1. CASE UNCHANGED staged
  BY <1>1 DEF ManCourse
<1>2. CASE ClaimManifest(w)
  <2>1. PICK m : m = Opened(job[w].man.rcpt)
    OBVIOUS
  <2>2. /\ m \in Manifest /\ m.rcpt = job[w].man.rcpt /\ m.steps = {}
        /\ m.assessed = "none"
    BY <2>1, FreshManifest DEF Known, Typed, Opened
  <2>3. WriteManifest(w, m) /\ job[w].doc \in Doc /\ jobLock[job[w].doc] = w
    BY <1>2, <2>1, HoldFacts DEF ClaimManifest, HoldPc
  <2>4. QED
    BY <1>2, <2>2, <2>3, WriteManifestFacts
       DEF Known, Typed, ManCourse, Rewrites, Opens
<1>3. CASE ClaimPdf(w)
  BY <1>3, HoldFacts
     DEF ClaimPdf, Filled, Known, Typed, StagedType, Staging, ManCourse, HoldPc
<1>4. CASE Snapshot(w)
  <2>1. pc[w] \in BusyPc /\ job[w].disp \in Outcome
    BY <1>4 DEF Snapshot, Known, CarryInv, CarryAt, BusyPc, CommitPc
  <2>2. CASE job[w].man.assessed = "none"
    <3>1. PICK m : m = [job[w].man EXCEPT !.assessed = job[w].disp,
                                          !.steps = @ \cup {"assessed"}]
      OBVIOUS
    <3>2. m \in Manifest
      BY <2>1, <3>1, AssessedManifest DEF Known, Typed
    <3>3. job[w].man \in Manifest
      BY DEF Known, Typed, JobType, CallRecord
    <3>4. /\ m.rcpt = job[w].man.rcpt /\ m.steps = job[w].man.steps \cup {"assessed"}
          /\ m.assessed = job[w].disp
      BY <3>1, <3>3 DEF Manifest
    <3>5. WriteManifest(w, m)
      BY <1>4, <2>2, <3>1 DEF Snapshot
    <3>6. QED
      BY <1>4, <2>1, <2>2, <3>2, <3>4, <3>5, BusyFacts, WriteManifestFacts
         DEF Known, Typed, ManCourse, Rewrites, Judges
  <2>3. CASE job[w].man.assessed # "none"
    BY <1>1, <1>4, <2>3 DEF Snapshot
  <2>4. QED
    BY <2>2, <2>3
<1>5. CASE Mark(w)
  <2>1. PICK s \in {<<"mark_pdf", "pdf", "audit">>, <<"mark_audit", "audit", "stores">>,
                   <<"mark_stores", "stores", "emit">>,
                   <<"mark_emitted", "emitted", "finish_receipt">>} :
          pc[w] = s[1] /\ Checkpoint(w, s[2])
    BY <1>5 DEF Mark
  <2>2. pc[w] \in BusyPc /\ s[2] \in Step
    BY <2>1 DEF BusyPc, CommitPc, Step
  <2>3. /\ job[w].doc \in Doc /\ jobLock[job[w].doc] = w
        /\ Marks(w, job[w].doc, s[2])
        /\ \A d \in Doc : d # job[w].doc => staged'[d] = staged[d]
    BY <2>1, <2>2, CheckpointMarks
  <2>4. Checks(w, job[w].doc)
    BY <1>5, <2>1, <2>3 DEF Checks
  <2>5. QED
    BY <2>3, <2>4 DEF ManCourse, Rewrites
<1>6. CASE AuditKnown(w) \/ AuditStart(w) \/ EmitStart(w)
  <2>1. PICK step \in {"audit", "audit_started", "emit_started"} :
          /\ Checkpoint(w, step)
          /\ \/ step = "audit" /\ AuditKnown(w)
             \/ step = "audit_started" /\ AuditStart(w)
             \/ step = "emit_started" /\ EmitStart(w)
    BY <1>6 DEF AuditKnown, AuditStart, EmitStart
  <2>2. pc[w] \in BusyPc /\ step \in Step
    BY <2>1 DEF AuditKnown, AuditStart, EmitStart, BusyPc, CommitPc, Step
  <2>3. /\ job[w].doc \in Doc /\ jobLock[job[w].doc] = w
        /\ Marks(w, job[w].doc, step)
        /\ \A d \in Doc : d # job[w].doc => staged'[d] = staged[d]
    BY <2>1, <2>2, CheckpointMarks
  <2>4. Checks(w, job[w].doc)
    BY <2>1, <2>3 DEF Checks
  <2>5. QED
    BY <2>3, <2>4 DEF ManCourse, Rewrites
<1>7. CASE RemoveEntry(w)
  <2>1. /\ job[w].doc \in Doc /\ jobLock[job[w].doc] = w
        /\ \E e : staged' = [staged EXCEPT ![job[w].doc] = Emptied(@, {e})]
    BY <1>7, HoldFacts DEF RemoveEntry, HoldPc, RemovePc
  <2>2. \A d \in Doc : \/ staged'[d].man = staged[d].man
                       \/ d = job[w].doc /\ staged'[d].man = Blank
    BY <2>1 DEF Known, Typed, StagedType, Staging, Emptied
  <2>3. QED
    BY <1>7, <2>1, <2>2 DEF ManCourse, Rewrites, Empties
<1>8. CASE RemoveDir(w)
  BY <1>8, HoldFacts
     DEF RemoveDir, Emptied, Known, Typed, StagedType, Staging, ManCourse, HoldPc, RemovePc
<1>9. CASE RetryUnresolve(w)
  BY <1>9, HoldFacts
     DEF RetryUnresolve, Emptied, Known, Typed, StagedType, Staging, ManCourse, HoldPc
<1>10. CASE Resolve(w)
  <2>1. job[w].doc \in Doc
    BY <1>10 DEF Resolve, Known, CarryInv, CarryAt
  <2>2. \/ UNCHANGED staged
        \/ staged' = [staged EXCEPT ![job[w].doc] = Filled(@, {"res"})]
    BY <1>10 DEF Resolve
  <2>3. QED
    BY <2>1, <2>2 DEF Filled, Known, Typed, StagedType, Staging, ManCourse
<1>11. CASE RetryConfirm(w)
  <2>1. job[w].doc \in Doc /\ jobLock[job[w].doc] = w
    BY <1>11, HoldFacts DEF RetryConfirm, HoldPc
  <2>2. OnDisk(job[w].doc) = staged[job[w].doc].man /\ staged[job[w].doc].man \in Manifest
    BY <2>1, WholeManifest
  <2>3. CASE Uncertain(OnDisk(job[w].doc))
    <3>1. PICK m : m = [staged[job[w].doc].man EXCEPT !.steps = @ \ {"emit_started"}]
      OBVIOUS
    <3>2. /\ m \in Manifest /\ m.rcpt = staged[job[w].doc].man.rcpt
          /\ m.steps = staged[job[w].doc].man.steps \ {"emit_started"}
          /\ m.assessed = staged[job[w].doc].man.assessed
      BY <2>2, <3>1 DEF Manifest
    <3>3. /\ WriteManifest(w, m)
          /\ confirmed' = [confirmed EXCEPT ![job[w].doc] = @ + 1]
      BY <1>11, <2>2, <2>3, <3>1 DEF RetryConfirm
    <3>4. confirmed'[job[w].doc] = confirmed[job[w].doc] + 1
      BY <2>1, <3>3 DEF Known, Typed, CountType
    <3>5. Uncertain(staged[job[w].doc].man)
      BY <2>2, <2>3
    <3>6. QED
      BY <1>11, <2>1, <3>2, <3>3, <3>4, <3>5, WriteManifestFacts
         DEF Known, Typed, ManCourse, Rewrites, Confirms
  <2>4. CASE ~Uncertain(OnDisk(job[w].doc))
    BY <1>1, <1>11, <2>4 DEF RetryConfirm
  <2>5. QED
    BY <2>3, <2>4
<1>12. QED
  BY <1>1, <1>2, <1>3, <1>4, <1>5, <1>6, <1>7, <1>8, <1>9, <1>10, <1>11, Writers

\* The staged PDF goes by rmtree and in no other way.
LEMMA StagedPdf ==
  ASSUME Known, NEW w \in Worker, Move(w), NEW d \in Doc, "pdf" \in staged[d].has
  PROVE  "pdf" \in staged'[d].has \/ (RemoveEntry(w) /\ d = job[w].doc)
<1> USE DEF At, D, disk, record, lock, bound, Committing
<1>1. CASE UNCHANGED staged
  BY <1>1
<1>2. CASE \E m : WriteManifest(w, m)
  BY <1>2 DEF WriteManifest, Known, Typed, StagedType, Staging
<1>3. CASE Snapshot(w) \/ Mark(w) \/ AuditKnown(w) \/ AuditStart(w) \/ EmitStart(w)
           \/ ClaimManifest(w) \/ RetryConfirm(w)
  BY <1>1, <1>2, <1>3 DEF Snapshot, Mark, AuditKnown, AuditStart, EmitStart, Checkpoint,
                          ClaimManifest, RetryConfirm
<1>4. CASE ClaimPdf(w) \/ Resolve(w)
  BY <1>4 DEF ClaimPdf, Resolve, Filled, Known, Typed, StagedType, Staging
<1>5. CASE RemoveDir(w) \/ RetryUnresolve(w)
  BY <1>5 DEF RemoveDir, RetryUnresolve, Emptied, Known, Typed, StagedType, Staging
<1>6. CASE RemoveEntry(w)
  BY <1>6 DEF RemoveEntry, Known, Typed, StagedType, Staging
<1>7. QED
  BY <1>1, <1>3, <1>4, <1>5, <1>6, Writers


\* What the holder of a job's lock finds unchanged after a step of another.
LEMMA UnderLock ==
  ASSUME Known, NEW w \in Worker, Move(w), NEW d \in Doc, jobLock[d] # w
  PROVE  /\ staged'[d].man = staged[d].man
         /\ index'[d] = index[d] /\ trail'[d] = trail[d]
         /\ delivered'[d] = delivered[d] /\ confirmed'[d] = confirmed[d]
<1> USE DEF At, D
<1>1. staged'[d].man = staged[d].man
  BY Manifests DEF ManCourse, Rewrites
<1>2. index'[d] = index[d]
  <2>1. CASE WriteIndex(w)
    <3>1. job[w].doc # d
      BY <2>1, HoldFacts DEF WriteIndex, HoldPc, BusyPc, CommitPc
    <3>2. QED
      BY <2>1, <3>1 DEF WriteIndex, Known, Typed, FileType
  <2>2. QED
    BY <2>1, Writers
<1>3. trail'[d] = trail[d]
  <2>1. CASE AuditAppend(w)
    <3>1. job[w].doc # d
      BY <2>1, HoldFacts DEF AuditAppend, HoldPc, BusyPc, CommitPc
    <3>2. QED
      BY <2>1, <3>1 DEF AuditAppend, Known, Typed, CountType
  <2>2. QED
    BY <2>1, Writers
<1>4. delivered'[d] = delivered[d]
  <2>1. CASE Deliver(w) \/ DeliverFails(w)
    <3>1. job[w].doc # d
      BY <2>1, HoldFacts DEF Deliver, DeliverFails, HoldPc, BusyPc, CommitPc
    <3>2. QED
      BY <2>1, <3>1 DEF Deliver, DeliverFails, Known, Typed, CountType
  <2>2. QED
    BY <2>1, Writers
<1>5. confirmed'[d] = confirmed[d]
  <2>1. CASE RetryConfirm(w)
    <3>1. job[w].doc # d
      BY <2>1, HoldFacts DEF RetryConfirm, HoldPc
    <3>2. QED
      BY <2>1, <3>1 DEF RetryConfirm, Known, Typed, CountType
  <2>2. QED
    BY <2>1, Writers
<1>6. QED
  BY <1>1, <1>2, <1>3, <1>4, <1>5

\* The counters and the index, for every job.
LEMMA Counters ==
  ASSUME Known, NEW w \in Worker, Move(w), NEW d \in Doc
  PROVE  /\ \/ index'[d] = index[d]
            \/ WriteIndex(w) /\ d = job[w].doc /\ index'[d] = job[w].disp
         /\ \/ delivered'[d] = delivered[d]
            \/ pc[w] = "deliver" /\ d = job[w].doc /\ delivered'[d] = delivered[d] + 1
         /\ confirmed'[d] >= confirmed[d]
         /\ delivered[d] \in Nat /\ confirmed[d] \in Nat
         /\ delivered'[d] \in Nat /\ confirmed'[d] \in Nat
<1> USE DEF At, D
<1>1. pc[w] # "idle" => job[w].doc \in Doc
  BY DEF Known, CarryInv, CarryAt
<1>2. \/ index'[d] = index[d]
      \/ WriteIndex(w) /\ d = job[w].doc /\ index'[d] = job[w].disp
  <2>1. CASE WriteIndex(w)
    BY <1>1, <2>1 DEF WriteIndex, Known, Typed, FileType
  <2>2. QED
    BY <2>1, Writers
<1>3. \/ delivered'[d] = delivered[d]
      \/ pc[w] = "deliver" /\ d = job[w].doc /\ delivered'[d] = delivered[d] + 1
  <2>1. CASE Deliver(w) \/ DeliverFails(w)
    BY <1>1, <2>1 DEF Deliver, DeliverFails, Known, Typed, CountType
  <2>2. QED
    BY <2>1, Writers
<1>4. delivered[d] \in Nat /\ confirmed[d] \in Nat
  BY DEF Known, Typed, CountType
<1>5. confirmed'[d] = confirmed[d] \/ confirmed'[d] = confirmed[d] + 1
  <2>1. CASE RetryConfirm(w)
    BY <1>1, <2>1 DEF RetryConfirm, Known, Typed, CountType
  <2>2. QED
    BY <2>1, Writers
<1>6. QED
  BY <1>2, <1>3, <1>4, <1>5

\* The calls, by what they start with.
Arrives(w) == \E f \in File :
  /\ w \in Watcher /\ job'[w].op \in {"run", "stage"}
  /\ job'[w].op = "run" => ~ClaimOnly
  /\ job'[w].doc = DocOf[f] /\ job'[w].file = f
  /\ pc'[w] = "claim" \/ (pc'[w] = "dup" /\ index[DocOf[f]] # "none")
Sweeps(w) == \E d \in Doc :
  /\ job'[w].op = "sweep" /\ job'[w].doc = d /\ job'[w].file = NoFile
  /\ pc'[w] = "sweep_lock" /\ "pdf" \in staged[d].has
RetriesStaged(w) == \E d \in Doc :
  /\ job'[w].op = "retry_staged" /\ job'[w].doc = d /\ job'[w].file = NoFile
  /\ pc'[w] = "retry_confirm" /\ "pdf" \in staged[d].has
RetriesFailed(w) == \E d \in Doc :
  /\ job'[w].op = "retry_failed" /\ job'[w].doc = d /\ job'[w].file = NoFile
  /\ "pdf" \in failed[d] /\ jobLock'[d] = w
  /\ pc'[w] = "claim" \/ (pc'[w] = "dup" /\ index[d] # "none")
Besides(w) ==
  /\ job'[w].op \in {"resolve_staged", "resolve_failed", "purge", "hard_purge"}
  /\ pc'[w] \in {"resolve", "purge_text"} /\ job'[w].file = NoFile

LEMMA PlainCall ==
  ASSUME Known, NEW w \in Worker, NEW op \in CallOp, NEW d \in Doc,
         job' = [job EXCEPT ![w] = NewCall(op, d, NoFile)]
  PROVE  job'[w].op = op /\ job'[w].doc = d /\ job'[w].file = NoFile
<1>1. PICK c : c = NewCall(op, d, NoFile)
  OBVIOUS
<1>2. c.op = op /\ c.doc = d /\ c.file = NoFile
  BY <1>1 DEF NewCall, CallWith
<1>3. job'[w] = c
  BY <1>1 DEF Known, Typed, JobType
<1>4. QED
  BY <1>2, <1>3

LEMMA BegunCall ==
  ASSUME Known, NEW w \in Worker, NEW op \in CallOp, NEW d \in Doc,
         NEW f \in File \cup {NoFile}, NEW o \in Outcome \cup {"none"},
         Begin(w, op, d, f, o)
  PROVE  job'[w].op = op /\ job'[w].doc = d /\ job'[w].file = f
<1>1. PICK r : job' = [job EXCEPT ![w] = CallWith(op, d, f, r, o)]
  BY DEF Begin
<1>2. PICK c : c = CallWith(op, d, f, r, o)
  OBVIOUS
<1>3. c.op = op /\ c.doc = d /\ c.file = f
  BY <1>2 DEF CallWith
<1>4. job'[w] = c
  BY <1>1, <1>2 DEF Known, Typed, JobType
<1>5. QED
  BY <1>3, <1>4

LEMMA CallKinds ==
  ASSUME Known, NEW w \in Worker, Call(w)
  PROVE  Arrives(w) \/ Sweeps(w) \/ RetriesStaged(w) \/ RetriesFailed(w) \/ Besides(w)
<1> USE DEF At, D, disk, record, lock, bound
<1>0. \A l \in PcStates : Goto(w, l) => pc'[w] = l
  BY DEF Known, Typed, PcType, Goto
<1>1. ASSUME NEW f \in File, w \in Watcher, StartRun(w, f) \/ StartStage(w, f)
      PROVE  Arrives(w)
  <2>1. /\ DocOf[f] \in Doc /\ f \in File \cup {NoFile}
        /\ index[DocOf[f]] \in Outcome \cup {"none"}
    BY DEF Known, Typed, FileType, Outcome
  <2>2. PICK op \in {"run", "stage"}, o \in Outcome \cup {"none"} :
          Begin(w, op, DocOf[f], f, o) /\ (op = "run" => ~ClaimOnly)
    BY <1>1, <2>1 DEF StartRun, StartStage
  <2>3. op \in CallOp
    BY DEF CallOp
  <2>4. job'[w].op = op /\ job'[w].doc = DocOf[f] /\ job'[w].file = f
    BY <2>1, <2>2, <2>3, BegunCall
  <2>5. pc'[w] = "claim" \/ (pc'[w] = "dup" /\ index[DocOf[f]] # "none")
    BY <1>0, <1>1 DEF StartRun, StartStage, PcStates
  <2>6. QED
    BY <1>1, <2>2, <2>4, <2>5 DEF Arrives
<1>2. ASSUME NEW d \in Doc, StartSweep(w, d)
      PROVE  Sweeps(w)
  BY <1>0, <1>2, PlainCall DEF StartSweep, Sweeps, CallOp, PcStates
<1>3. ASSUME NEW d \in Doc, StartRetryStaged(w, d)
      PROVE  RetriesStaged(w)
  BY <1>0, <1>3, PlainCall DEF StartRetryStaged, RetriesStaged, CallOp, PcStates
<1>4. ASSUME NEW d \in Doc, StartRetryFailed(w, d)
      PROVE  RetriesFailed(w)
  <2>1. /\ index[d] \in Outcome \cup {"none"} /\ "retry_failed" \in CallOp
        /\ NoFile \in File \cup {NoFile}
    BY DEF Known, Typed, FileType, Outcome, CallOp
  <2>2. job'[w].op = "retry_failed" /\ job'[w].doc = d /\ job'[w].file = NoFile
    BY <1>4, <2>1, BegunCall DEF StartRetryFailed
  <2>3. /\ "pdf" \in failed[d] /\ jobLock'[d] = w
        /\ pc'[w] = "claim" \/ (pc'[w] = "dup" /\ index[d] # "none")
    BY <1>0, <1>4 DEF StartRetryFailed, PcStates, Known, Typed, LockType
  <2>4. QED
    BY <2>2, <2>3 DEF RetriesFailed
<1>5. ASSUME NEW d \in Doc, NEW op \in {"resolve_staged", "resolve_failed"},
             StartResolve(w, d, op)
      PROVE  Besides(w)
  <2>1. pc'[w] = "resolve" /\ op \in CallOp
    BY <1>0, <1>5 DEF StartResolve, CallOp, PcStates
  <2>2. QED
    BY <1>5, <2>1, PlainCall DEF StartResolve, Besides
<1>6. ASSUME NEW d \in Doc, NEW op \in {"purge", "hard_purge"}, StartPurge(w, d, op)
      PROVE  Besides(w)
  <2>1. pc'[w] = "purge_text" /\ op \in CallOp
    BY <1>0, <1>6 DEF StartPurge, CallOp, PcStates
  <2>2. QED
    BY <1>6, <2>1, PlainCall DEF StartPurge, Besides
<1>7. QED
  BY <1>1, <1>2, <1>3, <1>4, <1>5, <1>6 DEF Call

-----------------------------------------------------------------------------
(* A job is delivered once for every confirmation, and once more.          *)

\* Nothing is delivered before the index has its row.  A manifest that was
\* assessed and shows no trace of an emit belongs to a job whose deliveries
\* an operator has all confirmed.
EmitDoc(d) ==
  /\ index[d] = "none" => delivered[d] = 0 /\ "stores" \notin staged[d].man.steps
  /\ /\ index[d] # "none" /\ staged[d].man.assessed # "none"
     /\ {"emit_started", "emitted"} \cap staged[d].man.steps = {}
     => delivered[d] <= confirmed[d]
  /\ delivered[d] <= 1 + confirmed[d]
EmitAt(w) ==
  /\ pc[w] \in {"write_text", "mark_stores", "emit", "deliver", "mark_emitted"}
     => index[job[w].doc] # "none"
  /\ pc[w] \in {"wait_main", "snapshot"}
     => index[job[w].doc] = "none" \/ staged[job[w].doc].man.assessed # "none"
  /\ pc[w] \in BusyPc \ {"snapshot"} => staged[job[w].doc].man.assessed # "none"
  /\ pc[w] = "deliver" => /\ delivered[job[w].doc] <= confirmed[job[w].doc]
                          /\ "emit_started" \in staged[job[w].doc].man.steps
EmitInv == (\A d \in Doc : EmitDoc(d)) /\ (\A w \in Worker : EmitAt(w))

\* The steps of others leave EmitAt alone.
LEMMA EmitOthers ==
  ASSUME Known, EmitInv, NEW w \in Worker, Move(w), NEW v \in Worker, v # w
  PROVE  EmitAt(v)'
<1>1. pc'[v] = pc[v] /\ job'[v] = job[v] /\ EmitAt(v)
  BY Course DEF EmitInv
<1>2. SUFFICES ASSUME pc[v] \in {"wait_main"} \cup BusyPc
               PROVE  EmitAt(v)'
  BY <1>1 DEF EmitAt, BusyPc, CommitPc
<1>3. job[v].doc \in Doc /\ jobLock[job[v].doc] # w
  BY <1>2, HoldFacts DEF HoldPc
<1>4. QED
  BY <1>1, <1>3, UnderLock DEF EmitAt

LEMMA EmitDocs ==
  ASSUME Known, EmitInv, NEW w \in Worker, Move(w), NEW d \in Doc
  PROVE  EmitDoc(d)'
<1> USE DEF At, D
<1>1. EmitDoc(d) /\ EmitAt(w)
  BY DEF EmitInv
<1>2. /\ \/ index'[d] = index[d]
         \/ WriteIndex(w) /\ d = job[w].doc /\ index'[d] = job[w].disp
      /\ \/ delivered'[d] = delivered[d]
         \/ pc[w] = "deliver" /\ d = job[w].doc /\ delivered'[d] = delivered[d] + 1
      /\ confirmed'[d] >= confirmed[d]
      /\ delivered[d] \in Nat /\ confirmed[d] \in Nat
      /\ delivered'[d] \in Nat /\ confirmed'[d] \in Nat
  BY Counters
<1>3. WriteIndex(w) => pc[w] = "stores" /\ job[w].disp # "none"
  BY DEF WriteIndex, Known, CarryInv, CarryAt, CommitPc, Filing
<1>4. index'[d] = "none" => index[d] = "none"
  BY <1>2, <1>3
<1>5. delivered'[d] <= 1 + confirmed'[d]
  BY <1>1, <1>2 DEF EmitDoc, EmitAt
<1>6. ASSUME index'[d] = "none" PROVE delivered'[d] = 0
  BY <1>1, <1>2, <1>4, <1>6 DEF EmitDoc, EmitAt
<1>7. CASE staged'[d].man = staged[d].man
  <2>1. index[d] = "none" /\ index'[d] # "none" => delivered'[d] = 0
    BY <1>1, <1>2, <1>3 DEF EmitDoc
  <2>2. QED
    BY <1>1, <1>2, <1>4, <1>5, <1>6, <1>7, <2>1 DEF EmitDoc, EmitAt
<1>8. CASE Rewrites(w, d)
  <2>1. CASE Opens(w, d) \/ Empties(w, d)
    <3>1. staged'[d].man.steps = {} /\ staged'[d].man.assessed = "none"
      BY <2>1 DEF Opens, Empties, Blank, Opened
    <3>2. QED
      BY <1>5, <1>6, <3>1 DEF EmitDoc
  <2>2. CASE Judges(w, d)
    <3>1. pc[w] = "snapshot" /\ d = job[w].doc
      BY <1>8, <2>2 DEF Judges, Snapshot, Rewrites
    <3>2. index[d] = "none" /\ index'[d] = index[d]
      BY <1>1, <1>2, <1>3, <2>2, <3>1 DEF EmitAt, Judges
    <3>3. "stores" \notin staged'[d].man.steps
      BY <1>1, <2>2, <3>2 DEF EmitDoc, Judges
    <3>4. QED
      BY <1>5, <1>6, <3>2, <3>3 DEF EmitDoc
  <2>3. CASE Checks(w, d)
    <3>1. PICK step : Marks(w, d, step) /\ (step = "stores" => pc[w] = "mark_stores")
      BY <2>3 DEF Checks
    <3>2. pc[w] # "deliver" /\ pc[w] # "stores"
      BY <2>3 DEF Checks, AuditStart, AuditKnown, EmitStart
    <3>3. index'[d] = index[d] /\ delivered'[d] = delivered[d]
      BY <1>2, <1>3, <3>2
    <3>4. d = job[w].doc
      BY <1>8 DEF Rewrites
    <3>5. QED
      BY <1>1, <1>2, <1>5, <1>6, <3>1, <3>3, <3>4 DEF EmitDoc, EmitAt, Marks
  <2>4. CASE Confirms(w, d)
    <3>1. pc[w] = "retry_confirm"
      BY <2>4 DEF Confirms, RetryConfirm
    <3>2. index'[d] = index[d] /\ delivered'[d] = delivered[d]
      BY <1>2, <1>3, <3>1
    <3>3. delivered'[d] <= confirmed'[d]
      BY <1>1, <1>2, <2>4, <3>2 DEF EmitDoc, Confirms
    <3>4. QED
      BY <1>1, <1>5, <1>6, <2>4, <3>2, <3>3 DEF EmitDoc, Confirms
  <2>5. QED
    BY <1>8, <2>1, <2>2, <2>3, <2>4 DEF Rewrites
<1>9. QED
  BY <1>7, <1>8, Manifests DEF ManCourse


\* Who is in the commit came there from the snapshot.
LEMMA BusyFrom ==
  ASSUME Known, NEW w \in Worker, Move(w), pc'[w] \in BusyPc \ {"snapshot"}
  PROVE  pc[w] \in BusyPc /\ job'[w].doc = job[w].doc /\ pc[w] # "idle"
<1>1. pc[w] \in BusyPc
  BY Arrivals
     DEF BusyPc, CommitPc, FailPc, At, Snapshot, CopyPdf, Mark, SkipDone, AuditStart,
         AuditAppend, AuditKnown, WriteIndex, WriteText, EmitStart, Deliver, FailPdf,
         FailMeta, FinishReceipt
<1>2. pc[w] # "idle"
  BY <1>1 DEF BusyPc, CommitPc, FailPc
<1>3. pc'[w] # "idle"
  BY DEF BusyPc, CommitPc, FailPc
<1>4. ~Leave(w)
  BY <1>3 DEF Leave, Goto, Known, Typed, PcType
<1>5. QED
  BY <1>1, <1>2, <1>4, Course DEF Keeps

\* The first step of a commit leaves a manifest with a verdict.
LEMMA SnapshotJudges ==
  ASSUME Known, NEW w \in Worker, Move(w), pc[w] = "snapshot",
         pc'[w] \in BusyPc \ {"snapshot"}
  PROVE  /\ job[w].disp \in Outcome
         /\ staged'[job[w].doc].man.assessed =
              IF staged[job[w].doc].man.assessed = "none"
              THEN job[w].disp ELSE staged[job[w].doc].man.assessed
<1> USE DEF At, D
<1>1. Snapshot(w)
  BY Arrivals
     DEF BusyPc, CommitPc, FailPc, CopyPdf, Mark, SkipDone, AuditStart,
         AuditAppend, AuditKnown, WriteIndex, WriteText, EmitStart, Deliver, FailPdf,
         FailMeta, FinishReceipt
<1>2. job[w].doc \in Doc /\ staged[job[w].doc].man = job[w].man
  BY BusyFacts DEF BusyPc, CommitPc
<1>3. job[w].disp \in Outcome
  BY DEF Known, CarryInv, CarryAt
<1>4. CASE job[w].man.assessed = "none"
  <2>1. PICK m : m = [job[w].man EXCEPT !.assessed = job[w].disp,
                                        !.steps = @ \cup {"assessed"}]
    OBVIOUS
  <2>2. m \in Manifest
    BY <1>3, <2>1, AssessedManifest DEF Known, Typed
  <2>3. job[w].man \in Manifest
    BY DEF Known, Typed, JobType, CallRecord
  <2>4. m.assessed = job[w].disp
    BY <2>1, <2>3 DEF Manifest
  <2>5. WriteManifest(w, m)
    BY <1>1, <1>4, <2>1 DEF Snapshot
  <2>6. QED
    BY <1>2, <1>3, <1>4, <2>2, <2>4, <2>5, WriteManifestFacts DEF Known, Typed
<1>5. CASE job[w].man.assessed # "none"
  BY <1>1, <1>2, <1>3, <1>5 DEF Snapshot
<1>6. QED
  BY <1>4, <1>5

LEMMA EmitSelf ==
  ASSUME Known, EmitInv, NEW w \in Worker, Move(w)
  PROVE  EmitAt(w)'
<1> USE DEF At, D
<1>1. EmitAt(w)
  BY DEF EmitInv
<1>2. ASSUME pc'[w] \in {"write_text", "mark_stores", "emit", "deliver", "mark_emitted"}
      PROVE  index'[job'[w].doc] # "none"
  <2>1. pc[w] \in BusyPc /\ job'[w].doc = job[w].doc
    BY <1>2, BusyFrom DEF BusyPc, CommitPc
  <2>2. job[w].doc \in Doc
    BY <2>1, BusyFacts
  <2>3. CASE WriteIndex(w)
    BY <2>1, <2>2, <2>3
       DEF WriteIndex, Known, Typed, FileType, CarryInv, CarryAt, CommitPc, Filing
  <2>4. CASE index[job[w].doc] # "none"
    <3>1. WriteIndex(w) => job[w].disp # "none"
      BY DEF WriteIndex, Known, CarryInv, CarryAt, CommitPc, Filing
    <3>2. QED
      BY <2>1, <2>2, <2>4, <3>1, Counters
  <2>5. pc'[w] = "emit" /\ pc[w] = "stores" => "stores" \in job[w].man.steps
    BY Arrivals DEF Mark
  <2>6. pc'[w] = "emit" /\ pc[w] = "stores" => index[job[w].doc] # "none"
    BY <2>1, <2>2, <2>5, BusyFacts DEF EmitInv, EmitDoc
  <2>7. WriteIndex(w) \/ index[job[w].doc] # "none"
    BY <1>1, <1>2, <2>6, Arrivals DEF EmitAt, WriteText, Mark, SkipDone, EmitStart, Deliver
  <2>8. QED
    BY <2>3, <2>4, <2>7
<1>3. ASSUME pc'[w] \in {"wait_main", "snapshot"}
      PROVE  index'[job'[w].doc] = "none" \/ staged'[job'[w].doc].man.assessed # "none"
  <2>1. Process(w) \/ Resume(w) \/ TakeMain(w)
    BY <1>3, Arrivals
  <2>2. /\ pc[w] \in {"finish", "resume", "wait_main"}
        /\ UNCHANGED <<index, staged>>
    BY <2>1 DEF Process, Resume, TakeMain, disk
  <2>3. pc'[w] # "idle" /\ ~Leave(w)
    BY <1>3 DEF Leave, Goto, Known, Typed, PcType
  <2>4. job'[w].doc = job[w].doc /\ job[w].doc \in Doc
    BY <2>2, <2>3, Course, HoldFacts DEF Keeps, HoldPc
  <2>5. CASE Process(w)
    BY <2>2, <2>4, <2>5 DEF Process
  <2>6. CASE Resume(w)
    <3>1. OnDisk(job[w].doc).assessed # "none"
      BY <1>3, <2>6 DEF Resume, Goto, Known, Typed, PcType
    <3>2. QED
      BY <2>2, <2>4, <3>1, WholeManifest
  <2>7. CASE TakeMain(w)
    BY <1>1, <2>2, <2>4, <2>7 DEF TakeMain, EmitAt
  <2>8. QED
    BY <2>1, <2>5, <2>6, <2>7
<1>4. ASSUME pc'[w] \in BusyPc \ {"snapshot"}
      PROVE  staged'[job'[w].doc].man.assessed # "none"
  <2>1. pc[w] \in BusyPc /\ job'[w].doc = job[w].doc
    BY <1>4, BusyFrom
  <2>2. job[w].doc \in Doc /\ staged[job[w].doc].man = job[w].man
    BY <2>1, BusyFacts
  <2>3. CASE pc[w] = "snapshot"
    BY <1>4, <2>1, <2>3, SnapshotJudges DEF Outcome, Filing
  <2>4. CASE pc[w] # "snapshot"
    <3>1. staged[job[w].doc].man.assessed # "none"
      BY <1>1, <2>1, <2>4 DEF EmitAt
    <3>2. ~Opens(w, job[w].doc) /\ ~Empties(w, job[w].doc) /\ ~Confirms(w, job[w].doc)
          /\ ~Judges(w, job[w].doc)
      BY <2>1, <2>4
         DEF Opens, Empties, Confirms, Judges, ClaimManifest, RemoveEntry, RetryConfirm,
             Snapshot, BusyPc, CommitPc, FailPc
    <3>3. \/ staged'[job[w].doc].man = staged[job[w].doc].man
          \/ Checks(w, job[w].doc)
      BY <2>2, <3>2, Manifests DEF ManCourse, Rewrites
    <3>4. staged'[job[w].doc].man.assessed = staged[job[w].doc].man.assessed
      BY <3>3 DEF Checks, Marks
    <3>5. QED
      BY <2>1, <3>1, <3>4
  <2>5. QED
    BY <2>3, <2>4
<1>5. ASSUME pc'[w] = "deliver"
      PROVE  /\ delivered'[job'[w].doc] <= confirmed'[job'[w].doc]
             /\ "emit_started" \in staged'[job'[w].doc].man.steps
  <2>1. EmitStart(w)
    BY <1>5, Arrivals
  <2>2. pc[w] = "emit" /\ pc[w] \in BusyPc /\ UNCHANGED <<index, delivered, confirmed>>
    BY <2>1 DEF EmitStart, BusyPc, CommitPc, Committing, record
  <2>3. /\ job[w].doc \in Doc /\ staged[job[w].doc].man = job[w].man
        /\ job'[w].doc = job[w].doc
    BY <1>5, <2>2, BusyFacts, BusyFrom DEF BusyPc, CommitPc
  <2>4. delivered[job[w].doc] <= confirmed[job[w].doc]
    <3>1. {"emit_started", "emitted"} \cap staged[job[w].doc].man.steps = {}
      BY <2>1, <2>3 DEF EmitStart, Uncertain
    <3>2. index[job[w].doc] # "none" /\ staged[job[w].doc].man.assessed # "none"
      BY <1>1, <2>2 DEF EmitAt
    <3>3. QED
      BY <2>3, <3>1, <3>2 DEF EmitInv, EmitDoc
  <2>5. "emit_started" \in staged'[job[w].doc].man.steps
    <3>1. Checkpoint(w, "emit_started") /\ "emit_started" \in Step
      BY <2>1 DEF EmitStart, Step
    <3>2. Marks(w, job[w].doc, "emit_started")
      BY <2>2, <3>1, CheckpointMarks
    <3>3. QED
      BY <3>2 DEF Marks
  <2>6. QED
    BY <2>2, <2>3, <2>4, <2>5
<1>6. QED
  BY <1>2, <1>3, <1>4, <1>5 DEF EmitAt

LEMMA InitEmit == Init => EmitInv
BY DEF Init, EmitInv, EmitDoc, EmitAt, Blank, Opened, BusyPc, CommitPc, FailPc

LEMMA NextEmit ==
  ASSUME Known, EmitInv, [Next]_vars
  PROVE  EmitInv'
<1>1. ASSUME NEW w \in Worker, Move(w) PROVE EmitInv'
  BY <1>1, EmitDocs, EmitOthers, EmitSelf DEF EmitInv
<1>2. CASE UNCHANGED vars
  BY <1>2 DEF vars, disk, record, control, EmitInv, EmitDoc, EmitAt
<1>3. QED
  BY <1>1, <1>2, NextIsMove

LEMMA AlwaysEmit == Spec => []EmitInv
<1>1. Known /\ EmitInv /\ [Next]_vars => EmitInv'
  BY NextEmit
<1>2. QED
  BY <1>1, InitEmit, AlwaysKnown, PTL DEF Spec

\* However often the emit phase is interrupted, resumed or raises, the plugins
\* run for a job at most once more than an operator has confirmed.
THEOREM DeliveredOnce == Spec => []DeliverOnce
<1>1. EmitInv => DeliverOnce
  BY DEF EmitInv, EmitDoc, DeliverOnce
<1>2. QED
  BY <1>1, AlwaysEmit, PTL


-----------------------------------------------------------------------------
(* No document is lost.                                                    *)

\* The PDF is filed, or a hard purge has taken it: for good, either way.
Kept(d) == filed[d] # {} \/ "pdf" \in erased[d]
Safe(d) == Kept(d) \/ "pdf" \in staged[d].has \cup failed[d]

DupPc == {"dup", "dup_finish", "dup_unlink"}
EntryPc == {"claim", "write_manifest", "write_pdf"}
KeptPc == {"mark_pdf", "audit", "audit_append", "mark_audit", "stores", "write_text",
           "mark_stores", "emit", "deliver", "mark_emitted", "drop_failed", "list_dup",
           "remove_dup"}
ResumePc == {"sweep_lock", "resume", "retry_confirm", "retry_unresolve"}
Arriving(w) == job[w].op \in {"run", "stage"}

\* A row, and the mark of the first step, are made after the PDF is filed;
\* what goes from the staging or the failed directory is elsewhere by then.
KeptDoc(d) == index[d] # "none" \/ "pdf" \in staged[d].man.steps => Kept(d)
KeepAt(w) ==
  /\ pc[w] \in KeptPc => Kept(job[w].doc)
  /\ pc[w] \in FailPc => job[w].disp = "failed"
  /\ pc[w] \in {"failed_meta", "finish_receipt", "list", "remove"}
     => \/ Kept(job[w].doc)
        \/ job[w].disp = "failed" /\ "pdf" \in failed[job[w].doc]
  /\ pc[w] = "retry_done" => job[w].disp = "failed" \/ Kept(job[w].doc)
  /\ pc[w] \in DupPc /\ job[w].op = "retry_failed" => Kept(job[w].doc)
  /\ pc[w] \in ResumePc => job[w].op # "retry_failed"
  /\ pc[w] = "claim" /\ job[w].op = "retry_failed" => jobLock[job[w].doc] = w
KeepInv == (\A d \in Doc : KeptDoc(d)) /\ (\A w \in Worker : KeepAt(w))

LEMMA KeptForGood ==
  ASSUME Known, NEW w \in Worker, Move(w), NEW d \in Doc, Kept(d)
  PROVE  Kept(d)'
<1> USE DEF At, D
<1>1. CASE CopyPdf(w)
  <2>1. UNCHANGED erased
    BY <1>1 DEF CopyPdf, record
  <2>2. filed[d] \subseteq filed'[d]
    BY <1>1 DEF CopyPdf, Known, Typed, FileType
  <2>3. QED
    BY <2>1, <2>2 DEF Kept
<1>2. CASE PurgePdf(w)
  <2>1. /\ d = job[w].doc => "pdf" \in erased'[d]
        /\ d # job[w].doc => erased'[d] = erased[d] /\ filed'[d] = filed[d]
    BY <1>2 DEF PurgePdf, Known, Typed, FileType, Kept
  <2>2. QED
    BY <2>1 DEF Kept
<1>3. CASE PurgeText(w)
  <2>1. erased[d] \subseteq erased'[d] /\ UNCHANGED filed
    BY <1>3 DEF PurgeText, Known, Typed, FileType
  <2>2. QED
    BY <2>1 DEF Kept
<1>4. CASE UNCHANGED <<filed, erased>>
  BY <1>4 DEF Kept
<1>5. QED
  BY <1>1, <1>2, <1>3, <1>4, Writers

\* The failed copy goes when the document has been filed.
LEMMA FailedCopy ==
  ASSUME Known, KeepInv, NEW w \in Worker, Move(w), NEW d \in Doc, "pdf" \in failed[d]
  PROVE  "pdf" \in failed'[d] \/ Kept(d)'
<1> USE DEF At, D
<1>1. CASE UNCHANGED failed
  BY <1>1
<1>2. CASE FailPdf(w) \/ FailMeta(w)
  BY <1>2 DEF FailPdf, FailMeta, Known, Typed, FileType
<1>3. CASE Resolve(w)
  BY <1>3 DEF Resolve, Known, Typed, FileType
<1>4. CASE DropFailed(w)
  <2>1. CASE d = job[w].doc
    BY <1>4, <2>1, KeptForGood DEF DropFailed, KeepInv, KeepAt, KeptPc
  <2>2. CASE d # job[w].doc
    BY <1>4, <2>2 DEF DropFailed, Known, Typed, FileType
  <2>3. QED
    BY <2>1, <2>2
<1>5. CASE RetryDone(w)
  <2>1. CASE d = job[w].doc /\ job[w].disp # "failed"
    BY <1>5, <2>1, KeptForGood DEF RetryDone, KeepInv, KeepAt
  <2>2. CASE d # job[w].doc \/ job[w].disp = "failed"
    BY <1>5, <2>2 DEF RetryDone, Known, Typed, FileType
  <2>3. QED
    BY <2>1, <2>2
<1>6. QED
  BY <1>1, <1>2, <1>3, <1>4, <1>5, Writers

LEMMA SafeForGood ==
  ASSUME Known, KeepInv, NEW w \in Worker, Move(w), NEW d \in Doc, Safe(d)
  PROVE  Safe(d)'
<1>1. CASE Kept(d)
  BY <1>1, KeptForGood DEF Safe
<1>2. CASE "pdf" \in failed[d]
  BY <1>2, FailedCopy DEF Safe
<1>3. CASE "pdf" \in staged[d].has
  <2>1. CASE RemoveEntry(w) /\ d = job[w].doc
    BY <2>1, KeptForGood, FailedCopy DEF RemoveEntry, KeepInv, KeepAt, KeptPc, Safe
  <2>2. QED
    BY <1>3, <2>1, StagedPdf DEF Safe
<1>4. QED
  BY <1>1, <1>2, <1>3 DEF Safe

LEMMA KeepOthers ==
  ASSUME Known, KeepInv, NEW w \in Worker, Move(w), NEW v \in Worker, v # w
  PROVE  KeepAt(v)'
<1>1. pc'[v] = pc[v] /\ job'[v] = job[v] /\ KeepAt(v)
  BY Course DEF KeepInv
<1>2. CASE pc[v] = "idle"
  BY <1>1, <1>2 DEF KeepAt, KeptPc, FailPc, DupPc, ResumePc
<1>3. CASE pc[v] # "idle"
  <2>1. PICK d \in Doc : d = job[v].doc
    BY <1>3 DEF Known, CarryInv, CarryAt
  <2>2. Kept(d) => Kept(d)'
    BY KeptForGood
  <2>3. "pdf" \in failed[d] => "pdf" \in failed'[d] \/ Kept(d)'
    BY FailedCopy
  <2>4. job'[v].doc = d /\ pc'[v] = pc[v] /\ job'[v] = job[v]
    BY <1>1, <2>1
  <2>5. jobLock[d] = v => jobLock'[d] = v
    BY LockCourse
  <2>6. QED
    BY <1>1, <2>1, <2>2, <2>3, <2>4, <2>5 DEF KeepAt
<1>4. QED
  BY <1>2, <1>3

LEMMA KeepDocs ==
  ASSUME Known, KeepInv, NEW w \in Worker, Move(w), NEW d \in Doc
  PROVE  KeptDoc(d)'
<1> USE DEF At, D
<1>1. KeptDoc(d) /\ KeepAt(w)
  BY DEF KeepInv
<1>2. Kept(d) => Kept(d)'
  BY KeptForGood
<1>3. index'[d] # "none" => index[d] # "none" \/ Kept(d)
  BY <1>1, Counters DEF WriteIndex, KeepAt, KeptPc
<1>4. "pdf" \in staged'[d].man.steps => "pdf" \in staged[d].man.steps \/ Kept(d)
  <2>1. CASE staged'[d].man = staged[d].man
    BY <2>1
  <2>2. CASE Opens(w, d) \/ Empties(w, d) \/ Judges(w, d) \/ Confirms(w, d)
    BY <2>2 DEF Opens, Empties, Blank, Opened, Judges, Confirms
  <2>3. CASE Checks(w, d) /\ d = job[w].doc
    <3>1. PICK step : Marks(w, d, step) /\ (step = "pdf" => pc[w] = "mark_pdf")
      BY <2>3 DEF Checks
    <3>2. pc[w] = "mark_pdf" => Kept(d)
      BY <1>1, <2>3 DEF KeepAt, KeptPc
    <3>3. QED
      BY <3>1, <3>2 DEF Marks
  <2>4. QED
    BY <2>1, <2>2, <2>3, Manifests DEF ManCourse, Rewrites
<1>5. QED
  BY <1>1, <1>2, <1>3, <1>4 DEF KeptDoc


LEMMA KeepSelf ==
  ASSUME Known, KeepInv, NEW w \in Worker, Move(w)
  PROVE  KeepAt(w)'
<1> USE DEF At, D
<1>1. KeepAt(w) /\ \A d \in Doc : KeptDoc(d) /\ (Kept(d) => Kept(d)')
  BY KeptForGood DEF KeepInv
<1>2. CASE pc'[w] = "idle"
  BY <1>2 DEF KeepAt, KeptPc, FailPc, DupPc, ResumePc
<1>3. CASE Call(w)
  <2>1. pc'[w] \in {"claim", "dup", "sweep_lock", "retry_confirm", "resolve", "purge_text"}
    BY <1>3, CallKinds DEF Arrives, Sweeps, RetriesStaged, RetriesFailed, Besides
  <2>2. /\ pc'[w] \notin KeptPc /\ pc'[w] \notin FailPc
        /\ pc'[w] \notin {"failed_meta", "finish_receipt", "list", "remove"}
        /\ pc'[w] # "retry_done"
    BY <2>1 DEF KeptPc, FailPc
  <2>3. pc'[w] \in ResumePc => job'[w].op # "retry_failed"
    BY <1>3, CallKinds DEF Arrives, Sweeps, RetriesStaged, RetriesFailed, Besides, ResumePc
  <2>4. pc'[w] = "claim" /\ job'[w].op = "retry_failed" => jobLock'[job'[w].doc] = w
    BY <1>3, CallKinds DEF Arrives, Sweeps, RetriesStaged, RetriesFailed, Besides
  <2>5. ASSUME pc'[w] \in DupPc, job'[w].op = "retry_failed"
        PROVE  Kept(job[w].doc)'
    <3>1. PICK d \in Doc : job'[w].doc = d /\ index[d] # "none"
      BY <1>3, <2>5, CallKinds
         DEF Arrives, Sweeps, RetriesStaged, RetriesFailed, Besides, DupPc
    <3>2. Kept(d)'
      BY <1>1, <3>1 DEF KeptDoc
    <3>3. QED
      BY <3>1, <3>2 DEF Kept
  <2>6. QED
    BY <2>2, <2>3, <2>4, <2>5 DEF KeepAt
<1>4. CASE pc'[w] # "idle" /\ ~Call(w)
  <2>1. /\ pc[w] # "idle" /\ Keeps(w)
        /\ SameDisp(w) \/ Process(w) \/ Resume(w) \/ FinishDuplicate(w)
    BY <1>4, Course DEF Leave, Goto, Known, Typed, PcType
  <2>2. PICK d \in Doc : d = job[w].doc /\ d = job'[w].doc
    BY <2>1 DEF Keeps, Known, CarryInv, CarryAt
  <2>3. KeptDoc(d) /\ (Kept(d) => Kept(d)')
    BY <1>1
  <2>4. "pdf" \in failed[d] => "pdf" \in failed'[d] \/ Kept(d)'
    BY FailedCopy
  <2>5. /\ pc[w] \in KeptPc => Kept(d)
        /\ pc[w] \in FailPc => job[w].disp = "failed"
        /\ pc[w] \in {"failed_meta", "finish_receipt", "list", "remove"}
           => Kept(d) \/ (job[w].disp = "failed" /\ "pdf" \in failed[d])
        /\ pc[w] \in DupPc /\ job[w].op = "retry_failed" => Kept(d)
        /\ pc[w] \in ResumePc => job[w].op # "retry_failed"
        /\ pc[w] = "claim" /\ job[w].op = "retry_failed" => jobLock[d] = w
    BY <1>1, <2>2 DEF KeepAt
  <2>6. ~SameDisp(w) => pc'[w] \in {"wait_main", "list_dup", "finish"}
    BY <2>1 DEF Process, Resume, FinishDuplicate, Goto, Known, Typed, PcType
  <2>7. job'[w].op = job[w].op
    BY <2>1 DEF Keeps
  <2>8. ASSUME pc'[w] \in KeptPc PROVE Kept(d)'
    <3>1. CASE FinishDuplicate(w)
      BY <2>2, <2>3, <3>1 DEF FinishDuplicate, KeptDoc
    <3>2. CASE CopyPdf(w)
      <4>1. filed'[d] # {}
        BY <2>2, <3>2 DEF CopyPdf, Known, Typed, FileType
      <4>2. QED
        BY <4>1 DEF Kept
    <3>3. CASE SkipDone(w) /\ pc[w] = "copy_pdf" /\ "pdf" \in job[w].man.steps
      <4>1. staged[d].man = job[w].man
        BY <2>2, <3>3, BusyFacts DEF BusyPc, CommitPc
      <4>2. QED
        BY <2>3, <3>3, <4>1 DEF KeptDoc
    <3>4. CASE FinishReceipt(w) /\ pc'[w] = "drop_failed"
      <4>1. pc[w] = "finish_receipt" /\ job[w].disp # "failed"
        BY <3>4 DEF FinishReceipt, Goto, Known, Typed, PcType
      <4>2. QED
        BY <2>3, <2>5, <4>1
    <3>5. CASE pc[w] \in KeptPc
      BY <2>3, <2>5, <3>5
    <3>6. QED
      BY <2>8, <3>1, <3>2, <3>3, <3>4, <3>5, Arrivals
         DEF KeptPc, Mark, AuditStart, AuditAppend, AuditKnown, WriteIndex, WriteText,
             SkipDone, EmitStart, Deliver, ListStaging, RemoveEntry
  <2>9. ASSUME pc'[w] \in FailPc PROVE job'[w].disp = "failed"
    <3>1. SameDisp(w)
      BY <2>6, <2>9 DEF FailPc
    <3>2. job[w].disp = "failed"
      <4>1. CASE Snapshot(w)
        BY <2>9, <4>1 DEF Snapshot, Goto, Known, Typed, PcType, FailPc
      <4>2. CASE FailPdf(w)
        BY <2>5, <4>2 DEF FailPdf, FailPc
      <4>3. QED
        BY <2>9, <4>1, <4>2, Arrivals DEF FailPc
    <3>3. QED
      BY <3>1, <3>2 DEF SameDisp
  <2>10. ASSUME pc'[w] \in {"failed_meta", "finish_receipt", "list", "remove"}
         PROVE  Kept(d)' \/ (job'[w].disp = "failed" /\ "pdf" \in failed'[d])
    <3>1. job'[w].disp = job[w].disp
      BY <2>6, <2>10 DEF SameDisp
    <3>2. CASE FailPdf(w)
      <4>1. job[w].disp = "failed"
        BY <2>5, <3>2 DEF FailPdf, FailPc
      <4>2. "pdf" \in failed'[d]
        BY <2>2, <3>2 DEF FailPdf, Known, Typed, FileType
      <4>3. QED
        BY <3>1, <4>1, <4>2
    <3>3. CASE pc[w] \in {"failed_meta", "finish_receipt", "list", "remove"} \cup KeptPc
      BY <2>3, <2>4, <2>5, <3>1, <3>3
    <3>4. CASE SkipDone(w) /\ pc[w] = "emit"
      BY <2>3, <2>5, <3>4 DEF KeptPc
    <3>5. QED
      BY <2>10, <3>2, <3>3, <3>4, Arrivals
         DEF Mark, FailMeta, FinishReceipt, DropFailed, ListStaging, RemoveEntry, KeptPc
  <2>11. ASSUME pc'[w] = "retry_done"
         PROVE  job'[w].disp = "failed" \/ Kept(d)'
    <3>1. PICK locks : Return(w, locks) /\ (DupUnlink(w) \/ RemoveDir(w) \/ ResumeDeclined(w))
      BY <2>11, Arrivals DEF DupUnlink, RemoveDir, ResumeDeclined
    <3>2. job[w].op = "retry_failed" /\ job' = job
      BY <2>11, <3>1, ReturnArrives
    <3>3. pc[w] \in {"dup_unlink", "remove", "remove_dup"}
      BY <2>5, <3>1, <3>2 DEF DupUnlink, RemoveDir, ResumeDeclined, ResumePc
    <3>4. QED
      BY <2>3, <2>5, <3>2, <3>3 DEF DupPc, KeptPc
  <2>12. ASSUME pc'[w] \in DupPc, job'[w].op = "retry_failed" PROVE Kept(d)'
    <3>1. CASE ClaimContended(w)
      BY <2>2, <2>5, <2>7, <2>12, <3>1 DEF ClaimContended
    <3>2. CASE DupReceipt(w) \/ DupFinish(w)
      BY <2>3, <2>5, <2>7, <2>12, <3>2 DEF DupReceipt, DupFinish, DupPc
    <3>3. QED
      BY <1>4, <2>12, <3>1, <3>2, Arrivals DEF DupPc
  <2>13. ASSUME pc'[w] \in ResumePc PROVE job'[w].op # "retry_failed"
    BY <1>4, <2>5, <2>7, <2>13, Arrivals
       DEF ResumePc, SweepLock, RetryUnresolve, RetryConfirm
  <2>14. pc'[w] # "claim"
    BY <1>4, Arrivals
  <2>15. Kept(job[w].doc)' <=> Kept(d)'
    BY <2>2 DEF Kept
  <2>16. job'[w].doc = d
    BY <2>2
  <2>17. QED
    BY <2>8, <2>9, <2>10, <2>11, <2>12, <2>13, <2>14, <2>16 DEF KeepAt, Kept
<1>5. QED
  BY <1>2, <1>3, <1>4

LEMMA InitKeep == Init => KeepInv
BY DEF Init, KeepInv, KeptDoc, KeepAt, Blank, Opened, KeptPc, FailPc, CommitPc, DupPc,
       ResumePc

LEMMA NextKeep ==
  ASSUME Known, KeepInv, [Next]_vars
  PROVE  KeepInv'
<1>1. ASSUME NEW w \in Worker, Move(w) PROVE KeepInv'
  BY <1>1, KeepDocs, KeepOthers, KeepSelf DEF KeepInv
<1>2. CASE UNCHANGED vars
  BY <1>2 DEF vars, disk, record, control, lock, KeepInv, KeptDoc, KeepAt, Kept
<1>3. QED
  BY <1>1, <1>2, NextIsMove

LEMMA AlwaysKeep == Spec => []KeepInv
<1>1. Known /\ KeepInv /\ [Next]_vars => KeepInv'
  BY NextKeep
<1>2. QED
  BY <1>1, InitKeep, AlwaysKnown, PTL DEF Spec



LEMMA CallIdle ==
  ASSUME NEW w \in Worker, Call(w)
  PROVE  pc[w] = "idle"
BY DEF Call, StartRun, StartStage, StartSweep, StartRetryStaged, StartRetryFailed,
       StartResolve, StartPurge, At

\* From a call beside the job no way leads to the job, nor back but by its end.
LEMMA AsideApart ==
  ASSUME Known, NEW w \in Worker, Move(w), ~Call(w)
  PROVE  /\ pc'[w] \in AsidePc \ {"idle"} => pc[w] \in AsidePc
         /\ pc[w] \in AsidePc => pc'[w] \in AsidePc
<1> USE DEF At, Goto, Known, Typed, PcType, AsidePc
<1>0. Leave(w) => pc'[w] = "idle"
  BY DEF Leave
<1>1. CASE Claim(w)
  BY <1>0, <1>1, ReturnArrives
     DEF Claim, ClaimLock, ClaimContended, ClaimManifest, ClaimPdf,
         UnlinkSource, ClaimReceipt, Relock, DupReceipt, DupFinish, DupUnlink
<1>2. CASE Commit(w)
  <2>1. CASE TakeMain(w) \/ Snapshot(w) \/ SkipDone(w) \/ Mark(w) \/ AuditKnown(w)
             \/ AuditStart(w) \/ EmitStart(w)
    BY <2>1 DEF TakeMain, Snapshot, SkipDone, Mark, AuditKnown, AuditStart, EmitStart
  <2>2. CASE CopyPdf(w) \/ AuditAppend(w) \/ WriteIndex(w) \/ WriteText(w) \/ Deliver(w)
    BY <2>2 DEF CopyPdf, AuditAppend, WriteIndex, WriteText, Deliver
  <2>3. CASE FailPdf(w) \/ FailMeta(w) \/ FinishReceipt(w) \/ DropFailed(w)
             \/ ListStaging(w) \/ RemoveEntry(w)
    BY <2>3 DEF FailPdf, FailMeta, FinishReceipt, DropFailed, ListStaging, RemoveEntry
  <2>4. CASE RemoveDir(w)
    <3>1. PICK locks : Return(w, locks)
      BY <2>4 DEF RemoveDir
    <3>2. QED
      BY <2>4, <3>1, ReturnArrives DEF RemoveDir
  <2>5. QED
    BY <1>2, <2>1, <2>2, <2>3, <2>4 DEF Commit
<1>3. CASE Continue(w)
  BY <1>0, <1>3, ReturnArrives
     DEF Continue, FinishDuplicate, Process, FinishLost, SweepLock,
         SweepContended, ResumeGone, ResumeDeclined, Resume
<1>4. CASE Operate(w)
  BY <1>0, <1>4 DEF Operate, RetryConfirm, RetryUnresolve, RetryCheck, RetryDone, Resolve,
                    PurgeText, PurgePdf, PurgeEnd
<1>5. CASE DeliverFails(w) \/ Crash(w)
  BY <1>0, <1>5 DEF DeliverFails, Crash
<1>6. QED
  BY <1>1, <1>2, <1>3, <1>4, <1>5 DEF Move, Work

\* The way of an arrival until its bytes are staged.
LEMMA Entrance ==
  ASSUME Known, NEW w \in Worker, Move(w), pc[w] \in EntryPc
  PROVE  \/ pc'[w] \in EntryPc
         \/ pc'[w] = "dup" /\ ClaimContended(w)
         \/ pc'[w] = "unlink_source" /\ ClaimPdf(w)
         \/ pc'[w] = "idle"
<1> USE DEF At, Goto, Known, Typed, PcType, EntryPc
<1>1. CASE Call(w)
  BY <1>1, CallIdle
<1>2. CASE Claim(w)
  BY <1>2 DEF Claim, ClaimLock, ClaimContended, ClaimManifest, ClaimPdf,
              UnlinkSource, ClaimReceipt, Relock, DupReceipt, DupFinish, DupUnlink, Leave
<1>3. CASE Commit(w)
  BY <1>3 DEF Commit, TakeMain, Snapshot, SkipDone, Mark, AuditKnown, AuditStart, EmitStart,
              CopyPdf, AuditAppend, WriteIndex, WriteText, Deliver, FailPdf, FailMeta,
              FinishReceipt, DropFailed, ListStaging, RemoveEntry, RemoveDir
<1>4. CASE Continue(w)
  BY <1>4 DEF Continue, FinishDuplicate, Process, FinishLost, SweepLock,
              SweepContended, ResumeGone, ResumeDeclined, Resume
<1>5. CASE Operate(w)
  BY <1>5 DEF Operate, RetryConfirm, RetryUnresolve, RetryCheck, RetryDone, Resolve,
              PurgeText, PurgePdf, PurgeEnd
<1>6. CASE DeliverFails(w) \/ Crash(w)
  BY <1>6 DEF DeliverFails, Crash, Leave
<1>7. QED
  BY <1>1, <1>2, <1>3, <1>4, <1>5, <1>6 DEF Move, Work

\* The drop folder has one poll loop: a daemon has one Watcher (cli.py), and polls
\* when it is the leader.
OneWatcher == \A v, w \in Watcher : v = w

\* The holder of a job's lock is at work on the job.
HeldInv == \A d \in Doc : jobLock[d] # Nobody =>
  /\ jobLock[d] \in Worker /\ job[jobLock[d]].doc = d
  /\ pc[jobLock[d]] \notin AsidePc
\* Whoever works on a document has it safe, or is the arrival that stages it.
ArriveAt(w) ==
  /\ pc[w] = "unlink_source" => "pdf" \in staged[job[w].doc].has
  /\ pc[w] \notin AsidePc => \/ Safe(job[w].doc)
                             \/ pc[w] \in EntryPc /\ Arriving(w)
  /\ pc[w] # "idle" /\ Arriving(w) => w \in Watcher
  /\ pc[w] = "claim" /\ ~Arriving(w) => jobLock[job[w].doc] = w
  /\ pc[w] # "idle" /\ job[w].file \in File => DocOf[job[w].file] = job[w].doc
ArriveInv == HeldInv /\ \A w \in Worker : ArriveAt(w)

LEMMA KeepsHeld ==
  ASSUME Known, HeldInv, NEW w \in Worker, Move(w)
  PROVE  HeldInv'
<1> DEFINE Held(d) == jobLock[d] # Nobody =>
                        /\ jobLock[d] \in Worker /\ job[jobLock[d]].doc = d
                        /\ pc[jobLock[d]] \notin AsidePc
<1>1. ASSUME NEW d \in Doc PROVE Held(d)'
  <2>1. CASE jobLock'[d] = w
    <3>1. ~Leave(w)
      BY <2>1, LockCourse
    <3>2. CASE jobLock[d] # w
      BY <2>1, <3>2, LockCourse
    <3>3. CASE jobLock[d] = w
      <4>1. job[w].doc = d /\ pc[w] \notin AsidePc
        BY <3>3 DEF HeldInv
      <4>2. pc'[w] # "idle" /\ Keeps(w) /\ ~Call(w)
        BY <3>1, <4>1, Course, CallIdle DEF AsidePc
      <4>3. pc'[w] \notin AsidePc
        BY <4>1, <4>2, AsideApart
      <4>4. QED
        BY <2>1, <4>1, <4>2, <4>3 DEF Keeps
    <3>4. QED
      BY <3>2, <3>3
  <2>2. CASE jobLock'[d] # w /\ jobLock'[d] # Nobody
    <3>1. jobLock[d] = jobLock'[d]
      BY <2>2, LockCourse
    <3>2. PICK v \in Worker : v = jobLock[d]
      BY <2>2, <3>1 DEF HeldInv
    <3>3. pc'[v] = pc[v] /\ job'[v] = job[v]
      BY <2>2, <3>1, <3>2, Course
    <3>4. QED
      BY <2>2, <3>1, <3>2, <3>3 DEF HeldInv
  <2>3. QED
    BY <2>1, <2>2
<1>2. QED
  BY <1>1 DEF HeldInv

LEMMA ArriveOthers ==
  ASSUME Known, KeepInv, ArriveInv, NEW w \in Worker, Move(w), NEW v \in Worker, v # w
  PROVE  ArriveAt(v)'
<1>1. pc'[v] = pc[v] /\ job'[v] = job[v] /\ ArriveAt(v)
  BY Course DEF ArriveInv
<1>2. CASE pc[v] = "idle"
  BY <1>1, <1>2 DEF ArriveAt, AsidePc
<1>3. CASE pc[v] # "idle"
  <2>1. PICK d \in Doc : d = job[v].doc
    BY <1>3 DEF Known, CarryInv, CarryAt
  <2>2. Safe(d) => Safe(d)'
    BY SafeForGood
  <2>3. pc[v] = "unlink_source" => "pdf" \in staged'[d].has
    <3>1. SUFFICES ASSUME pc[v] = "unlink_source"
                   PROVE  "pdf" \in staged'[d].has
      OBVIOUS
    <3>2. jobLock[d] = v /\ "pdf" \in staged[d].has
      BY <1>1, <2>1, <3>1, HoldFacts DEF HoldPc, ArriveAt
    <3>3. ~(RemoveEntry(w) /\ d = job[w].doc)
      BY <3>2, HoldFacts DEF RemoveEntry, HoldPc, RemovePc
    <3>4. QED
      BY <3>2, <3>3, StagedPdf
  <2>4. jobLock[d] = v => jobLock'[d] = v
    BY LockCourse
  <2>5. job'[v].doc = d /\ job'[v].file = job[v].file /\ (Arriving(v)' <=> Arriving(v))
    BY <1>1, <2>1 DEF Arriving
  <2>6. Safe(job[v].doc)' <=> Safe(d)'
    BY <2>5 DEF Safe, Kept
  <2>7. QED
    BY <1>1, <2>1, <2>2, <2>3, <2>4, <2>5, <2>6 DEF ArriveAt
<1>4. QED
  BY <1>2, <1>3

LEMMA ArriveSelf ==
  ASSUME OneWatcher, Known, KeepInv, ArriveInv, NEW w \in Worker, Move(w)
  PROVE  ArriveAt(w)'
<1> USE DEF At, D
<1>1. ArriveAt(w)
  BY DEF ArriveInv
<1>2. CASE pc'[w] = "idle"
  BY <1>2 DEF ArriveAt, AsidePc
<1>3. CASE Call(w) /\ pc'[w] # "idle"
  <2>1. PICK d : d = job'[w].doc
    OBVIOUS
  <2>2. Arrives(w) \/ Sweeps(w) \/ RetriesStaged(w) \/ RetriesFailed(w) \/ Besides(w)
    BY <1>3, CallKinds
  <2>3. /\ pc'[w] # "unlink_source"
        /\ Arriving(w)' => w \in Watcher
        /\ pc'[w] = "claim" /\ ~Arriving(w)' => jobLock'[d] = w
        /\ job'[w].file \in File => DocOf[job'[w].file] = d
    BY <2>1, <2>2 DEF Arrives, Sweeps, RetriesStaged, RetriesFailed, Besides, Arriving
  <2>4. pc'[w] \in AsidePc \/ Safe(d)' \/ (pc'[w] \in EntryPc /\ Arriving(w)')
    <3>1. CASE Besides(w)
      BY <3>1 DEF Besides, AsidePc
    <3>2. CASE d \in Doc /\ (index[d] # "none" \/ "pdf" \in staged[d].has \/ "pdf" \in failed[d])
      <4>1. Safe(d)
        BY <3>2 DEF KeepInv, KeptDoc, Safe
      <4>2. QED
        BY <3>2, <4>1, SafeForGood
    <3>3. CASE pc'[w] = "claim" /\ Arriving(w)'
      BY <3>3 DEF EntryPc
    <3>4. CASE Arrives(w)
      BY <2>1, <3>2, <3>3, <3>4 DEF Arrives, Arriving
    <3>5. QED
      BY <2>1, <2>2, <3>1, <3>2, <3>4 DEF Sweeps, RetriesStaged, RetriesFailed
  <2>5. Safe(job[w].doc)' <=> Safe(d)'
    BY <2>1 DEF Safe, Kept
  <2>6. QED
    BY <2>1, <2>3, <2>4, <2>5 DEF ArriveAt
<1>4. CASE ~Call(w) /\ pc'[w] # "idle"
  <2>1. pc[w] # "idle" /\ Keeps(w)
    BY <1>4, Course DEF Leave, Goto, Known, Typed, PcType
  <2>2. PICK d \in Doc : d = job[w].doc /\ d = job'[w].doc
    BY <2>1 DEF Keeps, Known, CarryInv, CarryAt
  <2>3. Arriving(w)' <=> Arriving(w)
    BY <2>1 DEF Keeps, Arriving
  <2>4. ClaimPdf(w) => "pdf" \in staged'[d].has
    BY <2>2 DEF ClaimPdf, Filled, Known, Typed, StagedType, Staging
  <2>5. pc'[w] # "claim" /\ (pc'[w] = "unlink_source" => "pdf" \in staged'[d].has)
    BY <1>4, <2>4, Arrivals
  <2>6. ASSUME pc'[w] \notin AsidePc
        PROVE  Safe(d)' \/ (pc'[w] \in EntryPc /\ Arriving(w)')
    <3>1. pc[w] \notin AsidePc
      BY <1>4, <2>6, AsideApart
    <3>2. CASE Safe(d)
      BY <3>2, SafeForGood
    <3>3. CASE ~Safe(d)
      <4>1. pc[w] \in EntryPc /\ Arriving(w)
        BY <1>1, <2>2, <3>1, <3>3 DEF ArriveAt
      <4>2. ASSUME ClaimContended(w) PROVE FALSE
        <5>1. PICK v \in Worker : v = jobLock[d] /\ v # w
          BY <2>2, <4>2 DEF ClaimContended, ArriveInv, HeldInv
        <5>2. job[v].doc = d /\ pc[v] \notin AsidePc
          BY <5>1 DEF ArriveInv, HeldInv
        <5>3. Arriving(v) /\ v \in Watcher
          BY <3>3, <5>2 DEF ArriveInv, ArriveAt, AsidePc
        <5>4. w \in Watcher
          BY <2>1, <1>1, <4>1 DEF ArriveAt
        <5>5. QED
          BY <5>1, <5>3, <5>4 DEF OneWatcher
      <4>3. ClaimPdf(w) => Safe(d)'
        BY <2>4 DEF Safe
      <4>4. QED
        BY <1>4, <2>3, <4>1, <4>2, <4>3, Entrance
    <3>4. QED
      BY <3>2, <3>3
  <2>7. Safe(job[w].doc)' <=> Safe(d)'
    BY <2>2 DEF Safe, Kept
  <2>8. Arriving(w)' => w \in Watcher
    BY <1>1, <2>1, <2>3 DEF ArriveAt
  <2>9. job'[w].file \in File => DocOf[job'[w].file] = d
    BY <1>1, <2>1, <2>2 DEF ArriveAt, Keeps
  <2>10. QED
    BY <2>2, <2>5, <2>6, <2>7, <2>8, <2>9 DEF ArriveAt
<1>5. QED
  BY <1>2, <1>3, <1>4

LEMMA InitArrive == Init => ArriveInv
BY DEF Init, ArriveInv, HeldInv, ArriveAt, AsidePc

\* What leaves the drop folder is safe by then.
LEMMA KeepsNeverLost ==
  ASSUME Known, KeepInv, ArriveInv, NeverLost, NEW w \in Worker, Move(w)
  PROVE  NeverLost'
<1> USE DEF At, D
<1>1. SUFFICES ASSUME NEW d \in Doc, NEW g \in File, DocOf[g] = d
               PROVE  Safe(d)' \/ \E f \in drop' : DocOf[f] = d
  BY DEF NeverLost, Safe, Kept
<1>2. CASE Safe(d)
  BY <1>2, SafeForGood
<1>3. CASE ~Safe(d)
  <2>1. PICK f \in drop : DocOf[f] = d
    BY <1>1, <1>3 DEF NeverLost, Safe, Kept
  <2>2. f \in File
    BY DEF Known, Typed, FileType
  <2>3. CASE UnlinkSource(w) \/ DupUnlink(w)
    <3>1. pc[w] \in {"unlink_source", "dup_unlink"} /\ drop' = drop \ {job[w].file}
      BY <2>3 DEF UnlinkSource, DupUnlink
    <3>2. Safe(job[w].doc)
      BY <3>1 DEF ArriveInv, ArriveAt, Safe, AsidePc, EntryPc
    <3>3. job[w].file # f
      BY <1>3, <2>1, <2>2, <3>1, <3>2 DEF ArriveInv, ArriveAt
    <3>4. QED
      BY <2>1, <3>1, <3>3
  <2>4. QED
    BY <2>1, <2>3, Writers
<1>4. QED
  BY <1>2, <1>3

LEMMA NextArrive ==
  ASSUME OneWatcher, Known, KeepInv, ArriveInv, NeverLost, [Next]_vars
  PROVE  ArriveInv' /\ NeverLost'
<1>1. ASSUME NEW w \in Worker, Move(w) PROVE ArriveInv' /\ NeverLost'
  <2>1. HeldInv'
    BY <1>1, KeepsHeld DEF ArriveInv
  <2>2. QED
    BY <1>1, <2>1, ArriveOthers, ArriveSelf, KeepsNeverLost DEF ArriveInv
<1>2. CASE UNCHANGED vars
  BY <1>2 DEF vars, disk, record, control, lock, ArriveInv, HeldInv, ArriveAt, Safe, Kept,
              Arriving, NeverLost
<1>3. QED
  BY <1>1, <1>2, NextIsMove

\* A document that has arrived is in the drop folder, in its staging directory,
\* filed, or failed, until a hard purge takes it: no crash, retry, sweep or
\* second arrival loses it.  With two poll loops at once, the second loop takes
\* a file that the first is claiming for a duplicate and removes it, and the
\* first may end before the bytes are staged: the daemon has one (the leader's).
THEOREM NoneIsLost == OneWatcher => (Spec => []NeverLost)
<1>1. SUFFICES ASSUME OneWatcher PROVE Spec => []NeverLost
  OBVIOUS
<1>2. Init => NeverLost
  BY DEF Init, NeverLost
<1>3. Known /\ KeepInv /\ ArriveInv /\ NeverLost /\ [Next]_vars => ArriveInv' /\ NeverLost'
  BY <1>1, NextArrive
<1>4. QED
  BY <1>2, <1>3, InitArrive, AlwaysKnown, AlwaysKeep, PTL DEF Spec

-----------------------------------------------------------------------------
(* Receipts and the trail, one step.                                       *)

\* What becomes of a receipt.
Draws(w, r) == Call(w) /\ receipt[r] = "unused" /\ receipt'[r] = "issued"
Stores(w, r) == /\ ClaimReceipt(w) \/ DupReceipt(w)
                /\ r = job[w].man.rcpt /\ receipt'[r] = "received"
Restores(w, r) == /\ Resume(w) /\ r = staged[job[w].doc].man.rcpt
                  /\ receipt[r] = "issued" /\ receipt'[r] = "received"
Repeats(w, r) == /\ DupFinish(w) \/ FinishDuplicate(w)
                 /\ receipt[r] \notin {"unused", "issued"} /\ receipt'[r] = "duplicate"
Closes(w, r) == /\ FinishReceipt(w) /\ r = job[w].man.rcpt
                /\ receipt[r] \notin {"unused", "issued"} /\ receipt'[r] = job[w].disp

LEMMA FinishFacts ==
  ASSUME Known, NEW q, NEW s, Finish(q, s), NEW r \in Receipt
  PROVE  \/ receipt'[r] = receipt[r]
         \/ /\ r = q /\ receipt[r] \notin {"unused", "issued"} /\ receipt'[r] = s
BY DEF Finish, Known, Typed, FileType

LEMMA BegunReceipt ==
  ASSUME Known, NEW w \in Worker, NEW op, NEW d, NEW f, NEW o, Begin(w, op, d, f, o)
  PROVE  /\ job'[w].man.rcpt \in Receipt /\ receipt'[job'[w].man.rcpt] = "issued"
         /\ \A r \in Receipt : \/ receipt'[r] = receipt[r]
                               \/ receipt[r] = "unused" /\ receipt'[r] = "issued"
<1>1. PICK q \in Receipt : q = CHOOSE r \in Receipt : receipt[r] = "unused"
  BY DEF Begin
<1>2. receipt[q] = "unused"
  BY <1>1 DEF Begin
<1>3. /\ receipt' = [receipt EXCEPT ![q] = "issued"]
      /\ job' = [job EXCEPT ![w] = CallWith(op, d, f, q, o)]
  BY <1>1 DEF Begin
<1>4. PICK c : c = CallWith(op, d, f, q, o)
  OBVIOUS
<1>5. c.man.rcpt = q
  BY <1>4 DEF CallWith, Opened
<1>6. job'[w] = c
  BY <1>3, <1>4 DEF Known, Typed, JobType
<1>7. QED
  BY <1>2, <1>3, <1>5, <1>6 DEF Known, Typed, FileType

LEMMA ReceiptCourse ==
  ASSUME Known, NEW w \in Worker, Move(w), NEW r \in Receipt
  PROVE  \/ receipt'[r] = receipt[r] \/ Draws(w, r) \/ Stores(w, r)
         \/ Restores(w, r) \/ Repeats(w, r) \/ Closes(w, r)
<1> USE DEF At, D
<1>1. CASE \/ \E f \in File : StartRun(w, f) \/ StartStage(w, f)
           \/ \E d \in Doc : StartRetryFailed(w, d)
  <2>1. PICK op, d, f, o : Begin(w, op, d, f, o)
    BY <1>1 DEF StartRun, StartStage, StartRetryFailed
  <2>2. CASE Call(w)
    BY <2>1, <2>2, BegunReceipt DEF Draws
  <2>3. CASE ~Call(w)
    <3>1. pc[w] = "idle" /\ pc'[w] # "idle"
      BY <1>1 DEF StartRun, StartStage, StartRetryFailed, Goto, Known, Typed, PcType
    <3>2. QED
      BY <2>3, <3>1, Course
  <2>4. QED
    BY <2>2, <2>3
<1>2. CASE ClaimReceipt(w) \/ DupReceipt(w)
  BY <1>2 DEF ClaimReceipt, DupReceipt, Stores, Known, Typed, FileType
<1>3. CASE DupFinish(w)
  BY <1>3, FinishFacts DEF DupFinish, Repeats
<1>4. CASE FinishDuplicate(w)
  BY <1>4, FinishFacts DEF FinishDuplicate, Repeats
<1>5. CASE FinishReceipt(w)
  BY <1>5, FinishFacts DEF FinishReceipt, Closes
<1>6. CASE Resume(w)
  <2>1. job[w].doc \in Doc
    BY <1>6, HoldFacts DEF Resume, HoldPc
  <2>2. OnDisk(job[w].doc) = staged[job[w].doc].man
    BY <2>1, WholeManifest
  <2>3. QED
    BY <1>6, <2>2 DEF Resume, Restores
<1>7. QED
  BY <1>1, <1>2, <1>3, <1>4, <1>5, <1>6, Writers

\* The trail only grows, by what the commit has in memory.
Logs(w, d, i) == /\ pc[w] = "audit_append" /\ d = job[w].doc
                 /\ trail'[d][i].rcpt = job[w].man.rcpt
                 /\ trail'[d][i].disp = job[w].disp

LEMMA TrailCourse ==
  ASSUME Known, NEW w \in Worker, Move(w), NEW d \in Doc
  PROVE  /\ \A i \in DOMAIN trail[d] : /\ i \in DOMAIN trail'[d]
                                       /\ trail'[d][i] = trail[d][i]
         /\ \A i \in DOMAIN trail'[d] : \/ /\ i \in DOMAIN trail[d]
                                           /\ trail'[d][i] = trail[d][i]
                                        \/ Logs(w, d, i)
         /\ AuditAppend(w) /\ d = job[w].doc => \E i \in DOMAIN trail'[d] : Logs(w, d, i)
         /\ \A i \in DOMAIN trail[d] : trail[d][i].disp \in Filing
<1> USE DEF At, D
<1> DEFINE Event == [rcpt : Receipt \cup {NoReceipt}, disp : Filing]
<1>1. trail[d] \in Seq(Event)
  BY DEF Known, Typed, CountType
<1> HIDE DEF Event
<1>0. \A i \in DOMAIN trail[d] : trail[d][i].disp \in Filing
  <2>1. \A i \in DOMAIN trail[d] : trail[d][i] \in Event
    BY <1>1
  <2>2. QED
    BY <2>1 DEF Event
<1>2. CASE trail'[d] = trail[d] /\ ~(AuditAppend(w) /\ d = job[w].doc)
  BY <1>0, <1>2
<1>3. CASE AuditAppend(w) /\ d = job[w].doc
  <2>1. PICK e : e = [rcpt |-> job[w].man.rcpt, disp |-> job[w].disp]
    OBVIOUS
  <2>2. e.rcpt = job[w].man.rcpt /\ e.disp = job[w].disp
    BY <2>1
  <2>3. trail'[d] = Append(trail[d], e) /\ pc[w] = "audit_append"
    BY <1>3, <2>1 DEF AuditAppend, Known, Typed, CountType
  <2>4. e \in Event
    <3>1. job[w].man.rcpt \in Receipt \cup {NoReceipt}
      BY DEF Known, Typed, JobType, CallRecord, Manifest
    <3>2. job[w].disp \in Filing
      BY <2>3 DEF Known, CarryInv, CarryAt, CommitPc
    <3>3. QED
      BY <2>1, <3>1, <3>2 DEF Event
  <2>5. /\ DOMAIN trail[d] = 1..Len(trail[d]) /\ Len(trail[d]) \in Nat
        /\ DOMAIN trail'[d] = 1..(Len(trail[d]) + 1)
        /\ \A i \in 1..Len(trail[d]) : trail'[d][i] = trail[d][i]
        /\ trail'[d][Len(trail[d]) + 1] = e
    BY <1>1, <2>3, <2>4
  <2>6. Logs(w, d, Len(trail[d]) + 1)
    BY <1>3, <2>2, <2>3, <2>5 DEF Logs
  <2>7. /\ \A i \in DOMAIN trail[d] : i \in DOMAIN trail'[d] /\ trail'[d][i] = trail[d][i]
        /\ Len(trail[d]) + 1 \in DOMAIN trail'[d]
        /\ \A i \in DOMAIN trail'[d] : i \in DOMAIN trail[d] \/ i = Len(trail[d]) + 1
    BY <2>5
  <2>8. QED
    BY <1>0, <2>6, <2>7
<1>4. trail'[d] = trail[d] \/ (AuditAppend(w) /\ d = job[w].doc)
  <2>1. CASE AuditAppend(w) /\ d # job[w].doc
    BY <2>1 DEF AuditAppend, Known, Typed, CountType
  <2>2. QED
    BY <2>1, Writers
<1>5. QED
  BY <1>2, <1>3, <1>4

-----------------------------------------------------------------------------
(* Whose receipt it is.                                                    *)

\* No two manifests have one receipt.
UniqueAt(d) == \A e \in Doc : staged[d].man.rcpt = staged[e].man.rcpt =>
                 d = e \/ staged[d].man.rcpt = NoReceipt
\* Until the claim stores its receipt, the receipt is drawn and no more.
FilledPc == {"write_pdf", "unlink_source", "write_receipt"}
IssuedAt(w) ==
  /\ pc[w] \in ClaimPc \cup FilledPc => /\ job[w].man.rcpt \in Receipt
                                        /\ receipt[job[w].man.rcpt] = "issued"
  /\ pc[w] \in FilledPc => staged[job[w].doc].man.rcpt = job[w].man.rcpt
IssuedInv == (\A d \in Doc : UniqueAt(d)) /\ (\A w \in Worker : IssuedAt(w))

LEMMA KeepsUnique ==
  ASSUME Known, OnceInv, IssuedInv, NEW w \in Worker, Move(w), NEW d \in Doc
  PROVE  UniqueAt(d)'
<1> DEFINE Same(x) == staged'[x].man.rcpt \in {staged[x].man.rcpt, NoReceipt}
           New(x) == x = job[w].doc /\ ClaimManifest(w)
                     /\ staged'[x].man.rcpt = job[w].man.rcpt
<1>1. \A x \in Doc : Same(x) \/ New(x)
  BY Manifests DEF ManCourse, Rewrites, Opens, Empties, Judges, Checks, Marks, Confirms,
                   Blank, Opened
<1>2. ClaimManifest(w) => \A x \in Doc : staged[x].man.rcpt # job[w].man.rcpt
  BY DEF ClaimManifest, At, OnceInv, NewAt, ClaimPc, Seen
<1>3. \A x \in Doc : UniqueAt(x)
  BY DEF IssuedInv
<1>4. ASSUME NEW e \in Doc, staged'[d].man.rcpt = staged'[e].man.rcpt
      PROVE  d = e \/ staged'[d].man.rcpt = NoReceipt
  <2>1. CASE New(d) \/ New(e)
    BY <1>1, <1>2, <1>4, <2>1
  <2>2. CASE Same(d) /\ Same(e)
    BY <1>3, <1>4, <2>2 DEF UniqueAt
  <2>3. QED
    BY <1>1, <2>1, <2>2
<1>5. QED
  BY <1>4 DEF UniqueAt

LEMMA IssuedOthers ==
  ASSUME Known, OnceInv, IssuedInv, NEW w \in Worker, Move(w), NEW v \in Worker, v # w
  PROVE  IssuedAt(v)'
<1> USE DEF At, D
<1>1. pc'[v] = pc[v] /\ job'[v] = job[v] /\ IssuedAt(v)
  BY Course DEF IssuedInv
<1>2. SUFFICES ASSUME pc[v] \in ClaimPc \cup FilledPc
               PROVE  IssuedAt(v)'
  BY <1>1 DEF IssuedAt
<1>3. PICK r \in Receipt : r = job[v].man.rcpt /\ receipt[r] = "issued"
  BY <1>1, <1>2 DEF IssuedAt
<1>4. pc[v] \in FilledPc => /\ job[v].doc \in Doc /\ jobLock[job[v].doc] = v
                            /\ staged[job[v].doc].man.rcpt = r
  BY <1>1, <1>3, HoldFacts DEF IssuedAt, FilledPc, HoldPc
<1>5. pc[v] \in FilledPc => staged'[job[v].doc].man = staged[job[v].doc].man
  BY <1>4, UnderLock
<1>6. pc[v] \in ClaimPc => ~Seen(r) /\ job[w].man.rcpt # r
  BY <1>3 DEF OnceInv, NewAt
<1>7. r # NoReceipt
  OBVIOUS
<1>8. ASSUME NEW d \in Doc, jobLock[d] = w, staged[d].man.rcpt = r PROVE FALSE
  <2>1. pc[v] \in FilledPc
    BY <1>2, <1>6, <1>8 DEF Seen
  <2>2. d = job[v].doc
    BY <1>4, <1>7, <1>8, <2>1 DEF IssuedInv, UniqueAt
  <2>3. QED
    BY <1>4, <1>8, <2>1, <2>2
<1>9. ~Stores(w, r)
  <2>1. CASE ClaimReceipt(w) /\ r = job[w].man.rcpt
    <3>1. pc[w] \in FilledPc /\ pc[w] \in HoldPc
      BY <2>1 DEF ClaimReceipt, FilledPc, HoldPc
    <3>2. staged[job[w].doc].man.rcpt = r /\ job[w].doc \in Doc /\ jobLock[job[w].doc] = w
      BY <2>1, <3>1, HoldFacts DEF IssuedInv, IssuedAt
    <3>3. QED
      BY <1>8, <3>2
  <2>2. CASE DupReceipt(w) /\ r = job[w].man.rcpt
    <3>1. ~Seen(r) /\ job[v].man.rcpt # r
      BY <2>2 DEF DupReceipt, OnceInv, NewAt, ClaimPc
    <3>2. QED
      BY <1>3, <3>1
  <2>3. QED
    BY <2>1, <2>2 DEF Stores
<1>10. ~Restores(w, r)
  <2>1. SUFFICES ASSUME Restores(w, r) PROVE FALSE
    OBVIOUS
  <2>2. job[w].doc \in Doc /\ jobLock[job[w].doc] = w
    BY <2>1, HoldFacts DEF Restores, Resume, HoldPc
  <2>3. QED
    BY <1>8, <2>1, <2>2 DEF Restores
<1>11. receipt'[r] = "issued"
  BY <1>3, <1>9, <1>10, ReceiptCourse DEF Draws, Repeats, Closes
<1>12. QED
  BY <1>1, <1>3, <1>4, <1>5, <1>11 DEF IssuedAt

LEMMA IssuedSelf ==
  ASSUME Known, OnceInv, IssuedInv, NEW w \in Worker, Move(w)
  PROVE  IssuedAt(w)'
<1> USE DEF At, D, disk, record
<1>1. IssuedAt(w)
  BY DEF IssuedInv
<1>2. CASE Call(w)
  <2>1. pc'[w] \notin FilledPc /\ pc'[w] # "write_manifest"
    BY <1>2, Arrivals, CallIdle
       DEF FilledPc, ClaimLock, ClaimManifest, ClaimPdf, UnlinkSource
  <2>2. ASSUME pc'[w] \in {"claim", "dup"}
        PROVE  job'[w].man.rcpt \in Receipt /\ receipt'[job'[w].man.rcpt] = "issued"
    <3>1. PICK op, d, f, o : Begin(w, op, d, f, o)
      BY <1>2, <2>2
         DEF Call, StartRun, StartStage, StartSweep, StartRetryStaged, StartRetryFailed,
             StartResolve, StartPurge, Goto, Known, Typed, PcType
    <3>2. QED
      BY <3>1, BegunReceipt
  <2>3. QED
    BY <2>1, <2>2 DEF IssuedAt, ClaimPc
<1>3. CASE ~Call(w)
  <2>1. CASE ClaimLock(w) \/ ClaimContended(w)
    <3>1. /\ pc[w] \in ClaimPc /\ job' = job /\ receipt' = receipt
          /\ pc'[w] \in ClaimPc
      BY <2>1 DEF ClaimLock, ClaimContended, ClaimPc, Goto, Known, Typed, PcType
    <3>2. pc'[w] \notin FilledPc
      BY <3>1 DEF ClaimPc, FilledPc
    <3>3. QED
      BY <1>1, <3>1, <3>2 DEF IssuedAt
  <2>2. CASE ClaimManifest(w)
    <3>1. PICK m : m = Opened(job[w].man.rcpt)
      OBVIOUS
    <3>2. m.rcpt = job[w].man.rcpt /\ WriteManifest(w, m)
      BY <2>2, <3>1 DEF Opened, ClaimManifest
    <3>3. job'[w].man = m
      BY <3>2 DEF WriteManifest, Known, Typed, JobType
    <3>4. staged'[job[w].doc].man = m /\ job'[w].doc = job[w].doc
      <4>1. job[w].doc \in Doc
        BY <2>2, HoldFacts DEF ClaimManifest, HoldPc
      <4>2. QED
        BY <3>2, <4>1 DEF WriteManifest, Known, Typed, JobType, StagedType
    <3>5. receipt' = receipt /\ pc[w] \in ClaimPc /\ pc'[w] \in FilledPc
      BY <2>2 DEF ClaimManifest, ClaimPc, FilledPc, Goto, Known, Typed, PcType
    <3>6. QED
      BY <1>1, <3>2, <3>3, <3>4, <3>5 DEF IssuedAt
  <2>3. CASE ClaimPdf(w) \/ UnlinkSource(w)
    <3>1. /\ pc[w] \in FilledPc /\ job' = job /\ receipt' = receipt /\ job[w].doc \in Doc
      BY <2>3 DEF ClaimPdf, UnlinkSource, FilledPc, Known, CarryInv, CarryAt
    <3>2. staged'[job[w].doc].man = staged[job[w].doc].man
      BY <2>3, <3>1 DEF ClaimPdf, UnlinkSource, Filled, Known, Typed, StagedType
    <3>3. QED
      BY <1>1, <3>1, <3>2 DEF IssuedAt
  <2>4. QED
    BY <1>3, <2>1, <2>2, <2>3, Arrivals DEF IssuedAt, ClaimPc, FilledPc
<1>4. QED
  BY <1>2, <1>3

LEMMA InitIssued == Init => IssuedInv
BY DEF Init, IssuedInv, UniqueAt, IssuedAt, ClaimPc, FilledPc, Blank, Opened

LEMMA AlwaysIssued == Spec => []IssuedInv
<1>1. Known /\ OnceInv /\ IssuedInv /\ [Next]_vars => IssuedInv'
  <2>1. SUFFICES ASSUME Known, OnceInv, IssuedInv, [Next]_vars PROVE IssuedInv'
    OBVIOUS
  <2>2. ASSUME NEW w \in Worker, Move(w) PROVE IssuedInv'
    BY <2>1, <2>2, KeepsUnique, IssuedOthers, IssuedSelf DEF IssuedInv
  <2>3. CASE UNCHANGED vars
    BY <2>1, <2>3 DEF vars, disk, record, control, IssuedInv, UniqueAt, IssuedAt
  <2>4. QED
    BY <2>1, <2>2, <2>3, NextIsMove
<1>2. QED
  BY <1>1, InitIssued, AlwaysKnown, AlwaysOnce, PTL DEF Spec

-----------------------------------------------------------------------------
(* The verdicts on a document.                                             *)

\* Every verdict that is on record is one that an assessment may reach.
RangeDoc(d) ==
  /\ index[d] \in Verdicts[d] \cup {"none"}
  /\ filed[d] \subseteq Verdicts[d]
  /\ staged[d].man.assessed \in Verdicts[d] \cup {"none"}
  /\ \A i \in DOMAIN trail[d] : trail[d][i].disp \in Verdicts[d]
  /\ \A r \in Receipt : r = staged[d].man.rcpt /\ receipt[r] \in Outcome
                        => receipt[r] \in Verdicts[d]
RangeAt(w) == pc[w] \in {"wait_main"} \cup BusyPc => job[w].disp \in Verdicts[job[w].doc]
RangeInv == (\A d \in Doc : RangeDoc(d)) /\ (\A w \in Worker : RangeAt(w))

\* A receipt that reaches a manifest, or a verdict.
LEMMA ReceiptOfManifest ==
  ASSUME Known, IssuedInv, NEW w \in Worker, Move(w), NEW d \in Doc, NEW r \in Receipt,
         r = staged'[d].man.rcpt
  PROVE  \/ Opens(w, d) /\ receipt'[r] = "issued"
         \/ /\ r = staged[d].man.rcpt /\ ~Opens(w, d)
            /\ \/ receipt'[r] \notin Outcome
               \/ receipt'[r] = receipt[r]
               \/ /\ FinishReceipt(w) /\ d = job[w].doc /\ receipt'[r] = job[w].disp
                  /\ pc[w] \in BusyPc
<1> USE DEF At, D
<1>1. CASE Opens(w, d)
  <2>1. r = job[w].man.rcpt /\ receipt[r] = "issued" /\ UNCHANGED receipt
    BY <1>1 DEF Opens, ClaimManifest, IssuedInv, IssuedAt, ClaimPc, record
  <2>2. QED
    BY <1>1, <2>1
<1>2. CASE ~Opens(w, d)
  <2>1. r = staged[d].man.rcpt
    BY <1>2, Manifests
       DEF ManCourse, Rewrites, Empties, Judges, Checks, Marks, Confirms, Blank, Opened
  <2>2. ASSUME Closes(w, r) PROVE d = job[w].doc /\ pc[w] \in BusyPc
    <3>1. pc[w] \in BusyPc
      BY <2>2 DEF Closes, FinishReceipt, BusyPc, CommitPc
    <3>2. job[w].doc \in Doc /\ staged[job[w].doc].man.rcpt = r
      BY <2>2, <3>1, BusyFacts DEF Closes
    <3>3. QED
      BY <2>1, <3>1, <3>2 DEF IssuedInv, UniqueAt
  <2>3. QED
    BY <1>2, <2>1, <2>2, ReceiptCourse
       DEF Draws, Stores, Restores, Repeats, Closes, Outcome, Filing
<1>3. QED
  BY <1>1, <1>2

LEMMA KeepsRange ==
  ASSUME Known, IssuedInv, RangeInv, NEW w \in Worker, Move(w), NEW d \in Doc
  PROVE  RangeDoc(d)'
<1> USE DEF At, D
<1>1. RangeDoc(d) /\ RangeAt(w)
  BY DEF RangeInv
<1>2. index'[d] \in Verdicts[d] \cup {"none"}
  BY <1>1, Counters DEF RangeDoc, RangeAt, WriteIndex, BusyPc, CommitPc
<1>3. filed'[d] \subseteq Verdicts[d]
  <2>1. CASE CopyPdf(w)
    BY <1>1, <2>1 DEF CopyPdf, RangeDoc, RangeAt, BusyPc, CommitPc, Known, Typed, FileType
  <2>2. CASE PurgePdf(w)
    BY <1>1, <2>2 DEF PurgePdf, RangeDoc, Known, Typed, FileType
  <2>3. QED
    BY <1>1, <2>1, <2>2, Writers DEF RangeDoc
<1>4. staged'[d].man.assessed \in Verdicts[d] \cup {"none"}
  <2>1. CASE Judges(w, d) /\ d = job[w].doc
    BY <1>1, <2>1 DEF Judges, Snapshot, RangeAt, BusyPc, CommitPc
  <2>2. QED
    BY <1>1, <2>1, Manifests DEF ManCourse, Rewrites, Opens, Empties, Checks, Marks,
                                 Confirms, Blank, Opened, RangeDoc
<1>5. \A i \in DOMAIN trail'[d] : trail'[d][i].disp \in Verdicts[d]
  BY <1>1, TrailCourse DEF RangeDoc, RangeAt, Logs, BusyPc, CommitPc
<1>6. ASSUME NEW r \in Receipt, r = staged'[d].man.rcpt, receipt'[r] \in Outcome
      PROVE  receipt'[r] \in Verdicts[d]
  BY <1>1, <1>6, ReceiptOfManifest DEF RangeDoc, RangeAt, Outcome, Filing
<1>7. QED
  BY <1>2, <1>3, <1>4, <1>5, <1>6 DEF RangeDoc

LEMMA RangeSelf ==
  ASSUME Known, RangeInv, NEW w \in Worker, Move(w)
  PROVE  RangeAt(w)'
<1> USE DEF At, D
<1>1. RangeAt(w)
  BY DEF RangeInv
<1>2. SUFFICES ASSUME pc'[w] \in {"wait_main"} \cup BusyPc
               PROVE  job'[w].disp \in Verdicts[job'[w].doc]
  BY DEF RangeAt
<1>3. CASE Process(w)
  <2>1. PICK o \in Verdicts[job[w].doc] : job' = [job EXCEPT ![w].disp = o]
    BY <1>3 DEF Process
  <2>2. QED
    BY <2>1, KeepsDisp DEF Keeps
<1>4. CASE Resume(w)
  <2>1. job[w].doc \in Doc
    BY <1>4, HoldFacts DEF Resume, HoldPc
  <2>2. OnDisk(job[w].doc) = staged[job[w].doc].man
    BY <2>1, WholeManifest
  <2>3. PICK o : o = staged[job[w].doc].man.assessed
    OBVIOUS
  <2>4. o # "none" /\ job' = [job EXCEPT ![w].disp = o]
    BY <1>2, <1>4, <2>2, <2>3
       DEF Resume, Goto, Known, Typed, PcType, BusyPc, CommitPc, FailPc
  <2>5. o \in Verdicts[job[w].doc]
    BY <2>1, <2>3, <2>4 DEF RangeInv, RangeDoc
  <2>6. QED
    BY <2>4, <2>5, KeepsDisp DEF Keeps
<1>5. CASE pc'[w] = "snapshot"
  <2>1. TakeMain(w)
    BY <1>5, Arrivals
  <2>2. pc[w] = "wait_main"
    BY <2>1 DEF TakeMain
  <2>3. ~Leave(w) /\ ~Process(w) /\ ~Resume(w) /\ ~FinishDuplicate(w) /\ ~Call(w)
    BY <1>5, <2>2, CallIdle
       DEF Leave, Goto, Known, Typed, PcType, Process, Resume, FinishDuplicate
  <2>4. QED
    BY <1>1, <2>2, <2>3, Course DEF RangeAt, Keeps, SameDisp
<1>6. CASE pc'[w] \in BusyPc \ {"snapshot"}
  <2>1. pc[w] \in BusyPc
    BY <1>6, BusyFrom
  <2>2. ~Leave(w) /\ ~Process(w) /\ ~Resume(w) /\ ~FinishDuplicate(w) /\ ~Call(w)
    BY <1>6, <2>1, CallIdle
       DEF Leave, Goto, Known, Typed, PcType, Process, Resume, FinishDuplicate, BusyPc,
           CommitPc, FailPc
  <2>3. QED
    BY <1>1, <2>1, <2>2, Course DEF RangeAt, Keeps, SameDisp
<1>7. QED
  BY <1>2, <1>3, <1>4, <1>5, <1>6, Arrivals

LEMMA InitRange == Init => RangeInv
BY DEF Init, RangeInv, RangeDoc, RangeAt, Blank, Opened, BusyPc, CommitPc, FailPc,
       Outcome, Filing

LEMMA AlwaysRange == Spec => []RangeInv
<1>1. Known /\ IssuedInv /\ RangeInv /\ [Next]_vars => RangeInv'
  <2>1. SUFFICES ASSUME Known, IssuedInv, RangeInv, [Next]_vars PROVE RangeInv'
    OBVIOUS
  <2>2. ASSUME NEW w \in Worker, Move(w) PROVE RangeInv'
    <3>1. ASSUME NEW v \in Worker, v # w PROVE RangeAt(v)'
      BY <2>1, <2>2, <3>1, Course DEF RangeInv, RangeAt
    <3>2. QED
      BY <2>1, <2>2, <3>1, KeepsRange, RangeSelf DEF RangeInv
  <2>3. CASE UNCHANGED vars
    BY <2>1, <2>3 DEF vars, disk, record, control, RangeInv, RangeDoc, RangeAt
  <2>4. QED
    BY <2>1, <2>2, <2>3, NextIsMove
<1>2. QED
  BY <1>1, InitRange, AlwaysKnown, AlwaysIssued, PTL DEF Spec

-----------------------------------------------------------------------------
(* What is on record is the verdict of the manifest, when only the sweep   *)
(* assesses: no job is then judged between a claim and its commit.         *)

Fits(d, x) == ClaimOnly => x = staged[d].man.assessed
FitDoc(d) ==
  /\ "pdf" \in staged[d].man.steps
     => "pdf" \in erased[d] \/ \E x \in filed[d] : Fits(d, x)
  /\ "audit" \in staged[d].man.steps
     => \E i \in DOMAIN trail[d] : Fits(d, trail[d][i].disp)
  /\ \A i \in DOMAIN trail[d] :
       trail[d][i].rcpt = staged[d].man.rcpt /\ staged[d].man.rcpt # NoReceipt
       => Fits(d, trail[d][i].disp)
  /\ index[d] # "none" /\ staged[d].man.assessed # "none" => Fits(d, index[d])
  /\ \A r \in Receipt : r = staged[d].man.rcpt /\ receipt[r] \in Filing
                        => Fits(d, receipt[r])
\* Where the commit is, and what it has done by then.
DoneAt(w) ==
  /\ pc[w] \in {"audit", "audit_append", "mark_audit", "stores"}
     => "pdf" \in staged[job[w].doc].man.steps
  /\ pc[w] = "mark_pdf" => \/ job[w].disp \in filed[job[w].doc]
                           \/ "pdf" \in erased[job[w].doc]
  /\ pc[w] = "mark_audit" => \E i \in DOMAIN trail[job[w].doc] :
                                trail[job[w].doc][i].disp = job[w].disp
  /\ pc[w] = "stores" => "audit" \in staged[job[w].doc].man.steps
FitAt(w) == ClaimOnly =>
  /\ job[w].op # "run"
  /\ pc[w] = "relock" => jobLock[job[w].doc] = w
  /\ pc[w] \in FilledPc \cup {"relock", "finish"}
     => staged[job[w].doc].man.assessed = "none"
  /\ pc[w] \in {"wait_main", "snapshot"}
     => staged[job[w].doc].man.assessed \in {"none", job[w].disp}
  /\ pc[w] \in BusyPc \ {"snapshot"} => staged[job[w].doc].man.assessed = job[w].disp
FitInv == /\ \A d \in Doc : FitDoc(d)
          /\ \A w \in Worker : DoneAt(w) /\ FitAt(w)

LEMMA FiledStays ==
  ASSUME Known, NEW w \in Worker, Move(w), NEW d \in Doc
  PROVE  /\ "pdf" \in erased[d] => "pdf" \in erased'[d]
         /\ \A x \in filed[d] : x \in filed'[d] \/ "pdf" \in erased'[d]
<1> USE DEF At, D
<1>1. CASE CopyPdf(w)
  BY <1>1 DEF CopyPdf, record, Known, Typed, FileType
<1>2. CASE PurgePdf(w)
  BY <1>2 DEF PurgePdf, Known, Typed, FileType
<1>3. CASE PurgeText(w)
  BY <1>3 DEF PurgeText, Known, Typed, FileType
<1>4. QED
  BY <1>1, <1>2, <1>3, Writers

LEMMA KeepsFit ==
  ASSUME Known, OnceInv, IssuedInv, EmitInv, FitInv,
         NEW w \in Worker, Move(w), NEW d \in Doc
  PROVE  FitDoc(d)'
<1> USE DEF At, D
<1>1. FitDoc(d) /\ DoneAt(w) /\ FitAt(w) /\ EmitAt(w)
  BY DEF FitInv, EmitInv
<1> DEFINE Anew == Opens(w, d) \/ Empties(w, d)
           Fits2(x) == ClaimOnly => x = staged'[d].man.assessed
<1> DEFINE Pdf == Marks(w, d, "pdf") /\ d = job[w].doc /\ pc[w] = "mark_pdf"
           Audit == /\ Marks(w, d, "audit") /\ d = job[w].doc
                    /\ AuditKnown(w) \/ pc[w] = "mark_audit"
           Rule == /\ staged'[d].man.rcpt = staged[d].man.rcpt
                   /\ \/ staged'[d].man.assessed = staged[d].man.assessed
                      \/ Judges(w, d) /\ d = job[w].doc
                   /\ "pdf" \in staged'[d].man.steps => "pdf" \in staged[d].man.steps \/ Pdf
                   /\ "audit" \in staged'[d].man.steps
                      => "audit" \in staged[d].man.steps \/ Audit
<1>2. /\ Anew => staged'[d].man.steps = {} /\ staged'[d].man.assessed = "none"
      /\ ~Anew => Rule
  <2>1. Anew => staged'[d].man.steps = {} /\ staged'[d].man.assessed = "none"
    BY DEF Opens, Empties, Blank, Opened
  <2> SUFFICES ASSUME ~Anew PROVE Rule
    BY <2>1
  <2>2. CASE staged'[d].man = staged[d].man
    BY <2>2
  <2>3. CASE Judges(w, d) /\ d = job[w].doc
    BY <2>3 DEF Judges
  <2>4. CASE Confirms(w, d)
    BY <2>4 DEF Confirms
  <2>5. CASE Checks(w, d) /\ d = job[w].doc
    <3>1. PICK step : /\ Marks(w, d, step)
                      /\ step = "pdf" => pc[w] = "mark_pdf"
                      /\ step = "audit" => AuditKnown(w) \/ pc[w] = "mark_audit"
      BY <2>5 DEF Checks
    <3>2. QED
      BY <2>5, <3>1 DEF Marks
  <2>6. QED
    BY <2>2, <2>3, <2>4, <2>5, Manifests DEF ManCourse, Rewrites
<1>3. ASSUME NEW x \in Filing, Fits(d, x), ~Anew PROVE Fits2(x)
  BY <1>2, <1>3 DEF Fits, Judges, Filing
<1>4. pc[w] \in BusyPc \ {"snapshot"} /\ d = job[w].doc => Fits(d, job[w].disp)
  BY <1>1 DEF Fits, FitAt
<1>5. filed[d] \subseteq Filing /\ (index[d] # "none" => index[d] \in Filing)
  BY DEF Known, Typed, FileType
<1>6. ASSUME "pdf" \in staged'[d].man.steps
      PROVE  "pdf" \in erased'[d] \/ \E x \in filed'[d] : Fits2(x)
  <2>1. ~Anew
    BY <1>2, <1>6
  <2>2. "pdf" \in erased[d] \/ \E x \in filed[d] : Fits(d, x)
    <3>1. CASE "pdf" \in staged[d].man.steps
      BY <1>1, <3>1 DEF FitDoc
    <3>2. CASE pc[w] = "mark_pdf" /\ d = job[w].doc
      BY <1>1, <1>4, <3>2 DEF DoneAt, BusyPc, CommitPc
    <3>3. QED
      BY <1>2, <1>6, <2>1, <3>1, <3>2
  <2>3. QED
    BY <1>3, <1>5, <2>1, <2>2, FiledStays
<1>7. ASSUME "audit" \in staged'[d].man.steps
      PROVE  \E i \in DOMAIN trail'[d] : Fits2(trail'[d][i].disp)
  <2>1. ~Anew
    BY <1>2, <1>7
  <2>2. \E i \in DOMAIN trail[d] : Fits(d, trail[d][i].disp)
    <3>1. CASE "audit" \in staged[d].man.steps
      BY <1>1, <3>1 DEF FitDoc
    <3>2. CASE pc[w] = "mark_audit" /\ d = job[w].doc
      BY <1>1, <1>4, <3>2 DEF DoneAt, BusyPc, CommitPc
    <3>3. CASE AuditKnown(w) /\ d = job[w].doc /\ "audit" \notin staged[d].man.steps
      <4>1. staged[d].man = job[w].man
        BY <3>3, BusyFacts DEF AuditKnown, BusyPc, CommitPc
      <4>2. AlreadyAudited(w)
        BY <3>3, <4>1 DEF AuditKnown
      <4>3. QED
        BY <1>1, <3>3, <4>1, <4>2 DEF AlreadyAudited, FitDoc
    <3>4. QED
      BY <1>2, <1>7, <2>1, <3>1, <3>2, <3>3
  <2>3. PICK i \in DOMAIN trail[d] : Fits(d, trail[d][i].disp)
    BY <2>2
  <2>4. i \in DOMAIN trail'[d] /\ trail'[d][i] = trail[d][i] /\ trail[d][i].disp \in Filing
    BY TrailCourse
  <2>5. QED
    BY <1>3, <2>1, <2>3, <2>4
<1>8. ASSUME NEW i \in DOMAIN trail'[d], trail'[d][i].rcpt = staged'[d].man.rcpt,
             staged'[d].man.rcpt # NoReceipt
      PROVE  Fits2(trail'[d][i].disp)
  <2>1. CASE Anew
    <3>1. Opens(w, d) /\ staged'[d].man.rcpt = job[w].man.rcpt
      BY <1>8, <2>1 DEF Opens, Empties, Blank, Opened
    <3>2. pc[w] \in ClaimPc /\ pc[w] # "audit_append"
      BY <3>1 DEF Opens, ClaimManifest, ClaimPc
    <3>3. ~Seen(job[w].man.rcpt)
      BY <3>2 DEF OnceInv, NewAt
    <3>4. i \in DOMAIN trail[d] /\ trail'[d][i] = trail[d][i]
      BY <3>2, TrailCourse DEF Logs
    <3>5. job[w].man.rcpt \in Ids(d)
      BY <1>8, <3>1, <3>4 DEF Ids
    <3>6. QED
      BY <3>3, <3>5 DEF Seen
  <2>2. CASE ~Anew /\ Logs(w, d, i)
    <3>1. Fits(d, job[w].disp) /\ job[w].disp \in Filing
      BY <1>4, <2>2 DEF Logs, BusyPc, CommitPc, Known, CarryInv, CarryAt
    <3>2. QED
      BY <1>3, <2>2, <3>1 DEF Logs
  <2>3. CASE ~Anew /\ ~Logs(w, d, i)
    <3>1. i \in DOMAIN trail[d] /\ trail'[d][i] = trail[d][i] /\ trail[d][i].disp \in Filing
      BY <2>3, TrailCourse
    <3>2. Fits(d, trail[d][i].disp)
      BY <1>1, <1>2, <1>8, <2>3, <3>1 DEF FitDoc
    <3>3. QED
      BY <1>3, <2>3, <3>1, <3>2
  <2>4. QED
    BY <2>1, <2>2, <2>3
<1>9. ASSUME index'[d] # "none", staged'[d].man.assessed # "none"
      PROVE  Fits2(index'[d])
  <2>1. ~Anew
    BY <1>2, <1>9
  <2>2. CASE WriteIndex(w) /\ d = job[w].doc /\ index'[d] = job[w].disp
    <3>1. Fits(d, job[w].disp) /\ job[w].disp \in Filing
      BY <1>4, <2>2 DEF WriteIndex, BusyPc, CommitPc, Known, CarryInv, CarryAt
    <3>2. QED
      BY <1>3, <2>1, <2>2, <3>1
  <2>3. CASE index'[d] = index[d]
    <3>1. CASE staged[d].man.assessed # "none"
      BY <1>1, <1>3, <1>5, <1>9, <2>1, <2>3, <3>1 DEF FitDoc
    <3>2. CASE staged[d].man.assessed = "none"
      <4>1. Snapshot(w) /\ d = job[w].doc
        BY <1>2, <1>9, <2>1, <3>2 DEF Judges
      <4>2. QED
        BY <1>1, <1>9, <2>3, <3>2, <4>1 DEF EmitAt, Snapshot
    <3>3. QED
      BY <3>1, <3>2
  <2>4. QED
    BY <2>2, <2>3, Counters
<1>10. ASSUME NEW r \in Receipt, r = staged'[d].man.rcpt, receipt'[r] \in Filing
       PROVE  Fits2(receipt'[r])
  <2>1. r = staged[d].man.rcpt /\ ~Anew
    BY <1>10, ReceiptOfManifest DEF Filing, Empties, Blank, Opened
  <2>2. CASE receipt'[r] = receipt[r]
    BY <1>1, <1>3, <1>10, <2>1, <2>2 DEF FitDoc
  <2>3. CASE FinishReceipt(w) /\ d = job[w].doc /\ receipt'[r] = job[w].disp
    <3>1. Fits(d, job[w].disp)
      BY <1>4, <2>3 DEF FinishReceipt, BusyPc, CommitPc
    <3>2. QED
      BY <1>3, <1>10, <2>1, <2>3, <3>1
  <2>4. QED
    BY <1>10, <2>2, <2>3, ReceiptOfManifest DEF Outcome, Filing
<1>11. QED
  BY <1>6, <1>7, <1>8, <1>9, <1>10 DEF FitDoc, Fits

\* During a commit the manifest gains steps, and its verdict once.
LEMMA BusyManifest ==
  ASSUME Known, NEW w \in Worker, Move(w), pc[w] \in BusyPc, NEW d \in Doc, d = job[w].doc
  PROVE  /\ staged[d].man.steps \subseteq staged'[d].man.steps
         /\ \/ staged'[d].man.assessed = staged[d].man.assessed
            \/ /\ Snapshot(w) /\ staged[d].man.assessed = "none"
               /\ staged'[d].man.assessed = job[w].disp
<1>1. ~Opens(w, d) /\ ~Empties(w, d) /\ ~Confirms(w, d)
  BY DEF Opens, ClaimManifest, Empties, RemoveEntry, Confirms, RetryConfirm, At, BusyPc,
         CommitPc, FailPc
<1>2. CASE Checks(w, d)
  BY <1>2 DEF Checks, Marks
<1>3. CASE Judges(w, d)
  BY <1>3 DEF Judges
<1>4. QED
  BY <1>1, <1>2, <1>3, Manifests DEF ManCourse, Rewrites

\* A step that is checkpointed is in the manifest.
LEMMA BusyMark ==
  ASSUME Known, NEW w \in Worker, Move(w), NEW d \in Doc, d = job[w].doc
  PROVE  /\ Mark(w) /\ pc[w] = "mark_pdf" => "pdf" \in staged'[d].man.steps
         /\ Mark(w) /\ pc[w] = "mark_audit" => "audit" \in staged'[d].man.steps
         /\ AuditKnown(w) => "audit" \in staged'[d].man.steps
<1> USE DEF At, D
<1>1. \A step \in Step : Checkpoint(w, step) /\ pc[w] \in BusyPc
                         => step \in staged'[d].man.steps
  BY CheckpointMarks DEF Marks
<1>2. {"pdf", "audit"} \subseteq Step
  BY DEF Step
<1>3. ASSUME Mark(w)
      PROVE  /\ pc[w] = "mark_pdf" => Checkpoint(w, "pdf") /\ pc[w] \in BusyPc
             /\ pc[w] = "mark_audit" => Checkpoint(w, "audit") /\ pc[w] \in BusyPc
  <2>1. PICK s \in {<<"mark_pdf", "pdf", "audit">>, <<"mark_audit", "audit", "stores">>,
                   <<"mark_stores", "stores", "emit">>,
                   <<"mark_emitted", "emitted", "finish_receipt">>} :
          pc[w] = s[1] /\ Checkpoint(w, s[2])
    BY <1>3 DEF Mark
  <2>2. /\ pc[w] = "mark_pdf" => s[2] = "pdf"
        /\ pc[w] = "mark_audit" => s[2] = "audit"
    BY <2>1
  <2>3. QED
    BY <2>1, <2>2 DEF BusyPc, CommitPc
<1>4. AuditKnown(w) => Checkpoint(w, "audit") /\ pc[w] \in BusyPc
  BY DEF AuditKnown, BusyPc, CommitPc
<1>5. QED
  BY <1>1, <1>2, <1>3, <1>4

LEMMA DoneOthers ==
  ASSUME Known, FitInv, NEW w \in Worker, Move(w), NEW v \in Worker, v # w
  PROVE  DoneAt(v)' /\ FitAt(v)'
<1>1. pc'[v] = pc[v] /\ job'[v] = job[v] /\ DoneAt(v) /\ FitAt(v)
  BY Course DEF FitInv
<1>2. CASE pc[v] \in BusyPc \cup FilledPc \cup {"wait_main", "finish"}
  <2>1. job[v].doc \in Doc /\ jobLock[job[v].doc] = v
    BY <1>2, HoldFacts DEF HoldPc, FilledPc
  <2>2. PICK d \in Doc : d = job[v].doc
    BY <2>1
  <2>3. staged'[d].man = staged[d].man /\ trail'[d] = trail[d]
    BY <2>1, <2>2, UnderLock
  <2>4. DoneAt(v)'
    BY <1>1, <2>2, <2>3, FiledStays DEF DoneAt
  <2>5. pc[v] # "relock"
    BY <1>2 DEF BusyPc, FilledPc, CommitPc, FailPc
  <2>6. FitAt(v)'
    BY <1>1, <2>2, <2>3, <2>5 DEF FitAt
  <2>7. QED
    BY <2>4, <2>6
<1>3. CASE pc[v] = "relock"
  <2>1. PICK d \in Doc : d = job[v].doc
    BY <1>3 DEF Known, CarryInv, CarryAt
  <2>2. ClaimOnly => jobLock[d] = v /\ jobLock'[d] = v /\ staged'[d].man = staged[d].man
    BY <1>1, <1>3, <2>1, LockCourse, UnderLock DEF FitAt
  <2>3. QED
    BY <1>1, <1>3, <2>1, <2>2 DEF DoneAt, FitAt, BusyPc, CommitPc, FailPc
<1>4. CASE pc[v] \notin BusyPc \cup FilledPc \cup {"wait_main", "finish", "relock"}
  BY <1>1, <1>4 DEF DoneAt, FitAt, BusyPc, CommitPc
<1>5. QED
  BY <1>2, <1>3, <1>4

LEMMA DoneSelf ==
  ASSUME Known, FitInv, NEW w \in Worker, Move(w)
  PROVE  DoneAt(w)'
<1> USE DEF At, D
<1>1. DoneAt(w)
  BY DEF FitInv
<1>2. SUFFICES ASSUME pc'[w] \in {"mark_pdf", "audit", "audit_append", "mark_audit", "stores"}
               PROVE  DoneAt(w)'
  BY DEF DoneAt
<1>3. pc[w] \in BusyPc /\ job'[w].doc = job[w].doc
  BY <1>2, BusyFrom DEF BusyPc, CommitPc
<1>4. PICK d \in Doc : d = job[w].doc /\ staged[d].man = job[w].man
  BY <1>3, BusyFacts
<1>5. staged[d].man.steps \subseteq staged'[d].man.steps
  BY <1>3, <1>4, BusyManifest
<1>6. ~Leave(w) /\ ~Process(w) /\ ~Resume(w) /\ ~FinishDuplicate(w) /\ ~Call(w)
  BY <1>2, <1>3, CallIdle DEF Leave, Goto, Known, Typed, PcType, Process, Resume,
                              FinishDuplicate, BusyPc, CommitPc, FailPc
<1>7. job'[w].disp = job[w].disp
  BY <1>6, Course DEF SameDisp
<1>8. ASSUME pc'[w] = "mark_pdf"
      PROVE  job[w].disp \in filed'[d]
  <2>1. CopyPdf(w)
    BY <1>8, Arrivals
  <2>2. QED
    BY <1>4, <2>1 DEF CopyPdf, Known, Typed, FileType
<1>9. ASSUME pc'[w] \in {"audit", "audit_append", "mark_audit", "stores"}
      PROVE  "pdf" \in staged'[d].man.steps
  <2>1. CASE Mark(w) /\ pc[w] = "mark_pdf"
    BY <1>4, <2>1, BusyMark
  <2>2. CASE "pdf" \in staged[d].man.steps
    BY <1>5, <2>2
  <2>3. CASE pc[w] \in {"audit", "audit_append", "mark_audit"}
    BY <1>1, <1>4, <2>2, <2>3 DEF DoneAt
  <2>4. QED
    BY <1>4, <1>9, <2>1, <2>2, <2>3, Arrivals DEF AuditStart, AuditAppend, AuditKnown
<1>10. ASSUME pc'[w] = "mark_audit"
       PROVE  \E i \in DOMAIN trail'[d] : trail'[d][i].disp = job[w].disp
  BY <1>4, <1>10, Arrivals, TrailCourse DEF Logs
<1>11. ASSUME pc'[w] = "stores"
       PROVE  "audit" \in staged'[d].man.steps
  BY <1>4, <1>11, Arrivals, BusyMark
<1>12. QED
  BY <1>3, <1>4, <1>7, <1>8, <1>9, <1>10, <1>11 DEF DoneAt

LEMMA FitSelf ==
  ASSUME ClaimOnly, Known, FitInv, NEW w \in Worker, Move(w)
  PROVE  FitAt(w)'
<1> USE DEF At, D, disk
<1>1. FitAt(w)
  BY DEF FitInv
<1>2. CASE Call(w)
  <2>1. job'[w].op # "run"
    BY <1>2, CallKinds DEF Arrives, Sweeps, RetriesStaged, RetriesFailed, Besides
  <2>2. pc'[w] \in {"claim", "dup", "sweep_lock", "retry_confirm", "resolve", "purge_text"}
    BY <1>2, CallKinds DEF Arrives, Sweeps, RetriesStaged, RetriesFailed, Besides
  <2>3. QED
    BY <2>1, <2>2 DEF FitAt, FilledPc, BusyPc, CommitPc, FailPc
<1>3. CASE Leave(w)
  <2>1. PICK c : c = NoCall
    OBVIOUS
  <2>2. c.op # "run"
    BY <2>1 DEF NoCall, NewCall, CallWith
  <2>3. job'[w] = c /\ pc'[w] = "idle"
    BY <1>3, <2>1 DEF Leave, Goto, Known, Typed, PcType, JobType
  <2>4. QED
    BY <2>2, <2>3 DEF FitAt, FilledPc, BusyPc, CommitPc, FailPc
<1>4. CASE ~Call(w) /\ ~Leave(w)
  <2>1. /\ pc[w] # "idle" /\ pc'[w] # "idle" /\ Keeps(w)
        /\ SameDisp(w) \/ Process(w) \/ Resume(w) \/ FinishDuplicate(w)
    BY <1>4, Course
  <2>2. PICK d \in Doc : d = job[w].doc /\ d = job'[w].doc
    BY <2>1 DEF Keeps, Known, CarryInv, CarryAt
  <2>3. job'[w].op = job[w].op /\ job[w].op # "run"
    BY <1>1, <2>1 DEF Keeps, FitAt
  <2>4. /\ Process(w) => pc[w] = "finish" /\ pc'[w] = "wait_main"
        /\ Resume(w) => pc'[w] \in {"finish", "wait_main"}
        /\ FinishDuplicate(w) => pc'[w] = "list_dup"
    BY DEF Process, Resume, FinishDuplicate, Goto, Known, Typed, PcType
  <2>5. ASSUME pc'[w] = "relock" PROVE jobLock'[d] = w
    <3>1. ClaimReceipt(w)
      BY <2>5, Arrivals
    <3>2. pc[w] = "write_receipt" /\ jobLock' = jobLock
      BY <1>4, <2>3, <3>1 DEF ClaimReceipt
    <3>3. QED
      BY <2>2, <3>2, HoldFacts DEF HoldPc
  <2>6. Resume(w) => /\ staged' = staged
                     /\ pc'[w] = "finish" => staged[d].man.assessed = "none"
                     /\ pc'[w] = "wait_main" => job'[w].disp = staged[d].man.assessed
    <3>1. SUFFICES ASSUME Resume(w)
                   PROVE  /\ staged' = staged
                          /\ pc'[w] = "finish" => staged[d].man.assessed = "none"
                          /\ pc'[w] = "wait_main" => job'[w].disp = staged[d].man.assessed
      OBVIOUS
    <3>2. OnDisk(d) = staged[d].man
      BY WholeManifest
    <3>3. PICK o : o = staged[d].man.assessed
      OBVIOUS
    <3>4. CASE o = "none"
      BY <2>2, <3>1, <3>2, <3>3, <3>4 DEF Resume, Goto, Known, Typed, PcType
    <3>5. CASE o # "none"
      <4>1. /\ job' = [job EXCEPT ![w].disp = o] /\ pc'[w] = "wait_main"
            /\ staged' = staged
        BY <2>2, <3>1, <3>2, <3>3, <3>5 DEF Resume, Goto, Known, Typed, PcType
      <4>2. job'[w].disp = o
        BY <4>1, KeepsDisp
      <4>3. QED
        BY <3>3, <4>1, <4>2
    <3>6. QED
      BY <3>4, <3>5
  <2>7. ASSUME pc'[w] \in FilledPc \cup {"relock", "finish"}
        PROVE  staged'[d].man.assessed = "none"
    <3>1. CASE ClaimManifest(w)
      <4>1. PICK m : m = Opened(job[w].man.rcpt)
        OBVIOUS
      <4>2. m.assessed = "none" /\ WriteManifest(w, m)
        BY <3>1, <4>1 DEF Opened, ClaimManifest
      <4>3. QED
        BY <2>2, <4>2 DEF WriteManifest, Known, Typed, StagedType
    <3>2. CASE ClaimPdf(w)
      <4>1. staged'[d].man = staged[d].man
        BY <2>2, <3>2 DEF ClaimPdf, Filled, Known, Typed, StagedType
      <4>2. QED
        BY <1>1, <2>2, <3>2, <4>1 DEF ClaimPdf, FitAt, FilledPc
    <3>3. CASE UnlinkSource(w) \/ ClaimReceipt(w) \/ Relock(w)
      BY <1>1, <2>2, <3>3 DEF UnlinkSource, ClaimReceipt, Relock, FitAt, FilledPc
    <3>4. CASE Resume(w)
      BY <2>4, <2>6, <2>7, <3>4 DEF FilledPc
    <3>5. QED
      BY <2>7, <3>1, <3>2, <3>3, <3>4, Arrivals DEF FilledPc
  <2>8. ASSUME pc'[w] \in {"wait_main", "snapshot"}
        PROVE  staged'[d].man.assessed \in {"none", job'[w].disp}
    <3>1. CASE Process(w)
      BY <1>1, <2>2, <3>1 DEF Process, FitAt
    <3>2. CASE Resume(w)
      BY <2>4, <2>6, <2>8, <3>2
    <3>3. CASE TakeMain(w)
      <4>1. job'[w].disp = job[w].disp
        BY <2>1, <2>4, <3>3
           DEF SameDisp, TakeMain, Goto, Known, Typed, PcType
      <4>2. QED
        BY <1>1, <2>2, <3>3, <4>1 DEF TakeMain, FitAt
    <3>4. QED
      BY <2>8, <3>1, <3>2, <3>3, Arrivals
  <2>9. ASSUME pc'[w] \in BusyPc \ {"snapshot"}
        PROVE  staged'[d].man.assessed = job'[w].disp
    <3>1. pc[w] \in BusyPc
      BY <2>9, BusyFrom
    <3>2. job'[w].disp = job[w].disp
      BY <2>1, <2>4, <2>9 DEF SameDisp, BusyPc, CommitPc, FailPc
    <3>3. CASE pc[w] = "snapshot"
      BY <1>1, <2>2, <2>9, <3>2, <3>3, SnapshotJudges DEF FitAt
    <3>4. CASE pc[w] # "snapshot"
      BY ZenonT(60), <1>1, <2>2, <3>1, <3>2, <3>4, BusyManifest DEF FitAt, Snapshot
    <3>5. QED
      BY <3>3, <3>4
  <2>10. QED
    BY <2>2, <2>3, <2>5, <2>7, <2>8, <2>9 DEF FitAt
<1>5. QED
  BY <1>2, <1>3, <1>4

LEMMA InitFit == Init => FitInv
<1>1. SUFFICES ASSUME Init PROVE FitInv
  OBVIOUS
<1>2. \A d \in Doc : FitDoc(d)
  BY <1>1 DEF Init, FitDoc, Blank, Opened
<1>3. PICK c : c = NoCall
  OBVIOUS
<1>4. c.op # "run"
  BY <1>3 DEF NoCall, NewCall, CallWith
<1>5. \A w \in Worker : pc[w] = "idle" /\ job[w] = c
  BY <1>1, <1>3 DEF Init
<1>6. QED
  BY <1>2, <1>4, <1>5 DEF FitInv, DoneAt, FitAt, FilledPc, BusyPc, CommitPc, FailPc

LEMMA NextFit ==
  ASSUME Known, OnceInv, IssuedInv, EmitInv, FitInv, [Next]_vars
  PROVE  FitInv'
<1>1. ASSUME NEW w \in Worker, Move(w) PROVE FitInv'
  <2>1. FitAt(w)'
    <3>1. CASE ClaimOnly
      BY <1>1, <3>1, FitSelf
    <3>2. CASE ~ClaimOnly
      BY <3>2 DEF FitAt
    <3>3. QED
      BY <3>1, <3>2
  <2>2. QED
    BY <1>1, <2>1, KeepsFit, DoneOthers, DoneSelf DEF FitInv
<1>2. CASE UNCHANGED vars
  BY <1>2 DEF vars, disk, record, control, lock, FitInv, FitDoc, DoneAt, FitAt, Fits
<1>3. QED
  BY <1>1, <1>2, NextIsMove

LEMMA AlwaysFit == Spec => []FitInv
<1>1. Known /\ OnceInv /\ IssuedInv /\ EmitInv /\ FitInv /\ [Next]_vars => FitInv'
  BY NextFit
<1>2. QED
  BY <1>1, InitFit, AlwaysKnown, AlwaysOnce, AlwaysIssued, AlwaysEmit, PTL DEF Spec

-----------------------------------------------------------------------------
(* Verdicts, rows and receipts.                                            *)

\* The assessments of a document never file it in two places (they may still
\* fail), or never disagree at all.
FilingAgreed == \A d \in Doc : \A x, y \in Verdicts[d] \cap Filing : x = y
VerdictAgreed == \A d \in Doc : \A x, y \in Verdicts[d] : x = y

Ranges == Known /\ EmitInv /\ RangeInv /\ FitInv

LEMMA AlwaysRanges == Spec => []Ranges
BY AlwaysKnown, AlwaysEmit, AlwaysRange, AlwaysFit, PTL DEF Ranges

\* What fits the manifest of a commit that files is what the commit carries.
LEMMA FilingIsDisp ==
  ASSUME ClaimOnly \/ FilingAgreed, Ranges,
         NEW w \in Worker, pc[w] = "stores", NEW d \in Doc, d = job[w].doc,
         NEW x \in Filing \cap Verdicts[d], Fits(d, x)
  PROVE  x = job[w].disp
<1>1. job[w].disp \in Filing \cap Verdicts[d] /\ pc[w] \in BusyPc \ {"snapshot"}
  BY DEF Ranges, Known, CarryInv, CarryAt, RangeInv, RangeAt, BusyPc, CommitPc
<1>2. ClaimOnly => x = job[w].disp
  BY <1>1 DEF Fits, Ranges, FitInv, FitAt
<1>3. QED
  BY <1>1, <1>2 DEF FilingAgreed

LEMMA NextAudited ==
  ASSUME ClaimOnly \/ FilingAgreed, Ranges, IndexAudited, [Next]_vars
  PROVE  IndexAudited'
<1>1. ASSUME NEW w \in Worker, Move(w), NEW d \in Doc, index'[d] # "none"
      PROVE  /\ \E i \in DOMAIN trail'[d] : trail'[d][i].disp = index'[d]
             /\ index'[d] \in filed'[d] \/ "pdf" \in erased'[d]
  <2>0. Known /\ FitDoc(d) /\ RangeDoc(d) /\ filed[d] \subseteq Filing
    BY DEF Ranges, FitInv, RangeInv, Known, Typed, FileType
  <2>1. /\ \E i \in DOMAIN trail[d] : trail[d][i].disp = index'[d]
        /\ index'[d] \in filed[d] \/ "pdf" \in erased[d]
    <3>1. CASE index'[d] = index[d]
      BY <1>1, <3>1 DEF IndexAudited
    <3>2. CASE WriteIndex(w) /\ d = job[w].doc /\ index'[d] = job[w].disp
      <4>1. pc[w] = "stores"
        BY <3>2 DEF WriteIndex, At
      <4>2. /\ "pdf" \in staged[d].man.steps /\ "audit" \in staged[d].man.steps
        BY <3>2, <4>1 DEF Ranges, FitInv, DoneAt
      <4>3. "pdf" \in erased[d] \/ \E x \in filed[d] : Fits(d, x)
        BY <2>0, <4>2 DEF FitDoc
      <4>4. PICK i \in DOMAIN trail[d] : Fits(d, trail[d][i].disp)
        BY <2>0, <4>2 DEF FitDoc
      <4>5. trail[d][i].disp \in Filing \cap Verdicts[d]
        BY <1>1, <2>0, TrailCourse DEF RangeDoc
      <4>6. trail[d][i].disp = job[w].disp
        BY <3>2, <4>1, <4>4, <4>5, FilingIsDisp
      <4>7. "pdf" \in erased[d] \/ job[w].disp \in filed[d]
        BY <2>0, <3>2, <4>1, <4>3, FilingIsDisp DEF RangeDoc
      <4>8. QED
        BY <3>2, <4>6, <4>7
    <3>3. QED
      BY <1>1, <2>0, <3>1, <3>2, Counters
  <2>2. QED
    BY <1>1, <2>0, <2>1, TrailCourse, FiledStays
<1>2. CASE UNCHANGED vars
  BY <1>2 DEF vars, disk, record, IndexAudited
<1>3. QED
  BY <1>1, <1>2, NextIsMove DEF IndexAudited

\* Whatever interrupts and resumes the commits, an index row has its PDF under
\* the root it names (or a hard purge has taken the PDF) and its event in the
\* trail.  In between a claim and its commit the lock of an inline job is free,
\* and a second assessment that files elsewhere would mix the two: the rows are
\* right if the sweep alone assesses, or if no two assessments of a document
\* file it differently.
THEOREM RowsAreAudited ==
  ClaimOnly \/ FilingAgreed => (Spec => []IndexAudited)
<1>1. SUFFICES ASSUME ClaimOnly \/ FilingAgreed PROVE Spec => []IndexAudited
  OBVIOUS
<1>2. Init => IndexAudited
  BY DEF Init, IndexAudited
<1>3. Ranges /\ IndexAudited /\ [Next]_vars => IndexAudited'
  BY <1>1, NextAudited
<1>4. QED
  BY <1>2, <1>3, AlwaysRanges, PTL DEF Spec

\* The first row of a document is never overwritten with another verdict, under
\* the same condition.
THEOREM FirstVerdictStands ==
  ClaimOnly \/ FilingAgreed => (Spec => VerdictKept)
<1>1. SUFFICES ASSUME ClaimOnly \/ FilingAgreed PROVE Spec => VerdictKept
  OBVIOUS
<1>2. ASSUME Ranges, Next, NEW d \in Doc, index[d] # "none"
      PROVE  index'[d] = index[d]
  <2>1. CASE UNCHANGED vars
    BY <2>1 DEF vars, disk
  <2>2. ASSUME NEW w \in Worker, Move(w), WriteIndex(w), d = job[w].doc,
               index'[d] = job[w].disp
        PROVE  index'[d] = index[d]
    <3>1. pc[w] = "stores"
      BY <2>2 DEF WriteIndex, At
    <3>2. staged[d].man.assessed # "none"
      BY <1>2, <2>2, <3>1 DEF Ranges, EmitInv, EmitAt, BusyPc, CommitPc
    <3>3. index[d] \in Filing \cap Verdicts[d] /\ Fits(d, index[d])
      BY <1>2, <3>2 DEF Ranges, Known, Typed, FileType, RangeInv, RangeDoc, FitInv, FitDoc
    <3>4. index[d] = job[w].disp
      BY <1>1, <1>2, <2>2, <3>1, <3>3, FilingIsDisp
    <3>5. QED
      BY <2>2, <3>4
  <2>3. QED
    BY <1>2, <2>1, <2>2, NextIsMove, Counters DEF Ranges
<1>3. Ranges /\ [Next]_vars
      => [\A d \in Doc : index[d] # "none" => index'[d] = index[d]]_vars
  BY <1>2
<1>4. QED
  BY <1>3, AlwaysRanges, PTL DEF Spec, VerdictKept

\* A finished receipt stays finished, and names no second place, if the sweep
\* alone assesses or if assessments of a document agree: an inline job that is
\* assessed a second time, and fails, would close the receipt as failed.
THEOREM FinishedReceiptStands ==
  ClaimOnly \/ VerdictAgreed => (Spec => ReceiptFinal)
<1> DEFINE Done == Outcome \cup {"duplicate"}
           Final(r) == receipt[r] \in Done =>
                         /\ receipt'[r] \in Done
                         /\ receipt[r] \in Filing => receipt'[r] \in {receipt[r], "duplicate"}
<1>1. SUFFICES ASSUME ClaimOnly \/ VerdictAgreed PROVE Spec => ReceiptFinal
  OBVIOUS
<1>2. ASSUME Ranges, IssuedInv, Next, NEW r \in Receipt PROVE Final(r)
  <2>1. CASE UNCHANGED vars
    BY <2>1 DEF vars, record, Filing, Outcome
  <2>2. ASSUME NEW w \in Worker, Move(w) PROVE Final(r)
    <3>1. CASE Stores(w, r)
      BY <1>2, <3>1 DEF Stores, IssuedInv, IssuedAt, ClaimReceipt, DupReceipt, At, ClaimPc,
                        FilledPc, Outcome, Filing
    <3>2. CASE Closes(w, r)
      <4>1. pc[w] = "finish_receipt" /\ pc[w] \in BusyPc \ {"snapshot"}
        BY <3>2 DEF Closes, FinishReceipt, At, BusyPc, CommitPc
      <4>2. PICK d \in Doc : d = job[w].doc /\ r = staged[d].man.rcpt
        BY <1>2, <3>2, <4>1, BusyFacts DEF Closes, Ranges
      <4>3. job[w].disp \in Outcome /\ receipt'[r] = job[w].disp
        BY <1>2, <3>2, <4>1 DEF Closes, Ranges, Known, CarryInv, CarryAt
      <4>4. ASSUME receipt[r] \in Filing PROVE receipt[r] = job[w].disp
        <5>1. CASE ClaimOnly
          BY <1>2, <4>1, <4>2, <4>4, <5>1 DEF Ranges, FitInv, FitDoc, FitAt, Fits
        <5>2. CASE VerdictAgreed
          BY <1>2, <4>1, <4>2, <4>4, <5>2
             DEF Ranges, RangeInv, RangeDoc, RangeAt, VerdictAgreed, Outcome
        <5>3. QED
          BY <1>1, <5>1, <5>2
      <4>5. QED
        BY <4>3, <4>4
    <3>3. QED
      BY <1>2, <2>2, <3>1, <3>2, ReceiptCourse
         DEF Ranges, Draws, Restores, Repeats, Outcome, Filing
  <2>3. QED
    BY <1>2, <2>1, <2>2, NextIsMove
<1>3. Ranges /\ IssuedInv /\ [Next]_vars => [\A r \in Receipt : Final(r)]_vars
  BY <1>2
<1>4. QED
  BY <1>3, AlwaysRanges, AlwaysIssued, PTL DEF Spec, ReceiptFinal

=============================================================================
