------------------------- MODULE IngestSafetyProofs -------------------------
(***************************************************************************)
(* Safety of IngestPipeline for all constants: a commit has the manifest   *)
(* to itself, and no completion is audited twice.  The types come from     *)
(* IngestPipelineProofs.                                                   *)
(***************************************************************************)
EXTENDS IngestPipelineProofs

USE PipelineAssumption DEF PipelineAssumption

\* Where a worker holds job_lock(), and where it works on the manifest that it
\* has read.
BusyPc == CommitPc \cup FailPc
HoldPc == {"write_manifest", "write_pdf", "unlink_source", "write_receipt",
           "finish", "wait_main", "resume", "retry_confirm", "retry_unresolve"}
          \cup BusyPc \cup RemovePc

OwnAt(w) ==
  /\ pc[w] \in HoldPc => jobLock[job[w].doc] = w
  /\ pc[w] \in BusyPc => mainLock = w /\ staged[job[w].doc].man = job[w].man
OwnInv == \A w \in Worker : OwnAt(w)

\* There is nothing to read where there is no manifest.json.
BareInv == \A d \in Doc : "man" \notin staged[d].has => staged[d].man = Blank

Known == Typed /\ CarryInv /\ OwnInv /\ BareInv

\* What a step of w does to the control and the locks of the others, and to the
\* manifests.
LockFrame(w) ==
  /\ \A v \in Worker : v # w => pc'[v] = pc[v] /\ job'[v] = job[v]
  /\ \A d \in Doc : jobLock'[d] = jobLock[d] \/ jobLock[d] \in {Nobody, w}
  /\ mainLock' = mainLock \/ mainLock \in {Nobody, w}
ManFrame(w) ==
  /\ \A d \in Doc : staged'[d].man = staged[d].man \/ jobLock[d] = w
  /\ BareInv'

LEMMA OwnStep ==
  ASSUME Known, NEW w \in Worker, LockFrame(w), ManFrame(w), OwnAt(w)'
  PROVE  OwnInv' /\ BareInv'
<1>1. ASSUME NEW v \in Worker, v # w PROVE OwnAt(v)'
  <2>1. pc'[v] = pc[v] /\ job'[v] = job[v] /\ OwnAt(v) /\ CarryAt(v)
    BY <1>1 DEF LockFrame, Known, OwnInv, CarryInv
  <2>2. BusyPc \subseteq HoldPc /\ "idle" \notin HoldPc
    BY DEF HoldPc, BusyPc, CommitPc, FailPc, RemovePc
  <2>3. pc[v] \in HoldPc => job[v].doc \in Doc
    BY <2>1, <2>2 DEF CarryAt
  <2>4. pc[v] \in HoldPc => jobLock'[job[v].doc] = v
    BY <1>1, <2>1, <2>3 DEF OwnAt, LockFrame
  <2>5. pc[v] \in BusyPc => mainLock' = v
    BY <1>1, <2>1 DEF OwnAt, LockFrame
  <2>6. pc[v] \in BusyPc => staged'[job[v].doc].man = job[v].man
    BY <1>1, <2>1, <2>2, <2>3 DEF OwnAt, ManFrame
  <2>7. QED
    BY <2>1, <2>4, <2>5, <2>6 DEF OwnAt
<1>2. QED
  BY <1>1 DEF OwnInv, ManFrame

-----------------------------------------------------------------------------
(* Steps of each kind.                                                     *)

LEMMA SameManifests ==
  ASSUME Known, NEW w \in Worker, UNCHANGED staged
  PROVE  ManFrame(w)
BY DEF Known, ManFrame, BareInv

\* Nothing but pc and what no invariant speaks of.
LEMMA GotoOwn ==
  ASSUME Known, NEW w \in Worker, NEW label, Goto(w, label),
         UNCHANGED <<job, jobLock, mainLock, staged>>,
         label \in HoldPc => pc[w] \in HoldPc,
         label \in BusyPc => pc[w] \in BusyPc
  PROVE  OwnInv' /\ BareInv'
<1>1. LockFrame(w) /\ pc'[w] = label
  BY DEF Known, Typed, PcType, Goto, LockFrame
<1>2. OwnAt(w)'
  BY <1>1 DEF Known, OwnInv, OwnAt
<1>3. QED
  BY <1>1, <1>2, SameManifests, OwnStep

\* The same, outside the commit, with another record of the same call.
LEMMA JobOwn ==
  ASSUME Known, NEW w \in Worker, NEW label, Goto(w, label),
         NEW c, job' = [job EXCEPT ![w] = c], c.doc = job[w].doc,
         UNCHANGED <<jobLock, mainLock, staged>>,
         pc[w] \in HoldPc, label \notin BusyPc
  PROVE  OwnInv' /\ BareInv'
<1>1. LockFrame(w) /\ pc'[w] = label /\ job'[w] = c
  BY DEF Known, Typed, PcType, JobType, Goto, LockFrame
<1>2. OwnAt(w)'
  BY <1>1 DEF Known, OwnInv, OwnAt
<1>3. QED
  BY <1>1, <1>2, SameManifests, OwnStep

\* job_lock() is taken.
LEMMA AcquireOwn ==
  ASSUME Known, NEW w \in Worker, NEW label, Goto(w, label), pc[w] # "idle",
         jobLock[job[w].doc] \in {Nobody, w},
         jobLock' = [jobLock EXCEPT ![job[w].doc] = w],
         UNCHANGED <<job, mainLock, staged>>,
         label \notin BusyPc
  PROVE  OwnInv' /\ BareInv'
<1>1. job[w].doc \in Doc
  BY DEF Known, CarryInv, CarryAt
<1>2. pc'[w] = label /\ jobLock'[job[w].doc] = w
  BY <1>1 DEF Known, Typed, PcType, LockType, Goto
<1>3. LockFrame(w)
  BY <1>1 DEF Known, Typed, PcType, LockType, Goto, LockFrame
<1>4. OwnAt(w)'
  BY <1>2 DEF OwnAt
<1>5. QED
  BY <1>3, <1>4, SameManifests, OwnStep

\* A manifest is written under the lock.
LEMMA WriteOwn ==
  ASSUME Known, NEW w \in Worker, NEW label, Goto(w, label),
         NEW m \in Manifest, WriteManifest(w, m),
         UNCHANGED <<jobLock, mainLock>>,
         pc[w] \in HoldPc, label \in BusyPc => pc[w] \in BusyPc
  PROVE  OwnInv' /\ BareInv'
<1>1. job[w].doc \in Doc /\ OwnAt(w)
  BY DEF Known, CarryInv, CarryAt, OwnInv, HoldPc, BusyPc, CommitPc, FailPc,
         RemovePc
<1>2. /\ job'[w].man = m /\ job'[w].doc = job[w].doc
      /\ staged'[job[w].doc].man = m /\ "man" \in staged'[job[w].doc].has
      /\ \A v \in Worker : v # w => job'[v] = job[v]
      /\ \A d \in Doc : d # job[w].doc => staged'[d] = staged[d]
  BY <1>1, WriteManifestFacts DEF Known, Typed
<1>3. LockFrame(w) /\ pc'[w] = label
  BY <1>2 DEF Known, Typed, PcType, Goto, LockFrame
<1>4. ManFrame(w)
  BY <1>1, <1>2 DEF Known, ManFrame, BareInv, OwnAt
<1>5. OwnAt(w)'
  BY <1>1, <1>2, <1>3 DEF OwnAt
<1>6. QED
  BY <1>3, <1>4, <1>5, OwnStep

LEMMA CheckpointOwn ==
  ASSUME Known, NEW w \in Worker, NEW label, Goto(w, label),
         NEW step \in Step, Checkpoint(w, step),
         UNCHANGED <<jobLock, mainLock>>, pc[w] \in BusyPc
  PROVE  OwnInv' /\ BareInv'
BY WriteOwn, StepManifest DEF Checkpoint, HoldPc, Known, Typed

\* The call ends, or returns to the operator's retry.
LEMMA LeaveOwn ==
  ASSUME Known, NEW w \in Worker, Leave(w), ManFrame(w)
  PROVE  OwnInv' /\ BareInv'
<1>1. pc'[w] = "idle" /\ LockFrame(w)
  BY DEF Known, Typed, PcType, JobType, LockType, Leave, Goto, Unlocked,
         MainUnlocked, LockFrame
<1>2. OwnAt(w)'
  BY <1>1 DEF OwnAt, HoldPc, BusyPc, CommitPc, FailPc, RemovePc
<1>3. QED
  BY <1>1, <1>2, OwnStep

LEMMA ReturnOwn ==
  ASSUME Known, NEW w \in Worker, NEW locks, locks \in {jobLock, Unlocked(w)},
         Return(w, locks), ManFrame(w)
  PROVE  OwnInv' /\ BareInv'
<1>1. CASE Outer(job[w].op) = "idle"
  BY <1>1, LeaveOwn DEF Return
<1>2. CASE Outer(job[w].op) # "idle"
  <2>1. /\ Outer(job[w].op) \in {"retry_check", "retry_done"}
        /\ pc' = [pc EXCEPT ![w] = Outer(job[w].op)]
        /\ jobLock' = locks /\ mainLock' = MainUnlocked(w) /\ job' = job
    BY <1>2 DEF Return, Goto, Outer
  <2>2. LockFrame(w)
    BY <2>1 DEF Known, Typed, PcType, LockType, Unlocked, MainUnlocked, LockFrame
  <2>3. OwnAt(w)'
    BY <2>1 DEF Known, Typed, PcType, OwnAt, HoldPc, BusyPc, CommitPc, FailPc,
                RemovePc
  <2>4. QED
    BY <2>2, <2>3, OwnStep
<1>3. QED
  BY <1>1, <1>2

\* A call starts where it holds nothing yet.
LEMMA StartOwn ==
  ASSUME Known, NEW w \in Worker, NEW label, Goto(w, label),
         NEW c, job' = [job EXCEPT ![w] = c],
         \A d \in Doc : jobLock'[d] = jobLock[d] \/ jobLock[d] = Nobody,
         mainLock' = mainLock \/ mainLock = Nobody,
         UNCHANGED staged,
         label \notin BusyPc, label \in HoldPc => jobLock'[c.doc] = w
  PROVE  OwnInv' /\ BareInv'
<1>1. LockFrame(w) /\ pc'[w] = label /\ job'[w] = c
  BY DEF Known, Typed, PcType, JobType, Goto, LockFrame
<1>2. OwnAt(w)'
  BY <1>1 DEF OwnAt
<1>3. QED
  BY <1>1, <1>2, SameManifests, OwnStep

-----------------------------------------------------------------------------
(* Every step keeps what a worker owns.                                    *)

\* The steps of an arrival.
LEMMA ClaimOwn ==
  ASSUME Known, NEW w \in Worker, Claim(w)
  PROVE  OwnInv' /\ BareInv'
<1> USE DEF At, D, disk, record, lock, bound, Committing
<1>1. CASE ClaimLock(w)
  BY <1>1, AcquireOwn
     DEF ClaimLock, BusyPc, CommitPc, FailPc
<1>2. CASE ClaimContended(w)
  BY <1>2, GotoOwn
     DEF ClaimContended, HoldPc, BusyPc, CommitPc, FailPc, RemovePc
<1>3. CASE ClaimManifest(w)
  BY <1>3, WriteOwn, FreshManifest
     DEF ClaimManifest, Known, Typed, HoldPc, BusyPc, CommitPc, FailPc, RemovePc
<1>4. CASE ClaimPdf(w)
  <2>1. /\ job[w].doc \in Doc /\ OwnAt(w)
        /\ Goto(w, "unlink_source") /\ UNCHANGED <<job, jobLock, mainLock>>
    BY <1>4 DEF ClaimPdf, Known, CarryInv, CarryAt, OwnInv
  <2>2. \A d \in Doc : /\ staged'[d].man = staged[d].man
                       /\ "man" \in staged'[d].has <=> "man" \in staged[d].has
    BY <1>4, <2>1 DEF ClaimPdf, Known, Typed, StagedType, Staging, Filled
  <2>3. ManFrame(w)
    BY <2>2 DEF ManFrame, Known, BareInv
  <2>4. LockFrame(w) /\ pc'[w] = "unlink_source"
    BY <2>1 DEF Known, Typed, PcType, Goto, LockFrame
  <2>5. OwnAt(w)'
    BY <1>4, <2>1, <2>2, <2>4
       DEF ClaimPdf, OwnAt, HoldPc, BusyPc, CommitPc, FailPc, RemovePc
  <2>6. QED
    BY <2>3, <2>4, <2>5, OwnStep
<1>5. CASE UnlinkSource(w)
  BY <1>5, GotoOwn
     DEF UnlinkSource, HoldPc, BusyPc, CommitPc, FailPc, RemovePc
<1>6. CASE ClaimReceipt(w)
  <2>1. CASE job[w].op = "stage"
    BY <1>6, <2>1, LeaveOwn, SameManifests DEF ClaimReceipt
  <2>2. CASE job[w].op # "stage"
    <3>1. /\ Goto(w, "relock") /\ UNCHANGED <<job, mainLock, staged>>
          /\ jobLock' \in {jobLock, Unlocked(w)}
      BY <1>6, <2>2 DEF ClaimReceipt
    <3>2. LockFrame(w) /\ pc'[w] = "relock"
      BY <3>1 DEF Known, Typed, PcType, LockType, Goto, Unlocked, LockFrame
    <3>3. OwnAt(w)'
      BY <3>2 DEF OwnAt, HoldPc, BusyPc, CommitPc, FailPc, RemovePc
    <3>4. QED
      BY <3>1, <3>2, <3>3, SameManifests, OwnStep
  <2>3. QED
    BY <2>1, <2>2
<1>7. CASE Relock(w)
  BY <1>7, AcquireOwn
     DEF Relock, BusyPc, CommitPc, FailPc
<1>8. CASE DupReceipt(w)
  BY <1>8, GotoOwn
     DEF DupReceipt, HoldPc, BusyPc, CommitPc, FailPc, RemovePc
<1>9. CASE DupFinish(w)
  BY <1>9, GotoOwn
     DEF DupFinish, HoldPc, BusyPc, CommitPc, FailPc, RemovePc
<1>10. CASE DupUnlink(w)
  BY <1>10, ReturnOwn, SameManifests DEF DupUnlink
<1>11. QED
  BY <1>1, <1>2, <1>3, <1>4, <1>5, <1>6, <1>7, <1>8, <1>9, <1>10 DEF Claim

\* The steps of commit() and commit_failed().
LEMMA CommitOwn ==
  ASSUME Known, NEW w \in Worker, Commit(w)
  PROVE  OwnInv' /\ BareInv'
<1> USE DEF At, D, disk, record, lock, bound, Committing
<1>1. CASE TakeMain(w)
  <2>1. /\ job[w].doc \in Doc /\ OwnAt(w)
        /\ Goto(w, "snapshot") /\ UNCHANGED <<jobLock, staged>>
        /\ mainLock = Nobody /\ mainLock' = w
    BY <1>1 DEF TakeMain, Known, CarryInv, CarryAt, OwnInv
  <2>2. /\ job'[w].doc = job[w].doc /\ job'[w].man = OnDisk(job[w].doc)
        /\ \A v \in Worker : v # w => job'[v] = job[v]
    BY <1>1 DEF TakeMain, Known, Typed, JobType, CallRecord
  <2>3. LockFrame(w) /\ pc'[w] = "snapshot"
    BY <2>1, <2>2 DEF Known, Typed, PcType, Goto, LockFrame
  <2>4. OnDisk(job[w].doc) = staged[job[w].doc].man
    BY <2>1 DEF OnDisk, Known, BareInv
  <2>5. pc[w] \in HoldPc
    BY <1>1 DEF TakeMain, HoldPc
  <2>6. OwnAt(w)'
    BY <2>1, <2>2, <2>3, <2>4, <2>5 DEF OwnAt
  <2>7. QED
    BY <2>1, <2>3, <2>6, SameManifests, OwnStep
<1>2. CASE Snapshot(w)
  <2>1. PICK label \in {"failed_pdf", "copy_pdf"} : Goto(w, label)
    BY <1>2 DEF Snapshot
  <2>2. pc[w] \in HoldPc /\ pc[w] \in BusyPc /\ job[w].disp \in Outcome
    BY <1>2 DEF Snapshot, Known, CarryInv, CarryAt, HoldPc, BusyPc, CommitPc
  <2>3. CASE job[w].man.assessed = "none"
    BY <1>2, <2>1, <2>2, <2>3, WriteOwn, AssessedManifest
       DEF Snapshot, Known, Typed
  <2>4. CASE job[w].man.assessed # "none"
    BY <1>2, <2>1, <2>2, <2>4, GotoOwn DEF Snapshot
  <2>5. QED
    BY <2>3, <2>4
<1>3. CASE SkipDone(w)
  BY <1>3, GotoOwn
     DEF SkipDone, HoldPc, BusyPc, CommitPc, FailPc, RemovePc
<1>4. CASE Mark(w)
  <2>1. PICK s \in {<<"mark_pdf", "pdf", "audit">>, <<"mark_audit", "audit", "stores">>,
                   <<"mark_stores", "stores", "emit">>,
                   <<"mark_emitted", "emitted", "finish_receipt">>} :
          pc[w] = s[1] /\ Checkpoint(w, s[2]) /\ Goto(w, s[3])
    BY <1>4 DEF Mark
  <2>2. pc[w] \in BusyPc /\ s[2] \in Step
    BY <2>1 DEF BusyPc, CommitPc, Step
  <2>3. UNCHANGED <<jobLock, mainLock>>
    BY <1>4 DEF Mark
  <2>4. QED
    BY <2>1, <2>2, <2>3, CheckpointOwn
<1>5. CASE CopyPdf(w)
  BY <1>5, GotoOwn
     DEF CopyPdf, HoldPc, BusyPc, CommitPc, FailPc, RemovePc
<1>6. CASE AuditKnown(w)
  BY <1>6, CheckpointOwn DEF AuditKnown, Step, BusyPc, CommitPc
<1>7. CASE AuditStart(w)
  BY <1>7, CheckpointOwn DEF AuditStart, Step, BusyPc, CommitPc
<1>8. CASE AuditAppend(w)
  BY <1>8, GotoOwn
     DEF AuditAppend, HoldPc, BusyPc, CommitPc, FailPc, RemovePc
<1>9. CASE WriteIndex(w)
  BY <1>9, GotoOwn
     DEF WriteIndex, HoldPc, BusyPc, CommitPc, FailPc, RemovePc
<1>10. CASE WriteText(w)
  BY <1>10, GotoOwn
     DEF WriteText, HoldPc, BusyPc, CommitPc, FailPc, RemovePc
<1>11. CASE EmitStart(w)
  BY <1>11, CheckpointOwn DEF EmitStart, Step, BusyPc, CommitPc
<1>12. CASE Deliver(w)
  BY <1>12, GotoOwn
     DEF Deliver, HoldPc, BusyPc, CommitPc, FailPc, RemovePc
<1>13. CASE FailPdf(w)
  BY <1>13, GotoOwn
     DEF FailPdf, HoldPc, BusyPc, CommitPc, FailPc, RemovePc
<1>14. CASE FailMeta(w)
  BY <1>14, GotoOwn
     DEF FailMeta, HoldPc, BusyPc, CommitPc, FailPc, RemovePc
<1>15. CASE FinishReceipt(w)
  BY <1>15, GotoOwn
     DEF FinishReceipt, HoldPc, BusyPc, CommitPc, FailPc, RemovePc
<1>16. CASE DropFailed(w)
  BY <1>16, GotoOwn
     DEF DropFailed, HoldPc, BusyPc, CommitPc, FailPc, RemovePc
<1>17. CASE ListStaging(w)
  <2>1. PICK x : job' = [job EXCEPT ![w] = [job[w] EXCEPT !.rm = x]]
    BY <1>17 DEF ListStaging
  <2>2. [job[w] EXCEPT !.rm = x].doc = job[w].doc
    BY DEF Known, Typed, JobType, CallRecord
  <2>3. PICK label \in {"remove", "remove_dup"} : Goto(w, label)
    BY <1>17 DEF ListStaging
  <2>4. UNCHANGED <<jobLock, mainLock, staged>>
    BY <1>17 DEF ListStaging
  <2>5. pc[w] \in HoldPc /\ label \notin BusyPc
    BY <1>17 DEF ListStaging, HoldPc, BusyPc, CommitPc, FailPc, RemovePc
  <2>6. QED
    BY <2>1, <2>2, <2>3, <2>4, <2>5, JobOwn
<1>18. CASE RemoveEntry(w)
  <2>1. /\ job[w].doc \in Doc /\ OwnAt(w) /\ pc[w] \in {"remove", "remove_dup"}
        /\ UNCHANGED <<pc, jobLock, mainLock>>
    BY <1>18 DEF RemoveEntry, Known, CarryInv, CarryAt, OwnInv
  <2>2. PICK e \in job[w].rm :
          /\ staged' = [staged EXCEPT ![job[w].doc] = Emptied(@, {e})]
          /\ job' = [job EXCEPT ![w] = [job[w] EXCEPT !.rm = @ \ {e}]]
    BY <1>18 DEF RemoveEntry
  <2>3. pc[w] \in HoldPc /\ pc[w] \notin BusyPc
    BY <2>1 DEF HoldPc, BusyPc, CommitPc, FailPc, RemovePc
  <2>4. /\ job'[w].doc = job[w].doc
        /\ \A v \in Worker : v # w => job'[v] = job[v]
    BY <2>2 DEF Known, Typed, JobType, CallRecord
  <2>5. ManFrame(w)
    BY <2>1, <2>2, <2>3
       DEF Known, Typed, StagedType, BareInv, ManFrame, Emptied, OwnAt
  <2>6. LockFrame(w)
    BY <2>1, <2>4 DEF LockFrame
  <2>7. OwnAt(w)'
    BY <2>1, <2>3, <2>4 DEF OwnAt
  <2>8. QED
    BY <2>5, <2>6, <2>7, OwnStep
<1>19. CASE RemoveDir(w)
  <2>1. job[w].doc \in Doc
    BY <1>19 DEF RemoveDir, Known, CarryInv, CarryAt
  <2>2. \A d \in Doc : /\ staged'[d].man = staged[d].man
                       /\ "man" \in staged'[d].has <=> "man" \in staged[d].has
    BY <1>19, <2>1 DEF RemoveDir, Known, Typed, StagedType, Staging, Emptied
  <2>3. ManFrame(w)
    BY <2>2 DEF ManFrame, Known, BareInv
  <2>4. PICK locks \in {jobLock, Unlocked(w)} : Return(w, locks)
    BY <1>19 DEF RemoveDir
  <2>5. QED
    BY <2>3, <2>4, ReturnOwn
<1>20. QED
  BY <1>1, <1>2, <1>3, <1>4, <1>5, <1>6, <1>7, <1>8, <1>9, <1>10, <1>11,
     <1>12, <1>13, <1>14, <1>15, <1>16, <1>17, <1>18, <1>19 DEF Commit

\* The steps of _finish_staged(), process() and resume_staged().
LEMMA ContinueOwn ==
  ASSUME Known, NEW w \in Worker, Continue(w)
  PROVE  OwnInv' /\ BareInv'
<1> USE DEF At, D, disk, record, lock, bound, Committing
<1>1. CASE FinishDuplicate(w)
  <2>1. PICK x : job' = [job EXCEPT ![w] = [job[w] EXCEPT !.disp = x]]
    BY <1>1 DEF FinishDuplicate
  <2>2. [job[w] EXCEPT !.disp = x].doc = job[w].doc
    BY DEF Known, Typed, JobType, CallRecord
  <2>3. Goto(w, "list_dup") /\ UNCHANGED <<jobLock, mainLock, staged>>
    BY <1>1 DEF FinishDuplicate
  <2>4. pc[w] \in HoldPc /\ "list_dup" \notin BusyPc
    BY <1>1 DEF FinishDuplicate, HoldPc, BusyPc, CommitPc, FailPc, RemovePc
  <2>5. QED
    BY <2>1, <2>2, <2>3, <2>4, JobOwn
<1>2. CASE Process(w)
  <2>1. PICK x : job' = [job EXCEPT ![w] = [job[w] EXCEPT !.disp = x]]
    BY <1>2 DEF Process
  <2>2. [job[w] EXCEPT !.disp = x].doc = job[w].doc
    BY DEF Known, Typed, JobType, CallRecord
  <2>3. Goto(w, "wait_main") /\ UNCHANGED <<jobLock, mainLock, staged>>
    BY <1>2 DEF Process
  <2>4. pc[w] \in HoldPc /\ "wait_main" \notin BusyPc
    BY <1>2 DEF Process, HoldPc, BusyPc, CommitPc, FailPc, RemovePc
  <2>5. QED
    BY <2>1, <2>2, <2>3, <2>4, JobOwn
<1>3. CASE FinishLost(w)
  BY <1>3, LeaveOwn, SameManifests DEF FinishLost
<1>4. CASE SweepLock(w)
  BY <1>4, AcquireOwn
     DEF SweepLock, BusyPc, CommitPc, FailPc
<1>5. CASE SweepContended(w)
  BY <1>5, LeaveOwn, SameManifests DEF SweepContended
<1>6. CASE ResumeGone(w)
  BY <1>6, LeaveOwn, SameManifests DEF ResumeGone
<1>7. CASE ResumeDeclined(w)
  BY <1>7, ReturnOwn, SameManifests DEF ResumeDeclined
<1>8. CASE Resume(w)
  <2>1. CASE OnDisk(job[w].doc).assessed = "none"
    BY <1>8, <2>1, GotoOwn DEF Resume, HoldPc, BusyPc, CommitPc, FailPc, RemovePc
  <2>2. CASE OnDisk(job[w].doc).assessed # "none"
    <3>1. PICK x : job' = [job EXCEPT ![w] = [job[w] EXCEPT !.disp = x]]
      BY <1>8, <2>2 DEF Resume
    <3>2. [job[w] EXCEPT !.disp = x].doc = job[w].doc
      BY DEF Known, Typed, JobType, CallRecord
    <3>3. Goto(w, "wait_main") /\ UNCHANGED <<jobLock, mainLock, staged>>
      BY <1>8, <2>2 DEF Resume
    <3>4. pc[w] \in HoldPc /\ "wait_main" \notin BusyPc
      BY <1>8 DEF Resume, HoldPc, BusyPc, CommitPc, FailPc, RemovePc
    <3>5. QED
      BY <3>1, <3>2, <3>3, <3>4, JobOwn
  <2>3. QED
    BY <2>1, <2>2
<1>9. QED
  BY <1>1, <1>2, <1>3, <1>4, <1>5, <1>6, <1>7, <1>8 DEF Continue

\* The steps of a retry, a resolve and a purge.
LEMMA OperateOwn ==
  ASSUME Known, NEW w \in Worker, Operate(w)
  PROVE  OwnInv' /\ BareInv'
<1> USE DEF At, D, disk, record, lock, bound, Committing
<1>1. CASE RetryConfirm(w)
  <2>1. job[w].doc \in Doc /\ OnDisk(job[w].doc) \in Manifest
    BY <1>1, OnDiskType DEF RetryConfirm, Known, Typed, CarryInv, CarryAt
  <2>2. /\ Goto(w, "retry_unresolve") /\ UNCHANGED <<jobLock, mainLock>>
        /\ pc[w] \in HoldPc /\ "retry_unresolve" \notin BusyPc
    BY <1>1 DEF RetryConfirm, HoldPc, BusyPc, CommitPc, FailPc, RemovePc
  <2>3. CASE Uncertain(OnDisk(job[w].doc))
    <3>1. [OnDisk(job[w].doc) EXCEPT !.steps = @ \ {"emit_started"}] \in Manifest
      BY <2>1 DEF Manifest
    <3>2. PICK m \in Manifest : WriteManifest(w, m)
      BY <1>1, <2>3, <3>1 DEF RetryConfirm
    <3>3. QED
      BY <2>2, <3>2, WriteOwn
  <2>4. CASE ~Uncertain(OnDisk(job[w].doc))
    <3>1. UNCHANGED <<staged, job>>
      BY <1>1, <2>4 DEF RetryConfirm
    <3>2. QED
      BY <2>2, <3>1, GotoOwn
  <2>5. QED
    BY <2>3, <2>4
<1>2. CASE RetryUnresolve(w)
  <2>1. /\ job[w].doc \in Doc /\ OwnAt(w)
        /\ Goto(w, "resume") /\ UNCHANGED <<job, jobLock, mainLock>>
    BY <1>2 DEF RetryUnresolve, Known, CarryInv, CarryAt, OwnInv
  <2>2. \A d \in Doc : /\ staged'[d].man = staged[d].man
                       /\ "man" \in staged'[d].has <=> "man" \in staged[d].has
    BY <1>2, <2>1 DEF RetryUnresolve, Known, Typed, StagedType, Staging, Emptied
  <2>3. ManFrame(w)
    BY <2>2 DEF ManFrame, Known, BareInv
  <2>4. LockFrame(w) /\ pc'[w] = "resume"
    BY <2>1 DEF Known, Typed, PcType, Goto, LockFrame
  <2>5. OwnAt(w)'
    BY <1>2, <2>1, <2>2, <2>4
       DEF RetryUnresolve, OwnAt, HoldPc, BusyPc, CommitPc, FailPc, RemovePc
  <2>6. QED
    BY <2>3, <2>4, <2>5, OwnStep
<1>3. CASE RetryCheck(w)
  BY <1>3, LeaveOwn, SameManifests DEF RetryCheck
<1>4. CASE RetryDone(w)
  BY <1>4, LeaveOwn, SameManifests DEF RetryDone
<1>5. CASE Resolve(w)
  <2>1. job[w].doc \in Doc
    BY <1>5 DEF Resolve, Known, CarryInv, CarryAt
  <2>2. \A d \in Doc : /\ staged'[d].man = staged[d].man
                       /\ "man" \in staged'[d].has <=> "man" \in staged[d].has
    <3>1. \/ UNCHANGED staged
          \/ staged' = [staged EXCEPT ![job[w].doc] = Filled(@, {"res"})]
      BY <1>5 DEF Resolve
    <3>2. QED
      BY <2>1, <3>1 DEF Known, Typed, StagedType, Staging, Filled
  <2>3. ManFrame(w)
    BY <2>2 DEF ManFrame, Known, BareInv
  <2>4. QED
    BY <1>5, <2>3, LeaveOwn DEF Resolve
<1>6. CASE PurgeText(w)
  BY <1>6, GotoOwn
     DEF PurgeText, HoldPc, BusyPc, CommitPc, FailPc, RemovePc
<1>7. CASE PurgePdf(w)
  BY <1>7, GotoOwn
     DEF PurgePdf, HoldPc, BusyPc, CommitPc, FailPc, RemovePc
<1>8. CASE PurgeEnd(w)
  BY <1>8, LeaveOwn, SameManifests DEF PurgeEnd
<1>9. QED
  BY <1>1, <1>2, <1>3, <1>4, <1>5, <1>6, <1>7, <1>8 DEF Operate

\* The start of a call of any kind, and the ends it does not choose.
LEMMA CallOwn ==
  ASSUME Known, NEW w \in Worker, Call(w)
  PROVE  OwnInv' /\ BareInv'
<1> USE DEF At, D, disk, record, lock, bound
<1>1. ASSUME NEW f \in File, StartRun(w, f) \/ StartStage(w, f)
      PROVE  OwnInv' /\ BareInv'
  <2>1. PICK c : job' = [job EXCEPT ![w] = c]
    BY <1>1 DEF StartRun, StartStage, Begin
  <2>2. PICK label \in {"claim", "dup"} : Goto(w, label)
    BY <1>1 DEF StartRun, StartStage
  <2>3. label \notin HoldPc /\ label \notin BusyPc
    BY DEF HoldPc, BusyPc, CommitPc, FailPc, RemovePc
  <2>4. UNCHANGED <<jobLock, mainLock, staged>>
    BY <1>1 DEF StartRun, StartStage
  <2>5. QED
    BY <2>1, <2>2, <2>3, <2>4, StartOwn
<1>2. ASSUME NEW d \in Doc, StartSweep(w, d)
      PROVE  OwnInv' /\ BareInv'
  <2>1. PICK c : job' = [job EXCEPT ![w] = c]
    BY <1>2 DEF StartSweep
  <2>2. Goto(w, "sweep_lock") /\ "sweep_lock" \notin HoldPc /\ "sweep_lock" \notin BusyPc
    BY <1>2 DEF StartSweep, HoldPc, BusyPc, CommitPc, FailPc, RemovePc
  <2>3. /\ UNCHANGED <<jobLock, staged>>
        /\ mainLock' = mainLock \/ mainLock = Nobody
    BY <1>2 DEF StartSweep
  <2>4. QED
    BY <2>1, <2>2, <2>3, StartOwn
<1>3. ASSUME NEW d \in Doc, StartRetryStaged(w, d)
      PROVE  OwnInv' /\ BareInv'
  <2>1. NewCall("retry_staged", d, NoFile).doc = d
    BY ConstantTypes DEF CallOp
  <2>2. /\ \A e \in Doc : jobLock'[e] = jobLock[e] \/ jobLock[e] = Nobody
        /\ jobLock'[d] = w
    BY <1>3 DEF StartRetryStaged, Known, Typed, LockType
  <2>3. "retry_confirm" \notin BusyPc
    BY DEF BusyPc, CommitPc, FailPc
  <2>4. QED
    BY <1>3, <2>1, <2>2, <2>3, StartOwn DEF StartRetryStaged
<1>4. ASSUME NEW d \in Doc, StartRetryFailed(w, d)
      PROVE  OwnInv' /\ BareInv'
  <2>1. PICK c : job' = [job EXCEPT ![w] = c]
    BY <1>4 DEF StartRetryFailed, Begin
  <2>2. PICK label \in {"claim", "dup"} : Goto(w, label)
    BY <1>4 DEF StartRetryFailed
  <2>3. label \notin HoldPc /\ label \notin BusyPc
    BY DEF HoldPc, BusyPc, CommitPc, FailPc, RemovePc
  <2>4. \A e \in Doc : jobLock'[e] = jobLock[e] \/ jobLock[e] = Nobody
    BY <1>4 DEF StartRetryFailed, Known, Typed, LockType
  <2>5. UNCHANGED <<mainLock, staged>>
    BY <1>4 DEF StartRetryFailed
  <2>6. QED
    BY <2>1, <2>2, <2>3, <2>4, <2>5, StartOwn
<1>5. ASSUME NEW d \in Doc, NEW op \in {"resolve_staged", "resolve_failed"},
             StartResolve(w, d, op)
      PROVE  OwnInv' /\ BareInv'
  <2>1. PICK c : job' = [job EXCEPT ![w] = c]
    BY <1>5 DEF StartResolve
  <2>2. Goto(w, "resolve") /\ "resolve" \notin HoldPc /\ "resolve" \notin BusyPc
    BY <1>5 DEF StartResolve, HoldPc, BusyPc, CommitPc, FailPc, RemovePc
  <2>3. /\ UNCHANGED <<jobLock, staged>>
        /\ mainLock' = mainLock \/ mainLock = Nobody
    BY <1>5 DEF StartResolve
  <2>4. QED
    BY <2>1, <2>2, <2>3, StartOwn
<1>6. ASSUME NEW d \in Doc, NEW op \in {"purge", "hard_purge"},
             StartPurge(w, d, op)
      PROVE  OwnInv' /\ BareInv'
  <2>1. PICK c : job' = [job EXCEPT ![w] = c]
    BY <1>6 DEF StartPurge
  <2>2. Goto(w, "purge_text") /\ "purge_text" \notin HoldPc /\ "purge_text" \notin BusyPc
    BY <1>6 DEF StartPurge, HoldPc, BusyPc, CommitPc, FailPc, RemovePc
  <2>3. /\ UNCHANGED <<jobLock, staged>>
        /\ mainLock' = mainLock \/ mainLock = Nobody
    BY <1>6 DEF StartPurge
  <2>4. QED
    BY <2>1, <2>2, <2>3, StartOwn
<1>7. QED
  BY <1>1, <1>2, <1>3, <1>4, <1>5, <1>6 DEF Call

LEMMA EndOwn ==
  ASSUME Known, NEW w \in Worker, DeliverFails(w) \/ Crash(w)
  PROVE  OwnInv' /\ BareInv'
<1>1. Leave(w) /\ UNCHANGED staged
  BY DEF DeliverFails, Crash, disk
<1>2. QED
  BY <1>1, LeaveOwn, SameManifests

LEMMA InitKnown == Init => Known
<1> SUFFICES ASSUME Init PROVE Known
  OBVIOUS
<1>1. OwnInv
  BY DEF Init, OwnInv, OwnAt, HoldPc, BusyPc, CommitPc, FailPc, RemovePc
<1>2. BareInv
  BY DEF Init, BareInv
<1>3. QED
  BY <1>1, <1>2, InitTyped DEF Known

LEMMA NextKnown ==
  ASSUME Known, [Next]_vars
  PROVE  Known'
<1>1. ASSUME NEW w \in Worker, Call(w) \/ Work(w) \/ DeliverFails(w) \/ Crash(w)
      PROVE  OwnInv' /\ BareInv'
  BY <1>1, CallOwn, ClaimOwn, CommitOwn, ContinueOwn, OperateOwn, EndOwn DEF Work
<1>2. ASSUME UNCHANGED vars PROVE OwnInv' /\ BareInv'
  BY <1>2 DEF vars, disk, lock, control, Known, OwnInv, OwnAt, BareInv
<1>3. OwnInv' /\ BareInv'
  BY <1>1, <1>2 DEF Next, Quiescent
<1>4. Typed' /\ CarryInv'
  BY NextTyped DEF Known
<1>5. QED
  BY <1>3, <1>4 DEF Known

LEMMA AlwaysKnown == Spec => []Known
BY InitKnown, NextKnown, PTL DEF Spec

\* Whoever is in commit() or commit_failed() holds both locks, and the manifest
\* on disk is the one it read or wrote last: no claim, retry, sweep or other
\* commit replaces it between two of its checkpoints.
THEOREM ManifestIsHeld == Spec => []ManifestHeld
<1>1. Known => ManifestHeld
  BY DEF Known, OwnInv, OwnAt, ManifestHeld, D, HoldPc, BusyPc
<1>2. QED
  BY <1>1, AlwaysKnown, PTL

-----------------------------------------------------------------------------
(* Completions are audited once.                                           *)

\* Where a receipt is known, other than in its own file.
Seen(r) == (\E d \in Doc : r \in Ids(d)) \/ (\E d \in Doc : staged[d].man.rcpt = r)

\* A receipt that is not drawn yet is nowhere, one that was drawn for a claim is
\* nowhere but with the worker until it is in the manifest or its own file.
FreshInv == \A r \in Receipt : receipt[r] = "unused" =>
              ~Seen(r) /\ \A v \in Worker : job[v].man.rcpt # r
ClaimPc == {"claim", "write_manifest", "dup"}
NewAt(w) == pc[w] \in ClaimPc =>
              /\ job[w].man.rcpt \in Receipt /\ ~Seen(job[w].man.rcpt)
              /\ \A v \in Worker : v # w => job[v].man.rcpt # job[w].man.rcpt

\* What _completion_already_audited() relies on: the marker is in the manifest
\* when the event is in the trail, and no event is appended a second time.
MarkedInv == \A d \in Doc : staged[d].man.rcpt \in Ids(d) =>
               "audit_started" \in staged[d].man.steps
AppendAt(w) == pc[w] = "audit_append" =>
                 /\ "audit_started" \in job[w].man.steps
                 /\ job[w].man.rcpt \notin Ids(job[w].doc)
OnceInv ==
  /\ FreshInv /\ MarkedInv /\ CompletionAuditedOnce
  /\ \A w \in Worker : NewAt(w) /\ AppendAt(w)

\* What most steps of w do: no receipt gets anywhere it was not.
ReceiptFrame == \A r \in Receipt : receipt'[r] = "unused" => receipt[r] = "unused"
StagedFrame ==
  \A d \in Doc :
     \/ staged'[d].man.rcpt = NoReceipt
     \/ /\ staged'[d].man.rcpt = staged[d].man.rcpt
        /\ "audit_started" \in staged[d].man.steps
           => "audit_started" \in staged'[d].man.steps
JobFrame(w) ==
  /\ \A v \in Worker : v # w => pc'[v] = pc[v] /\ job'[v] = job[v]
  /\ \/ job'[w].man.rcpt \in {NoReceipt, job[w].man.rcpt}
     \/ \E d \in Doc : job'[w].man.rcpt = staged[d].man.rcpt
  /\ pc'[w] \in ClaimPc => pc[w] \in ClaimPc /\ job'[w] = job[w]

LEMMA SameTrail ==
  ASSUME UNCHANGED trail, NEW d \in Doc
  PROVE  Ids(d)' = Ids(d)
BY DEF Ids

LEMMA OnceStep ==
  ASSUME Known, OnceInv, NEW w \in Worker, UNCHANGED trail,
         ReceiptFrame, StagedFrame, JobFrame(w), AppendAt(w)'
  PROVE  OnceInv'
<1> USE DEF OnceInv
<1>1. \A d \in Doc : Ids(d)' = Ids(d)
  BY SameTrail
<1>2. \A d \in Doc : NoReceipt \notin Ids(d)
  BY DEF Ids
<1>3. \A r \in Receipt : ~Seen(r) => ~Seen(r)'
  BY <1>1 DEF Seen, StagedFrame
<1>4. FreshInv'
  <2>1. SUFFICES ASSUME NEW r \in Receipt, receipt'[r] = "unused"
                 PROVE  ~Seen(r)' /\ \A v \in Worker : job'[v].man.rcpt # r
    BY DEF FreshInv
  <2>2. ~Seen(r) /\ \A v \in Worker : job[v].man.rcpt # r
    BY <2>1 DEF FreshInv, ReceiptFrame
  <2>3. QED
    BY <1>3, <2>2 DEF JobFrame, Seen
<1>5. MarkedInv'
  BY <1>1, <1>2 DEF MarkedInv, StagedFrame
<1>6. CompletionAuditedOnce'
  BY DEF CompletionAuditedOnce
<1>7. ASSUME NEW v \in Worker PROVE NewAt(v)'
  <2>1. SUFFICES ASSUME pc'[v] \in ClaimPc
                 PROVE  /\ job'[v].man.rcpt \in Receipt /\ ~Seen(job[v].man.rcpt)'
                        /\ \A u \in Worker : u # v => job'[u].man.rcpt # job'[v].man.rcpt
    BY DEF NewAt, Seen
  <2>2. pc[v] \in ClaimPc /\ job'[v] = job[v]
    BY <2>1 DEF JobFrame
  <2>3. /\ job[v].man.rcpt \in Receipt /\ ~Seen(job[v].man.rcpt)
        /\ \A u \in Worker : u # v => job[u].man.rcpt # job[v].man.rcpt
    BY <2>2 DEF NewAt
  <2>4. \A u \in Worker : u # v => job'[u].man.rcpt # job[v].man.rcpt
    BY <2>2, <2>3 DEF JobFrame, Seen
  <2>5. ~Seen(job[v].man.rcpt)'
    BY <1>1, <2>2, <2>3 DEF Seen, StagedFrame
  <2>6. QED
    BY <2>2, <2>3, <2>4, <2>5
<1>8. ASSUME NEW v \in Worker PROVE AppendAt(v)'
  <2>1. CASE v = w
    BY <2>1
  <2>2. CASE v # w
    <3>1. pc'[v] = pc[v] /\ job'[v] = job[v] /\ AppendAt(v) /\ CarryAt(v)
      BY <2>2 DEF JobFrame, Known, CarryInv
    <3>2. pc[v] = "audit_append" => job[v].doc \in Doc
      BY <3>1 DEF CarryAt
    <3>3. QED
      BY <1>1, <3>1, <3>2 DEF AppendAt
  <2>3. QED
    BY <2>1, <2>2
<1>9. QED
  BY <1>4, <1>5, <1>6, <1>7, <1>8

-----------------------------------------------------------------------------
(* Steps of each kind, again.                                              *)

LEMMA SameStaged ==
  ASSUME UNCHANGED staged
  PROVE  StagedFrame
BY DEF StagedFrame

LEMMA GotoOnce ==
  ASSUME Known, OnceInv, NEW w \in Worker, NEW label, Goto(w, label),
         UNCHANGED <<job, trail>>, ReceiptFrame, StagedFrame,
         label \in ClaimPc => pc[w] \in ClaimPc, label # "audit_append"
  PROVE  OnceInv'
<1>1. pc'[w] = label /\ \A v \in Worker : v # w => pc'[v] = pc[v]
  BY DEF Known, Typed, PcType, Goto
<1>2. JobFrame(w) /\ AppendAt(w)'
  BY <1>1 DEF JobFrame, AppendAt
<1>3. QED
  BY <1>2, OnceStep

LEMMA JobOnce ==
  ASSUME Known, OnceInv, NEW w \in Worker, NEW label, Goto(w, label),
         NEW c, job' = [job EXCEPT ![w] = c],
         \/ c.man.rcpt \in {NoReceipt, job[w].man.rcpt}
         \/ \E d \in Doc : c.man.rcpt = staged[d].man.rcpt,
         UNCHANGED trail, ReceiptFrame, StagedFrame,
         label \notin ClaimPc, label # "audit_append"
  PROVE  OnceInv'
<1>1. /\ pc'[w] = label /\ job'[w] = c
      /\ \A v \in Worker : v # w => pc'[v] = pc[v] /\ job'[v] = job[v]
  BY DEF Known, Typed, PcType, JobType, Goto
<1>2. JobFrame(w) /\ AppendAt(w)'
  BY <1>1 DEF JobFrame, AppendAt
<1>3. QED
  BY <1>2, OnceStep

\* A manifest is written back that names the receipt it named.
LEMMA WriteOnce ==
  ASSUME Known, OnceInv, NEW w \in Worker, NEW label, Goto(w, label),
         NEW m \in Manifest, WriteManifest(w, m), job[w].doc \in Doc,
         m.rcpt = staged[job[w].doc].man.rcpt,
         "audit_started" \in staged[job[w].doc].man.steps
           => "audit_started" \in m.steps,
         UNCHANGED <<trail, receipt>>, label \notin ClaimPc,
         label = "audit_append" =>
           "audit_started" \in m.steps /\ m.rcpt \notin Ids(job[w].doc)
  PROVE  OnceInv'
<1>1. /\ job'[w].man = m /\ job'[w].doc = job[w].doc
      /\ staged'[job[w].doc].man = m
      /\ \A v \in Worker : v # w => job'[v] = job[v]
      /\ \A d \in Doc : d # job[w].doc => staged'[d] = staged[d]
  BY WriteManifestFacts DEF Known, Typed
<1>2. pc'[w] = label /\ \A v \in Worker : v # w => pc'[v] = pc[v]
  BY DEF Known, Typed, PcType, Goto
<1>3. ReceiptFrame /\ StagedFrame
  BY <1>1 DEF ReceiptFrame, StagedFrame
<1>4. JobFrame(w)
  BY <1>1, <1>2 DEF JobFrame
<1>5. AppendAt(w)'
  BY <1>1, <1>2, SameTrail DEF AppendAt
<1>6. QED
  BY <1>3, <1>4, <1>5, OnceStep

LEMMA CheckpointOnce ==
  ASSUME Known, OnceInv, NEW w \in Worker, NEW label, Goto(w, label),
         NEW step \in Step, Checkpoint(w, step), pc[w] \in BusyPc,
         UNCHANGED <<trail, receipt>>, label \notin ClaimPc,
         label = "audit_append" =>
           step = "audit_started" /\ job[w].man.rcpt \notin Ids(job[w].doc)
  PROVE  OnceInv'
<1> DEFINE m == [job[w].man EXCEPT !.steps = @ \cup {step}]
<1>1. /\ job[w].doc \in Doc /\ staged[job[w].doc].man = job[w].man
  BY DEF Known, CarryInv, CarryAt, OwnInv, OwnAt, BusyPc, CommitPc, FailPc
<1>2. /\ m \in Manifest
      /\ m.rcpt = job[w].man.rcpt /\ m.steps = job[w].man.steps \cup {step}
  <2>1. m \in Manifest
    BY StepManifest DEF Known, Typed
  <2>2. job[w].man \in Manifest
    BY DEF Known, Typed, JobType, CallRecord
  <2>3. m.rcpt = job[w].man.rcpt /\ m.steps = job[w].man.steps \cup {step}
    BY <2>2 DEF Manifest
  <2>4. QED
    BY <2>1, <2>3
<1>3. WriteManifest(w, m)
  BY DEF Checkpoint
<1> HIDE DEF m
<1>4. QED
  BY <1>1, <1>2, <1>3, WriteOnce

LEMMA LeaveOnce ==
  ASSUME Known, OnceInv, NEW w \in Worker, Leave(w),
         UNCHANGED trail, ReceiptFrame, StagedFrame
  PROVE  OnceInv'
<1>1. NoCall.man.rcpt = NoReceipt
  BY DEF NoCall, NewCall, CallWith, Opened
<1>2. "idle" \notin ClaimPc
  BY DEF ClaimPc
<1>3. Goto(w, "idle") /\ job' = [job EXCEPT ![w] = NoCall]
  BY DEF Leave
<1>4. QED
  BY <1>1, <1>2, <1>3, JobOnce

LEMMA ReturnOnce ==
  ASSUME Known, OnceInv, NEW w \in Worker, NEW locks, Return(w, locks),
         UNCHANGED trail, ReceiptFrame, StagedFrame
  PROVE  OnceInv'
<1>1. CASE Outer(job[w].op) = "idle"
  BY <1>1, LeaveOnce DEF Return
<1>2. CASE Outer(job[w].op) # "idle"
  <2>1. PICK label \in {"retry_check", "retry_done"} : Goto(w, label)
    BY <1>2 DEF Return, Outer
  <2>2. UNCHANGED job /\ label \notin ClaimPc /\ label # "audit_append"
    BY <1>2 DEF Return, ClaimPc
  <2>3. QED
    BY <2>1, <2>2, GotoOnce
<1>3. QED
  BY <1>1, <1>2

\* A call starts without a receipt.
LEMMA QuietCallOnce ==
  ASSUME Known, OnceInv, NEW w \in Worker, NEW label, Goto(w, label),
         NEW op \in CallOp, NEW d \in Doc,
         job' = [job EXCEPT ![w] = NewCall(op, d, NoFile)],
         UNCHANGED <<trail, receipt, staged>>,
         label \notin ClaimPc, label # "audit_append"
  PROVE  OnceInv'
<1>1. NewCall(op, d, NoFile).man.rcpt = NoReceipt
  BY DEF NewCall, CallWith, Opened
<1>2. PICK c : c = NewCall(op, d, NoFile)
  OBVIOUS
<1>3. ReceiptFrame
  BY DEF ReceiptFrame
<1>4. QED
  BY <1>1, <1>2, <1>3, SameStaged, JobOnce

\* A call starts with a receipt that nobody has.
LEMMA BeginOnce ==
  ASSUME Known, OnceInv, NEW w \in Worker,
         NEW op \in CallOp, NEW d \in Doc, NEW f \in File \cup {NoFile},
         NEW o \in Outcome \cup {"none"}, Begin(w, op, d, f, o),
         NEW label \in {"claim", "dup"}, Goto(w, label),
         UNCHANGED <<trail, staged>>
  PROVE  OnceInv'
<1> USE DEF OnceInv
<1>1. PICK r \in Receipt, c \in CallRecord :
        /\ receipt[r] = "unused"
        /\ receipt' = [receipt EXCEPT ![r] = "issued"]
        /\ c.man = Opened(r)
        /\ job' = [job EXCEPT ![w] = c]
  BY BeginFacts DEF Known
<1>2. /\ pc'[w] = label /\ job'[w] = c /\ c.man.rcpt = r
      /\ \A v \in Worker : v # w => pc'[v] = pc[v] /\ job'[v] = job[v]
  BY <1>1 DEF Known, Typed, PcType, JobType, Goto, Opened
<1>3. \A x \in Receipt : receipt'[x] = "unused" => x # r /\ receipt[x] = "unused"
  BY <1>1 DEF Known, Typed, FileType
<1>4. ~Seen(r) /\ \A v \in Worker : job[v].man.rcpt # r
  BY <1>1 DEF FreshInv
<1>5. /\ \A d2 \in Doc : Ids(d2)' = Ids(d2)
      /\ \A x : Seen(x)' = Seen(x)
  BY SameTrail DEF Seen
<1>6. FreshInv'
  BY <1>2, <1>3, <1>5 DEF FreshInv
<1>7. MarkedInv' /\ CompletionAuditedOnce'
  BY <1>5 DEF MarkedInv, CompletionAuditedOnce
<1>8. ASSUME NEW v \in Worker PROVE NewAt(v)'
  <2>1. CASE v = w
    BY <1>2, <1>4, <1>5, <2>1 DEF NewAt
  <2>2. CASE v # w
    BY <1>2, <1>4, <1>5, <2>2 DEF NewAt
  <2>3. QED
    BY <2>1, <2>2
<1>9. ASSUME NEW v \in Worker PROVE AppendAt(v)'
  <2>1. CASE v = w
    BY <1>2, <2>1 DEF AppendAt
  <2>2. CASE v # w
    <3>1. pc[v] = "audit_append" => job[v].doc \in Doc
      BY DEF Known, CarryInv, CarryAt
    <3>2. QED
      BY <1>2, <1>5, <2>2, <3>1 DEF AppendAt
  <2>3. QED
    BY <2>1, <2>2
<1>10. QED
  BY <1>6, <1>7, <1>8, <1>9

-----------------------------------------------------------------------------
(* Every step keeps the completions apart.                                 *)

\* The steps of an arrival.
LEMMA ClaimOnce ==
  ASSUME Known, OnceInv, NEW w \in Worker, Claim(w)
  PROVE  OnceInv'
<1> USE DEF At, D, disk, record, lock, bound, Committing
<1>1. CASE ClaimLock(w)
  <2>1. ReceiptFrame
    BY <1>1 DEF ClaimLock, ReceiptFrame
  <2>2. QED
    BY <1>1, <2>1, SameStaged, GotoOnce DEF ClaimLock, ClaimPc
<1>2. CASE ClaimContended(w)
  <2>1. ReceiptFrame
    BY <1>2 DEF ClaimContended, ReceiptFrame
  <2>2. QED
    BY <1>2, <2>1, SameStaged, GotoOnce DEF ClaimContended, ClaimPc
<1>3. CASE ClaimManifest(w)
  <2>1. PICK r : r = job[w].man.rcpt
    OBVIOUS
  <2>2. /\ job[w].doc \in Doc /\ Goto(w, "write_pdf")
        /\ WriteManifest(w, Opened(r)) /\ UNCHANGED <<trail, receipt>>
    BY <1>3, <2>1 DEF ClaimManifest, Known, CarryInv, CarryAt
  <2>3. /\ r \in Receipt /\ ~Seen(r) /\ receipt[r] # "unused"
        /\ \A v \in Worker : v # w => job[v].man.rcpt # r
    BY <1>3, <2>1 DEF ClaimManifest, OnceInv, NewAt, ClaimPc, FreshInv
  <2>4. Opened(r) \in Manifest /\ Opened(r).rcpt = r
    BY <2>3 DEF Opened, Manifest
  <2>5. /\ job'[w].man.rcpt = r
        /\ staged'[job[w].doc].man.rcpt = r
        /\ \A v \in Worker : v # w => job'[v] = job[v]
        /\ \A d \in Doc : d # job[w].doc => staged'[d] = staged[d]
    BY <2>2, <2>4, WriteManifestFacts DEF Known, Typed
  <2>6. pc'[w] = "write_pdf" /\ \A v \in Worker : v # w => pc'[v] = pc[v]
    BY <2>2 DEF Known, Typed, PcType, Goto
  <2>7. \A d \in Doc : Ids(d)' = Ids(d)
    BY <2>2, SameTrail
  <2>8. \A x \in Receipt : x # r /\ ~Seen(x) => ~Seen(x)'
    BY <2>2, <2>5, <2>7 DEF Seen
  <2>9. FreshInv'
    BY <2>1, <2>2, <2>3, <2>5, <2>8 DEF FreshInv, OnceInv
  <2>10. MarkedInv'
    BY <2>2, <2>3, <2>5, <2>7 DEF MarkedInv, OnceInv, Seen
  <2>11. CompletionAuditedOnce'
    BY <2>2 DEF CompletionAuditedOnce, OnceInv
  <2>12. ASSUME NEW v \in Worker PROVE NewAt(v)'
    <3>1. CASE v = w
      BY <2>6, <3>1 DEF NewAt, ClaimPc
    <3>2. CASE v # w
      <4>1. pc'[v] = pc[v] /\ job'[v] = job[v] /\ NewAt(v)
        BY <2>5, <2>6, <3>2 DEF OnceInv
      <4>2. SUFFICES ASSUME pc[v] \in ClaimPc
                     PROVE  /\ job[v].man.rcpt \in Receipt /\ ~Seen(job[v].man.rcpt)'
                            /\ \A u \in Worker : u # v => job'[u].man.rcpt # job[v].man.rcpt
        BY <4>1 DEF NewAt, Seen
      <4>3. /\ job[v].man.rcpt \in Receipt /\ ~Seen(job[v].man.rcpt)
            /\ \A u \in Worker : u # v => job[u].man.rcpt # job[v].man.rcpt
        BY <4>1, <4>2 DEF NewAt
      <4>4. \A u \in Worker : u # v => job'[u].man.rcpt # job[v].man.rcpt
        BY <2>1, <2>5, <4>3
      <4>5. ~Seen(job[v].man.rcpt)'
        BY <2>3, <2>5, <2>7, <3>2, <4>3 DEF Seen
      <4>6. QED
        BY <4>3, <4>4, <4>5
    <3>3. QED
      BY <3>1, <3>2
  <2>13. ASSUME NEW v \in Worker PROVE AppendAt(v)'
    <3>1. CASE v = w
      BY <2>6, <3>1 DEF AppendAt
    <3>2. CASE v # w
      <4>1. pc'[v] = pc[v] /\ job'[v] = job[v] /\ AppendAt(v) /\ CarryAt(v)
        BY <2>5, <2>6, <3>2 DEF OnceInv, Known, CarryInv
      <4>2. QED
        BY <2>7, <4>1 DEF AppendAt, CarryAt
    <3>3. QED
      BY <3>1, <3>2
  <2>14. QED
    BY <2>9, <2>10, <2>11, <2>12, <2>13 DEF OnceInv
<1>4. CASE ClaimPdf(w)
  <2>1. job[w].doc \in Doc /\ Goto(w, "unlink_source") /\ UNCHANGED <<job, trail, receipt>>
    BY <1>4 DEF ClaimPdf, Known, CarryInv, CarryAt
  <2>2. \A d \in Doc : staged'[d].man = staged[d].man
    BY <1>4, <2>1 DEF ClaimPdf, Known, Typed, StagedType, Staging, Filled
  <2>3. ReceiptFrame /\ StagedFrame
    BY <2>1, <2>2 DEF ReceiptFrame, StagedFrame
  <2>4. QED
    BY <2>1, <2>3, GotoOnce DEF ClaimPc
<1>5. CASE UnlinkSource(w)
  <2>1. ReceiptFrame
    BY <1>5 DEF UnlinkSource, ReceiptFrame
  <2>2. QED
    BY <1>5, <2>1, SameStaged, GotoOnce DEF UnlinkSource, ClaimPc
<1>6. CASE ClaimReceipt(w)
  <2>1. ReceiptFrame /\ UNCHANGED <<trail, staged>>
    BY <1>6 DEF ClaimReceipt, ReceiptFrame, Known, Typed, FileType
  <2>2. CASE job[w].op = "stage"
    BY <1>6, <2>1, <2>2, LeaveOnce, SameStaged DEF ClaimReceipt
  <2>3. CASE job[w].op # "stage"
    BY <1>6, <2>1, <2>3, GotoOnce, SameStaged DEF ClaimReceipt, ClaimPc
  <2>4. QED
    BY <2>2, <2>3
<1>7. CASE Relock(w)
  <2>1. ReceiptFrame
    BY <1>7 DEF Relock, ReceiptFrame
  <2>2. QED
    BY <1>7, <2>1, SameStaged, GotoOnce DEF Relock, ClaimPc
<1>8. CASE DupReceipt(w)
  <2>1. ReceiptFrame
    BY <1>8 DEF DupReceipt, ReceiptFrame, Finish, Known, Typed, FileType
  <2>2. QED
    BY <1>8, <2>1, SameStaged, GotoOnce DEF DupReceipt, ClaimPc
<1>9. CASE DupFinish(w)
  <2>1. ReceiptFrame
    BY <1>9 DEF DupFinish, ReceiptFrame, Finish, Known, Typed, FileType
  <2>2. QED
    BY <1>9, <2>1, SameStaged, GotoOnce DEF DupFinish, ClaimPc
<1>10. CASE DupUnlink(w)
  <2>1. ReceiptFrame
    BY <1>10 DEF DupUnlink, ReceiptFrame
  <2>2. QED
    BY <1>10, <2>1, SameStaged, ReturnOnce DEF DupUnlink
<1>11. QED
  BY <1>1, <1>2, <1>3, <1>4, <1>5, <1>6, <1>7, <1>8, <1>9, <1>10 DEF Claim

\* The steps of commit() and commit_failed().
LEMMA CommitOnce ==
  ASSUME Known, OnceInv, NEW w \in Worker, Commit(w)
  PROVE  OnceInv'
<1> USE DEF At, D, disk, record, lock, bound, Committing
<1>1. CASE TakeMain(w)
  <2>1. job[w].doc \in Doc /\ OwnAt(w) /\ UNCHANGED <<trail, receipt, staged>>
    BY <1>1 DEF TakeMain, Known, CarryInv, CarryAt, OwnInv
  <2>2. PICK c : c = [job[w] EXCEPT !.man = OnDisk(job[w].doc)]
    OBVIOUS
  <2>3. job' = [job EXCEPT ![w] = c] /\ Goto(w, "snapshot")
    BY <1>1, <2>2 DEF TakeMain
  <2>4. c.man = OnDisk(job[w].doc)
    BY <2>2 DEF Known, Typed, JobType, CallRecord
  <2>5. OnDisk(job[w].doc) = staged[job[w].doc].man
    BY <2>1 DEF OnDisk, Known, BareInv
  <2>6. ReceiptFrame
    BY <2>1 DEF ReceiptFrame
  <2>7. "snapshot" \notin ClaimPc
    BY DEF ClaimPc
  <2>8. QED
    BY <2>1, <2>3, <2>4, <2>5, <2>6, <2>7, SameStaged, JobOnce
<1>2. CASE Snapshot(w)
  <2>1. PICK label \in {"failed_pdf", "copy_pdf"} : Goto(w, label)
    BY <1>2 DEF Snapshot
  <2>2. /\ UNCHANGED <<trail, receipt>> /\ ReceiptFrame
        /\ job[w].disp \in Outcome /\ job[w].doc \in Doc
        /\ staged[job[w].doc].man = job[w].man
    BY <1>2 DEF Snapshot, Known, CarryInv, CarryAt, OwnInv, OwnAt, BusyPc, CommitPc,
                ReceiptFrame
  <2>3. CASE job[w].man.assessed = "none"
    <3>1. PICK m : m = [job[w].man EXCEPT !.assessed = job[w].disp,
                                          !.steps = @ \cup {"assessed"}]
      OBVIOUS
    <3>2. m \in Manifest
      BY <2>2, <3>1, AssessedManifest DEF Known, Typed
    <3>3. job[w].man \in Manifest
      BY DEF Known, Typed, JobType, CallRecord
    <3>4. m.rcpt = job[w].man.rcpt /\ m.steps = job[w].man.steps \cup {"assessed"}
      BY <3>1, <3>3 DEF Manifest
    <3>5. WriteManifest(w, m)
      BY <1>2, <2>3, <3>1 DEF Snapshot
    <3>6. QED
      BY <2>1, <2>2, <3>2, <3>4, <3>5, WriteOnce DEF ClaimPc
  <2>4. CASE job[w].man.assessed # "none"
    BY <1>2, <2>1, <2>2, <2>4, GotoOnce, SameStaged DEF Snapshot, ClaimPc
  <2>5. QED
    BY <2>3, <2>4
<1>3. CASE SkipDone(w)
  <2>1. ReceiptFrame
    BY <1>3 DEF SkipDone, ReceiptFrame
  <2>2. QED
    BY <1>3, <2>1, SameStaged, GotoOnce DEF SkipDone, ClaimPc
<1>4. CASE Mark(w)
  <2>1. PICK s \in {<<"mark_pdf", "pdf", "audit">>, <<"mark_audit", "audit", "stores">>,
                   <<"mark_stores", "stores", "emit">>,
                   <<"mark_emitted", "emitted", "finish_receipt">>} :
          pc[w] = s[1] /\ Checkpoint(w, s[2]) /\ Goto(w, s[3])
    BY <1>4 DEF Mark
  <2>2. /\ pc[w] \in BusyPc /\ s[2] \in Step
        /\ s[3] \notin ClaimPc /\ s[3] # "audit_append"
    BY <2>1 DEF BusyPc, CommitPc, Step, ClaimPc
  <2>3. UNCHANGED <<trail, receipt>>
    BY <1>4 DEF Mark
  <2>4. QED
    BY <2>1, <2>2, <2>3, CheckpointOnce
<1>5. CASE CopyPdf(w)
  <2>1. ReceiptFrame
    BY <1>5 DEF CopyPdf, ReceiptFrame
  <2>2. QED
    BY <1>5, <2>1, SameStaged, GotoOnce DEF CopyPdf, ClaimPc
<1>6. CASE AuditKnown(w)
  BY <1>6, CheckpointOnce DEF AuditKnown, Step, BusyPc, CommitPc, ClaimPc
<1>7. CASE AuditStart(w)
  <2>1. job[w].doc \in Doc /\ staged[job[w].doc].man = job[w].man
    BY <1>7 DEF AuditStart, Known, CarryInv, CarryAt, OwnInv, OwnAt, BusyPc, CommitPc
  <2>2. job[w].man.rcpt \notin Ids(job[w].doc)
    <3>1. CASE "audit_started" \in job[w].man.steps
      BY <1>7, <3>1 DEF AuditStart, AlreadyAudited, Ids
    <3>2. CASE "audit_started" \notin job[w].man.steps
      BY <2>1, <3>2 DEF OnceInv, MarkedInv
    <3>3. QED
      BY <3>1, <3>2
  <2>3. QED
    BY <1>7, <2>2, CheckpointOnce
       DEF AuditStart, Step, BusyPc, CommitPc, ClaimPc
<1>8. CASE AuditAppend(w)
  <2>1. PICK d \in Doc, e \in [rcpt : Receipt \cup {NoReceipt}, disp : Filing] :
          /\ d = job[w].doc /\ e.rcpt = job[w].man.rcpt
          /\ trail' = [trail EXCEPT ![d] = Append(@, e)]
    <3>1. job[w].doc \in Doc /\ job[w].disp \in Filing
      BY <1>8 DEF AuditAppend, Known, CarryInv, CarryAt, CommitPc
    <3>2. job[w].man.rcpt \in Receipt \cup {NoReceipt}
      BY DEF Known, Typed, JobType, CallRecord, Manifest
    <3>3. PICK e : e = [rcpt |-> job[w].man.rcpt, disp |-> job[w].disp]
      OBVIOUS
    <3>4. /\ e \in [rcpt : Receipt \cup {NoReceipt}, disp : Filing]
          /\ e.rcpt = job[w].man.rcpt
      BY <3>1, <3>2, <3>3
    <3>5. trail' = [trail EXCEPT ![job[w].doc] = Append(@, e)]
      BY <1>8, <3>3 DEF AuditAppend
    <3>6. QED
      BY <3>1, <3>4, <3>5
  <2>2. trail[d] \in Seq([rcpt : Receipt \cup {NoReceipt}, disp : Filing])
    BY DEF Known, Typed, CountType
  <2>3. /\ trail'[d] = Append(trail[d], e)
        /\ \A x \in Doc : x # d => trail'[x] = trail[x]
    BY <2>1 DEF Known, Typed, CountType
  <2>4. /\ "audit_started" \in job[w].man.steps /\ e.rcpt \notin Ids(d)
        /\ jobLock[d] = w /\ staged[d].man = job[w].man
    BY <1>8, <2>1
       DEF AuditAppend, OnceInv, AppendAt, Known, OwnInv, OwnAt, HoldPc, BusyPc,
           CommitPc
  <2>5. /\ DOMAIN trail'[d] = 1..Len(trail[d]) + 1
        /\ DOMAIN trail[d] = 1..Len(trail[d]) /\ Len(trail[d]) \in Nat
        /\ trail'[d][Len(trail[d]) + 1] = e
        /\ \A i \in 1..Len(trail[d]) : trail'[d][i] = trail[d][i]
    BY <2>2, <2>3
  <2>6. /\ \A x \in Doc : x # d => Ids(x)' = Ids(x)
        /\ Ids(d)' = Ids(d) \cup ({e.rcpt} \ {NoReceipt})
    <3>1. \A x \in Doc : x # d => Ids(x)' = Ids(x)
      BY <2>3 DEF Ids
    <3>2. {trail'[d][i].rcpt : i \in DOMAIN trail'[d]}
             = {trail[d][i].rcpt : i \in DOMAIN trail[d]} \cup {e.rcpt}
      BY SMTT(30), <2>5
    <3>3. QED
      BY <3>1, <3>2 DEF Ids
  <2>7. UNCHANGED <<job, staged, receipt, jobLock>> /\ Goto(w, "mark_audit")
    BY <1>8 DEF AuditAppend
  <2>8. pc'[w] = "mark_audit" /\ \A v \in Worker : v # w => pc'[v] = pc[v]
    BY <2>7 DEF Known, Typed, PcType, Goto
  <2>9. \A x : x # e.rcpt /\ ~Seen(x) => ~Seen(x)'
    BY <2>6, <2>7 DEF Seen
  <2>10. FreshInv'
    <3>1. e.rcpt \in Receipt => receipt[e.rcpt] # "unused"
      BY <2>1 DEF OnceInv, FreshInv
    <3>2. QED
      BY <2>7, <2>9, <3>1 DEF OnceInv, FreshInv
  <2>11. MarkedInv'
    BY <2>1, <2>4, <2>6, <2>7 DEF OnceInv, MarkedInv
  <2>12. CompletionAuditedOnce'
    <3>1. ASSUME NEW i \in DOMAIN trail'[d], NEW j \in DOMAIN trail'[d],
                 trail'[d][i].rcpt = trail'[d][j].rcpt,
                 trail'[d][i].rcpt # NoReceipt
          PROVE  i = j
      <4>1. \A k \in 1..Len(trail[d]) :
               trail'[d][k].rcpt # NoReceipt => trail'[d][k].rcpt \in Ids(d)
        BY <2>5 DEF Ids
      <4>2. CASE i = Len(trail[d]) + 1 \/ j = Len(trail[d]) + 1
        BY <2>4, <2>5, <3>1, <4>1, <4>2
      <4>3. CASE i \in 1..Len(trail[d]) /\ j \in 1..Len(trail[d])
        BY <2>5, <3>1, <4>3 DEF OnceInv, CompletionAuditedOnce
      <4>4. QED
        BY <2>5, <4>2, <4>3
    <3>2. QED
      BY <2>3, <3>1 DEF OnceInv, CompletionAuditedOnce
  <2>13. ASSUME NEW v \in Worker PROVE NewAt(v)'
    <3>1. SUFFICES ASSUME pc'[v] \in ClaimPc
                   PROVE  /\ job[v].man.rcpt \in Receipt /\ ~Seen(job[v].man.rcpt)'
                          /\ \A u \in Worker : u # v => job[u].man.rcpt # job[v].man.rcpt
      BY <2>7 DEF NewAt, Seen
    <3>2. v # w /\ pc[v] \in ClaimPc
      BY <2>8, <3>1 DEF ClaimPc
    <3>3. /\ job[v].man.rcpt \in Receipt /\ ~Seen(job[v].man.rcpt)
          /\ \A u \in Worker : u # v => job[u].man.rcpt # job[v].man.rcpt
      BY <3>2 DEF OnceInv, NewAt
    <3>4. ~Seen(job[v].man.rcpt)'
      BY <2>1, <2>6, <2>7, <3>2, <3>3 DEF Seen
    <3>5. QED
      BY <3>3, <3>4
  <2>14. ASSUME NEW v \in Worker PROVE AppendAt(v)'
    <3>1. SUFFICES ASSUME pc'[v] = "audit_append"
                   PROVE  /\ "audit_started" \in job[v].man.steps
                          /\ job[v].man.rcpt \notin Ids(job[v].doc)'
      BY <2>7 DEF AppendAt, Ids
    <3>2. v # w /\ pc[v] = "audit_append"
      BY <2>8, <3>1
    <3>3. job[v].doc \in Doc /\ job[v].doc # d
      BY <2>4, <3>2
         DEF Known, CarryInv, CarryAt, OwnInv, OwnAt, HoldPc, BusyPc, CommitPc
    <3>4. QED
      BY <2>6, <2>7, <3>2, <3>3 DEF OnceInv, AppendAt
  <2>15. QED
    BY <2>10, <2>11, <2>12, <2>13, <2>14 DEF OnceInv
<1>9. CASE WriteIndex(w)
  <2>1. ReceiptFrame
    BY <1>9 DEF WriteIndex, ReceiptFrame
  <2>2. QED
    BY <1>9, <2>1, SameStaged, GotoOnce DEF WriteIndex, ClaimPc
<1>10. CASE WriteText(w)
  <2>1. ReceiptFrame
    BY <1>10 DEF WriteText, ReceiptFrame
  <2>2. QED
    BY <1>10, <2>1, SameStaged, GotoOnce DEF WriteText, ClaimPc
<1>11. CASE EmitStart(w)
  BY <1>11, CheckpointOnce DEF EmitStart, Step, BusyPc, CommitPc, ClaimPc
<1>12. CASE Deliver(w)
  <2>1. ReceiptFrame
    BY <1>12 DEF Deliver, ReceiptFrame
  <2>2. QED
    BY <1>12, <2>1, SameStaged, GotoOnce DEF Deliver, ClaimPc
<1>13. CASE FailPdf(w)
  <2>1. ReceiptFrame
    BY <1>13 DEF FailPdf, ReceiptFrame
  <2>2. QED
    BY <1>13, <2>1, SameStaged, GotoOnce DEF FailPdf, ClaimPc
<1>14. CASE FailMeta(w)
  <2>1. ReceiptFrame
    BY <1>14 DEF FailMeta, ReceiptFrame
  <2>2. QED
    BY <1>14, <2>1, SameStaged, GotoOnce DEF FailMeta, ClaimPc
<1>15. CASE FinishReceipt(w)
  <2>1. job[w].disp # "unused"
    BY <1>15 DEF FinishReceipt, Known, CarryInv, CarryAt, Outcome, Filing
  <2>2. ReceiptFrame
    BY <1>15, <2>1 DEF FinishReceipt, ReceiptFrame, Finish, Known, Typed, FileType
  <2>3. QED
    BY <1>15, <2>2, SameStaged, GotoOnce DEF FinishReceipt, ClaimPc
<1>16. CASE DropFailed(w)
  <2>1. ReceiptFrame
    BY <1>16 DEF DropFailed, ReceiptFrame
  <2>2. QED
    BY <1>16, <2>1, SameStaged, GotoOnce DEF DropFailed, ClaimPc
<1>17. CASE ListStaging(w)
  <2>1. PICK x : job' = [job EXCEPT ![w] = [job[w] EXCEPT !.rm = x]]
    BY <1>17 DEF ListStaging
  <2>2. PICK c : c = [job[w] EXCEPT !.rm = x]
    OBVIOUS
  <2>3. c.man.rcpt = job[w].man.rcpt
    BY <2>2 DEF Known, Typed, JobType, CallRecord
  <2>4. PICK label \in {"remove", "remove_dup"} : Goto(w, label)
    BY <1>17 DEF ListStaging
  <2>5. UNCHANGED <<trail, staged>> /\ ReceiptFrame
    BY <1>17 DEF ListStaging, ReceiptFrame
  <2>6. QED
    BY <2>1, <2>2, <2>3, <2>4, <2>5, SameStaged, JobOnce DEF ClaimPc
<1>18. CASE RemoveEntry(w)
  <2>1. /\ job[w].doc \in Doc /\ pc[w] \in {"remove", "remove_dup"}
        /\ UNCHANGED <<pc, trail, receipt>>
    BY <1>18 DEF RemoveEntry, Known, CarryInv, CarryAt
  <2>2. PICK e \in job[w].rm :
          /\ staged' = [staged EXCEPT ![job[w].doc] = Emptied(@, {e})]
          /\ job' = [job EXCEPT ![w] = [job[w] EXCEPT !.rm = @ \ {e}]]
    BY <1>18 DEF RemoveEntry
  <2>3. PICK c : c = [job[w] EXCEPT !.rm = @ \ {e}]
    OBVIOUS
  <2>4. c.man.rcpt = job[w].man.rcpt
    BY <2>3 DEF Known, Typed, JobType, CallRecord
  <2>5. StagedFrame
    BY <2>1, <2>2 DEF Known, Typed, StagedType, Staging, Emptied, Blank, Opened, StagedFrame
  <2>6. Goto(w, pc[w]) /\ ReceiptFrame
    BY <2>1 DEF Goto, Known, Typed, PcType, ReceiptFrame
  <2>7. pc[w] \notin ClaimPc /\ pc[w] # "audit_append"
    BY <2>1 DEF ClaimPc
  <2>8. QED
    BY <2>1, <2>2, <2>3, <2>4, <2>5, <2>6, <2>7, JobOnce
<1>19. CASE RemoveDir(w)
  <2>1. job[w].doc \in Doc /\ UNCHANGED <<trail, receipt>>
    BY <1>19 DEF RemoveDir, Known, CarryInv, CarryAt
  <2>2. \A d \in Doc : staged'[d].man = staged[d].man
    BY <1>19, <2>1 DEF RemoveDir, Known, Typed, StagedType, Staging, Emptied
  <2>3. ReceiptFrame /\ StagedFrame
    BY <2>1, <2>2 DEF ReceiptFrame, StagedFrame
  <2>4. PICK locks \in {jobLock, Unlocked(w)} : Return(w, locks)
    BY <1>19 DEF RemoveDir
  <2>5. QED
    BY <2>1, <2>3, <2>4, ReturnOnce
<1>20. QED
  BY <1>1, <1>2, <1>3, <1>4, <1>5, <1>6, <1>7, <1>8, <1>9, <1>10, <1>11,
     <1>12, <1>13, <1>14, <1>15, <1>16, <1>17, <1>18, <1>19 DEF Commit

\* The steps of _finish_staged(), process() and resume_staged().
LEMMA ContinueOnce ==
  ASSUME Known, OnceInv, NEW w \in Worker, Continue(w)
  PROVE  OnceInv'
<1> USE DEF At, D, disk, record, lock, bound, Committing
<1>1. CASE FinishDuplicate(w)
  <2>1. PICK x : job' = [job EXCEPT ![w] = [job[w] EXCEPT !.disp = x]]
    BY <1>1 DEF FinishDuplicate
  <2>2. PICK c : c = [job[w] EXCEPT !.disp = x]
    OBVIOUS
  <2>3. c.man.rcpt = job[w].man.rcpt
    BY <2>2 DEF Known, Typed, JobType, CallRecord
  <2>4. Goto(w, "list_dup") /\ UNCHANGED <<trail, staged>>
    BY <1>1 DEF FinishDuplicate
  <2>5. ReceiptFrame
    BY <1>1 DEF FinishDuplicate, ReceiptFrame, Finish, Known, Typed, FileType
  <2>6. "list_dup" \notin ClaimPc
    BY DEF ClaimPc
  <2>7. QED
    BY <2>1, <2>2, <2>3, <2>4, <2>5, <2>6, SameStaged, JobOnce
<1>2. CASE Process(w)
  <2>1. PICK x : job' = [job EXCEPT ![w] = [job[w] EXCEPT !.disp = x]]
    BY <1>2 DEF Process
  <2>2. PICK c : c = [job[w] EXCEPT !.disp = x]
    OBVIOUS
  <2>3. c.man.rcpt = job[w].man.rcpt
    BY <2>2 DEF Known, Typed, JobType, CallRecord
  <2>4. Goto(w, "wait_main") /\ UNCHANGED <<trail, staged>>
    BY <1>2 DEF Process
  <2>5. ReceiptFrame
    BY <1>2 DEF Process, ReceiptFrame
  <2>6. "wait_main" \notin ClaimPc
    BY DEF ClaimPc
  <2>7. QED
    BY <2>1, <2>2, <2>3, <2>4, <2>5, <2>6, SameStaged, JobOnce
<1>3. CASE FinishLost(w)
  <2>1. ReceiptFrame
    BY <1>3 DEF FinishLost, ReceiptFrame
  <2>2. QED
    BY <1>3, <2>1, SameStaged, LeaveOnce DEF FinishLost
<1>4. CASE SweepLock(w)
  <2>1. ReceiptFrame
    BY <1>4 DEF SweepLock, ReceiptFrame
  <2>2. QED
    BY <1>4, <2>1, SameStaged, GotoOnce DEF SweepLock, ClaimPc
<1>5. CASE SweepContended(w)
  <2>1. ReceiptFrame
    BY <1>5 DEF SweepContended, ReceiptFrame
  <2>2. QED
    BY <1>5, <2>1, SameStaged, LeaveOnce DEF SweepContended
<1>6. CASE ResumeGone(w)
  <2>1. ReceiptFrame
    BY <1>6 DEF ResumeGone, ReceiptFrame
  <2>2. QED
    BY <1>6, <2>1, SameStaged, LeaveOnce DEF ResumeGone
<1>7. CASE ResumeDeclined(w)
  <2>1. ReceiptFrame
    BY <1>7 DEF ResumeDeclined, ReceiptFrame
  <2>2. QED
    BY <1>7, <2>1, SameStaged, ReturnOnce DEF ResumeDeclined
<1>8. CASE Resume(w)
  <2>1. UNCHANGED <<trail, staged>> /\ ReceiptFrame
    BY <1>8 DEF Resume, ReceiptFrame
  <2>2. CASE OnDisk(job[w].doc).assessed = "none"
    BY <1>8, <2>1, <2>2, SameStaged, GotoOnce DEF Resume, ClaimPc
  <2>3. CASE OnDisk(job[w].doc).assessed # "none"
    <3>1. PICK x : job' = [job EXCEPT ![w] = [job[w] EXCEPT !.disp = x]]
      BY <1>8, <2>3 DEF Resume
    <3>2. PICK c : c = [job[w] EXCEPT !.disp = x]
      OBVIOUS
    <3>3. c.man.rcpt = job[w].man.rcpt
      BY <3>2 DEF Known, Typed, JobType, CallRecord
    <3>4. Goto(w, "wait_main")
      BY <1>8, <2>3 DEF Resume
    <3>5. "wait_main" \notin ClaimPc
      BY DEF ClaimPc
    <3>6. QED
      BY <2>1, <3>1, <3>2, <3>3, <3>4, <3>5, SameStaged, JobOnce
  <2>4. QED
    BY <2>2, <2>3
<1>9. QED
  BY <1>1, <1>2, <1>3, <1>4, <1>5, <1>6, <1>7, <1>8 DEF Continue

\* The steps of a retry, a resolve and a purge.
LEMMA OperateOnce ==
  ASSUME Known, OnceInv, NEW w \in Worker, Operate(w)
  PROVE  OnceInv'
<1> USE DEF At, D, disk, record, lock, bound, Committing
<1>1. CASE RetryConfirm(w)
  <2>1. job[w].doc \in Doc /\ OnDisk(job[w].doc) \in Manifest
    BY <1>1, OnDiskType DEF RetryConfirm, Known, Typed, CarryInv, CarryAt
  <2>2. Goto(w, "retry_unresolve") /\ UNCHANGED <<trail, receipt>> /\ ReceiptFrame
    BY <1>1 DEF RetryConfirm, ReceiptFrame
  <2>3. CASE Uncertain(OnDisk(job[w].doc))
    <3>1. PICK m : m = [OnDisk(job[w].doc) EXCEPT !.steps = @ \ {"emit_started"}]
      OBVIOUS
    <3>2. /\ m \in Manifest /\ m.rcpt = OnDisk(job[w].doc).rcpt
          /\ m.steps = OnDisk(job[w].doc).steps \ {"emit_started"}
      BY <2>1, <3>1 DEF Manifest
    <3>3. OnDisk(job[w].doc) = staged[job[w].doc].man
      BY <2>1 DEF OnDisk, Known, BareInv
    <3>4. WriteManifest(w, m)
      BY <1>1, <2>3, <3>1 DEF RetryConfirm
    <3>5. QED
      BY <2>1, <2>2, <3>2, <3>3, <3>4, WriteOnce DEF ClaimPc
  <2>4. CASE ~Uncertain(OnDisk(job[w].doc))
    <3>1. UNCHANGED <<staged, job>>
      BY <1>1, <2>4 DEF RetryConfirm
    <3>2. QED
      BY <2>2, <3>1, SameStaged, GotoOnce DEF ClaimPc
  <2>5. QED
    BY <2>3, <2>4
<1>2. CASE RetryUnresolve(w)
  <2>1. job[w].doc \in Doc /\ Goto(w, "resume") /\ UNCHANGED <<job, trail, receipt>>
    BY <1>2 DEF RetryUnresolve, Known, CarryInv, CarryAt
  <2>2. \A d \in Doc : staged'[d].man = staged[d].man
    BY <1>2, <2>1 DEF RetryUnresolve, Known, Typed, StagedType, Staging, Emptied
  <2>3. ReceiptFrame /\ StagedFrame
    BY <2>1, <2>2 DEF ReceiptFrame, StagedFrame
  <2>4. QED
    BY <2>1, <2>3, GotoOnce DEF ClaimPc
<1>3. CASE RetryCheck(w)
  <2>1. ReceiptFrame
    BY <1>3 DEF RetryCheck, ReceiptFrame
  <2>2. QED
    BY <1>3, <2>1, SameStaged, LeaveOnce DEF RetryCheck
<1>4. CASE RetryDone(w)
  <2>1. ReceiptFrame
    BY <1>4 DEF RetryDone, ReceiptFrame
  <2>2. QED
    BY <1>4, <2>1, SameStaged, LeaveOnce DEF RetryDone
<1>5. CASE Resolve(w)
  <2>1. job[w].doc \in Doc /\ UNCHANGED <<trail, receipt>>
    BY <1>5 DEF Resolve, Known, CarryInv, CarryAt
  <2>2. \/ UNCHANGED staged
        \/ staged' = [staged EXCEPT ![job[w].doc] = Filled(@, {"res"})]
    BY <1>5 DEF Resolve
  <2>3. \A d \in Doc : staged'[d].man = staged[d].man
    BY <2>1, <2>2 DEF Known, Typed, StagedType, Staging, Filled
  <2>4. ReceiptFrame /\ StagedFrame
    BY <2>1, <2>3 DEF ReceiptFrame, StagedFrame
  <2>5. QED
    BY <1>5, <2>1, <2>4, LeaveOnce DEF Resolve
<1>6. CASE PurgeText(w)
  <2>1. ReceiptFrame
    BY <1>6 DEF PurgeText, ReceiptFrame
  <2>2. QED
    BY <1>6, <2>1, SameStaged, GotoOnce DEF PurgeText, ClaimPc
<1>7. CASE PurgePdf(w)
  <2>1. ReceiptFrame
    BY <1>7 DEF PurgePdf, ReceiptFrame
  <2>2. QED
    BY <1>7, <2>1, SameStaged, GotoOnce DEF PurgePdf, ClaimPc
<1>8. CASE PurgeEnd(w)
  <2>1. ReceiptFrame
    BY <1>8 DEF PurgeEnd, ReceiptFrame
  <2>2. QED
    BY <1>8, <2>1, SameStaged, LeaveOnce DEF PurgeEnd
<1>9. QED
  BY <1>1, <1>2, <1>3, <1>4, <1>5, <1>6, <1>7, <1>8 DEF Operate

\* The start of a call of any kind, and the ends it does not choose.
LEMMA CallOnce ==
  ASSUME Known, OnceInv, NEW w \in Worker, Call(w)
  PROVE  OnceInv'
<1> USE DEF At, D, disk, record, lock, bound
<1>1. ASSUME NEW f \in File, StartRun(w, f) \/ StartStage(w, f)
      PROVE  OnceInv'
  <2>1. /\ DocOf[f] \in Doc /\ f \in File \cup {NoFile}
        /\ index[DocOf[f]] \in Outcome \cup {"none"}
    BY DEF Known, Typed, FileType, Outcome
  <2>2. PICK op \in CallOp, o \in Outcome \cup {"none"} : Begin(w, op, DocOf[f], f, o)
    BY <1>1, <2>1 DEF StartRun, StartStage, CallOp
  <2>3. PICK label \in {"claim", "dup"} : Goto(w, label)
    BY <1>1 DEF StartRun, StartStage
  <2>4. UNCHANGED <<trail, staged>>
    BY <1>1 DEF StartRun, StartStage
  <2>5. QED
    BY <2>1, <2>2, <2>3, <2>4, BeginOnce
<1>2. ASSUME NEW d \in Doc, StartSweep(w, d)
      PROVE  OnceInv'
  <2>1. UNCHANGED <<trail, receipt, staged>>
    BY <1>2 DEF StartSweep
  <2>2. Goto(w, "sweep_lock") /\ job' = [job EXCEPT ![w] = NewCall("sweep", d, NoFile)]
    BY <1>2 DEF StartSweep
  <2>3. "sweep_lock" \notin ClaimPc /\ "sweep" \in CallOp
    BY DEF ClaimPc, CallOp
  <2>4. QED
    BY <2>1, <2>2, <2>3, QuietCallOnce
<1>3. ASSUME NEW d \in Doc, StartRetryStaged(w, d)
      PROVE  OnceInv'
  <2>1. UNCHANGED <<trail, receipt, staged>>
    BY <1>3 DEF StartRetryStaged
  <2>2. Goto(w, "retry_confirm") /\ job' = [job EXCEPT ![w] = NewCall("retry_staged", d, NoFile)]
    BY <1>3 DEF StartRetryStaged
  <2>3. "retry_confirm" \notin ClaimPc /\ "retry_staged" \in CallOp
    BY DEF ClaimPc, CallOp
  <2>4. QED
    BY <2>1, <2>2, <2>3, QuietCallOnce
<1>4. ASSUME NEW d \in Doc, StartRetryFailed(w, d)
      PROVE  OnceInv'
  <2>1. /\ index[d] \in Outcome \cup {"none"} /\ "retry_failed" \in CallOp
        /\ NoFile \in File \cup {NoFile}
    BY DEF Known, Typed, FileType, Outcome, CallOp
  <2>2. Begin(w, "retry_failed", d, NoFile, index[d])
    BY <1>4 DEF StartRetryFailed
  <2>3. PICK label \in {"claim", "dup"} : Goto(w, label)
    BY <1>4 DEF StartRetryFailed
  <2>4. UNCHANGED <<trail, staged>>
    BY <1>4 DEF StartRetryFailed
  <2>5. QED
    BY <2>1, <2>2, <2>3, <2>4, BeginOnce
<1>5. ASSUME NEW d \in Doc, NEW op \in {"resolve_staged", "resolve_failed"},
             StartResolve(w, d, op)
      PROVE  OnceInv'
  <2>1. UNCHANGED <<trail, receipt, staged>>
    BY <1>5 DEF StartResolve
  <2>2. Goto(w, "resolve") /\ job' = [job EXCEPT ![w] = NewCall(op, d, NoFile)]
    BY <1>5 DEF StartResolve
  <2>3. "resolve" \notin ClaimPc /\ op \in CallOp
    BY DEF ClaimPc, CallOp
  <2>4. QED
    BY <2>1, <2>2, <2>3, QuietCallOnce
<1>6. ASSUME NEW d \in Doc, NEW op \in {"purge", "hard_purge"},
             StartPurge(w, d, op)
      PROVE  OnceInv'
  <2>1. UNCHANGED <<trail, receipt, staged>>
    BY <1>6 DEF StartPurge
  <2>2. Goto(w, "purge_text") /\ job' = [job EXCEPT ![w] = NewCall(op, d, NoFile)]
    BY <1>6 DEF StartPurge
  <2>3. "purge_text" \notin ClaimPc /\ op \in CallOp
    BY DEF ClaimPc, CallOp
  <2>4. QED
    BY <2>1, <2>2, <2>3, QuietCallOnce
<1>7. QED
  BY <1>1, <1>2, <1>3, <1>4, <1>5, <1>6 DEF Call

LEMMA EndOnce ==
  ASSUME Known, OnceInv, NEW w \in Worker, DeliverFails(w) \/ Crash(w)
  PROVE  OnceInv'
<1>1. Leave(w) /\ UNCHANGED <<trail, receipt, staged>>
  BY DEF DeliverFails, Crash, disk, record
<1>2. ReceiptFrame
  BY <1>1 DEF ReceiptFrame
<1>3. QED
  BY <1>1, <1>2, LeaveOnce, SameStaged

LEMMA InitOnce == Init => OnceInv
<1> SUFFICES ASSUME Init PROVE OnceInv
  OBVIOUS
<1>1. \A d \in Doc : Ids(d) = {} /\ trail[d] = <<>>
  BY DEF Init, Ids
<1>2. /\ \A d \in Doc : staged[d].man.rcpt = NoReceipt
      /\ \A w \in Worker : job[w].man.rcpt = NoReceipt /\ pc[w] = "idle"
  BY DEF Init, Blank, NoCall, NewCall, CallWith, Opened
<1>3. FreshInv /\ MarkedInv
  BY <1>1, <1>2 DEF FreshInv, MarkedInv, Seen
<1>4. CompletionAuditedOnce
  BY <1>1 DEF CompletionAuditedOnce
<1>5. \A w \in Worker : NewAt(w) /\ AppendAt(w)
  BY <1>2 DEF NewAt, AppendAt, ClaimPc
<1>6. QED
  BY <1>3, <1>4, <1>5 DEF OnceInv

LEMMA NextOnce ==
  ASSUME Known, OnceInv, [Next]_vars
  PROVE  OnceInv'
<1>1. ASSUME NEW w \in Worker, Call(w) \/ Work(w) \/ DeliverFails(w) \/ Crash(w)
      PROVE  OnceInv'
  BY <1>1, CallOnce, ClaimOnce, CommitOnce, ContinueOnce, OperateOnce, EndOnce DEF Work
<1>2. CASE UNCHANGED vars
  BY <1>2 DEF vars, disk, record, control, OnceInv, FreshInv, MarkedInv, Seen, Ids,
              NewAt, AppendAt, CompletionAuditedOnce
<1>3. QED
  BY <1>1, <1>2 DEF Next, Quiescent

LEMMA AlwaysOnce == Spec => []OnceInv
<1>1. Known /\ OnceInv /\ [Next]_vars => OnceInv'
  BY NextOnce
<1>2. QED
  BY <1>1, InitOnce, AlwaysKnown, PTL DEF Spec

\* No interleaving of arrivals, resumed commits, retries and crashes, however
\* many, puts the completion of one receipt into the audit trail twice: the
\* marker of the manifest and the look into the trail together are enough.
THEOREM AuditedOnce == Spec => []CompletionAuditedOnce
<1>1. OnceInv => CompletionAuditedOnce
  BY DEF OnceInv
<1>2. QED
  BY <1>1, AlwaysOnce, PTL

=============================================================================
