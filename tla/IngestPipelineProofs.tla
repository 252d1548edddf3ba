------------------------ MODULE IngestPipelineProofs ------------------------
(***************************************************************************)
(* Proofs about IngestPipeline, for all documents, files, workers and      *)
(* verdicts and for any number of crashes and operator calls.              *)
(***************************************************************************)
EXTENDS IngestPipeline, SequenceTheorems, TLAPS

USE PipelineAssumption DEF PipelineAssumption

\* TypeOK, in the parts that the steps disturb separately.
FileType ==
  /\ drop \subseteq File
  /\ failed \in [Doc -> SUBSET {"dir", "pdf", "meta", "res"}]
  /\ filed \in [Doc -> SUBSET Filing]
  /\ index \in [Doc -> Filing \cup {"none"}]
  /\ erased \in [Doc -> SUBSET {"text", "pdf"}]
  /\ receipt \in [Receipt -> Status]
TextType == text \in [Doc -> BOOLEAN]
StagedType == staged \in [Doc -> Staging]
CountType ==
  /\ trail \in [Doc -> Seq([rcpt : Receipt \cup {NoReceipt}, disp : Filing])]
  /\ delivered \in [Doc -> Nat]
  /\ confirmed \in [Doc -> Nat]
LockType ==
  /\ jobLock \in [Doc -> Worker \cup {Nobody}]
  /\ mainLock \in Worker \cup {Nobody}
PcType == pc \in [Worker -> PcStates]
JobType == job \in [Worker -> CallRecord]
BoundType == crashes \in 0..MaxCrash /\ calls \in 0..MaxCall

Typed == FileType /\ TextType /\ StagedType /\ CountType /\ LockType /\ PcType
         /\ JobType /\ BoundType

\* What a call carries: its document, and the verdict once there is one.
CarryAt(w) ==
  /\ pc[w] # "idle" => job[w].doc \in Doc
  /\ pc[w] \in {"wait_main", "snapshot", "finish_receipt"} \cup FailPc
     => job[w].disp \in Outcome
  /\ pc[w] \in CommitPc \ {"snapshot", "finish_receipt", "drop_failed"}
     => job[w].disp \in Filing
CarryInv == \A w \in Worker : CarryAt(w)

LEMMA TypedIsTypeOK == Typed <=> TypeOK
BY DEF Typed, TypeOK, FileType, TextType, StagedType, CountType, LockType,
       PcType, JobType, BoundType

-----------------------------------------------------------------------------
(* The helpers.                                                            *)

LEMMA ConstantTypes ==
  /\ Blank \in Manifest
  /\ NoCall \in CallRecord
  /\ \A op \in CallOp, d \in Doc, f \in File \cup {NoFile} :
       /\ NewCall(op, d, f) \in CallRecord
       /\ NewCall(op, d, f).doc = d
BY DEF Blank, Opened, Manifest, NoCall, CallRecord, NewCall, CallWith, CallOp,
       Outcome, Filing, Step, Entry

LEMMA FreshManifest ==
  ASSUME JobType, NEW w \in Worker
  PROVE  Opened(job[w].man.rcpt) \in Manifest
BY DEF JobType, CallRecord, Opened, Manifest

LEMMA StepManifest ==
  ASSUME JobType, NEW w \in Worker, NEW step \in Step
  PROVE  [job[w].man EXCEPT !.steps = @ \cup {step}] \in Manifest
BY DEF JobType, CallRecord, Manifest

LEMMA AssessedManifest ==
  ASSUME JobType, NEW w \in Worker, job[w].disp \in Outcome
  PROVE  [job[w].man EXCEPT !.assessed = job[w].disp,
                            !.steps = @ \cup {"assessed"}] \in Manifest
BY ZenonT(60) DEF JobType, CallRecord, Manifest, Step

LEMMA OnDiskType ==
  ASSUME StagedType, NEW d \in Doc
  PROVE  OnDisk(d) \in Manifest
BY ConstantTypes DEF StagedType, Staging, OnDisk

LEMMA WriteManifestFacts ==
  ASSUME StagedType, JobType, NEW w \in Worker, NEW m \in Manifest,
         job[w].doc \in Doc, WriteManifest(w, m)
  PROVE  /\ StagedType' /\ JobType'
         /\ job'[w].man = m
         /\ job'[w].doc = job[w].doc /\ job'[w].disp = job[w].disp
         /\ job'[w].op = job[w].op
         /\ \A v \in Worker : v # w => job'[v] = job[v]
         /\ staged'[job[w].doc].man = m
         /\ "man" \in staged'[job[w].doc].has
         /\ \A d \in Doc : d # job[w].doc => staged'[d] = staged[d]
BY ZenonT(60) DEF StagedType, JobType, WriteManifest, Staging, CallRecord, Entry

\* A step of w leaves what the others carry alone.
LEMMA CarryStep ==
  ASSUME CarryInv, NEW w \in Worker, CarryAt(w)',
         \A v \in Worker : v # w => pc'[v] = pc[v] /\ job'[v] = job[v]
  PROVE  CarryInv'
<1> SUFFICES ASSUME NEW v \in Worker PROVE CarryAt(v)'
  BY DEF CarryInv
<1>1. CASE v = w
  BY <1>1
<1>2. CASE v # w
  BY <1>2 DEF CarryInv, CarryAt
<1>3. QED
  BY <1>1, <1>2

LEMMA LeaveFacts ==
  ASSUME Typed, CarryInv, NEW w \in Worker, Leave(w)
  PROVE  LockType' /\ PcType' /\ JobType' /\ CarryInv'
<1>1. LockType' /\ PcType' /\ JobType'
  BY ConstantTypes
     DEF Typed, LockType, PcType, JobType, Leave, Goto, PcStates, Unlocked,
         MainUnlocked
<1>2. /\ pc'[w] = "idle"
      /\ \A v \in Worker : v # w => pc'[v] = pc[v] /\ job'[v] = job[v]
  BY DEF Typed, PcType, JobType, Leave, Goto
<1>3. CarryAt(w)'
  BY <1>2 DEF CarryAt, CommitPc, FailPc
<1>4. QED
  BY <1>1, <1>2, <1>3, CarryStep

LEMMA ReturnFacts ==
  ASSUME Typed, CarryInv, NEW w \in Worker, pc[w] # "idle",
         NEW locks \in [Doc -> Worker \cup {Nobody}], Return(w, locks)
  PROVE  LockType' /\ PcType' /\ JobType' /\ CarryInv'
<1>1. CASE Outer(job[w].op) = "idle"
  BY <1>1, LeaveFacts DEF Return
<1>2. CASE Outer(job[w].op) # "idle"
  <2>1. /\ Outer(job[w].op) \in {"retry_check", "retry_done"}
        /\ pc' = [pc EXCEPT ![w] = Outer(job[w].op)]
        /\ jobLock' = locks /\ mainLock' = MainUnlocked(w) /\ job' = job
    BY <1>2 DEF Return, Goto, Outer
  <2>2. LockType' /\ PcType' /\ JobType'
    BY <2>1 DEF Typed, LockType, PcType, JobType, PcStates, MainUnlocked
  <2>3. CarryAt(w)'
    BY <2>1 DEF CarryInv, CarryAt, CommitPc, FailPc, Typed, PcType
  <2>4. QED
    BY <2>1, <2>2, <2>3, CarryStep DEF Typed, PcType
<1>3. QED
  BY <1>1, <1>2

\* A step of w that stays in its call and keeps what it carries.
LEMMA GotoFacts ==
  ASSUME Typed, CarryInv, NEW w \in Worker, pc[w] # "idle",
         NEW label \in PcStates, Goto(w, label), UNCHANGED job,
         label \in {"wait_main", "snapshot", "finish_receipt"} \cup FailPc
           => job[w].disp \in Outcome,
         label \in CommitPc \ {"snapshot", "finish_receipt", "drop_failed"}
           => job[w].disp \in Filing
  PROVE  PcType' /\ JobType' /\ CarryInv'
<1>1. PcType' /\ JobType'
  BY DEF Typed, PcType, JobType, Goto
<1>2. /\ pc'[w] = label /\ job' = job
      /\ \A v \in Worker : v # w => pc'[v] = pc[v]
  BY DEF Typed, PcType, Goto
<1>3. CarryAt(w)'
  BY <1>2 DEF CarryInv, CarryAt
<1>4. QED
  BY <1>1, <1>2, <1>3, CarryStep

\* The same with another record of the call.
LEMMA CarryFacts ==
  ASSUME Typed, CarryInv, NEW w \in Worker,
         NEW label \in PcStates, Goto(w, label),
         NEW c \in CallRecord, job' = [job EXCEPT ![w] = c], c.doc \in Doc,
         label \in {"wait_main", "snapshot", "finish_receipt"} \cup FailPc
           => c.disp \in Outcome,
         label \in CommitPc \ {"snapshot", "finish_receipt", "drop_failed"}
           => c.disp \in Filing
  PROVE  PcType' /\ JobType' /\ CarryInv'
<1>1. PcType' /\ JobType'
  BY DEF Typed, PcType, JobType, Goto
<1>2. /\ pc'[w] = label /\ job'[w] = c
      /\ \A v \in Worker : v # w => pc'[v] = pc[v] /\ job'[v] = job[v]
  BY DEF Typed, PcType, JobType, Goto
<1>3. CarryAt(w)'
  BY <1>2 DEF CarryAt
<1>4. QED
  BY <1>1, <1>2, <1>3, CarryStep

\* The same with another manifest in the worker's memory and on disk.
LEMMA CheckpointFacts ==
  ASSUME Typed, CarryInv, NEW w \in Worker, pc[w] # "idle",
         NEW label \in PcStates, Goto(w, label),
         NEW m \in Manifest, WriteManifest(w, m),
         label \in {"wait_main", "snapshot", "finish_receipt"} \cup FailPc
           => job[w].disp \in Outcome,
         label \in CommitPc \ {"snapshot", "finish_receipt", "drop_failed"}
           => job[w].disp \in Filing
  PROVE  StagedType' /\ PcType' /\ JobType' /\ CarryInv'
<1>1. PcType' /\ pc'[w] = label /\ \A v \in Worker : v # w => pc'[v] = pc[v]
  BY DEF Typed, PcType, Goto
<1>2. job[w].doc \in Doc
  BY DEF CarryInv, CarryAt
<1>3. /\ StagedType' /\ JobType'
      /\ job'[w].doc = job[w].doc /\ job'[w].disp = job[w].disp
      /\ \A v \in Worker : v # w => job'[v] = job[v]
  BY <1>2, WriteManifestFacts DEF Typed
<1>4. CarryAt(w)'
  BY <1>1, <1>2, <1>3 DEF CarryAt
<1>5. QED
  BY <1>1, <1>3, <1>4, CarryStep

LEMMA CheckpointStep ==
  ASSUME Typed, CarryInv, NEW w \in Worker, pc[w] # "idle",
         NEW label \in PcStates, Goto(w, label),
         NEW step \in Step, Checkpoint(w, step),
         label \in {"wait_main", "snapshot", "finish_receipt"} \cup FailPc
           => job[w].disp \in Outcome,
         label \in CommitPc \ {"snapshot", "finish_receipt", "drop_failed"}
           => job[w].disp \in Filing
  PROVE  StagedType' /\ PcType' /\ JobType' /\ CarryInv'
BY CheckpointFacts, StepManifest DEF Checkpoint, Typed

-----------------------------------------------------------------------------
(* Every step keeps the types and what a call carries.                     *)

\* The steps of an arrival.
LEMMA ClaimTyped ==
  ASSUME Typed, CarryInv, NEW w \in Worker, Claim(w)
  PROVE  Typed' /\ CarryInv'
<1> USE DEF At, D, disk, record, lock, bound, Committing
<1>1. CASE ClaimLock(w)
  <2>1. PcType' /\ JobType' /\ CarryInv'
    BY <1>1, GotoFacts
       DEF ClaimLock, PcStates, CommitPc, FailPc, RemovePc, Outcome, CarryInv,
           CarryAt
  <2>2. /\ FileType' /\ TextType' /\ StagedType'
        /\ CountType' /\ LockType' /\ BoundType'
    BY <1>1
       DEF ClaimLock, Typed, FileType, TextType, StagedType, CountType,
           LockType, BoundType, CarryInv, CarryAt
  <2>3. QED
    BY <2>1, <2>2 DEF Typed
<1>2. CASE ClaimContended(w)
  <2>1. PcType' /\ JobType' /\ CarryInv'
    BY <1>2, GotoFacts
       DEF ClaimContended, PcStates, CommitPc, FailPc, RemovePc, Outcome,
           CarryInv, CarryAt
  <2>2. /\ FileType' /\ TextType' /\ StagedType'
        /\ CountType' /\ LockType' /\ BoundType'
    BY <1>2
       DEF ClaimContended, Typed, FileType, TextType, StagedType, CountType,
           LockType, BoundType, CarryInv, CarryAt
  <2>3. QED
    BY <2>1, <2>2 DEF Typed
<1>3. CASE ClaimManifest(w)
  <2>1. PcType' /\ JobType' /\ CarryInv' /\ StagedType'
    BY <1>3, CheckpointFacts, FreshManifest
       DEF ClaimManifest, Typed, Step, PcStates, CommitPc, FailPc, RemovePc,
           Outcome, CarryInv, CarryAt
  <2>2. FileType' /\ TextType' /\ CountType' /\ LockType' /\ BoundType'
    BY <1>3
       DEF ClaimManifest, Typed, FileType, TextType, CountType, LockType,
           BoundType, CarryInv, CarryAt
  <2>3. QED
    BY <2>1, <2>2 DEF Typed
<1>4. CASE ClaimPdf(w)
  <2>1. PcType' /\ JobType' /\ CarryInv'
    BY <1>4, GotoFacts
       DEF ClaimPdf, PcStates, CommitPc, FailPc, RemovePc, Outcome, CarryInv,
           CarryAt
  <2>2. /\ FileType' /\ TextType' /\ StagedType'
        /\ CountType' /\ LockType' /\ BoundType'
    BY <1>4
       DEF ClaimPdf, Typed, FileType, TextType, StagedType, CountType,
           LockType, BoundType, CarryInv, CarryAt, Filled, Staging, Entry
  <2>3. QED
    BY <2>1, <2>2 DEF Typed
<1>5. CASE UnlinkSource(w)
  <2>1. PcType' /\ JobType' /\ CarryInv'
    BY <1>5, GotoFacts
       DEF UnlinkSource, PcStates, CommitPc, FailPc, RemovePc, Outcome,
           CarryInv, CarryAt
  <2>2. /\ FileType' /\ TextType' /\ StagedType'
        /\ CountType' /\ LockType' /\ BoundType'
    BY <1>5
       DEF UnlinkSource, Typed, FileType, TextType, StagedType, CountType,
           LockType, BoundType, CarryInv, CarryAt
  <2>3. QED
    BY <2>1, <2>2 DEF Typed
<1>6. CASE ClaimReceipt(w)
  <2>1. PcType' /\ JobType' /\ CarryInv' /\ LockType'
    <3>1. CASE job[w].op = "stage"
      BY <1>6, <3>1, LeaveFacts DEF ClaimReceipt
    <3>2. CASE job[w].op # "stage"
      <4>1. PcType' /\ JobType' /\ CarryInv'
        BY <1>6, <3>2, GotoFacts DEF ClaimReceipt, PcStates, CommitPc, FailPc
      <4>2. LockType'
        BY <1>6, <3>2 DEF ClaimReceipt, Typed, LockType, Unlocked
      <4>3. QED
        BY <4>1, <4>2
    <3>3. QED
      BY <3>1, <3>2
  <2>2. FileType' /\ TextType' /\ StagedType' /\ CountType' /\ BoundType'
    BY <1>6
       DEF ClaimReceipt, Typed, FileType, TextType, StagedType, CountType,
           BoundType, CarryInv, CarryAt, Status
  <2>3. QED
    BY <2>1, <2>2 DEF Typed
<1>7. CASE Relock(w)
  <2>1. PcType' /\ JobType' /\ CarryInv'
    BY <1>7, GotoFacts
       DEF Relock, PcStates, CommitPc, FailPc, RemovePc, Outcome, CarryInv,
           CarryAt
  <2>2. /\ FileType' /\ TextType' /\ StagedType'
        /\ CountType' /\ LockType' /\ BoundType'
    BY <1>7
       DEF Relock, Typed, FileType, TextType, StagedType, CountType, LockType,
           BoundType, CarryInv, CarryAt
  <2>3. QED
    BY <2>1, <2>2 DEF Typed
<1>8. CASE DupReceipt(w)
  <2>1. PcType' /\ JobType' /\ CarryInv'
    BY <1>8, GotoFacts
       DEF DupReceipt, PcStates, CommitPc, FailPc, RemovePc, Outcome,
           CarryInv, CarryAt
  <2>2. /\ FileType' /\ TextType' /\ StagedType'
        /\ CountType' /\ LockType' /\ BoundType'
    BY <1>8
       DEF DupReceipt, Typed, FileType, TextType, StagedType, CountType,
           LockType, BoundType, CarryInv, CarryAt, Status
  <2>3. QED
    BY <2>1, <2>2 DEF Typed
<1>9. CASE DupFinish(w)
  <2>1. PcType' /\ JobType' /\ CarryInv'
    BY <1>9, GotoFacts
       DEF DupFinish, PcStates, CommitPc, FailPc, RemovePc, Outcome, CarryInv,
           CarryAt
  <2>2. /\ FileType' /\ TextType' /\ StagedType'
        /\ CountType' /\ LockType' /\ BoundType'
    BY <1>9
       DEF DupFinish, Typed, FileType, TextType, StagedType, CountType,
           LockType, BoundType, CarryInv, CarryAt, Finish, Status
  <2>3. QED
    BY <2>1, <2>2 DEF Typed
<1>10. CASE DupUnlink(w)
  <2>1. PcType' /\ JobType' /\ CarryInv' /\ LockType'
    BY <1>10, ReturnFacts DEF DupUnlink, Typed, LockType, Unlocked
  <2>2. FileType' /\ TextType' /\ StagedType' /\ CountType' /\ BoundType'
    BY <1>10
       DEF DupUnlink, Typed, FileType, TextType, StagedType, CountType,
           BoundType, CarryInv, CarryAt
  <2>3. QED
    BY <2>1, <2>2 DEF Typed
<1>11. QED
  BY <1>1, <1>2, <1>3, <1>4, <1>5, <1>6, <1>7, <1>8, <1>9, <1>10 DEF Claim

\* The steps of commit() and commit_failed().
LEMMA CommitTyped ==
  ASSUME Typed, CarryInv, NEW w \in Worker, Commit(w)
  PROVE  Typed' /\ CarryInv'
<1> USE DEF At, D, disk, record, lock, bound, Committing
<1>1. CASE TakeMain(w)
  <2>1. PcType' /\ JobType' /\ CarryInv'
    <3>1. job[w].doc \in Doc /\ job[w].disp \in Outcome
      BY <1>1 DEF TakeMain, CarryInv, CarryAt
    <3>2. PICK m \in Manifest : job' = [job EXCEPT ![w] = [job[w] EXCEPT !.man = m]]
      BY <1>1, <3>1, OnDiskType DEF TakeMain, Typed
    <3>3. /\ [job[w] EXCEPT !.man = m] \in CallRecord
          /\ [job[w] EXCEPT !.man = m].doc = job[w].doc
          /\ [job[w] EXCEPT !.man = m].disp = job[w].disp
      BY DEF Typed, JobType, CallRecord
    <3>4. QED
      BY <1>1, <3>1, <3>2, <3>3, CarryFacts DEF TakeMain, PcStates, CommitPc, FailPc
  <2>2. /\ FileType' /\ TextType' /\ StagedType'
        /\ CountType' /\ LockType' /\ BoundType'
    BY <1>1
       DEF TakeMain, Typed, FileType, TextType, StagedType, CountType,
           LockType, BoundType, CarryInv, CarryAt
  <2>3. QED
    BY <2>1, <2>2 DEF Typed
<1>2. CASE Snapshot(w)
  <2>1. PcType' /\ JobType' /\ CarryInv' /\ StagedType'
    <3>1. job[w].disp \in Outcome /\ job[w].doc \in Doc
      BY <1>2 DEF Snapshot, CarryInv, CarryAt
    <3>2. CASE job[w].man.assessed = "none"
      BY <1>2, <3>1, <3>2, CheckpointFacts, AssessedManifest
         DEF Snapshot, Typed, PcStates, CommitPc, FailPc, Outcome
    <3>3. CASE job[w].man.assessed # "none"
      BY <1>2, <3>1, <3>3, GotoFacts
         DEF Snapshot, Typed, StagedType, PcStates, CommitPc, FailPc, Outcome
    <3>4. QED
      BY <3>2, <3>3
  <2>2. FileType' /\ TextType' /\ CountType' /\ LockType' /\ BoundType'
    BY <1>2
       DEF Snapshot, Typed, FileType, TextType, CountType, LockType,
           BoundType, CarryInv, CarryAt
  <2>3. QED
    BY <2>1, <2>2 DEF Typed
<1>3. CASE SkipDone(w)
  <2>1. PcType' /\ JobType' /\ CarryInv'
    BY <1>3, GotoFacts DEF SkipDone, PcStates, CommitPc, FailPc, CarryInv, CarryAt, Outcome
  <2>2. /\ FileType' /\ TextType' /\ StagedType'
        /\ CountType' /\ LockType' /\ BoundType'
    BY <1>3
       DEF SkipDone, Typed, FileType, TextType, StagedType, CountType,
           LockType, BoundType, CarryInv, CarryAt
  <2>3. QED
    BY <2>1, <2>2 DEF Typed
<1>4. CASE Mark(w)
  <2>1. PcType' /\ JobType' /\ CarryInv' /\ StagedType'
    <3>1. PICK s \in {<<"mark_pdf", "pdf", "audit">>, <<"mark_audit", "audit", "stores">>,
                     <<"mark_stores", "stores", "emit">>,
                     <<"mark_emitted", "emitted", "finish_receipt">>} :
            pc[w] = s[1] /\ Checkpoint(w, s[2]) /\ Goto(w, s[3])
      BY <1>4 DEF Mark
    <3>2. QED
      BY <3>1, CheckpointStep DEF Step, PcStates, CommitPc, FailPc,
         CarryInv, CarryAt, Outcome
  <2>2. FileType' /\ TextType' /\ CountType' /\ LockType' /\ BoundType'
    BY <1>4
       DEF Mark, Typed, FileType, TextType, CountType, LockType, BoundType,
           CarryInv, CarryAt
  <2>3. QED
    BY <2>1, <2>2 DEF Typed
<1>5. CASE CopyPdf(w)
  <2>1. PcType' /\ JobType' /\ CarryInv'
    BY <1>5, GotoFacts
       DEF CopyPdf, PcStates, CommitPc, FailPc, RemovePc, Outcome, CarryInv,
           CarryAt
  <2>2. /\ FileType' /\ TextType' /\ StagedType'
        /\ CountType' /\ LockType' /\ BoundType'
    BY ZenonT(60), <1>5
       DEF CopyPdf, Typed, FileType, TextType, StagedType, CountType,
           LockType, BoundType, CarryInv, CarryAt, CommitPc
  <2>3. QED
    BY <2>1, <2>2 DEF Typed
<1>6. CASE AuditKnown(w)
  <2>1. PcType' /\ JobType' /\ CarryInv' /\ StagedType'
    BY <1>6, CheckpointStep
       DEF AuditKnown, Typed, Step, PcStates, CommitPc, FailPc, RemovePc,
           Outcome, CarryInv, CarryAt
  <2>2. FileType' /\ TextType' /\ CountType' /\ LockType' /\ BoundType'
    BY <1>6
       DEF AuditKnown, Typed, FileType, TextType, CountType, LockType,
           BoundType, CarryInv, CarryAt
  <2>3. QED
    BY <2>1, <2>2 DEF Typed
<1>7. CASE AuditStart(w)
  <2>1. PcType' /\ JobType' /\ CarryInv' /\ StagedType'
    BY <1>7, CheckpointStep
       DEF AuditStart, Typed, Step, PcStates, CommitPc, FailPc, RemovePc,
           Outcome, CarryInv, CarryAt
  <2>2. FileType' /\ TextType' /\ CountType' /\ LockType' /\ BoundType'
    BY <1>7
       DEF AuditStart, Typed, FileType, TextType, CountType, LockType,
           BoundType, CarryInv, CarryAt
  <2>3. QED
    BY <2>1, <2>2 DEF Typed
<1>8. CASE AuditAppend(w)
  <2>1. PcType' /\ JobType' /\ CarryInv' /\ CountType'
    <3>1. job[w].doc \in Doc /\ job[w].disp \in Filing
      BY <1>8 DEF AuditAppend, CommitPc, CarryInv, CarryAt
    <3>2. PcType' /\ JobType' /\ CarryInv'
      BY <1>8, <3>1, GotoFacts
         DEF AuditAppend, PcStates, CommitPc, FailPc, Outcome
    <3>3. [rcpt |-> job[w].man.rcpt, disp |-> job[w].disp]
            \in [rcpt : Receipt \cup {NoReceipt}, disp : Filing]
      BY <3>1 DEF Typed, JobType, CallRecord, Manifest
    <3>4. Append(trail[job[w].doc], [rcpt |-> job[w].man.rcpt, disp |-> job[w].disp])
            \in Seq([rcpt : Receipt \cup {NoReceipt}, disp : Filing])
      BY <3>1, <3>3, AppendProperties DEF Typed, CountType
    <3>5. CountType'
      BY <1>8, <3>1, <3>4 DEF AuditAppend, Typed, CountType
    <3>6. QED
      BY <3>2, <3>5
  <2>2. FileType' /\ TextType' /\ StagedType' /\ LockType' /\ BoundType'
    BY <1>8
       DEF AuditAppend, Typed, FileType, TextType, StagedType, LockType,
           BoundType, CarryInv, CarryAt
  <2>3. QED
    BY <2>1, <2>2 DEF Typed
<1>9. CASE WriteIndex(w)
  <2>1. PcType' /\ JobType' /\ CarryInv'
    BY <1>9, GotoFacts
       DEF WriteIndex, PcStates, CommitPc, FailPc, RemovePc, Outcome,
           CarryInv, CarryAt
  <2>2. /\ FileType' /\ TextType' /\ StagedType'
        /\ CountType' /\ LockType' /\ BoundType'
    BY <1>9
       DEF WriteIndex, Typed, FileType, TextType, StagedType, CountType,
           LockType, BoundType, CarryInv, CarryAt, CommitPc
  <2>3. QED
    BY <2>1, <2>2 DEF Typed
<1>10. CASE WriteText(w)
  <2>1. PcType' /\ JobType' /\ CarryInv'
    BY <1>10, GotoFacts
       DEF WriteText, PcStates, CommitPc, FailPc, RemovePc, Outcome, CarryInv,
           CarryAt
  <2>2. /\ FileType' /\ TextType' /\ StagedType'
        /\ CountType' /\ LockType' /\ BoundType'
    BY <1>10
       DEF WriteText, Typed, FileType, TextType, StagedType, CountType,
           LockType, BoundType, CarryInv, CarryAt
  <2>3. QED
    BY <2>1, <2>2 DEF Typed
<1>11. CASE EmitStart(w)
  <2>1. PcType' /\ JobType' /\ CarryInv' /\ StagedType'
    BY <1>11, CheckpointStep
       DEF EmitStart, Typed, Step, PcStates, CommitPc, FailPc, RemovePc,
           Outcome, CarryInv, CarryAt
  <2>2. FileType' /\ TextType' /\ CountType' /\ LockType' /\ BoundType'
    BY <1>11
       DEF EmitStart, Typed, FileType, TextType, CountType, LockType,
           BoundType, CarryInv, CarryAt
  <2>3. QED
    BY <2>1, <2>2 DEF Typed
<1>12. CASE Deliver(w)
  <2>1. PcType' /\ JobType' /\ CarryInv' /\ CountType'
    <3>1. PcType' /\ JobType' /\ CarryInv'
      BY <1>12, GotoFacts
         DEF Deliver, PcStates, CommitPc, FailPc, Outcome, CarryInv, CarryAt
    <3>2. CountType'
      <4>1. delivered[job[w].doc] + 1 \in Nat
        BY <1>12 DEF Deliver, CarryInv, CarryAt, Typed, CountType
      <4>2. delivered' \in [Doc -> Nat]
        BY <1>12, <4>1 DEF Deliver, Typed, CountType
      <4>3. QED
        BY <1>12, <4>2 DEF Deliver, Typed, CountType
    <3>3. QED
      BY <3>1, <3>2
  <2>2. FileType' /\ TextType' /\ StagedType' /\ LockType' /\ BoundType'
    BY <1>12
       DEF Deliver, Typed, FileType, TextType, StagedType, LockType,
           BoundType, CarryInv, CarryAt
  <2>3. QED
    BY <2>1, <2>2 DEF Typed
<1>13. CASE FailPdf(w)
  <2>1. PcType' /\ JobType' /\ CarryInv'
    BY <1>13, GotoFacts
       DEF FailPdf, PcStates, CommitPc, FailPc, RemovePc, Outcome, CarryInv,
           CarryAt
  <2>2. /\ FileType' /\ TextType' /\ StagedType'
        /\ CountType' /\ LockType' /\ BoundType'
    BY <1>13
       DEF FailPdf, Typed, FileType, TextType, StagedType, CountType,
           LockType, BoundType, CarryInv, CarryAt
  <2>3. QED
    BY <2>1, <2>2 DEF Typed
<1>14. CASE FailMeta(w)
  <2>1. PcType' /\ JobType' /\ CarryInv'
    BY <1>14, GotoFacts
       DEF FailMeta, PcStates, CommitPc, FailPc, RemovePc, Outcome, CarryInv,
           CarryAt
  <2>2. /\ FileType' /\ TextType' /\ StagedType'
        /\ CountType' /\ LockType' /\ BoundType'
    BY <1>14
       DEF FailMeta, Typed, FileType, TextType, StagedType, CountType,
           LockType, BoundType, CarryInv, CarryAt
  <2>3. QED
    BY <2>1, <2>2 DEF Typed
<1>15. CASE FinishReceipt(w)
  <2>1. PcType' /\ JobType' /\ CarryInv'
    BY <1>15, GotoFacts
       DEF FinishReceipt, PcStates, CommitPc, FailPc, RemovePc, Outcome,
           CarryInv, CarryAt
  <2>2. /\ FileType' /\ TextType' /\ StagedType'
        /\ CountType' /\ LockType' /\ BoundType'
    BY <1>15
       DEF FinishReceipt, Typed, FileType, TextType, StagedType, CountType,
           LockType, BoundType, CarryInv, CarryAt, Finish, Status, Outcome
  <2>3. QED
    BY <2>1, <2>2 DEF Typed
<1>16. CASE DropFailed(w)
  <2>1. PcType' /\ JobType' /\ CarryInv'
    BY <1>16, GotoFacts
       DEF DropFailed, PcStates, CommitPc, FailPc, RemovePc, Outcome,
           CarryInv, CarryAt
  <2>2. /\ FileType' /\ TextType' /\ StagedType'
        /\ CountType' /\ LockType' /\ BoundType'
    BY <1>16
       DEF DropFailed, Typed, FileType, TextType, StagedType, CountType,
           LockType, BoundType, CarryInv, CarryAt
  <2>3. QED
    BY <2>1, <2>2 DEF Typed
<1>17. CASE ListStaging(w)
  <2>1. PcType' /\ JobType' /\ CarryInv'
    <3>1. job[w].doc \in Doc
      BY <1>17 DEF ListStaging, CarryInv, CarryAt
    <3>2. PICK rm \in SUBSET Entry : job' = [job EXCEPT ![w] = [job[w] EXCEPT !.rm = rm]]
      BY <1>17, <3>1 DEF ListStaging, Typed, StagedType, Staging
    <3>3. /\ [job[w] EXCEPT !.rm = rm] \in CallRecord
          /\ [job[w] EXCEPT !.rm = rm].doc = job[w].doc
      BY DEF Typed, JobType, CallRecord
    <3>4. PICK label \in {"remove", "remove_dup"} : Goto(w, label)
      BY <1>17 DEF ListStaging
    <3>5. QED
      BY <3>1, <3>2, <3>3, <3>4, CarryFacts DEF PcStates, RemovePc, CommitPc, FailPc
  <2>2. /\ FileType' /\ TextType' /\ StagedType'
        /\ CountType' /\ LockType' /\ BoundType'
    BY <1>17
       DEF ListStaging, Typed, FileType, TextType, StagedType, CountType,
           LockType, BoundType, CarryInv, CarryAt
  <2>3. QED
    BY <2>1, <2>2 DEF Typed
<1>18. CASE RemoveEntry(w)
  <2>1. PcType' /\ JobType' /\ CarryInv' /\ StagedType'
    <3>1. job[w].doc \in Doc /\ pc[w] \in {"remove", "remove_dup"}
      BY <1>18 DEF RemoveEntry, CarryInv, CarryAt
    <3>2. PICK e \in job[w].rm :
            /\ staged' = [staged EXCEPT ![job[w].doc] = Emptied(@, {e})]
            /\ job' = [job EXCEPT ![w] = [job[w] EXCEPT !.rm = @ \ {e}]]
      BY <1>18 DEF RemoveEntry
    <3>3. /\ [job[w] EXCEPT !.rm = @ \ {e}] \in CallRecord
          /\ [job[w] EXCEPT !.rm = @ \ {e}].doc = job[w].doc
      BY DEF Typed, JobType, CallRecord
    <3>4. PcType' /\ JobType' /\ CarryInv'
      <4>1. Goto(w, pc[w])
        BY <1>18 DEF RemoveEntry, Goto, Typed, PcType
      <4>2. QED
        BY <3>1, <3>2, <3>3, <4>1, CarryFacts
           DEF PcStates, RemovePc, CommitPc, FailPc
    <3>5. StagedType'
      BY <3>1, <3>2, ConstantTypes DEF Emptied, Typed, StagedType, Staging
    <3>6. QED
      BY <3>4, <3>5
  <2>2. FileType' /\ TextType' /\ CountType' /\ LockType' /\ BoundType'
    BY <1>18
       DEF RemoveEntry, Typed, FileType, TextType, CountType, LockType,
           BoundType, CarryInv, CarryAt
  <2>3. QED
    BY <2>1, <2>2 DEF Typed
<1>19. CASE RemoveDir(w)
  <2>1. PcType' /\ JobType' /\ CarryInv' /\ LockType'
    BY <1>19, ReturnFacts DEF RemoveDir, Typed, LockType, Unlocked
  <2>2. FileType' /\ TextType' /\ StagedType' /\ CountType' /\ BoundType'
    BY <1>19
       DEF RemoveDir, Typed, FileType, TextType, StagedType, CountType,
           BoundType, CarryInv, CarryAt, Emptied, Staging
  <2>3. QED
    BY <2>1, <2>2 DEF Typed
<1>20. QED
  BY <1>1, <1>2, <1>3, <1>4, <1>5, <1>6, <1>7, <1>8, <1>9, <1>10, <1>11,
     <1>12, <1>13, <1>14, <1>15, <1>16, <1>17, <1>18, <1>19
     DEF Commit

\* The steps of _finish_staged(), process() and resume_staged().
LEMMA ContinueTyped ==
  ASSUME Typed, CarryInv, NEW w \in Worker, Continue(w)
  PROVE  Typed' /\ CarryInv'
<1> USE DEF At, D, disk, record, lock, bound, Committing
<1>1. CASE FinishDuplicate(w)
  <2>1. PcType' /\ JobType' /\ CarryInv'
    <3>1. job[w].doc \in Doc
      BY <1>1 DEF FinishDuplicate, CarryInv, CarryAt
    <3>2. PICK o \in Outcome : job' = [job EXCEPT ![w] = [job[w] EXCEPT !.disp = o]]
      BY <1>1, <3>1 DEF FinishDuplicate, Typed, FileType, Outcome
    <3>3. PICK c \in CallRecord :
            /\ c.doc = job[w].doc /\ c.disp \in Outcome
            /\ job' = [job EXCEPT ![w] = c]
      <4>1. /\ [job[w] EXCEPT !.disp = o] \in CallRecord
            /\ [job[w] EXCEPT !.disp = o].doc = job[w].doc
            /\ [job[w] EXCEPT !.disp = o].disp \in Outcome
        BY DEF Typed, JobType, CallRecord
      <4>2. QED
        BY <3>2, <4>1
    <3>4. Goto(w, "list_dup")
      BY <1>1 DEF FinishDuplicate
    <3>5. "list_dup" \in PcStates /\ "list_dup" \notin CommitPc
      BY DEF PcStates, RemovePc, CommitPc
    <3>6. c.doc \in Doc
      BY <3>1, <3>3
    <3>7. QED
      BY <3>3, <3>4, <3>5, <3>6, CarryFacts
  <2>2. /\ FileType' /\ TextType' /\ StagedType'
        /\ CountType' /\ LockType' /\ BoundType'
    BY <1>1
       DEF FinishDuplicate, Typed, FileType, TextType, StagedType, CountType,
           LockType, BoundType, CarryInv, CarryAt, Finish, Status, Outcome
  <2>3. QED
    BY <2>1, <2>2 DEF Typed
<1>2. CASE Process(w)
  <2>1. PcType' /\ JobType' /\ CarryInv'
    <3>1. job[w].doc \in Doc
      BY <1>2 DEF Process, CarryInv, CarryAt
    <3>2. PICK o \in Outcome : job' = [job EXCEPT ![w] = [job[w] EXCEPT !.disp = o]]
      BY <1>2, <3>1 DEF Process, Typed, FileType, Outcome
    <3>3. PICK c \in CallRecord :
            /\ c.doc = job[w].doc /\ c.disp \in Outcome
            /\ job' = [job EXCEPT ![w] = c]
      <4>1. /\ [job[w] EXCEPT !.disp = o] \in CallRecord
            /\ [job[w] EXCEPT !.disp = o].doc = job[w].doc
            /\ [job[w] EXCEPT !.disp = o].disp \in Outcome
        BY DEF Typed, JobType, CallRecord
      <4>2. QED
        BY <3>2, <4>1
    <3>4. Goto(w, "wait_main")
      BY <1>2 DEF Process
    <3>5. "wait_main" \in PcStates /\ "wait_main" \notin CommitPc
      BY DEF PcStates, RemovePc, CommitPc
    <3>6. c.doc \in Doc
      BY <3>1, <3>3
    <3>7. QED
      BY <3>3, <3>4, <3>5, <3>6, CarryFacts
  <2>2. /\ FileType' /\ TextType' /\ StagedType'
        /\ CountType' /\ LockType' /\ BoundType'
    BY <1>2
       DEF Process, Typed, FileType, TextType, StagedType, CountType,
           LockType, BoundType, CarryInv, CarryAt
  <2>3. QED
    BY <2>1, <2>2 DEF Typed
<1>3. CASE FinishLost(w)
  <2>1. PcType' /\ JobType' /\ CarryInv' /\ LockType'
    BY <1>3, LeaveFacts DEF FinishLost
  <2>2. FileType' /\ TextType' /\ StagedType' /\ CountType' /\ BoundType'
    BY <1>3
       DEF FinishLost, Typed, FileType, TextType, StagedType, CountType,
           BoundType, CarryInv, CarryAt
  <2>3. QED
    BY <2>1, <2>2 DEF Typed
<1>4. CASE SweepLock(w)
  <2>1. PcType' /\ JobType' /\ CarryInv'
    BY <1>4, GotoFacts
       DEF SweepLock, PcStates, CommitPc, FailPc, RemovePc, Outcome, CarryInv,
           CarryAt
  <2>2. /\ FileType' /\ TextType' /\ StagedType'
        /\ CountType' /\ LockType' /\ BoundType'
    BY <1>4
       DEF SweepLock, Typed, FileType, TextType, StagedType, CountType,
           LockType, BoundType, CarryInv, CarryAt
  <2>3. QED
    BY <2>1, <2>2 DEF Typed
<1>5. CASE SweepContended(w)
  <2>1. PcType' /\ JobType' /\ CarryInv' /\ LockType'
    BY <1>5, LeaveFacts DEF SweepContended
  <2>2. FileType' /\ TextType' /\ StagedType' /\ CountType' /\ BoundType'
    BY <1>5
       DEF SweepContended, Typed, FileType, TextType, StagedType, CountType,
           BoundType, CarryInv, CarryAt
  <2>3. QED
    BY <2>1, <2>2 DEF Typed
<1>6. CASE ResumeGone(w)
  <2>1. PcType' /\ JobType' /\ CarryInv' /\ LockType'
    BY <1>6, LeaveFacts DEF ResumeGone
  <2>2. FileType' /\ TextType' /\ StagedType' /\ CountType' /\ BoundType'
    BY <1>6
       DEF ResumeGone, Typed, FileType, TextType, StagedType, CountType,
           BoundType, CarryInv, CarryAt
  <2>3. QED
    BY <2>1, <2>2 DEF Typed
<1>7. CASE ResumeDeclined(w)
  <2>1. PcType' /\ JobType' /\ CarryInv' /\ LockType'
    BY <1>7, ReturnFacts DEF ResumeDeclined, Typed, LockType, Unlocked
  <2>2. FileType' /\ TextType' /\ StagedType' /\ CountType' /\ BoundType'
    BY <1>7
       DEF ResumeDeclined, Typed, FileType, TextType, StagedType, CountType,
           BoundType, CarryInv, CarryAt
  <2>3. QED
    BY <2>1, <2>2 DEF Typed
<1>8. CASE Resume(w)
  <2>1. PcType' /\ JobType' /\ CarryInv'
    <3>1. job[w].doc \in Doc /\ OnDisk(job[w].doc) \in Manifest
      BY <1>8, OnDiskType DEF Resume, Typed, CarryInv, CarryAt
    <3>2. CASE OnDisk(job[w].doc).assessed = "none"
      BY <1>8, <3>2, GotoFacts DEF Resume, PcStates, CommitPc, FailPc
    <3>3. CASE OnDisk(job[w].doc).assessed # "none"
      <4>1. PICK o \in Outcome : job' = [job EXCEPT ![w] = [job[w] EXCEPT !.disp = o]]
        BY <1>8, <3>1, <3>3 DEF Resume, Manifest
      <4>2. PICK c \in CallRecord :
              /\ c.doc = job[w].doc /\ c.disp \in Outcome
              /\ job' = [job EXCEPT ![w] = c]
        <5>1. /\ [job[w] EXCEPT !.disp = o] \in CallRecord
              /\ [job[w] EXCEPT !.disp = o].doc = job[w].doc
              /\ [job[w] EXCEPT !.disp = o].disp \in Outcome
          BY DEF Typed, JobType, CallRecord
        <5>2. QED
          BY <4>1, <5>1
      <4>3. Goto(w, "wait_main")
        BY <1>8, <3>3 DEF Resume
      <4>4. "wait_main" \in PcStates /\ "wait_main" \notin CommitPc
        BY DEF PcStates, CommitPc
      <4>5. c.doc \in Doc
        BY <3>1, <4>2
      <4>6. QED
        BY <4>2, <4>3, <4>4, <4>5, CarryFacts
    <3>4. QED
      BY <3>2, <3>3
  <2>2. /\ FileType' /\ TextType' /\ StagedType'
        /\ CountType' /\ LockType' /\ BoundType'
    BY <1>8
       DEF Resume, Typed, FileType, TextType, StagedType, CountType, LockType,
           BoundType, CarryInv, CarryAt, Status
  <2>3. QED
    BY <2>1, <2>2 DEF Typed
<1>9. QED
  BY <1>1, <1>2, <1>3, <1>4, <1>5, <1>6, <1>7, <1>8 DEF Continue

\* The steps of a retry, a resolve and a purge.
LEMMA OperateTyped ==
  ASSUME Typed, CarryInv, NEW w \in Worker, Operate(w)
  PROVE  Typed' /\ CarryInv'
<1> USE DEF At, D, disk, record, lock, bound, Committing
<1>1. CASE RetryConfirm(w)
  <2>1. PcType' /\ JobType' /\ CarryInv' /\ StagedType' /\ CountType'
    <3>1. job[w].doc \in Doc /\ OnDisk(job[w].doc) \in Manifest
      BY <1>1, OnDiskType DEF RetryConfirm, Typed, CarryInv, CarryAt
    <3>2. CountType'
      <4>1. confirmed' \in [Doc -> Nat]
        <5>1. confirmed[job[w].doc] + 1 \in Nat
          BY <3>1 DEF Typed, CountType
        <5>2. QED
          BY <1>1, <5>1 DEF RetryConfirm, Typed, CountType
      <4>2. QED
        BY <1>1, <4>1 DEF RetryConfirm, Typed, CountType
    <3>3. CASE Uncertain(OnDisk(job[w].doc))
      <4>1. PICK m \in Manifest : WriteManifest(w, m)
        <5>1. [OnDisk(job[w].doc) EXCEPT !.steps = @ \ {"emit_started"}] \in Manifest
          BY <3>1 DEF Manifest
        <5>2. QED
          BY <1>1, <3>3, <5>1 DEF RetryConfirm
      <4>2. QED
        BY <1>1, <3>2, <4>1, CheckpointFacts
           DEF RetryConfirm, PcStates, CommitPc, FailPc
    <3>4. CASE ~Uncertain(OnDisk(job[w].doc))
      BY <1>1, <3>2, <3>4, GotoFacts
         DEF RetryConfirm, Typed, StagedType, PcStates, CommitPc, FailPc
    <3>5. QED
      BY <3>3, <3>4
  <2>2. FileType' /\ TextType' /\ LockType' /\ BoundType'
    BY <1>1
       DEF RetryConfirm, Typed, FileType, TextType, LockType, BoundType,
           CarryInv, CarryAt
  <2>3. QED
    BY <2>1, <2>2 DEF Typed
<1>2. CASE RetryUnresolve(w)
  <2>1. PcType' /\ JobType' /\ CarryInv'
    BY <1>2, GotoFacts
       DEF RetryUnresolve, PcStates, CommitPc, FailPc, RemovePc, Outcome,
           CarryInv, CarryAt
  <2>2. /\ FileType' /\ TextType' /\ StagedType'
        /\ CountType' /\ LockType' /\ BoundType'
    BY <1>2
       DEF RetryUnresolve, Typed, FileType, TextType, StagedType, CountType,
           LockType, BoundType, CarryInv, CarryAt, Emptied, Staging
  <2>3. QED
    BY <2>1, <2>2 DEF Typed
<1>3. CASE RetryCheck(w)
  <2>1. PcType' /\ JobType' /\ CarryInv' /\ LockType'
    BY <1>3, LeaveFacts DEF RetryCheck
  <2>2. FileType' /\ TextType' /\ StagedType' /\ CountType' /\ BoundType'
    BY <1>3
       DEF RetryCheck, Typed, FileType, TextType, StagedType, CountType,
           BoundType, CarryInv, CarryAt
  <2>3. QED
    BY <2>1, <2>2 DEF Typed
<1>4. CASE RetryDone(w)
  <2>1. PcType' /\ JobType' /\ CarryInv' /\ LockType'
    BY <1>4, LeaveFacts DEF RetryDone
  <2>2. FileType' /\ TextType' /\ StagedType' /\ CountType' /\ BoundType'
    BY <1>4
       DEF RetryDone, Typed, FileType, TextType, StagedType, CountType,
           BoundType, CarryInv, CarryAt
  <2>3. QED
    BY <2>1, <2>2 DEF Typed
<1>5. CASE Resolve(w)
  <2>1. PcType' /\ JobType' /\ CarryInv' /\ LockType' /\ FileType' /\ StagedType'
    <3>1. PcType' /\ JobType' /\ CarryInv' /\ LockType'
      BY <1>5, LeaveFacts DEF Resolve
    <3>2. job[w].doc \in Doc
      BY <1>5 DEF Resolve, CarryInv, CarryAt
    <3>3. ASSUME job[w].op = "resolve_staged" PROVE FileType' /\ StagedType'
      BY <1>5, <3>2, <3>3
         DEF Resolve, Typed, FileType, StagedType, Filled, Staging, Entry
    <3>4. ASSUME job[w].op # "resolve_staged" PROVE FileType' /\ StagedType'
      <4>1. failed' \in [Doc -> SUBSET {"dir", "pdf", "meta", "res"}]
        BY <1>5, <3>2, <3>4 DEF Resolve, Typed, FileType
      <4>2. QED
        BY <1>5, <3>4, <4>1 DEF Resolve, Typed, FileType, StagedType
    <3>5. QED
      BY <3>1, <3>3, <3>4
  <2>2. TextType' /\ CountType' /\ BoundType'
    BY <1>5
       DEF Resolve, Typed, TextType, CountType, BoundType, CarryInv, CarryAt
  <2>3. QED
    BY <2>1, <2>2 DEF Typed
<1>6. CASE PurgeText(w)
  <2>1. PcType' /\ JobType' /\ CarryInv'
    BY <1>6, GotoFacts
       DEF PurgeText, PcStates, CommitPc, FailPc, RemovePc, Outcome, CarryInv,
           CarryAt
  <2>2. /\ FileType' /\ TextType' /\ StagedType'
        /\ CountType' /\ LockType' /\ BoundType'
    BY <1>6
       DEF PurgeText, Typed, FileType, TextType, StagedType, CountType,
           LockType, BoundType, CarryInv, CarryAt
  <2>3. QED
    BY <2>1, <2>2 DEF Typed
<1>7. CASE PurgePdf(w)
  <2>1. PcType' /\ JobType' /\ CarryInv'
    BY <1>7, GotoFacts
       DEF PurgePdf, PcStates, CommitPc, FailPc, RemovePc, Outcome, CarryInv,
           CarryAt
  <2>2. /\ FileType' /\ TextType' /\ StagedType'
        /\ CountType' /\ LockType' /\ BoundType'
    BY <1>7
       DEF PurgePdf, Typed, FileType, TextType, StagedType, CountType,
           LockType, BoundType, CarryInv, CarryAt
  <2>3. QED
    BY <2>1, <2>2 DEF Typed
<1>8. CASE PurgeEnd(w)
  <2>1. PcType' /\ JobType' /\ CarryInv' /\ LockType'
    BY <1>8, LeaveFacts DEF PurgeEnd
  <2>2. FileType' /\ TextType' /\ StagedType' /\ CountType' /\ BoundType'
    BY <1>8
       DEF PurgeEnd, Typed, FileType, TextType, StagedType, CountType,
           BoundType, CarryInv, CarryAt
  <2>3. QED
    BY <2>1, <2>2 DEF Typed
<1>9. QED
  BY <1>1, <1>2, <1>3, <1>4, <1>5, <1>6, <1>7, <1>8 DEF Operate

\* What a call that draws a receipt starts with.
LEMMA BeginFacts ==
  ASSUME Typed, NEW w \in Worker, NEW op \in CallOp, NEW d \in Doc,
         NEW f \in File \cup {NoFile}, NEW o \in Outcome \cup {"none"},
         Begin(w, op, d, f, o)
  PROVE  \E r \in Receipt, c \in CallRecord :
           /\ receipt[r] = "unused"
           /\ receipt' = [receipt EXCEPT ![r] = "issued"]
           /\ c.op = op /\ c.doc = d /\ c.disp = o
           /\ c.man = Opened(r)
           /\ job' = [job EXCEPT ![w] = c]
<1> DEFINE r == CHOOSE x \in Receipt : receipt[x] = "unused"
           c == CallWith(op, d, f, r, o)
<1>1. /\ receipt' = [receipt EXCEPT ![r] = "issued"]
      /\ job' = [job EXCEPT ![w] = c]
  BY DEF Begin
<1>2. r \in Receipt /\ receipt[r] = "unused"
  BY DEF Begin
<1> HIDE DEF r
<1>3. /\ c \in CallRecord
      /\ c.op = op /\ c.doc = d /\ c.disp = o /\ c.man = Opened(r)
  BY <1>2 DEF CallWith, CallRecord, Opened, Manifest
<1> HIDE DEF c
<1>4. QED
  BY <1>1, <1>2, <1>3

\* A step that leaves the disk, the records and the counters alone.
LEMMA QuietTyped ==
  ASSUME Typed, UNCHANGED <<disk, record>>
  PROVE  FileType' /\ TextType' /\ StagedType' /\ CountType'
BY DEF Typed, FileType, TextType, StagedType, CountType, disk, record

\* The start of a call of any kind.
LEMMA CallTyped ==
  ASSUME Typed, CarryInv, NEW w \in Worker, Call(w)
  PROVE  Typed' /\ CarryInv'
<1> USE DEF At, D
<1>1. ASSUME NEW f \in File, StartRun(w, f) \/ StartStage(w, f)
      PROVE  Typed' /\ CarryInv'
  <2>1. DocOf[f] \in Doc /\ index[DocOf[f]] \in Outcome \cup {"none"}
    BY DEF Typed, FileType, Outcome
  <2>2. PICK op \in CallOp, o \in Outcome \cup {"none"} : Begin(w, op, DocOf[f], f, o)
    BY <1>1, <2>1 DEF StartRun, StartStage, CallOp
  <2>3. PICK r \in Receipt, c \in CallRecord :
          /\ receipt' = [receipt EXCEPT ![r] = "issued"]
          /\ c.doc = DocOf[f] /\ job' = [job EXCEPT ![w] = c]
    BY <2>1, <2>2, BeginFacts
  <2>4. PICK label \in {"claim", "dup"} : Goto(w, label)
    BY <1>1 DEF StartRun, StartStage
  <2>5. label \in PcStates /\ label \notin CommitPc \cup FailPc
    BY DEF PcStates, CommitPc, FailPc
  <2>6. PcType' /\ JobType' /\ CarryInv'
    BY <2>1, <2>3, <2>4, <2>5, CarryFacts
  <2>7. /\ FileType' /\ TextType' /\ StagedType'
        /\ CountType' /\ LockType' /\ BoundType'
    BY <1>1, <2>3
       DEF StartRun, StartStage, Typed, FileType, TextType, StagedType,
           CountType, LockType, BoundType, disk, lock, bound, Status
  <2>8. QED
    BY <2>6, <2>7 DEF Typed
<1>2. ASSUME NEW d \in Doc, StartSweep(w, d)
      PROVE  Typed' /\ CarryInv'
  <2>1. /\ NewCall("sweep", d, NoFile) \in CallRecord
        /\ NewCall("sweep", d, NoFile).doc = d
    BY ConstantTypes DEF CallOp
  <2>2. /\ "sweep_lock" \in PcStates
        /\ "sweep_lock" \notin CommitPc \cup FailPc
    BY DEF PcStates, CommitPc, FailPc
  <2>3. PcType' /\ JobType' /\ CarryInv'
    BY <1>2, <2>1, <2>2, CarryFacts DEF StartSweep
  <2>4. LockType' /\ BoundType'
    BY <1>2 DEF StartSweep, Typed, LockType, BoundType, lock, bound
  <2>5. QED
    BY <1>2, <2>3, <2>4, QuietTyped DEF StartSweep, Typed
<1>3. ASSUME NEW d \in Doc, StartRetryStaged(w, d)
      PROVE  Typed' /\ CarryInv'
  <2>1. /\ NewCall("retry_staged", d, NoFile) \in CallRecord
        /\ NewCall("retry_staged", d, NoFile).doc = d
    BY ConstantTypes DEF CallOp
  <2>2. /\ "retry_confirm" \in PcStates
        /\ "retry_confirm" \notin CommitPc \cup FailPc
    BY DEF PcStates, CommitPc, FailPc
  <2>3. PcType' /\ JobType' /\ CarryInv'
    BY <1>3, <2>1, <2>2, CarryFacts DEF StartRetryStaged
  <2>4. LockType' /\ BoundType'
    BY <1>3 DEF StartRetryStaged, Typed, LockType, BoundType
  <2>5. QED
    BY <1>3, <2>3, <2>4, QuietTyped DEF StartRetryStaged, Typed
<1>4. ASSUME NEW d \in Doc, StartRetryFailed(w, d)
      PROVE  Typed' /\ CarryInv'
  <2>1. index[d] \in Outcome \cup {"none"} /\ "retry_failed" \in CallOp
    BY DEF Typed, FileType, Outcome, CallOp
  <2>2. PICK r \in Receipt, c \in CallRecord :
          /\ receipt' = [receipt EXCEPT ![r] = "issued"]
          /\ c.doc = d /\ job' = [job EXCEPT ![w] = c]
    <3>1. Begin(w, "retry_failed", d, NoFile, index[d])
      BY <1>4 DEF StartRetryFailed
    <3>2. QED
      BY <2>1, <3>1, BeginFacts
  <2>3. PICK label \in {"claim", "dup"} : Goto(w, label)
    BY <1>4 DEF StartRetryFailed
  <2>4. label \in PcStates /\ label \notin CommitPc \cup FailPc
    BY DEF PcStates, CommitPc, FailPc
  <2>5. PcType' /\ JobType' /\ CarryInv'
    BY <2>2, <2>3, <2>4, CarryFacts
  <2>6. /\ FileType' /\ TextType' /\ StagedType'
        /\ CountType' /\ LockType' /\ BoundType'
    <3>1. calls' \in 0..MaxCall
      BY <1>4 DEF StartRetryFailed, Typed, BoundType
    <3>2. QED
      BY <1>4, <2>2, <3>1
         DEF StartRetryFailed, Typed, FileType, TextType, StagedType,
             CountType, LockType, BoundType, disk, Status
  <2>7. QED
    BY <2>5, <2>6 DEF Typed
<1>5. ASSUME NEW d \in Doc, NEW op \in {"resolve_staged", "resolve_failed"},
             StartResolve(w, d, op)
      PROVE  Typed' /\ CarryInv'
  <2>1. NewCall(op, d, NoFile) \in CallRecord /\ NewCall(op, d, NoFile).doc = d
    BY ConstantTypes DEF CallOp
  <2>2. "resolve" \in PcStates /\ "resolve" \notin CommitPc \cup FailPc
    BY DEF PcStates, CommitPc, FailPc
  <2>3. PcType' /\ JobType' /\ CarryInv'
    BY <1>5, <2>1, <2>2, CarryFacts DEF StartResolve
  <2>4. LockType' /\ BoundType'
    BY <1>5 DEF StartResolve, Typed, LockType, BoundType
  <2>5. QED
    BY <1>5, <2>3, <2>4, QuietTyped DEF StartResolve, Typed
<1>6. ASSUME NEW d \in Doc, NEW op \in {"purge", "hard_purge"},
             StartPurge(w, d, op)
      PROVE  Typed' /\ CarryInv'
  <2>1. NewCall(op, d, NoFile) \in CallRecord /\ NewCall(op, d, NoFile).doc = d
    BY ConstantTypes DEF CallOp
  <2>2. "purge_text" \in PcStates /\ "purge_text" \notin CommitPc \cup FailPc
    BY DEF PcStates, CommitPc, FailPc
  <2>3. PcType' /\ JobType' /\ CarryInv'
    BY <1>6, <2>1, <2>2, CarryFacts DEF StartPurge
  <2>4. LockType' /\ BoundType'
    BY <1>6 DEF StartPurge, Typed, LockType, BoundType
  <2>5. QED
    BY <1>6, <2>3, <2>4, QuietTyped DEF StartPurge, Typed
<1>7. QED
  BY <1>1, <1>2, <1>3, <1>4, <1>5, <1>6 DEF Call

\* The ends a call does not choose.
LEMMA EndTyped ==
  ASSUME Typed, CarryInv, NEW w \in Worker, DeliverFails(w) \/ Crash(w)
  PROVE  Typed' /\ CarryInv'
<1>1. Leave(w)
  BY DEF DeliverFails, Crash
<1>2. LockType' /\ PcType' /\ JobType' /\ CarryInv'
  BY <1>1, LeaveFacts
<1>3. CASE DeliverFails(w)
  <2>1. delivered[job[w].doc] + 1 \in Nat
    BY <1>3 DEF DeliverFails, At, CarryInv, CarryAt, Typed, CountType
  <2>2. delivered' \in [Doc -> Nat]
    BY <1>3, <2>1 DEF DeliverFails, D, Typed, CountType
  <2>3. FileType' /\ TextType' /\ StagedType' /\ CountType' /\ BoundType'
    BY <1>3, <2>2
       DEF DeliverFails, Typed, FileType, TextType, StagedType, CountType,
           BoundType, disk, bound
  <2>4. QED
    BY <1>2, <2>3 DEF Typed
<1>4. CASE Crash(w)
  <2>1. BoundType'
    BY <1>4 DEF Crash, Typed, BoundType
  <2>2. QED
    BY <1>2, <1>4, <2>1, QuietTyped DEF Crash, Typed
<1>5. QED
  BY <1>3, <1>4

LEMMA InitTyped == Init => Typed /\ CarryInv
<1> SUFFICES ASSUME Init PROVE Typed /\ CarryInv
  OBVIOUS
<1>1. TextType
  BY Zenon DEF Init, TextType
<1>2. trail \in [Doc -> Seq([rcpt : Receipt \cup {NoReceipt}, disp : Filing])]
  BY EmptySeq DEF Init
<1>3. FileType /\ CountType /\ LockType /\ BoundType
  BY <1>2 DEF Init, FileType, CountType, LockType, BoundType, Status
<1>4. StagedType /\ JobType /\ PcType
  BY ConstantTypes DEF Init, StagedType, Staging, JobType, PcType, PcStates
<1>5. CarryInv
  BY DEF Init, CarryInv, CarryAt, CommitPc, FailPc
<1>6. QED
  BY <1>1, <1>3, <1>4, <1>5 DEF Typed

\* The whole next-state relation.
LEMMA NextTyped ==
  ASSUME Typed, CarryInv, [Next]_vars
  PROVE  Typed' /\ CarryInv'
<1>1. ASSUME NEW w \in Worker, Call(w) \/ Work(w) \/ DeliverFails(w) \/ Crash(w)
      PROVE  Typed' /\ CarryInv'
  BY <1>1, CallTyped, ClaimTyped, CommitTyped, ContinueTyped, OperateTyped,
     EndTyped DEF Work
<1>2. CASE UNCHANGED vars
  <2>1. CarryInv'
    BY <1>2 DEF vars, control, CarryInv, CarryAt
  <2>2. LockType' /\ PcType' /\ JobType' /\ BoundType'
    BY <1>2 DEF vars, lock, control, bound, Typed, LockType, PcType, JobType,
                BoundType
  <2>3. QED
    BY <1>2, <2>1, <2>2, QuietTyped DEF vars, Typed
<1>3. QED
  BY <1>1, <1>2 DEF Next, Quiescent

\* Every variable has its type in every reachable state: no step of a call, of
\* an operator, of a sweep or of a crash at any of them writes a manifest, a
\* receipt, a lock or an index row that is not one, or continues with a verdict
\* it does not have.
THEOREM TypeCorrect == Spec => []TypeOK
<1>1. Init => Typed /\ CarryInv
  BY InitTyped
<1>2. Typed /\ CarryInv /\ [Next]_vars => (Typed /\ CarryInv)'
  BY NextTyped
<1>3. Typed /\ CarryInv => TypeOK
  BY TypedIsTypeOK
<1>4. QED
  BY <1>1, <1>2, <1>3, PTL DEF Spec

=============================================================================
