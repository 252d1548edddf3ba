--------------------------- MODULE ReassessProofs ---------------------------
(***************************************************************************)
(* Reassess for any number of workers, assessments, purges and faults: its *)
(* types, that only a release takes a PDF out of quarantine, that a purge  *)
(* is final, that the index loses and changes no assessment, that each     *)
(* assessment is audited, once, and that the PDF is where the current one  *)
(* says.  One invariant stands behind each; the last three rest on those   *)
(* before them.                                                            *)
(***************************************************************************)
EXTENDS Reassess, FiniteSetTheorems, TLAPS

\* A set of numbers has a least one; a bounded one has a greatest.
LEMMA Least ==
  ASSUME NEW S \in SUBSET Nat, S # {}
  PROVE  \E x \in S : \A y \in S : x <= y
<1> DEFINE UpTo(x) == S \cap (0..x)
           Family == {UpTo(x) : x \in S}
<1>1. \A x \in S : IsFiniteSet(UpTo(x))
  <2>1. \A x \in S : IsFiniteSet(0..x) BY FS_Interval
  <2> QED BY <2>1, FS_Subset
<1>2. Family \subseteq FiniteSubsetsOf(Nat) /\ Family # {}
  BY <1>1 DEF FiniteSubsetsOf
<1>3. PICK U \in Family : \A V \in Family : ~ (<<V, U>> \in StrictSubsetOrdering(Nat))
  BY <1>2, FS_StrictSubsetOrderingWellFounded, WFMin
<1>4. PICK x \in S : U = UpTo(x)
  OBVIOUS
<1>5. ASSUME NEW y \in S, y < x PROVE FALSE
  <2>1. UpTo(y) \subseteq UpTo(x) /\ x \in UpTo(x) /\ x \notin UpTo(y)
    BY <1>5
  <2>2. UpTo(y) \in SUBSET Nat /\ UpTo(x) \in SUBSET Nat
    OBVIOUS
  <2>3. <<UpTo(y), UpTo(x)>> \in StrictSubsetOrdering(Nat)
    BY <2>1, <2>2 DEF StrictSubsetOrdering
  <2> QED BY <2>3, <1>3, <1>4
<1> QED BY <1>5

LEMMA Greatest ==
  ASSUME NEW m \in Nat, NEW S \in SUBSET (1..m), S # {}
  PROVE  \E x \in S : \A y \in S : y <= x
<1> DEFINE Below == {m - x : x \in S}
<1>1. PICK b \in Below : \A c \in Below : b <= c
  <2>1. \A x \in S : m - x \in Nat
    OBVIOUS
  <2>2. Below \in SUBSET Nat /\ Below # {}
    BY <2>1
  <2> HIDE DEF Below
  <2> QED BY <2>2, Least
<1>2. PICK x \in S : b = m - x OBVIOUS
<1>3. \A y \in S : m - x <= m - y BY <1>1, <1>2
<1> QED BY <1>3

-----------------------------------------------------------------------------
(* Types.                                                                   *)

USE ParameterAssumption DEF ParameterAssumption

JobType == [prior : Row \cup {NoRow}, text : NoText..purges, then : {"idle", "scope"},
            recovering : BOOLEAN, place : Place, listed : 0..purges,
            files : SUBSET Row, hard : BOOLEAN]
Transition == [from : Place, row : Row, text : NoText..purges, event : Kinds]

Typed == /\ TypeOK
         /\ trans = NoTransition \/ trans \in Transition
         /\ job \in [Worker -> JobType]

LEMMA CurrentIsGreatest ==
  ASSUME rows \in SUBSET Row, rows # {}
  PROVE  Current \in rows /\ \A s \in rows : s.seq <= Current.seq
<1> DEFINE numbers == {r.seq : r \in rows}
<1>1. numbers \in SUBSET (1..MaxSeq) /\ numbers # {}
  BY DEF Row, Seqs
<1>2. PICK n \in numbers : \A k \in numbers : k <= n
  <2> HIDE DEF numbers
  <2>1. QED BY <1>1, Greatest
<1>3. \E r \in rows : \A s \in rows : s.seq <= r.seq
  BY <1>2
<1>4. QED
  BY <1>3 DEF Current

LEMMA CurrentType ==
  ASSUME rows \in SUBSET Row
  PROVE  Current \in Row \cup {NoRow} /\ (rows # {} => Current \in Row)
BY CurrentIsGreatest DEF Current

LEMMA JobKept ==
  ASSUME Typed, NEW w \in Worker
  PROVE  /\ NoJob \in JobType
         /\ \A v \in JobType : [job EXCEPT ![w] = v] \in [Worker -> JobType]
         /\ job[w] \in JobType
BY DEF Typed, TypeOK, JobType, NoJob, NoRow, Row, Place, NoText

\* What a worker remembers stays in its bounds when another purge begins.
LEMMA JobGrows ==
  ASSUME Typed, purges' \in purges..MaxPurges
  PROVE  [Worker -> JobType] \subseteq [Worker -> JobType']
<1>1. NoText..purges \subseteq NoText..purges' /\ 0..purges \subseteq 0..purges'
  BY DEF Typed, TypeOK, NoText
<1>2. JobType \subseteq JobType'
  BY <1>1 DEF JobType
<1>3. QED
  BY <1>2

LEMMA JobFields ==
  ASSUME Typed, NEW w \in Worker
  PROVE  /\ \A n \in NoText..purges : [job[w] EXCEPT !.text = n] \in JobType
         /\ \A b \in BOOLEAN : [job[w] EXCEPT !.hard = b] \in JobType
         /\ \A p \in Place : [job[w] EXCEPT !.place = p] \in JobType
         /\ \A p \in Place, n \in 0..purges :
              [job EXCEPT ![w].place = p, ![w].listed = n] \in [Worker -> JobType]
         /\ \A p \in Place, n \in NoText..purges :
              [job EXCEPT ![w].place = p, ![w].text = n] \in [Worker -> JobType]
         /\ \A s \in SUBSET Row : [job[w] EXCEPT !.files = s] \in JobType
<1>1. job[w] \in JobType /\ job \in [Worker -> JobType]
  BY DEF Typed
<1>2. \A n \in NoText..purges : [job[w] EXCEPT !.text = n] \in JobType
  BY <1>1 DEF JobType
<1>3. \A b \in BOOLEAN : [job[w] EXCEPT !.hard = b] \in JobType
  BY <1>1 DEF JobType
<1>4. \A p \in Place : [job[w] EXCEPT !.place = p] \in JobType
  BY <1>1 DEF JobType
<1>5. ASSUME NEW p \in Place, NEW n \in 0..purges
      PROVE  [job EXCEPT ![w].place = p, ![w].listed = n] \in [Worker -> JobType]
  BY <1>1 DEF JobType
<1>6. \A s \in SUBSET Row : [job[w] EXCEPT !.files = s] \in JobType
  BY <1>1 DEF JobType
<1>7. ASSUME NEW p \in Place, NEW n \in NoText..purges
      PROVE  [job EXCEPT ![w].place = p, ![w].text = n] \in [Worker -> JobType]
  BY <1>1 DEF JobType
<1>8. QED
  BY <1>2, <1>3, <1>4, <1>5, <1>6, <1>7

\* Who has the lock is who stands where it is held.
LEMMA LockKept ==
  ASSUME Typed, NEW w \in Worker, NEW place \in Unlocked \cup Locked, Goto(w, place),
         \/ lock' = lock /\ (place \in Locked <=> pc[w] \in Locked)
         \/ TakeLock(w) /\ place \in Locked
         \/ FreeLock(w) /\ place \in Unlocked
  PROVE  /\ pc' \in [Worker -> Unlocked \cup Locked]
         /\ lock' \in Worker \cup {NoWorker}
         /\ \A v \in Worker : (pc'[v] \in Locked) <=> (lock' = v)
<1>1. Unlocked \cap Locked = {}
  BY DEF Unlocked, Locked
<1>2. QED
  BY <1>1 DEF Typed, TypeOK, Goto, TakeLock, FreeLock

Applying == {"move", "unlink_source", "text", "row", "event", "finish"}

\* What an action has to leave in order beside the control of its worker.
StoresTyped ==
  /\ rows' \subseteq Row
  /\ pdf' \subseteq Place
  /\ purges' \in purges..MaxPurges
  /\ text' \in NoText..purges'
  /\ trans' = NoTransition \/ trans' \in Transition'
  /\ events' \in [Kinds -> [Seqs -> 0..2]]
HistoryTyped ==
  /\ faults' \in 0..MaxFaults /\ dropped' \subseteq Seqs
  /\ {halted', raced', overtaken'} \subseteq BOOLEAN

LEMMA StoresKept ==
  ASSUME Typed
  PROVE  UNCHANGED stores => StoresTyped
BY DEF Typed, TypeOK, StoresTyped, stores, Transition

LEMMA HistoryStays ==
  ASSUME Typed
  PROVE  UNCHANGED history => HistoryTyped
BY DEF Typed, TypeOK, HistoryTyped, history

LEMMA TypedAfter ==
  ASSUME Typed, NEW w \in Worker, NEW place \in Unlocked \cup Locked, Goto(w, place),
         \/ lock' = lock /\ (place \in Locked <=> pc[w] \in Locked)
         \/ TakeLock(w) /\ place \in Locked
         \/ FreeLock(w) /\ place \in Unlocked,
         job' \in [Worker -> JobType], StoresTyped, HistoryTyped,
         place \in Applying => trans' # NoTransition,
         trans' = trans \/ lock = w \/ lock' = w
  PROVE  Typed'
<1>1. /\ pc' \in [Worker -> Unlocked \cup Locked]
      /\ lock' \in Worker \cup {NoWorker}
      /\ \A v \in Worker : (pc'[v] \in Locked) <=> (lock' = v)
  BY LockKept
<1>2. \A v \in Worker : pc'[v] \in Applying => trans' # NoTransition
  <2>1. SUFFICES ASSUME NEW v \in Worker, v # w, pc'[v] \in Applying
                 PROVE  trans' # NoTransition
    BY DEF Goto, Typed, TypeOK
  <2>2. pc'[v] = pc[v] /\ lock = v /\ lock' = v
    BY <1>1, <2>1 DEF Goto, Typed, TypeOK, Applying, Locked
  <2>3. trans' = trans
    BY <2>1, <2>2
  <2>4. QED
    BY <2>1, <2>2, <2>3 DEF Typed, TypeOK, Applying
<1>3. /\ trans'.from \in Place /\ trans'.row \in Row \cup {NoRow}
      /\ trans'.text \in NoText..purges'
      /\ trans' = NoTransition \/ trans'.event \in Kinds
  BY DEF StoresTyped, Transition, NoTransition, NoText, Place, Typed, TypeOK
<1>4. TypeOK'
  BY <1>1, <1>2, <1>3 DEF TypeOK, StoresTyped, HistoryTyped, Applying, Typed
<1>5. job' \in [Worker -> JobType']
  BY JobGrows DEF StoresTyped
<1>6. QED
  BY <1>4, <1>5 DEF Typed, StoresTyped

\* A step between two places without the lock, with nothing but the worker's
\* memory changed.
LEMMA TypedOutside ==
  ASSUME Typed, NEW w \in Worker, NEW place \in Unlocked, pc[w] \in Unlocked,
         Goto(w, place), UNCHANGED <<stores, lock, history>>, job' \in [Worker -> JobType]
  PROVE  Typed'
<1>1. Unlocked \cap Locked = {} /\ Applying \subseteq Locked
  BY DEF Unlocked, Locked, Applying
<1>2. QED
  BY <1>1, StoresKept, HistoryStays, TypedAfter DEF stores

\* Words that were read at most as late as now are put into the store.
LEMMA StoreTyped ==
  ASSUME Typed, NEW words \in NoText..purges, Store(words),
         UNCHANGED <<rows, pdf, trans, events, purges, faults, dropped, halted, raced>>
  PROVE  StoresTyped /\ HistoryTyped
<1>1. StoresTyped
  BY DEF Store, StoresTyped, Typed, TypeOK, Transition
<1>2. HistoryTyped
  BY DEF Store, Overtakes, HistoryTyped, Typed, TypeOK
<1>3. QED
  BY <1>1, <1>2

-----------------------------------------------------------------------------
(* Every step keeps the types.                                              *)

LEMMA RecoverTyped ==
  ASSUME Typed, NEW w \in Worker, NEW then \in {"idle", "scope"}, Recover(w, then)
  PROVE  Typed'
<1>1. CASE trans = NoTransition
  BY <1>1, TypedOutside DEF Recover, Unlocked, Typed
<1>2. CASE trans # NoTransition
  <2>1. job' \in [Worker -> JobType]
    BY <1>2 DEF Recover, Typed, JobType
  <2>2. Goto(w, "move") /\ TakeLock(w) /\ "move" \in Locked /\ UNCHANGED <<stores, history>>
    BY <1>2 DEF Recover, Locked
  <2>3. QED
    BY <1>2, <2>1, <2>2, StoresKept, HistoryStays, TypedAfter DEF stores
<1>3. QED
  BY <1>1, <1>2

LEMMA EvaluationTyped ==
  ASSUME Typed, NEW w \in Worker,
         Scope(w) \/ NoVerdict(w) \/ \E extract \in BOOLEAN : Evaluate(w, extract)
  PROVE  Typed'
<1>1. CASE Scope(w)
  <2>1. job' \in [Worker -> JobType]
    BY SMTT(30), <1>1, JobKept, CurrentType DEF Scope, Done, Typed, TypeOK, JobType
  <2>2. \E place \in {"idle", "evaluate"} : Goto(w, place)
    BY <1>1 DEF Scope, Done, Goto
  <2>3. QED
    BY <1>1, <2>1, <2>2, TypedOutside DEF Scope, Unlocked
<1>2. CASE NoVerdict(w)
  BY <1>2, JobKept, TypedOutside DEF NoVerdict, Done, Goto, Unlocked
<1>3. CASE \E extract \in BOOLEAN : Evaluate(w, extract)
  <2>1. PICK extract \in BOOLEAN : Evaluate(w, extract)
    BY <1>3
  <2>2. job' \in [Worker -> JobType]
    <3>1. (IF extract THEN purges ELSE NoText) \in NoText..purges
      BY DEF Typed, TypeOK, NoText
    <3>2. QED
      BY <2>1, <3>1, JobKept, JobFields DEF Evaluate
  <2>3. \E place \in {"write", "refresh"} : Goto(w, place)
    BY <2>1 DEF Evaluate
  <2>4. QED
    BY <2>1, <2>2, <2>3, TypedOutside DEF Evaluate, Unlocked
<1>4. QED
  BY <1>1, <1>2, <1>3

LEMMA RefreshTyped ==
  ASSUME Typed, NEW w \in Worker, Refresh(w)
  PROVE  Typed'
<1>1. StoresTyped /\ HistoryTyped
  BY StoreTyped, JobKept DEF Refresh, JobType
<1>2. /\ Goto(w, "idle") /\ "idle" \in Unlocked /\ pc[w] \notin Locked
      /\ "idle" \notin Locked /\ "idle" \notin Applying
      /\ job' \in [Worker -> JobType]
  BY JobKept DEF Refresh, Done, Goto, Unlocked, Locked, Applying
<1>3. QED
  BY <1>1, <1>2, TypedAfter DEF Refresh

LEMMA RecordTyped ==
  ASSUME Typed, NEW w \in Worker, NEW from \in Place, NEW words \in NoText..purges,
         NEW event \in Kinds, NEW row, row.seq \in Seqs => row \in Row,
         TakeLock(w), Record(w, from, row, words, event), job' \in [Worker -> JobType]
  PROVE  Typed'
<1>1. trans' \in Transition /\ trans' # NoTransition
  BY DEF Record, Transition, NoTransition, Kinds
<1>2. StoresTyped
  BY <1>1 DEF Record, StoresTyped, Typed, TypeOK, Transition
<1>3. HistoryTyped
  BY DEF Record, Overtakes, HistoryTyped, Typed, TypeOK, Transition, Row
<1>4. Goto(w, "move") /\ "move" \in Locked /\ "move" \in Applying
  BY DEF Record, Locked, Applying
<1>5. QED
  BY <1>1, <1>2, <1>3, <1>4, TypedAfter DEF TakeLock

LEMMA WriteAssessmentTyped ==
  ASSUME Typed, NEW w \in Worker, NEW disp \in Place, WriteAssessment(w, disp)
  PROVE  Typed'
<1> DEFINE prior == job[w].prior
           row == [seq |-> prior.seq + 1, disp |-> disp, file |-> "own",
                   pending |-> disp = "archive"
                     /\ ((prior.disp = "quarantine" /\ disp = "archive") \/ prior.pending),
                   path |-> PathAfter(prior, disp)]
<1>1. prior \in Row \cup {NoRow}
  BY JobKept DEF JobType
<1>2. prior.seq \in Nat /\ prior.path \in Place /\ prior.pending \in BOOLEAN
  <2> HIDE DEF prior
  <2>1. CASE prior \in Row
    BY <2>1 DEF Row, Seqs
  <2>2. CASE prior = NoRow
    BY <2>2 DEF NoRow, Place
  <2>3. QED
    BY <1>1, <2>1, <2>2
<1>3. PathAfter(prior, disp) \in Place
  BY <1>2 DEF PathAfter, Destination, Place
<1>4. row.seq \in Seqs => row \in Row
  BY <1>2, <1>3 DEF Row
<1>5. CASE rows # {} /\ Current.seq # prior.seq
  <2>1. /\ Goto(w, "idle") /\ job' \in [Worker -> JobType]
        /\ UNCHANGED <<stores, lock, history>>
    BY <1>5, JobKept DEF WriteAssessment, Done, Goto
  <2>2. QED
    BY <2>1, TypedOutside DEF WriteAssessment, Unlocked
<1>6. CASE ~ (rows # {} /\ Current.seq # prior.seq)
  <2>1. /\ TakeLock(w)
        /\ Record(w, prior.path, row, job[w].text, "job.reassessed")
        /\ job' = [job EXCEPT ![w] = NoJob]
    BY <1>6, <1>2 DEF WriteAssessment
  <2>2. job[w].text \in NoText..purges
    BY JobKept DEF JobType
  <2> HIDE DEF row
  <2>3. QED
    BY <1>2, <1>4, <2>1, <2>2, JobKept, RecordTyped DEF Kinds
<1>7. QED
  BY <1>5, <1>6

LEMMA ReleaseTyped ==
  ASSUME Typed, NEW w \in Worker, Release(w)
  PROVE  Typed'
<1> DEFINE row == [Current EXCEPT !.seq = @ + 1, !.pending = FALSE, !.file = "own",
                                  !.path = Destination(@, "archive")]
<1>1. Current \in Row
  BY CurrentType DEF Release, Typed, TypeOK
<1>2. row.seq \in Seqs => row \in Row
  BY <1>1 DEF Row, Destination, Place
<1>3. /\ TakeLock(w) /\ Record(w, Current.path, row, NoText, "job.released")
      /\ job' = job
  BY DEF Release
<1>4. Current.path \in Place /\ NoText \in NoText..purges
  BY <1>1 DEF Row, Typed, TypeOK, NoText
<1> HIDE DEF row
<1>5. QED
  BY <1>2, <1>3, <1>4, RecordTyped DEF Kinds, Typed

\* The steps of _apply_transition().
LEMMA ApplyTyped ==
  ASSUME Typed, NEW w \in Worker, Apply(w)
  PROVE  Typed'
<1>1. Applying \subseteq Locked /\ Applying \cap Unlocked = {}
  BY DEF Applying, Locked, Unlocked
<1>2. pc[w] \in Applying /\ trans # NoTransition /\ trans \in Transition /\ lock = w
  BY <1>1 DEF Apply, MovePdf, UnlinkSource, ApplyText, ApplyRow, ApplyEvent, Finish,
              Applying, Typed, TypeOK
<1>3. CASE MovePdf(w)
  <2>1. StoresTyped
    BY <1>2, <1>3 DEF MovePdf, StoresTyped, Typed, TypeOK, Transition, Row
  <2>2. \E place \in {"unlink_source", "text"} : Goto(w, place)
    BY <1>3 DEF MovePdf
  <2>3. QED
    BY <1>1, <1>2, <1>3, <2>1, <2>2, HistoryStays, TypedAfter DEF MovePdf, Typed, Applying
<1>4. CASE UnlinkSource(w)
  <2>1. StoresTyped
    BY <1>2, <1>4 DEF UnlinkSource, StoresTyped, Typed, TypeOK, Transition
  <2>2. QED
    BY <1>1, <1>2, <1>4, <2>1, HistoryStays, TypedAfter DEF UnlinkSource, Typed, Applying
<1>5. CASE ApplyText(w)
  <2>1. StoresTyped
    BY <1>2, <1>5 DEF ApplyText, StoresTyped, Typed, TypeOK, Transition
  <2>2. QED
    BY <1>1, <1>2, <1>5, <2>1, HistoryStays, TypedAfter DEF ApplyText, Typed, Applying
<1>6. CASE ApplyRow(w)
  <2>1. StoresTyped
    BY <1>2, <1>6 DEF ApplyRow, StoresTyped, Typed, TypeOK, Transition
  <2>2. job' \in [Worker -> JobType]
    BY <1>6, JobKept DEF ApplyRow, Done, Typed
  <2>3. \/ lock' = lock /\ Goto(w, "event")
        \/ FreeLock(w) /\ Goto(w, "idle")
    BY <1>6 DEF ApplyRow, Done, Goto
  <2>4. UNCHANGED trans /\ UNCHANGED history
    BY <1>6 DEF ApplyRow
  <2>5. "event" \in Applying /\ "idle" \in Unlocked /\ "idle" \notin Applying
    BY DEF Applying, Unlocked
  <2>6. QED
    BY <1>1, <1>2, <2>1, <2>2, <2>3, <2>4, <2>5, HistoryStays, TypedAfter
<1>7. CASE ApplyEvent(w)
  <2>1. StoresTyped
    BY <1>2, <1>7 DEF ApplyEvent, StoresTyped, Typed, TypeOK, Transition, Row
  <2>2. QED
    BY <1>1, <1>2, <1>7, <2>1, HistoryStays, TypedAfter DEF ApplyEvent, Typed, Applying
<1>8. CASE Finish(w)
  <2>1. StoresTyped
    BY <1>8 DEF Finish, StoresTyped, Typed, TypeOK
  <2>2. job' \in [Worker -> JobType] /\ job[w].then \in Unlocked
    BY <1>8, JobKept DEF Finish, JobType, Unlocked
  <2>3. QED
    BY <1>1, <1>2, <1>8, <2>1, <2>2, HistoryStays, TypedAfter DEF Finish
<1>9. QED
  BY <1>3, <1>4, <1>5, <1>6, <1>7, <1>8 DEF Apply

LEMMA PurgeTyped ==
  ASSUME Typed, NEW w \in Worker,
         \/ \E hard \in BOOLEAN : StartPurge(w, hard)
         \/ PurgeText(w) \/ PurgePending(w) \/ PurgePdf(w) \/ PurgeEnd(w)
  PROVE  Typed'
<1>1. /\ {"purge_text", "purge_pending", "purge_pdf", "purge_end"} \subseteq Locked
      /\ "idle" \in Unlocked /\ "idle" \notin Locked /\ "idle" \notin Applying
      /\ {"purge_text", "purge_pending", "purge_pdf", "purge_end"} \cap Applying = {}
  BY DEF Locked, Unlocked, Applying
<1>2. CASE \E hard \in BOOLEAN : StartPurge(w, hard)
  <2>1. PICK hard \in BOOLEAN : StartPurge(w, hard)
    BY <1>2
  <2>2. StoresTyped
    BY <2>1 DEF StartPurge, StoresTyped, Typed, TypeOK, Transition, NoText
  <2>3. job' \in [Worker -> JobType]
    BY <2>1, JobKept, JobFields DEF StartPurge
  <2>4. QED
    <3>1. HistoryTyped
      BY <2>1 DEF StartPurge, HistoryTyped, Typed, TypeOK
    <3>2. QED
      BY <1>1, <2>1, <2>2, <2>3, <3>1, TypedAfter DEF StartPurge
<1>3. CASE PurgeText(w)
  <2>1. StoresTyped
    BY <1>3 DEF PurgeText, StoresTyped, Typed, TypeOK, Transition, NoText
  <2>2. QED
    BY <1>1, <1>3, <2>1, HistoryStays, TypedAfter DEF PurgeText, Typed
<1>4. CASE PurgePending(w)
  <2>1. StoresTyped
    <3>1. trans' = NoTransition \/ trans' \in Transition'
      BY <1>4 DEF PurgePending, Typed, TypeOK, Transition, NoTransition, NoText
    <3>2. QED
      BY <1>4, <3>1 DEF PurgePending, StoresTyped, Typed, TypeOK
  <2>2. lock = w
    BY <1>1, <1>4 DEF PurgePending, Typed, TypeOK
  <2>3. \E place \in {"purge_pdf", "purge_end"} : Goto(w, place)
    BY <1>4 DEF PurgePending
  <2>4. QED
    BY <1>1, <1>4, <2>1, <2>2, <2>3, HistoryStays, TypedAfter DEF PurgePending, Typed
<1>5. CASE PurgePdf(w)
  <2>1. StoresTyped
    BY <1>5 DEF PurgePdf, StoresTyped, Typed, TypeOK, Transition
  <2>2. QED
    BY <1>1, <1>5, <2>1, HistoryStays, TypedAfter DEF PurgePdf, Typed
<1>6. CASE PurgeEnd(w)
  <2>1. HistoryTyped
    BY <1>6 DEF PurgeEnd, HistoryTyped, Typed, TypeOK
  <2>2. Goto(w, "idle") /\ job' \in [Worker -> JobType]
    BY <1>6, JobKept DEF PurgeEnd, Done, Goto
  <2>3. FreeLock(w) /\ trans' = trans
    BY <1>6 DEF PurgeEnd, stores
  <2>4. QED
    BY <1>1, <1>6, <2>1, <2>2, <2>3, StoresKept, TypedAfter DEF PurgeEnd
<1>7. QED
  BY <1>2, <1>3, <1>4, <1>5, <1>6

LEMMA CompactTyped ==
  ASSUME Typed, NEW w \in Worker, StartCompact(w) \/ RemoveOriginal(w)
  PROVE  Typed'
<1>1. /\ "compact" \in Locked /\ "compact" \notin Applying
      /\ "idle" \in Unlocked /\ "idle" \notin Applying
  BY DEF Locked, Unlocked, Applying
<1>2. CASE StartCompact(w)
  <2>1. rows' \subseteq Row
    BY <1>2 DEF StartCompact, Typed, TypeOK, Row
  <2>2. StoresTyped
    BY <1>2, <2>1 DEF StartCompact, StoresTyped, Typed, TypeOK, Transition
  <2>3. {r \in rows : r.file = "own"} \in SUBSET Row
    BY DEF Typed, TypeOK
  <2>4. job' \in [Worker -> JobType]
    BY <1>2, <2>3, JobKept, JobFields DEF StartCompact
  <2>5. QED
    BY <1>1, <1>2, <2>2, <2>4, HistoryStays, TypedAfter DEF StartCompact
<1>3. CASE RemoveOriginal(w)
  <2>1. StoresTyped
    BY <1>3 DEF RemoveOriginal, StoresTyped, Typed, TypeOK, Transition
  <2>2. job[w].files \in SUBSET Row
    BY JobKept DEF JobType
  <2>3. \E files \in SUBSET Row : job' \in {[job EXCEPT ![w] = NoJob],
                                           [job EXCEPT ![w].files = files]}
    <3> DEFINE left == {r \in job[w].files : r.seq # Min({q.seq : q \in job[w].files})}
    <3>1. left \in SUBSET Row
      BY <2>2
    <3>2. job' \in {[job EXCEPT ![w] = NoJob], [job EXCEPT ![w].files = left]}
      BY <1>3 DEF RemoveOriginal, Done
    <3> HIDE DEF left
    <3>3. QED
      BY <3>1, <3>2
  <2>4. job' \in [Worker -> JobType]
    BY <2>3, JobKept, JobFields
  <2>5. \/ FreeLock(w) /\ Goto(w, "idle")
        \/ lock' = lock /\ Goto(w, "compact") /\ pc[w] = "compact"
    <3>1. pc' = pc /\ pc[w] = "compact" => Goto(w, "compact")
      BY DEF Goto, Typed, TypeOK
    <3>2. QED
      BY <1>3, <3>1 DEF RemoveOriginal, Done, Goto
  <2>6. trans' = trans /\ UNCHANGED history
    BY <1>3 DEF RemoveOriginal
  <2>7. QED
    BY <1>1, <2>1, <2>4, <2>5, <2>6, HistoryStays, TypedAfter
<1>4. QED
  BY <1>2, <1>3

LEMMA FirstRowType ==
  ASSUME Typed, NEW disp \in Place
  PROVE  FirstRow(disp) \subseteq Row
<1> DEFINE Rows == [seq : Nat, disp : Place, pending : BOOLEAN, path : Place,
                    file : {"own", "merged"}]
<1>1. NoRow \in Rows
  BY DEF NoRow, Place
<1>2. 1 \in Seqs
  BY DEF Seqs
<1>3. \A r \in Rows : [r EXCEPT !.seq = 1, !.disp = disp, !.path = disp] \in Row
  BY <1>2 DEF Row
<1>4. [NoRow EXCEPT !.seq = 1, !.disp = disp, !.path = disp] \in Row
  BY <1>1, <1>3
<1>5. QED
  BY <1>4 DEF FirstRow, Typed, TypeOK

LEMMA ReindexTyped ==
  ASSUME Typed, NEW w \in Worker,
         StartReindex(w) \/ RebuildRead(w) \/ RebuildRow(w) \/ RebuildText(w)
  PROVE  Typed'
<1>1. /\ {"idle", "rebuild_read", "rebuild_row", "rebuild_text"} \subseteq Unlocked
      /\ {"idle", "rebuild_read", "rebuild_row", "rebuild_text"} \cap Locked = {}
      /\ {"idle", "rebuild_read", "rebuild_row", "rebuild_text"} \cap Applying = {}
  BY DEF Locked, Unlocked, Applying
<1>2. CASE StartReindex(w)
  <2>1. job' \in [Worker -> JobType]
    <3>1. (IF "quarantine" \in pdf THEN "quarantine" ELSE "archive") \in Place
      BY DEF Place
    <3>2. purges \in 0..purges
      BY DEF Typed, TypeOK
    <3> DEFINE place == IF "quarantine" \in pdf THEN "quarantine" ELSE "archive"
    <3>3. job' = [job EXCEPT ![w].place = place, ![w].listed = purges]
      BY <1>2 DEF StartReindex
    <3> HIDE DEF place
    <3>4. place \in Place
      BY <3>1 DEF place
    <3>5. QED
      BY <3>2, <3>3, <3>4, JobFields
  <2>2. QED
    BY <1>1, <1>2, <2>1, TypedOutside DEF StartReindex
<1>3. CASE RebuildRead(w)
  <2>1. text \in NoText..purges
    BY DEF Typed, TypeOK
  <2>2. job' \in [Worker -> JobType] /\ \E place \in {"idle", "rebuild_row"} : Goto(w, place)
    BY <1>3, <2>1, JobKept, JobFields DEF RebuildRead, Done, Goto
  <2>3. QED
    BY <1>1, <1>3, <2>2, TypedOutside DEF RebuildRead
<1>4. CASE RebuildRow(w)
  <2>1. StoresTyped
    BY <1>4, FirstRowType, JobKept
       DEF RebuildRow, StoresTyped, Typed, TypeOK, Transition, JobType
  <2>2. HistoryTyped
    BY <1>4 DEF RebuildRow, HistoryTyped, Typed, TypeOK
  <2>3. job' \in [Worker -> JobType] /\ \E place \in {"idle", "rebuild_text"} : Goto(w, place)
    BY <1>4, JobKept DEF RebuildRow, Done, Goto, Typed
  <2>4. QED
    BY <1>1, <1>4, <2>1, <2>2, <2>3, TypedAfter DEF RebuildRow
<1>5. CASE RebuildText(w)
  <2>1. StoresTyped /\ HistoryTyped
    <3>1. job[w].listed \in NoText..purges
      BY JobKept DEF JobType, NoText, Typed, TypeOK
    <3>2. QED
      BY <1>5, <3>1, StoreTyped DEF RebuildText
  <2>2. job' \in [Worker -> JobType] /\ Goto(w, "idle")
    BY <1>5, JobKept DEF RebuildText, Done, Goto
  <2>3. QED
    BY <1>1, <1>5, <2>1, <2>2, TypedAfter DEF RebuildText
<1>6. QED
  BY <1>2, <1>3, <1>4, <1>5

LEMMA IngestTyped ==
  ASSUME Typed, NEW w \in Worker,
         \/ \E disp \in Place : StartIngest(w, disp)
         \/ IngestPdf(w) \/ IngestRow(w) \/ IngestText(w)
  PROVE  Typed'
<1>1. /\ {"idle", "ingest_pdf"} \subseteq Unlocked
      /\ {"ingest_row", "ingest_text"} \subseteq Locked
      /\ {"idle", "ingest_pdf", "ingest_row", "ingest_text"} \cap Applying = {}
  BY DEF Locked, Unlocked, Applying
<1>2. CASE \E disp \in Place : StartIngest(w, disp)
  <2>1. PICK disp \in Place : StartIngest(w, disp)
    BY <1>2
  <2>2. job' \in [Worker -> JobType]
    <3>1. purges \in NoText..purges
      BY DEF Typed, TypeOK, NoText
    <3>2. QED
      BY <2>1, <3>1, JobFields DEF StartIngest
  <2>3. QED
    BY <1>1, <2>1, <2>2, TypedOutside DEF StartIngest
<1>3. CASE IngestPdf(w)
  <2>1. StoresTyped
    BY <1>3, JobKept DEF IngestPdf, StoresTyped, Typed, TypeOK, Transition, JobType
  <2>2. QED
    BY <1>1, <1>3, <2>1, HistoryStays, TypedAfter DEF IngestPdf, Typed
<1>4. CASE IngestRow(w)
  <2>1. StoresTyped
    BY <1>4, FirstRowType, JobKept
       DEF IngestRow, StoresTyped, Typed, TypeOK, Transition, JobType
  <2>2. HistoryTyped
    BY <1>4 DEF IngestRow, HistoryTyped, Typed, TypeOK
  <2>3. QED
    BY <1>1, <1>4, <2>1, <2>2, TypedAfter DEF IngestRow, Typed
<1>5. CASE IngestText(w)
  <2>1. StoresTyped /\ HistoryTyped
    BY <1>5, JobKept, StoreTyped DEF IngestText, JobType
  <2>2. job' \in [Worker -> JobType] /\ Goto(w, "idle")
    BY <1>5, JobKept DEF IngestText, Done, Goto
  <2>3. QED
    BY <1>1, <1>5, <2>1, <2>2, TypedAfter DEF IngestText
<1>6. QED
  BY <1>2, <1>3, <1>4, <1>5

LEMMA StopTyped ==
  ASSUME Typed, NEW w \in Worker, Stop(w)
  PROVE  Typed'
<1>1. "idle" \in Unlocked /\ "idle" \notin Locked /\ "idle" \notin Applying
  BY DEF Locked, Unlocked, Applying
<1>2. /\ job' \in [Worker -> JobType] /\ Goto(w, "idle")
      /\ UNCHANGED stores /\ trans' = trans
  BY JobKept DEF Stop, Done, Goto, stores
<1>3. HistoryTyped
  BY DEF Stop, HistoryTyped, Typed, TypeOK
<1>4. \/ FreeLock(w)
      \/ lock' = lock /\ pc[w] \notin Locked
  BY DEF Stop, FreeLock, Typed, TypeOK
<1>5. QED
  BY <1>1, <1>2, <1>3, <1>4, StoresKept, TypedAfter

LEMMA TypedInit == Init => Typed
<1>1. ASSUME Init PROVE TypeOK
  <2>1. "idle" \in Unlocked /\ "idle" \notin Locked
    BY DEF Unlocked, Locked
  <2>2. NoTransition.from \in Place /\ NoTransition.row = NoRow /\ NoTransition.text = NoText
    BY DEF NoTransition, Place
  <2>3. pdf \subseteq Place /\ text \in NoText..purges /\ purges \in 0..MaxPurges
    BY <1>1 DEF Init, NoText
  <2>4. /\ lock \in Worker \cup {NoWorker} /\ pc \in [Worker -> Unlocked \cup Locked]
        /\ \A w \in Worker : pc[w] \in Locked <=> lock = w
        /\ \A w \in Worker : pc[w] = "idle"
    BY <1>1, <2>1 DEF Init
  <2>5. events \in [Kinds -> [Seqs -> 0..2]]
    BY <1>1 DEF Init
  <2>6. rows \subseteq Row /\ trans = NoTransition /\ NoText \in NoText..purges
    BY <1>1 DEF Init, NoText
  <2>7. faults \in 0..MaxFaults
    BY <1>1 DEF Init
  <2>8. dropped \subseteq Seqs /\ {halted, raced, overtaken} \subseteq BOOLEAN
    BY <1>1 DEF Init
  <2>9. QED
    BY <2>2, <2>3, <2>4, <2>5, <2>6, <2>7, <2>8 DEF TypeOK
<1>2. ASSUME Init PROVE job \in [Worker -> JobType] /\ trans = NoTransition
  <2>1. NoText \in NoText..purges /\ 0 \in 0..purges
    BY <1>2 DEF Init, NoText
  <2>2. NoJob \in JobType
    BY <2>1 DEF JobType, NoJob, Place
  <2>3. QED
    BY <1>2, <2>2 DEF Init
<1>3. QED
  BY <1>1, <1>2 DEF Typed

\* A step of one worker: the disjuncts of Next.
StepOf(w) ==
  \/ \E then \in {"idle", "scope"} : Recover(w, then)
  \/ Scope(w) \/ NoVerdict(w) \/ Refresh(w) \/ Release(w) \/ Apply(w)
  \/ \E extract \in BOOLEAN : Evaluate(w, extract)
  \/ \E disp \in Place : WriteAssessment(w, disp) \/ StartIngest(w, disp)
  \/ \E hard \in BOOLEAN : StartPurge(w, hard)
  \/ PurgeText(w) \/ PurgePending(w) \/ PurgePdf(w) \/ PurgeEnd(w)
  \/ StartCompact(w) \/ RemoveOriginal(w)
  \/ StartReindex(w) \/ RebuildRead(w) \/ RebuildRow(w) \/ RebuildText(w)
  \/ IngestPdf(w) \/ IngestRow(w) \/ IngestText(w)
  \/ Stop(w)

LEMMA StepOfOne == Next => \E w \in Worker : StepOf(w)
BY DEF Next, StepOf

LEMMA TypedStep == Typed /\ [Next]_vars => Typed'
<1>1. ASSUME Typed, UNCHANGED vars PROVE Typed'
  BY <1>1 DEF Typed, TypeOK, vars, Transition, JobType
<1>2. ASSUME Typed, NEW w \in Worker, StepOf(w) PROVE Typed'
  BY <1>2, RecoverTyped, EvaluationTyped, RefreshTyped, WriteAssessmentTyped, ReleaseTyped,
     ApplyTyped, PurgeTyped, CompactTyped, ReindexTyped, IngestTyped, StopTyped DEF StepOf
<1>3. QED
  BY <1>1, <1>2, StepOfOne

\* Every variable keeps its type, and whoever stands where the lock is held
\* has it, alone.
THEOREM TypeCorrect == Spec => []TypeOK
<1>1. Typed => TypeOK
  BY DEF Typed
<1>2. QED
  BY <1>1, TypedInit, TypedStep, PTL DEF Spec

-----------------------------------------------------------------------------
(* Who writes what.                                                         *)

LEMMA TransWriters ==
  ASSUME [Next]_vars
  PROVE  \/ trans' = trans
         \/ \E w \in Worker :
              \/ Finish(w) \/ PurgePending(w) \/ Release(w)
              \/ \E disp \in Place : WriteAssessment(w, disp) /\ trans' # trans
BY ZenonT(60)
   DEF Next, vars, stores, Recover, Scope, NoVerdict, Refresh, Apply, MovePdf, UnlinkSource,
       ApplyText, ApplyRow, ApplyEvent, Evaluate, StartIngest, StartPurge, PurgeText, PurgePdf,
       PurgeEnd, StartCompact, RemoveOriginal, StartReindex, RebuildRead, RebuildRow,
       RebuildText, IngestPdf, IngestRow, IngestText, Stop

LEMMA AssessmentWrites ==
  ASSUME NEW w \in Worker, NEW disp \in Place, WriteAssessment(w, disp)
  PROVE  UNCHANGED <<rows, pdf, text, events, purges>>
<1>1. CASE rows # {} /\ Current.seq # job[w].prior.seq
  BY <1>1 DEF WriteAssessment, stores
<1>2. CASE ~ (rows # {} /\ Current.seq # job[w].prior.seq)
  BY <1>2 DEF WriteAssessment, Record
<1>3. QED
  BY <1>1, <1>2

LEMMA RowWriters ==
  ASSUME [Next]_vars
  PROVE  \/ rows' = rows
         \/ \E w \in Worker : \/ ApplyRow(w) \/ StartCompact(w) \/ RemoveOriginal(w)
                              \/ RebuildRow(w) \/ IngestRow(w)
BY ZenonT(60), AssessmentWrites
   DEF Next, vars, stores, Recover, Scope, NoVerdict, Refresh, Release, Record, Apply, MovePdf,
       UnlinkSource, ApplyText, ApplyEvent, Finish, Evaluate, StartIngest,
       StartPurge, PurgeText, PurgePending, PurgePdf, PurgeEnd, StartReindex, RebuildRead,
       RebuildText, IngestPdf, IngestText, Stop

LEMMA PdfWriters ==
  ASSUME [Next]_vars
  PROVE  \/ pdf' = pdf
         \/ \E w \in Worker : MovePdf(w) \/ UnlinkSource(w) \/ PurgePdf(w) \/ IngestPdf(w)
BY ZenonT(60), AssessmentWrites
   DEF Next, vars, stores, Recover, Scope, NoVerdict, Refresh, Release, Record, Apply,
       ApplyText, ApplyRow, ApplyEvent, Finish, Evaluate, StartIngest,
       StartPurge, PurgeText, PurgePending, PurgeEnd, StartCompact, RemoveOriginal,
       StartReindex, RebuildRead, RebuildRow, RebuildText, IngestRow, IngestText, Stop

-----------------------------------------------------------------------------
(* The PDF leaves quarantine by a release only.                             *)

\* The transition of a reassessment moves the PDF into quarantine or not at all.
MoveInv == trans.event # "job.released" => trans.row.path \in {"quarantine", trans.from}

LEMMA AssessmentMove ==
  ASSUME NEW w \in Worker, NEW disp \in Place, WriteAssessment(w, disp), trans' # trans
  PROVE  MoveInv'
<1> DEFINE prior == job[w].prior
<1>1. ~ (rows # {} /\ Current.seq # prior.seq)
  BY DEF WriteAssessment, stores
<1>2. trans'.row.path = PathAfter(prior, disp) /\ trans'.from = prior.path
  BY <1>1 DEF WriteAssessment, Record
<1>3. PathAfter(prior, disp) \in {"quarantine", prior.path}
  BY DEF PathAfter, Destination
<1>4. QED
  BY <1>2, <1>3 DEF MoveInv

LEMMA MoveStep == MoveInv /\ [Next]_vars => MoveInv'
<1>1. SUFFICES ASSUME MoveInv, [Next]_vars PROVE MoveInv'
  OBVIOUS
<1>2. CASE trans' = trans
  BY <1>1, <1>2 DEF MoveInv
<1>3. ASSUME NEW w \in Worker, Finish(w) PROVE MoveInv'
  BY <1>3 DEF Finish, MoveInv, NoTransition, NoRow
<1>4. ASSUME NEW w \in Worker, PurgePending(w) PROVE MoveInv'
  <2>1. trans' = [trans EXCEPT !.text = NoText]
    BY <1>4 DEF PurgePending
  <2>2. QED
    BY <1>1, <2>1 DEF MoveInv
<1>5. ASSUME NEW w \in Worker, Release(w) PROVE MoveInv'
  BY <1>5 DEF Release, Record, MoveInv
<1>6. QED
  BY <1>1, <1>2, <1>3, <1>4, <1>5, AssessmentMove, TransWriters

\* However reassessments, recoveries, rebuilds and crashes interleave, a PDF
\* appears in the archive by the document's first commit or by a release.
THEOREM ReleasedByHand == Spec => NoUnattendedRelease
<1>1. Init => MoveInv
  BY DEF Init, MoveInv, NoTransition, NoRow
<1>2. ASSUME MoveInv, [Next]_vars, "archive" \notin pdf, "archive" \in pdf'
      PROVE  \/ trans.event = "job.released"
             \/ \E w \in Worker : pc[w] = "ingest_pdf"
  <2>1. PICK w \in Worker : MovePdf(w) \/ UnlinkSource(w) \/ PurgePdf(w) \/ IngestPdf(w)
    BY <1>2, PdfWriters
  <2>2. CASE MovePdf(w)
    <3>1. trans.row.path = "archive" /\ trans.from # "archive"
      BY <1>2, <2>2 DEF MovePdf
    <3>2. QED
      BY <1>2, <3>1 DEF MoveInv
  <2>3. CASE UnlinkSource(w) \/ PurgePdf(w)
    BY <1>2, <2>3 DEF UnlinkSource, PurgePdf
  <2>4. CASE IngestPdf(w)
    BY <2>4 DEF IngestPdf
  <2>5. QED
    BY <2>1, <2>2, <2>3, <2>4
<1>3. QED
  BY <1>1, <1>2, MoveStep, PTL DEF Spec, NoUnattendedRelease

-----------------------------------------------------------------------------
(* A purge is final.                                                        *)

Purging == {"purge_text", "purge_pending", "purge_pdf", "purge_end"}
Settled(words) == words \in {NoText, purges}

\* Unsettled text is in the store only until a purge has been there, and in a
\* transition only until it has been there too; once a purge has passed a
\* place, nobody brings the text back without being noted as overtaking it.
PurgeInv ==
  /\ \/ Settled(text) \/ halted \/ overtaken
     \/ \E w \in Worker : pc[w] = "purge_text"
  /\ \/ Settled(trans.text) \/ halted \/ overtaken
     \/ \E w \in Worker : pc[w] \in {"purge_text", "purge_pending"}
  /\ \A w \in Worker : pc[w] \in Purging \ {"purge_text"} => Settled(text) \/ overtaken
  /\ \A w \in Worker : pc[w] \in {"purge_pdf", "purge_end"} =>
       Settled(trans.text) \/ overtaken

\* A step outside a purge.
LEMMA PurgeFrame ==
  ASSUME Typed, PurgeInv, NEW w \in Worker, NEW place, Goto(w, place),
         pc[w] \notin Purging, place \notin Purging, purges' = purges, halted' = halted,
         overtaken => overtaken',
         \/ text' = text \/ Settled(text)' \/ overtaken'
         \/ lock = w /\ text' = trans.text,
         trans'.text = trans.text \/ Settled(trans.text)' \/ overtaken'
  PROVE  PurgeInv'
<1>1. \A v \in Worker : /\ pc[v] \in Purging <=> pc'[v] \in Purging
                        /\ pc[v] \in Purging => pc'[v] = pc[v]
  BY DEF Goto, Typed, TypeOK
<1>2. lock = w => \A v \in Worker : pc[v] \notin Purging
  BY DEF Typed, TypeOK, Purging, Locked
<1>3. \/ Settled(text)' \/ halted' \/ overtaken'
      \/ \E v \in Worker : pc'[v] = "purge_text"
  BY <1>1, <1>2 DEF PurgeInv, Settled, Purging
<1>4. \/ Settled(trans.text)' \/ halted' \/ overtaken'
      \/ \E v \in Worker : pc'[v] \in {"purge_text", "purge_pending"}
  BY <1>1 DEF PurgeInv, Settled, Purging
<1>5. \A v \in Worker : pc'[v] \in Purging \ {"purge_text"} => Settled(text)' \/ overtaken'
  BY <1>1, <1>2 DEF PurgeInv, Settled, Purging
<1>6. \A v \in Worker : pc'[v] \in {"purge_pdf", "purge_end"} =>
        Settled(trans.text)' \/ overtaken'
  BY <1>1 DEF PurgeInv, Settled, Purging
<1>7. QED
  BY <1>3, <1>4, <1>5, <1>6 DEF PurgeInv

\* Words that go into the store are as new as the last purge, or noted.
LEMMA StoreOvertakes ==
  ASSUME NEW words, Store(words), purges' = purges
  PROVE  (overtaken => overtaken') /\ (Settled(text)' \/ overtaken')
BY DEF Store, Overtakes, Settled

LEMMA PurgeEvaluation ==
  ASSUME Typed, PurgeInv, NEW w \in Worker,
         \/ \E then \in {"idle", "scope"} : Recover(w, then)
         \/ Scope(w) \/ NoVerdict(w) \/ Refresh(w)
         \/ \E extract \in BOOLEAN : Evaluate(w, extract)
  PROVE  PurgeInv'
<1>1. /\ UNCHANGED <<trans, purges, halted>> /\ (overtaken => overtaken')
      /\ text' = text \/ Settled(text)' \/ overtaken'
  BY StoreOvertakes DEF Recover, Scope, NoVerdict, Refresh, Evaluate, stores, history
<1>2. \E place \in {"idle", "scope", "move", "evaluate", "write", "refresh"} : Goto(w, place)
  BY DEF Recover, Scope, NoVerdict, Refresh, Evaluate, Done, Goto
<1>3. pc[w] \notin Purging
  BY DEF Recover, Scope, NoVerdict, Refresh, Evaluate, Purging
<1>4. QED
  BY <1>1, <1>2, <1>3, PurgeFrame DEF Purging

LEMMA PurgeRecords ==
  ASSUME Typed, PurgeInv, NEW w \in Worker,
         Release(w) \/ \E disp \in Place : WriteAssessment(w, disp)
  PROVE  PurgeInv'
<1>1. CASE Release(w)
  <2>1. /\ Settled(trans.text)' /\ UNCHANGED <<text, purges, halted>>
        /\ Goto(w, "move") /\ pc[w] = "idle" /\ (overtaken => overtaken')
    BY <1>1 DEF Release, Record, Overtakes, Settled
  <2>2. QED
    BY <2>1, PurgeFrame DEF Purging
<1>2. ASSUME NEW disp \in Place, WriteAssessment(w, disp) PROVE PurgeInv'
  <2>1. CASE rows # {} /\ Current.seq # job[w].prior.seq
    <3>1. /\ UNCHANGED <<text, trans, purges, halted, overtaken>>
          /\ Goto(w, "idle") /\ pc[w] = "write"
      BY <1>2, <2>1 DEF WriteAssessment, Done, Goto, stores, history
    <3>2. QED
      BY <3>1, PurgeFrame DEF Purging
  <2>2. CASE ~ (rows # {} /\ Current.seq # job[w].prior.seq)
    <3>1. /\ trans'.text = job[w].text /\ Overtakes(job[w].text)
          /\ UNCHANGED <<text, purges, halted>> /\ Goto(w, "move") /\ pc[w] = "write"
      BY <1>2, <2>2 DEF WriteAssessment, Record
    <3>2. (Settled(trans.text)' \/ overtaken') /\ (overtaken => overtaken')
      BY <3>1 DEF Overtakes, Settled
    <3>3. QED
      BY <3>1, <3>2, PurgeFrame DEF Purging
  <2>3. QED
    BY <2>1, <2>2
<1>3. QED
  BY <1>1, <1>2

LEMMA PurgeApply ==
  ASSUME Typed, PurgeInv, NEW w \in Worker, Apply(w)
  PROVE  PurgeInv'
<1>1. pc[w] \in Applying /\ lock = w
  BY DEF Apply, MovePdf, UnlinkSource, ApplyText, ApplyRow, ApplyEvent, Finish,
         Applying, Locked, Typed, TypeOK
<1>2. /\ UNCHANGED <<purges, halted, overtaken>>
      /\ text' = text \/ text' = trans.text
      /\ trans' = trans \/ Settled(trans.text)'
  BY DEF Apply, MovePdf, UnlinkSource, ApplyText, ApplyRow, ApplyEvent, Finish,
         history, NoTransition, Settled
<1>3. \E place \in Applying \cup {"idle", "scope"} : Goto(w, place)
  BY JobKept DEF Apply, MovePdf, UnlinkSource, ApplyText, ApplyRow, ApplyEvent, Finish,
                 Done, Goto, Applying, JobType
<1>4. QED
  BY <1>1, <1>2, <1>3, PurgeFrame DEF Purging, Applying

LEMMA PurgeOthers ==
  ASSUME Typed, PurgeInv, NEW w \in Worker,
         \/ StartCompact(w) \/ RemoveOriginal(w)
         \/ StartReindex(w) \/ RebuildRead(w) \/ RebuildRow(w) \/ RebuildText(w)
         \/ \E disp \in Place : StartIngest(w, disp)
         \/ IngestPdf(w) \/ IngestRow(w) \/ IngestText(w)
  PROVE  PurgeInv'
<1>1. /\ UNCHANGED <<trans, purges, halted>> /\ (overtaken => overtaken')
      /\ text' = text \/ Settled(text)' \/ overtaken'
  <2>1. CASE RebuildText(w) \/ IngestText(w)
    BY <2>1, StoreOvertakes DEF RebuildText, IngestText
  <2>2. ASSUME \/ StartCompact(w) \/ RemoveOriginal(w) \/ IngestPdf(w) \/ IngestRow(w)
               \/ StartReindex(w) \/ RebuildRead(w) \/ RebuildRow(w)
               \/ \E disp \in Place : StartIngest(w, disp)
        PROVE  UNCHANGED <<trans, purges, halted, overtaken, text>>
    <3>1. CASE StartCompact(w)
      BY <3>1 DEF StartCompact, history
    <3>2. CASE RemoveOriginal(w)
      BY <3>2 DEF RemoveOriginal, history
    <3>3. CASE IngestPdf(w) \/ IngestRow(w)
      BY <3>3 DEF IngestPdf, IngestRow, history
    <3>4. CASE StartReindex(w) \/ RebuildRead(w) \/ RebuildRow(w)
      BY <3>4 DEF StartReindex, RebuildRead, RebuildRow, stores, history
    <3>5. CASE \E disp \in Place : StartIngest(w, disp)
      BY <3>5 DEF StartIngest, stores, history
    <3>6. QED
      BY <2>2, <3>1, <3>2, <3>3, <3>4, <3>5
  <2>3. QED
    BY <2>1, <2>2
<1>2. pc[w] \notin Purging
  BY DEF StartCompact, RemoveOriginal, StartReindex, RebuildRead, RebuildRow, RebuildText,
         StartIngest, IngestPdf, IngestRow, IngestText, Purging
<1>3. \E place \in {"compact", "idle", "rebuild_read", "rebuild_row", "rebuild_text"}
                     \cup Ingesting : Goto(w, place)
  <2>1. pc' = pc /\ pc[w] = "compact" => Goto(w, "compact")
    BY DEF Goto, Typed, TypeOK
  <2>2. QED
    BY <2>1 DEF StartCompact, RemoveOriginal, StartReindex, RebuildRead, RebuildRow,
            RebuildText, StartIngest, IngestPdf, IngestRow, IngestText, Done, Goto, Ingesting
<1>4. QED
  BY <1>1, <1>2, <1>3, PurgeFrame DEF Purging, Ingesting

\* The steps of a purge itself, which has the lock, and its death.
LEMMA PurgeOwnSteps ==
  ASSUME Typed, PurgeInv, NEW w \in Worker,
         \/ \E hard \in BOOLEAN : StartPurge(w, hard)
         \/ PurgeText(w) \/ PurgePending(w) \/ PurgePdf(w) \/ PurgeEnd(w)
  PROVE  PurgeInv'
<1>1. \A v \in Worker : v # w => pc'[v] \notin Purging
  BY DEF StartPurge, PurgeText, PurgePending, PurgePdf, PurgeEnd, Goto, Done, TakeLock,
         Typed, TypeOK, Purging, Locked
<1>2. CASE \E hard \in BOOLEAN : StartPurge(w, hard)
  BY <1>1, <1>2 DEF StartPurge, Goto, PurgeInv, Purging, Typed, TypeOK
<1>3. CASE PurgeText(w)
  <2>1. /\ pc'[w] = "purge_pending" /\ text' = NoText
        /\ UNCHANGED <<trans, purges, halted, overtaken>>
    BY <1>3 DEF PurgeText, Goto, history, Typed, TypeOK
  <2>2. QED
    BY <1>1, <2>1 DEF PurgeInv, Purging, Settled
<1>4. CASE PurgePending(w)
  <2>1. /\ pc[w] = "purge_pending" /\ pc'[w] \in {"purge_pdf", "purge_end"}
        /\ UNCHANGED <<text, purges, halted, overtaken>>
    BY <1>4 DEF PurgePending, Goto, history, Typed, TypeOK
  <2>2. trans'.text = NoText
    BY <1>4 DEF PurgePending, Typed, Transition, NoTransition
  <2>3. QED
    BY <1>1, <2>1, <2>2 DEF PurgeInv, Purging, Settled
<1>5. CASE PurgePdf(w)
  <2>1. /\ pc[w] = "purge_pdf" /\ pc'[w] = "purge_end"
        /\ UNCHANGED <<text, trans, purges, halted, overtaken>>
    BY <1>5 DEF PurgePdf, Goto, history, Typed, TypeOK
  <2>2. QED
    BY <1>1, <2>1 DEF PurgeInv, Purging, Settled
<1>6. CASE PurgeEnd(w)
  <2>1. /\ pc[w] = "purge_end" /\ pc'[w] = "idle"
        /\ UNCHANGED <<text, trans, purges, overtaken>>
    BY <1>6 DEF PurgeEnd, Done, stores, Typed, TypeOK
  <2>2. QED
    BY <1>1, <2>1 DEF PurgeInv, Purging, Settled
<1>7. QED
  BY <1>2, <1>3, <1>4, <1>5, <1>6

LEMMA PurgeStop ==
  ASSUME Typed, PurgeInv, NEW w \in Worker, Stop(w)
  PROVE  PurgeInv'
<1>1. Goto(w, "idle") /\ UNCHANGED <<text, trans, purges, overtaken>>
  BY DEF Stop, Done, Goto, stores
<1>2. CASE pc[w] \in Purging
  <2>1. halted'
    BY <1>2 DEF Stop, Purging
  <2>2. \A v \in Worker : pc'[v] \notin Purging
    BY <1>1, <1>2 DEF Goto, Typed, TypeOK, Purging, Locked
  <2>3. QED
    BY <2>1, <2>2 DEF PurgeInv, Purging
<1>3. CASE pc[w] \notin Purging
  <2>1. halted' = halted
    BY <1>3 DEF Stop, Purging, Typed, TypeOK
  <2>2. QED
    BY <1>1, <1>3, <2>1, PurgeFrame DEF Purging
<1>4. QED
  BY <1>2, <1>3

LEMMA PurgeStep == Typed /\ PurgeInv /\ [Next]_vars => PurgeInv'
<1>1. ASSUME PurgeInv, UNCHANGED vars PROVE PurgeInv'
  BY <1>1 DEF PurgeInv, Settled, vars
<1>2. ASSUME Typed, PurgeInv, Next PROVE PurgeInv'
  BY <1>2, PurgeEvaluation, PurgeRecords, PurgeApply, PurgeOthers, PurgeOwnSteps, PurgeStop
     DEF Next
<1>3. QED
  BY <1>1, <1>2

\* Text that was read before a purge, in the content store or in a
\* transition that waits for its recovery, is not in the store after it,
\* unless the purge was interrupted or a call wrote down, after the purge
\* began, text that it had read before.
THEOREM PurgeIsFinal == Spec => []PurgeFinal
<1>1. Init => PurgeInv
  BY DEF Init, PurgeInv, Settled, Purging, NoTransition
<1>2. PurgeInv => PurgeFinal
  BY DEF PurgeInv, PurgeFinal, Settled
<1>3. QED
  BY <1>1, <1>2, TypedInit, TypedStep, PurgeStep, PTL DEF Spec

-----------------------------------------------------------------------------
(* The index keeps every assessment.                                        *)

RowsInv ==
  /\ \A r, s \in rows : r.seq = s.seq /\ r.seq > 1 => Same(r, s)
  /\ \A r \in rows : \A n \in 1..r.seq : \E q \in rows : q.seq = n
  /\ \A w \in Worker : pc[w] \in {"evaluate", "write", "refresh"} => rows # {}
  /\ \A w \in Worker : pc[w] = "compact" =>
       /\ job[w].files # {}
       /\ \A r \in job[w].files : \E q \in rows : q.seq = r.seq /\ q.file = "merged"
  /\ trans # NoTransition =>
       trans.row.seq > 1 /\ \E q \in rows : q.seq = trans.row.seq - 1

\* What a step may do to the files of the index: a number stays, a merged row
\* stays, and what is new is a first row, a copy, or the next assessment.
RowsKept == \A r \in rows : \E s \in rows' : s.seq = r.seq /\ (r.seq > 1 => Same(r, s))
MergedKept ==
  \A r \in rows : r.file = "merged" => \E s \in rows' : s.seq = r.seq /\ s.file = "merged"
RowsGrow ==
  \A r \in rows' : \/ r.seq = 1
                   \/ \E q \in rows : q.seq = r.seq /\ Same(q, r)
                   \/ trans # NoTransition /\ r = trans.row /\ \A q \in rows : q.seq < r.seq
RowsChange == RowsKept /\ MergedKept /\ RowsGrow

LEMMA MoreRows ==
  ASSUME rows \subseteq rows'
  PROVE  RowsKept /\ MergedKept
BY DEF RowsKept, MergedKept, Same

LEMMA FirstRowChange ==
  ASSUME Typed, NEW disp \in Place, rows' = FirstRow(disp)
  PROVE  RowsChange
<1> DEFINE first == [NoRow EXCEPT !.seq = 1, !.disp = disp, !.path = disp]
<1>1. first.seq = 1
  BY DEF NoRow
<1>2. rows' = {r \in rows : r.file = "merged" \/ r.seq # 1} \cup {first}
  BY DEF FirstRow
<1> HIDE DEF first
<1>3. ASSUME NEW r \in rows
      PROVE  \E s \in rows' : s.seq = r.seq /\ (r.seq > 1 => Same(r, s))
  <2>1. CASE r.seq = 1
    BY <1>1, <1>2, <2>1
  <2>2. CASE r.seq # 1
    BY <1>2, <2>2 DEF Same
  <2>3. QED
    BY <2>1, <2>2
<1>4. MergedKept
  BY <1>2 DEF MergedKept
<1>5. RowsGrow
  BY <1>1, <1>2 DEF RowsGrow, Same
<1>6. QED
  BY <1>3, <1>4, <1>5 DEF RowsChange, RowsKept

LEMMA ApplyRowChange ==
  ASSUME Typed, NEW w \in Worker, ApplyRow(w)
  PROVE  RowsChange
<1>1. rows' = rows \/ (rows' = rows \cup {trans.row} /\ ~ (Current.seq >= trans.row.seq))
  BY DEF ApplyRow
<1>2. trans # NoTransition /\ trans.row \in Row
  BY DEF ApplyRow, Typed, TypeOK, Transition
<1>3. ~ (Current.seq >= trans.row.seq) => \A q \in rows : q.seq < trans.row.seq
  <2>1. rows \in SUBSET Row
    BY DEF Typed, TypeOK
  <2>2. CASE rows # {}
    BY <1>2, <2>1, <2>2, CurrentIsGreatest DEF Row, Seqs
  <2>3. QED
    BY <2>2
<1>4. RowsGrow
  BY <1>1, <1>2, <1>3 DEF RowsGrow, Same
<1>5. QED
  BY <1>1, <1>4, MoreRows DEF RowsChange

LEMMA StartCompactChange ==
  ASSUME Typed, NEW w \in Worker, StartCompact(w)
  PROVE  RowsChange
<1>1. rows' = rows \cup {[r EXCEPT !.file = "merged"] : r \in rows}
  BY DEF StartCompact
<1>2. \A r \in rows : /\ [r EXCEPT !.file = "merged"].seq = r.seq
                      /\ Same(r, [r EXCEPT !.file = "merged"])
  BY DEF Typed, TypeOK, Row, Same
<1>3. \A r \in rows : Same(r, r)
  BY DEF Same
<1>4. ASSUME NEW r \in rows' PROVE \E q \in rows : q.seq = r.seq /\ Same(q, r)
  <2>1. CASE r \in rows
    BY <1>3, <2>1
  <2>2. CASE r \notin rows
    <3>1. PICK q \in rows : r = [q EXCEPT !.file = "merged"]
      BY <1>1, <2>2
    <3>2. q.seq = r.seq /\ Same(q, r)
      BY <1>2, <3>1
    <3>3. QED
      BY <3>2
  <2>3. QED
    BY <2>1, <2>2
<1>5. QED
  BY <1>1, <1>4, MoreRows DEF RowsChange, RowsGrow

\* A file is removed only when the merged one has its row.
LEMMA RemoveOriginalChange ==
  ASSUME Typed, RowsInv, NEW w \in Worker, RemoveOriginal(w)
  PROVE  RowsChange
<1> DEFINE numbers == {r.seq : r \in job[w].files}
           seq == Min(numbers)
<1>1. rows' = {r \in rows : r.file = "merged" \/ r.seq # seq}
  BY DEF RemoveOriginal
<1>2. seq \in numbers
  <2>1. numbers \in SUBSET Nat /\ numbers # {}
    BY JobKept DEF RowsInv, RemoveOriginal, JobType, Row, Seqs
  <2> HIDE DEF numbers
  <2>2. QED
    BY <2>1, Least DEF Min
<1>3. PICK q \in rows : q.seq = seq /\ q.file = "merged"
  <2>1. PICK f \in job[w].files : f.seq = seq
    BY <1>2
  <2> HIDE DEF seq, numbers
  <2>2. QED
    BY <2>1 DEF RowsInv, RemoveOriginal
<1> HIDE DEF seq
<1>4. ASSUME NEW r \in rows
      PROVE  \E s \in rows' : s.seq = r.seq /\ (r.seq > 1 => Same(r, s))
  <2>1. CASE r \in rows'
    BY <2>1 DEF Same
  <2>2. CASE r \notin rows'
    <3>1. r.seq = q.seq /\ q \in rows'
      BY <1>1, <1>3, <2>2
    <3>2. r.seq > 1 => Same(r, q)
      BY <3>1 DEF RowsInv
    <3>3. QED
      BY <3>1, <3>2
  <2>3. QED
    BY <2>1, <2>2
<1>5. MergedKept /\ RowsGrow
  BY <1>1 DEF MergedKept, RowsGrow, Same
<1>6. QED
  BY <1>4, <1>5 DEF RowsChange, RowsKept

LEMMA RowsStep ==
  ASSUME Typed, RowsInv, [Next]_vars
  PROVE  RowsChange
<1>1. CASE rows' = rows
  BY <1>1 DEF RowsChange, RowsKept, MergedKept, RowsGrow, Same
<1>2. ASSUME NEW w \in Worker, RebuildRow(w) \/ IngestRow(w) PROVE RowsChange
  <2>1. rows' = FirstRow(job[w].place) /\ job[w].place \in Place
    BY <1>2, JobKept DEF RebuildRow, IngestRow, JobType
  <2>2. QED
    BY <2>1, FirstRowChange
<1>3. QED
  BY <1>1, <1>2, RowWriters, ApplyRowChange, StartCompactChange, RemoveOriginalChange

\* What a step of one worker leaves alone.
LEMMA WorkerFrame ==
  ASSUME Typed, NEW w \in Worker, StepOf(w), NEW v \in Worker, v # w
  PROVE  pc'[v] = pc[v] /\ job'[v] = job[v]
<1>1. pc' = pc \/ \E place : pc' = [pc EXCEPT ![w] = place]
  BY DEF StepOf, Recover, Scope, NoVerdict, Refresh, Release, Record, Apply, MovePdf,
         UnlinkSource, ApplyText, ApplyRow, ApplyEvent, Finish, Evaluate, WriteAssessment,
         StartIngest, StartPurge, PurgeText, PurgePending, PurgePdf, PurgeEnd, StartCompact,
         RemoveOriginal, StartReindex, RebuildRead, RebuildRow, RebuildText, IngestPdf,
         IngestRow, IngestText, Stop, Goto, Done
<1>2. job'[v] = job[v]
  BY DEF StepOf, Recover, Scope, NoVerdict, Refresh, Release, Record, Apply, MovePdf,
         UnlinkSource, ApplyText, ApplyRow, ApplyEvent, Finish, Evaluate, WriteAssessment,
         StartIngest, StartPurge, PurgeText, PurgePending, PurgePdf, PurgeEnd, StartCompact,
         RemoveOriginal, StartReindex, RebuildRead, RebuildRow, RebuildText, IngestPdf,
         IngestRow, IngestText, Stop, Done, Typed
<1>3. QED
  BY <1>1, <1>2 DEF Typed, TypeOK

\* Who comes to work on an assessment, or on a compaction.
Arrival(w) ==
  /\ pc'[w] = "evaluate" => rows # {}
  /\ pc'[w] \in {"write", "refresh"} => pc[w] = "evaluate"
  /\ pc'[w] = "compact" => StartCompact(w) \/ RemoveOriginal(w)

LEMMA WorkerArrives ==
  ASSUME Typed, NEW w \in Worker, StepOf(w)
  PROVE  Arrival(w)
<1>1. \A place : Goto(w, place) => pc'[w] = place
  BY DEF Goto, Typed, TypeOK
<1>2. \A place : Goto(w, place) \/ Done(w) => pc'[w] \in {place, "idle"}
  BY DEF Goto, Done, Typed, TypeOK
<1> DEFINE Elsewhere == pc'[w] \notin {"evaluate", "write", "refresh", "compact"}
<1>3. CASE Scope(w)
  BY <1>1, <1>2, <1>3 DEF Scope, Arrival
<1>4. CASE \E extract \in BOOLEAN : Evaluate(w, extract)
  BY <1>1, <1>4 DEF Evaluate, Arrival
<1>5. CASE StartCompact(w) \/ RemoveOriginal(w)
  <2>1. pc'[w] \in {"compact", "idle"}
    BY <1>1, <1>2, <1>5 DEF StartCompact, RemoveOriginal
  <2>2. QED
    BY <1>5, <2>1 DEF Arrival
<1>6. CASE \E disp \in Place : WriteAssessment(w, disp)
  <2>1. pc'[w] \in {"move", "idle"}
    BY <1>1, <1>2, <1>6 DEF WriteAssessment, Record
  <2>2. QED
    BY <2>1 DEF Arrival
<1>7. CASE Apply(w)
  <2>1. job[w].then \in {"idle", "scope"}
    BY JobKept DEF JobType
  <2>2. Elsewhere
    BY <1>1, <1>2, <1>7, <2>1 DEF Apply, MovePdf, UnlinkSource, ApplyText, ApplyRow,
                                  ApplyEvent, Finish
  <2>3. QED
    BY <2>2 DEF Arrival
<1>8. CASE \/ \E then \in {"idle", "scope"} : Recover(w, then)
            \/ NoVerdict(w) \/ Refresh(w) \/ Release(w) \/ Stop(w)
  <2>1. Elsewhere
    BY <1>1, <1>2, <1>8 DEF Recover, NoVerdict, Refresh, Release, Record, Stop
  <2>2. QED
    BY <2>1 DEF Arrival
<1>9. CASE \/ \E hard \in BOOLEAN : StartPurge(w, hard)
            \/ PurgeText(w) \/ PurgePending(w) \/ PurgePdf(w) \/ PurgeEnd(w)
  <2>1. Elsewhere
    BY <1>1, <1>2, <1>9 DEF StartPurge, PurgeText, PurgePending, PurgePdf, PurgeEnd
  <2>2. QED
    BY <2>1 DEF Arrival
<1>10. CASE \/ StartReindex(w) \/ RebuildRead(w) \/ RebuildRow(w) \/ RebuildText(w)
            \/ \E disp \in Place : StartIngest(w, disp)
            \/ IngestPdf(w) \/ IngestRow(w) \/ IngestText(w)
  <2>1. Elsewhere
    BY <1>1, <1>2, <1>10 DEF StartReindex, RebuildRead, RebuildRow, RebuildText, StartIngest,
                             IngestPdf, IngestRow, IngestText
  <2>2. QED
    BY <2>1 DEF Arrival
<1>11. CASE \E disp \in Place : WriteAssessment(w, disp) \/ StartIngest(w, disp)
  BY <1>6, <1>10, <1>11
<1>12. QED
  BY <1>3, <1>4, <1>5, <1>7, <1>8, <1>9, <1>10, <1>11 DEF StepOf

LEMMA AgreeStep ==
  ASSUME Typed, RowsInv, RowsChange
  PROVE  \A r, s \in rows' : r.seq = s.seq /\ r.seq > 1 => Same(r, s)
<1>1. SUFFICES ASSUME NEW r \in rows', NEW s \in rows', r.seq = s.seq, r.seq > 1
               PROVE  Same(r, s)
  OBVIOUS
<1>2. CASE r = trans.row /\ \A q \in rows : q.seq < r.seq
  <2>1. ~ \E q \in rows : q.seq = s.seq
    BY <1>1, <1>2 DEF Typed, TypeOK, Row, Seqs
  <2>2. s = trans.row
    BY <1>1, <2>1 DEF RowsChange, RowsGrow
  <2>3. QED
    BY <1>2, <2>2 DEF Same
<1>3. CASE \E q \in rows : q.seq = r.seq /\ Same(q, r)
  <2>1. PICK q \in rows : q.seq = r.seq /\ Same(q, r)
    BY <1>3
  <2>2. PICK p \in rows : p.seq = s.seq /\ Same(p, s)
    <3>1. ~ \A p \in rows : p.seq < s.seq
      BY <1>1, <2>1 DEF Typed, TypeOK, Row, Seqs
    <3>2. QED
      BY <1>1, <3>1 DEF RowsChange, RowsGrow
  <2>3. Same(q, p)
    BY <1>1, <2>1, <2>2 DEF RowsInv
  <2>4. QED
    BY <2>1, <2>2, <2>3 DEF Same
<1>4. QED
  BY <1>1, <1>2, <1>3 DEF RowsChange, RowsGrow

LEMMA ClosedStep ==
  ASSUME Typed, Typed', RowsInv, RowsChange
  PROVE  \A r \in rows' : \A n \in 1..r.seq : \E q \in rows' : q.seq = n
<1>1. SUFFICES ASSUME NEW r \in rows', NEW n \in 1..r.seq PROVE \E q \in rows' : q.seq = n
  OBVIOUS
<1>2. r.seq \in Nat /\ \A q \in rows : q.seq \in Nat
  BY DEF Typed, TypeOK, Row, Seqs
<1>3. \A q \in rows : \A m \in 1..q.seq : \E p \in rows' : p.seq = m
  <2>1. \A q \in rows : \E p \in rows' : p.seq = q.seq
    BY DEF RowsChange, RowsKept
  <2>2. QED
    BY <2>1 DEF RowsInv
<1>4. CASE r.seq = 1
  BY <1>4
<1>5. CASE \E q \in rows : q.seq = r.seq /\ Same(q, r)
  BY <1>3, <1>5
<1>6. CASE trans # NoTransition /\ r = trans.row
  <2>1. PICK q \in rows : q.seq = r.seq - 1
    BY <1>6 DEF RowsInv
  <2>2. CASE n = r.seq
    BY <2>2
  <2>3. CASE n # r.seq
    <3>1. n \in 1..q.seq
      BY <1>2, <2>1, <2>3
    <3>2. QED
      BY <1>3, <3>1
  <2>4. QED
    BY <2>2, <2>3
<1>7. QED
  BY <1>4, <1>5, <1>6 DEF RowsChange, RowsGrow

\* A new transition is for the number after the last.
LEMMA NextNumber ==
  ASSUME Typed, Typed', RowsInv, NEW w \in Worker,
         \/ Release(w)
         \/ (trans' # trans \/ lock' = w) /\ \E disp \in Place : WriteAssessment(w, disp)
  PROVE  /\ rows # {} /\ rows' = rows
         /\ trans'.row.seq = Current.seq + 1
         /\ trans' # NoTransition
         /\ dropped' = IF trans = NoTransition THEN dropped ELSE dropped \cup {trans.row.seq}
         /\ lock = NoWorker
         /\ events' = events
<1>1. CASE Release(w)
  <2>1. Current \in Row
    BY <1>1, CurrentType DEF Release, Typed, TypeOK
  <2>2. trans'.row.seq = Current.seq + 1 /\ trans'.event = "job.released"
    BY <1>1, <2>1 DEF Release, Record, Row
  <2>3. QED
    BY <1>1, <2>2 DEF Release, Record, TakeLock, NoTransition
<1>2. ASSUME NEW disp \in Place, WriteAssessment(w, disp), trans' # trans \/ lock' = w
      PROVE  /\ rows # {} /\ rows' = rows
             /\ trans'.row.seq = Current.seq + 1
             /\ trans' # NoTransition
             /\ dropped' = IF trans = NoTransition THEN dropped ELSE dropped \cup {trans.row.seq}
             /\ lock = NoWorker
             /\ events' = events
  <2>1. ~ (rows # {} /\ Current.seq # job[w].prior.seq)
    BY <1>2 DEF WriteAssessment, stores
  <2>2. rows # {}
    BY <1>2 DEF WriteAssessment, RowsInv
  <2>3. trans'.row.seq = Current.seq + 1 /\ trans'.event = "job.reassessed"
    BY <1>2, <2>1, <2>2 DEF WriteAssessment, Record
  <2>4. QED
    BY <1>2, <2>1, <2>2, <2>3 DEF WriteAssessment, Record, TakeLock, NoTransition
<1>3. QED
  BY <1>1, <1>2

LEMMA PendingStep ==
  ASSUME Typed, Typed', RowsInv, RowsChange, [Next]_vars
  PROVE  trans' # NoTransition =>
           trans'.row.seq > 1 /\ \E q \in rows' : q.seq = trans'.row.seq - 1
<1>1. \A q \in rows : \E p \in rows' : p.seq = q.seq
  BY DEF RowsChange, RowsKept
<1>2. CASE trans' = trans
  BY <1>1, <1>2 DEF RowsInv
<1>3. ASSUME NEW w \in Worker, Finish(w)
      PROVE  trans' = NoTransition
  BY <1>3 DEF Finish
<1>4. ASSUME NEW w \in Worker, PurgePending(w)
      PROVE  trans'.row = trans.row /\ (trans' # NoTransition => trans # NoTransition)
  BY <1>4 DEF PurgePending, Typed, Transition, NoTransition
<1>5. ASSUME NEW w \in Worker,
             Release(w) \/ (trans' # trans /\ \E disp \in Place : WriteAssessment(w, disp))
      PROVE  trans'.row.seq > 1 /\ \E q \in rows' : q.seq = trans'.row.seq - 1
  <2>1. rows # {} /\ rows' = rows /\ trans'.row.seq = Current.seq + 1
    BY <1>5, NextNumber
  <2>2. Current \in rows /\ Current.seq \in Seqs
    BY <2>1, CurrentIsGreatest DEF Typed, TypeOK, Row
  <2>3. QED
    BY <2>1, <2>2 DEF Seqs
<1>6. QED
  <2>1. CASE \E w \in Worker : PurgePending(w)
    BY <1>1, <1>4, <2>1 DEF RowsInv
  <2>2. QED
    BY <1>2, <1>3, <1>5, <2>1, TransWriters

LEMMA RowsInvStep == Typed /\ Typed' /\ RowsInv /\ [Next]_vars => RowsInv'
<1>1. ASSUME RowsInv, UNCHANGED vars PROVE RowsInv'
  BY <1>1 DEF RowsInv, vars, Same
<1>2. ASSUME Typed, Typed', RowsInv, NEW w \in Worker, StepOf(w), [Next]_vars PROVE RowsInv'
  <2>1. RowsChange
    BY <1>2, RowsStep
  <2>2. rows # {} => rows' # {}
    BY <2>1 DEF RowsChange, RowsKept
  <2>3. \A v \in Worker : v # w => pc'[v] = pc[v] /\ job'[v] = job[v]
    BY <1>2, WorkerFrame
  <2>4. ASSUME NEW v \in Worker, pc'[v] \in {"evaluate", "write", "refresh"} PROVE rows' # {}
    <3>1. CASE v = w
      BY <1>2, <2>2, <2>4, <3>1, WorkerArrives DEF Arrival, RowsInv
    <3>2. CASE v # w
      BY <1>2, <2>2, <2>3, <2>4, <3>2 DEF RowsInv
    <3>3. QED
      BY <3>1, <3>2
  <2>5. ASSUME NEW v \in Worker, pc'[v] = "compact"
        PROVE  /\ job'[v].files # {}
               /\ \A r \in job'[v].files : \E q \in rows' : q.seq = r.seq /\ q.file = "merged"
    <3>1. CASE v # w
      BY <1>2, <2>1, <2>3, <2>5, <3>1 DEF RowsInv, RowsChange, MergedKept
    <3>2. CASE v = w /\ RemoveOriginal(w)
      <4>1. job'[w].files \subseteq job[w].files /\ job'[w].files # {} /\ pc[w] = "compact"
        <5>1. DEFINE left == {r \in job[w].files : r.seq # Min({q.seq : q \in job[w].files})}
        <5>2. left # {} /\ job' = [job EXCEPT ![w].files = left]
          BY <1>2, <2>5, <3>2 DEF RemoveOriginal, Done, Typed, TypeOK
        <5>3. left \subseteq job[w].files
          OBVIOUS
        <5> HIDE DEF left
        <5>4. job'[w].files = left
          BY <1>2, <5>2 DEF Typed, JobType
        <5>5. QED
          BY <3>2, <5>2, <5>3, <5>4 DEF RemoveOriginal
      <4>2. QED
        BY <1>2, <2>1, <3>2, <4>1 DEF RowsInv, RowsChange, MergedKept
    <3>3. CASE v = w /\ StartCompact(w)
      <4>1. job'[w].files = {r \in rows : r.file = "own"}
        BY <1>2, <3>3 DEF StartCompact, Typed, JobType
      <4>2. \A r \in rows : [r EXCEPT !.file = "merged"] \in rows'
        BY <3>3 DEF StartCompact
      <4>3. \A r \in rows : /\ [r EXCEPT !.file = "merged"].seq = r.seq
                            /\ [r EXCEPT !.file = "merged"].file = "merged"
        BY <1>2 DEF Typed, TypeOK, Row
      <4>4. QED
        BY <3>3, <4>1, <4>2, <4>3 DEF StartCompact
    <3>4. QED
      BY <1>2, <2>5, <3>1, <3>2, <3>3, WorkerArrives DEF Arrival
  <2>6. QED
    BY <1>2, <2>1, <2>4, <2>5, AgreeStep, ClosedStep, PendingStep DEF RowsInv
<1>3. QED
  BY <1>1, <1>2, StepOfOne

LEMMA RowsInit == Init => RowsInv
BY DEF Init, RowsInv

\* No compaction, rebuild, recovery or concurrent writer loses an assessment
\* or changes one that came after the first.
THEOREM NothingRewritten == Spec => HistoryKept
<1>1. Typed /\ RowsInv /\ [Next]_vars
        => [\A r \in rows : \E s \in rows' : s.seq = r.seq /\ (r.seq > 1 => Same(r, s))]_vars
  BY RowsStep DEF RowsChange, RowsKept
<1>2. QED
  BY <1>1, TypedInit, TypedStep, RowsInit, RowsInvStep, PTL DEF Spec, HistoryKept

-----------------------------------------------------------------------------
(* Every assessment is audited, once.                                       *)

\* What the holder of the lock relies on while it carries out a transition:
\* a writer that has just recorded one knows it is not audited yet; the row
\* is there before the event, and the event before the transition goes.
AuditAt(w) ==
  /\ pc[w] \in Applying \ {"finish"} /\ ~job[w].recovering
       => \A k \in Kinds : events[k][trans.row.seq] = 0
  /\ pc[w] \in {"event", "finish"} => \E q \in rows : q.seq = trans.row.seq
  /\ pc[w] = "finish" => \E k \in Kinds : events[k][trans.row.seq] = 1
AuditInv == AuditedOnce /\ AssessmentAudited /\ \A w \in Worker : AuditAt(w)

LEMMA EventWriters ==
  ASSUME [Next]_vars
  PROVE  events' = events \/ \E w \in Worker : ApplyEvent(w)
BY ZenonT(60), AssessmentWrites
   DEF Next, vars, stores, Recover, Scope, NoVerdict, Refresh, Release, Record, Apply,
       MovePdf, UnlinkSource, ApplyText, ApplyRow, Finish, Evaluate, StartIngest, StartPurge,
       PurgeText, PurgePending, PurgePdf, PurgeEnd, StartCompact, RemoveOriginal,
       StartReindex, RebuildRead, RebuildRow, RebuildText, IngestPdf, IngestRow, IngestText, Stop

LEMMA AssessmentDrops ==
  ASSUME NEW w \in Worker, NEW disp \in Place, WriteAssessment(w, disp)
  PROVE  dropped \subseteq dropped'
<1>1. CASE rows # {} /\ Current.seq # job[w].prior.seq
  BY <1>1 DEF WriteAssessment, history
<1>2. CASE ~ (rows # {} /\ Current.seq # job[w].prior.seq)
  BY <1>2 DEF WriteAssessment, Record
<1>3. QED
  BY <1>1, <1>2

LEMMA DroppedGrows ==
  ASSUME [Next]_vars
  PROVE  dropped \subseteq dropped'
BY ZenonT(60), AssessmentDrops
   DEF Next, vars, history, Recover, Scope, NoVerdict, Refresh, Release, Record, Apply,
       MovePdf, UnlinkSource, ApplyText, ApplyRow, ApplyEvent, Finish, Evaluate, StartIngest,
       StartPurge, PurgeText, PurgePending, PurgePdf, PurgeEnd, StartCompact, RemoveOriginal,
       StartReindex, RebuildRead, RebuildRow, RebuildText, IngestPdf, IngestRow, IngestText, Stop

\* The only change to the trail: an event that is not there is appended.
EventOnce(w) ==
  /\ ApplyEvent(w)
  /\ \A k \in Kinds, s \in Seqs : events'[k][s] =
       IF k = trans.event /\ s = trans.row.seq THEN 1 ELSE events[k][s]

LEMMA EventIsOnce ==
  ASSUME Typed, AuditInv, NEW w \in Worker, ApplyEvent(w)
  PROVE  EventOnce(w)
<1>1. trans \in Transition /\ trans.event \in Kinds /\ trans.row.seq \in Seqs
  BY DEF ApplyEvent, Typed, TypeOK, Transition, Row
<1>2. events \in [Kinds -> [Seqs -> 0..2]]
  BY DEF Typed, TypeOK
<1>3. CASE AlreadyAudited(w)
  <2>1. events[trans.event][trans.row.seq] = 1
    BY <1>1, <1>2, <1>3 DEF AlreadyAudited, AuditInv, AuditedOnce
  <2>2. events' = events
    BY <1>3 DEF ApplyEvent
  <2>3. QED
    BY <2>1, <2>2 DEF EventOnce
<1>4. CASE ~AlreadyAudited(w)
  <2>1. events[trans.event][trans.row.seq] = 0
    <3>1. events[trans.event][trans.row.seq] \in 0..2
      BY <1>1, <1>2
    <3>2. CASE ~job[w].recovering
      BY <1>1, <3>2 DEF AuditInv, AuditAt, ApplyEvent, Applying
    <3>3. CASE job[w].recovering
      BY <1>4, <3>1, <3>3 DEF AlreadyAudited
    <3>4. QED
      BY <3>2, <3>3
  <2>2. events' = [events EXCEPT ![trans.event][trans.row.seq] = 1]
    BY <1>4, <2>1 DEF ApplyEvent
  <2>3. QED
    BY <1>1, <1>2, <2>2 DEF EventOnce
<1>5. QED
  BY <1>3, <1>4

LEMMA AuditedOnceStep ==
  ASSUME Typed, AuditInv, RowsChange, [Next]_vars
  PROVE  AuditedOnce'
<1>1. SUFFICES ASSUME NEW k \in Kinds, NEW s \in Seqs
               PROVE  /\ events'[k][s] <= 1
                      /\ events'[k][s] = 1 => \E r \in rows' : r.seq = s
  BY DEF AuditedOnce
<1>2. (\E r \in rows : r.seq = s) => \E r \in rows' : r.seq = s
  BY DEF RowsChange, RowsKept
<1>3. CASE events' = events
  BY <1>2, <1>3 DEF AuditInv, AuditedOnce
<1>4. ASSUME NEW w \in Worker, ApplyEvent(w)
      PROVE  /\ events'[k][s] <= 1
             /\ events'[k][s] = 1 => \E r \in rows' : r.seq = s
  <2>1. EventOnce(w)
    BY <1>4, EventIsOnce
  <2>2. CASE k = trans.event /\ s = trans.row.seq
    <3>1. \E r \in rows : r.seq = s
      BY <1>4, <2>2 DEF AuditInv, AuditAt, ApplyEvent
    <3>2. events'[k][s] = 1
      BY <2>1, <2>2 DEF EventOnce
    <3>3. QED
      BY <1>2, <3>1, <3>2
  <2>3. CASE ~ (k = trans.event /\ s = trans.row.seq)
    <3>1. events'[k][s] = events[k][s]
      BY <2>1, <2>3 DEF EventOnce
    <3>2. QED
      BY <1>2, <3>1 DEF AuditInv, AuditedOnce
  <2>4. QED
    BY <2>2, <2>3
<1>5. QED
  BY <1>3, <1>4, EventWriters

\* What is in the trail stays there.
LEMMA EventsStay ==
  ASSUME Typed, AuditInv, [Next]_vars, NEW k \in Kinds, NEW s \in Seqs, events[k][s] = 1
  PROVE  events'[k][s] = 1
<1>1. CASE events' = events
  BY <1>1
<1>2. ASSUME NEW w \in Worker, ApplyEvent(w) PROVE events'[k][s] = 1
  <2>1. EventOnce(w)
    BY <1>2, EventIsOnce
  <2>2. QED
    BY <2>1 DEF EventOnce
<1>3. QED
  BY <1>1, <1>2, EventWriters

\* A transition that goes has been audited, or is on the list of those lost.
LEMMA PendingStays ==
  ASSUME Typed, Typed', RowsInv, AuditInv, [Next]_vars, NEW s \in Seqs, trans.row.seq = s
  PROVE  \/ \E k \in Kinds : events'[k][s] = 1
         \/ trans'.row.seq = s
         \/ s \in dropped'
<1>1. CASE trans' = trans
  BY <1>1
<1>2. ASSUME NEW w \in Worker, Finish(w) PROVE \E k \in Kinds : events'[k][s] = 1
  <2>1. \E k \in Kinds : events[k][s] = 1
    BY <1>2 DEF Finish, AuditInv, AuditAt
  <2>2. QED
    BY <2>1, EventsStay
<1>3. ASSUME NEW w \in Worker, PurgePending(w) PROVE trans'.row.seq = s
  <2>1. trans' = [trans EXCEPT !.text = NoText]
    BY <1>3 DEF PurgePending
  <2>2. trans'.row = trans.row
    BY <2>1 DEF Typed, Transition, NoTransition
  <2>3. QED
    BY <2>2
<1>4. ASSUME NEW w \in Worker,
             Release(w) \/ (trans' # trans /\ \E disp \in Place : WriteAssessment(w, disp))
      PROVE  s \in dropped'
  <2>1. trans # NoTransition
    BY DEF NoTransition, NoRow, Seqs
  <2>2. dropped' = IF trans = NoTransition THEN dropped ELSE dropped \cup {trans.row.seq}
    BY <1>4, NextNumber
  <2>3. QED
    BY <2>1, <2>2
<1>5. QED
  BY <1>1, <1>2, <1>3, <1>4, TransWriters

LEMMA AssessmentAuditedStep ==
  ASSUME Typed, Typed', RowsInv, AuditInv, RowsChange, [Next]_vars
  PROVE  AssessmentAudited'
<1> DEFINE Known(s) == \/ \E k \in Kinds : events'[k][s] = 1
                       \/ trans'.row.seq = s
                       \/ s \in dropped'
<1>1. SUFFICES ASSUME NEW r \in rows', r.seq > 1 PROVE Known(r.seq)
  BY DEF AssessmentAudited
<1>2. r.seq \in Seqs
  BY DEF Typed, TypeOK, Row
<1>3. ASSUME NEW q \in rows, q.seq = r.seq PROVE Known(r.seq)
  <2>1. CASE \E k \in Kinds : events[k][r.seq] = 1
    BY <1>2, <2>1, EventsStay
  <2>2. CASE trans.row.seq = r.seq
    BY <1>2, <2>2, PendingStays
  <2>3. CASE r.seq \in dropped
    BY <2>3, DroppedGrows
  <2>4. QED
    BY <1>1, <1>3, <2>1, <2>2, <2>3 DEF AuditInv, AssessmentAudited
<1>4. CASE trans # NoTransition /\ r = trans.row
  BY <1>2, <1>4, PendingStays
<1>5. QED
  BY <1>1, <1>3, <1>4 DEF RowsChange, RowsGrow

\* Who comes to work on a transition.
AuditArrival(w) ==
  pc'[w] \in Applying =>
    \/ pc'[w] = "move" /\ job'[w].recovering
    \/ Release(w) /\ pc'[w] = "move"
    \/ lock' = w /\ pc'[w] = "move" /\ \E disp \in Place : WriteAssessment(w, disp)
    \/ /\ pc[w] \in Applying \ {"event", "finish"} /\ pc'[w] \notin {"event", "finish"}
       /\ UNCHANGED <<trans, events, job>>
    \/ ApplyRow(w) /\ pc'[w] = "event" /\ job' = job
    \/ ApplyEvent(w) /\ pc'[w] = "finish"

LEMMA AuditArrives ==
  ASSUME Typed, Typed', RowsInv, NEW w \in Worker, StepOf(w)
  PROVE  AuditArrival(w)
<1>1. \A place : Goto(w, place) => pc'[w] = place
  BY DEF Goto, Typed, TypeOK
<1>2. Done(w) => pc'[w] = "idle"
  BY DEF Done, Typed, TypeOK
<1> DEFINE Elsewhere == pc'[w] \notin Applying
<1>3. Elsewhere => AuditArrival(w)
  BY DEF AuditArrival
<1>4. CASE \E then \in {"idle", "scope"} : Recover(w, then)
  <2>1. PICK then \in {"idle", "scope"} : Recover(w, then)
    BY <1>4
  <2>2. CASE trans = NoTransition
    <3>1. pc'[w] = then
      BY <1>1, <2>1, <2>2 DEF Recover
    <3>2. QED
      BY <1>3, <3>1 DEF Applying
  <2>3. CASE trans # NoTransition
    <3>1. pc'[w] = "move" /\ job' = [job EXCEPT ![w].then = then, ![w].recovering = TRUE]
      BY <1>1, <2>1, <2>3 DEF Recover
    <3>2. job'[w].recovering
      BY <3>1 DEF Typed, JobType
    <3>3. QED
      BY <3>1, <3>2 DEF AuditArrival
  <2>4. QED
    BY <2>2, <2>3
<1>5. CASE Release(w)
  <2>1. pc'[w] = "move"
    BY <1>1, <1>5 DEF Release, Record
  <2>2. QED
    BY <1>5, <2>1 DEF AuditArrival
<1>6. CASE \E disp \in Place : WriteAssessment(w, disp)
  <2>1. PICK disp \in Place : WriteAssessment(w, disp)
    BY <1>6
  <2>2. CASE rows # {} /\ Current.seq # job[w].prior.seq
    <3>1. pc'[w] = "idle"
      BY <1>2, <2>1, <2>2 DEF WriteAssessment
    <3>2. QED
      BY <1>3, <3>1 DEF Applying
  <2>3. CASE ~ (rows # {} /\ Current.seq # job[w].prior.seq)
    <3>1. pc'[w] = "move" /\ lock' = w
      BY <1>1, <2>1, <2>3 DEF WriteAssessment, Record, TakeLock
    <3>2. QED
      BY <2>1, <3>1 DEF AuditArrival
  <2>4. QED
    BY <2>2, <2>3
<1>7. CASE MovePdf(w) \/ UnlinkSource(w) \/ ApplyText(w)
  <2>1. /\ pc[w] \in Applying \ {"event", "finish"} /\ UNCHANGED <<trans, events, job>>
        /\ pc'[w] \notin {"event", "finish"}
    BY <1>1, <1>7 DEF MovePdf, UnlinkSource, ApplyText, Applying
  <2>2. QED
    BY <2>1 DEF AuditArrival
<1>8. CASE ApplyRow(w)
  <2>1. pc'[w] = "idle" \/ (pc'[w] = "event" /\ job' = job)
    BY <1>1, <1>2, <1>8 DEF ApplyRow
  <2>2. QED
    BY <1>3, <1>8, <2>1 DEF AuditArrival, Applying
<1>9. CASE ApplyEvent(w)
  <2>1. pc'[w] = "finish"
    BY <1>1, <1>9 DEF ApplyEvent
  <2>2. QED
    BY <1>9, <2>1 DEF AuditArrival
<1>10. CASE Finish(w)
  <2>1. job[w].then \in {"idle", "scope"} /\ pc'[w] = job[w].then
    BY <1>1, <1>10, JobKept DEF Finish, JobType
  <2>2. QED
    BY <1>3, <2>1 DEF Applying
<1>11. CASE \/ Scope(w) \/ NoVerdict(w) \/ Refresh(w) \/ Stop(w)
            \/ \E extract \in BOOLEAN : Evaluate(w, extract)
  <2>1. Elsewhere
    BY <1>1, <1>2, <1>11 DEF Scope, NoVerdict, Refresh, Stop, Evaluate, Applying
  <2>2. QED
    BY <1>3, <2>1
<1>12. CASE \/ \E hard \in BOOLEAN : StartPurge(w, hard)
            \/ PurgeText(w) \/ PurgePending(w) \/ PurgePdf(w) \/ PurgeEnd(w)
            \/ StartCompact(w) \/ RemoveOriginal(w)
  <2>1. Elsewhere
    BY <1>1, <1>2, <1>12 DEF StartPurge, PurgeText, PurgePending, PurgePdf, PurgeEnd,
                             StartCompact, RemoveOriginal, Applying
  <2>2. QED
    BY <1>3, <2>1
<1>13. CASE \/ StartReindex(w) \/ RebuildRead(w) \/ RebuildRow(w) \/ RebuildText(w)
            \/ \E disp \in Place : StartIngest(w, disp)
            \/ IngestPdf(w) \/ IngestRow(w) \/ IngestText(w)
  <2>1. Elsewhere
    BY <1>1, <1>2, <1>13 DEF StartReindex, RebuildRead, RebuildRow, RebuildText, StartIngest,
                             IngestPdf, IngestRow, IngestText, Applying
  <2>2. QED
    BY <1>3, <2>1
<1>14. CASE \E disp \in Place : WriteAssessment(w, disp) \/ StartIngest(w, disp)
  BY <1>6, <1>13, <1>14
<1>15. CASE Apply(w)
  BY <1>7, <1>8, <1>9, <1>10, <1>15 DEF Apply
<1>16. QED
  BY <1>4, <1>5, <1>11, <1>12, <1>13, <1>14, <1>15 DEF StepOf

\* A recorded transition is for an assessment nobody has audited.
LEMMA AuditRecorded ==
  ASSUME Typed, Typed', RowsInv, AuditInv, NEW w \in Worker,
         \/ Release(w)
         \/ lock' = w /\ \E disp \in Place : WriteAssessment(w, disp),
         pc'[w] = "move"
  PROVE  AuditAt(w)'
<1>1. /\ rows # {} /\ trans'.row.seq = Current.seq + 1 /\ events' = events
      /\ trans' # NoTransition
  BY NextNumber
<1>2. Current \in rows /\ \A q \in rows : q.seq <= Current.seq
  BY <1>1, CurrentIsGreatest DEF Typed, TypeOK
<1>3. trans'.row.seq \in Seqs
  BY <1>1 DEF Typed, Transition, Row
<1>4. ~ \E q \in rows : q.seq = trans'.row.seq
  BY <1>1, <1>2 DEF Typed, TypeOK, Row, Seqs
<1>5. \A k \in Kinds : events[k][trans'.row.seq] = 0
  <2>1. SUFFICES ASSUME NEW k \in Kinds PROVE events[k][trans'.row.seq] = 0
    OBVIOUS
  <2>2. events[k][trans'.row.seq] \in 0..2
    BY <1>3 DEF Typed, TypeOK
  <2>3. events[k][trans'.row.seq] <= 1 /\ events[k][trans'.row.seq] # 1
    BY <1>3, <1>4 DEF AuditInv, AuditedOnce
  <2>4. QED
    BY <2>2, <2>3
<1>6. QED
  BY <1>1, <1>5 DEF AuditAt

LEMMA AuditRow ==
  ASSUME Typed, RowsInv, AuditInv, NEW w \in Worker, ApplyRow(w), pc'[w] = "event", job' = job
  PROVE  AuditAt(w)'
<1>1. UNCHANGED <<trans, events>> /\ pc[w] = "row"
  BY DEF ApplyRow
<1>2. trans.row.seq \in Seqs /\ rows \in SUBSET Row
  BY DEF ApplyRow, Typed, TypeOK, Transition, Row
<1>3. \E q \in rows' : q.seq = trans.row.seq
  <2>1. CASE Current.seq >= trans.row.seq
    <3>1. rows # {}
      BY <1>2, <2>1 DEF Current, NoRow, Seqs
    <3>2. Current \in rows /\ Current.seq \in Nat
      BY <1>2, <3>1, CurrentIsGreatest DEF Row, Seqs
    <3>3. trans.row.seq \in 1..Current.seq
      BY <1>2, <2>1, <3>2 DEF Seqs
    <3>4. QED
      BY <2>1, <3>2, <3>3 DEF ApplyRow, RowsInv
  <2>2. CASE ~ (Current.seq >= trans.row.seq)
    <3>1. trans.row \in rows'
      BY <2>2 DEF ApplyRow, Goto, Done, Typed, TypeOK
    <3>2. QED
      BY <3>1
  <2>3. QED
    BY <2>1, <2>2
<1>4. ~job'[w].recovering => \A k \in Kinds : events'[k][trans'.row.seq] = 0
  BY <1>1 DEF AuditInv, AuditAt, Applying
<1>5. QED
  BY <1>1, <1>3, <1>4 DEF AuditAt

LEMMA AuditOwn ==
  ASSUME Typed, Typed', RowsInv, RowsChange, AuditInv, NEW w \in Worker, StepOf(w)
  PROVE  AuditAt(w)'
<1>1. AuditArrival(w)
  BY AuditArrives
<1>2. CASE pc'[w] \notin Applying
  BY <1>2 DEF AuditAt, Applying
<1>3. CASE pc'[w] = "move" /\ job'[w].recovering
  BY <1>3 DEF AuditAt
<1>4. CASE /\ pc[w] \in Applying \ {"event", "finish"} /\ pc'[w] \notin {"event", "finish"}
           /\ UNCHANGED <<trans, events, job>>
  BY <1>4 DEF AuditInv, AuditAt
<1>5. CASE ApplyEvent(w) /\ pc'[w] = "finish"
  <2>1. EventOnce(w) /\ trans' = trans /\ rows' = rows /\ pc[w] = "event"
    BY <1>5, EventIsOnce DEF ApplyEvent
  <2>2. trans.event \in Kinds /\ trans.row.seq \in Seqs
    BY <1>5 DEF ApplyEvent, Typed, TypeOK, Transition, Row
  <2>3. events'[trans.event][trans.row.seq] = 1
    BY <2>1, <2>2 DEF EventOnce
  <2>4. \E q \in rows : q.seq = trans.row.seq
    BY <2>1 DEF AuditInv, AuditAt
  <2>5. QED
    BY <1>5, <2>1, <2>2, <2>3, <2>4 DEF AuditAt
<1>6. QED
  BY <1>1, <1>2, <1>3, <1>4, <1>5, AuditRecorded, AuditRow DEF AuditArrival

\* Nobody else touches the transition or the trail meanwhile: that takes the lock.
LEMMA AuditOthers ==
  ASSUME Typed, Typed', RowsInv, RowsChange, AuditInv, NEW w \in Worker, StepOf(w),
         [Next]_vars, NEW v \in Worker, v # w
  PROVE  AuditAt(v)'
<1>1. pc'[v] = pc[v] /\ job'[v] = job[v]
  BY WorkerFrame
<1>2. SUFFICES ASSUME pc[v] \in Applying PROVE AuditAt(v)'
  BY <1>1 DEF AuditAt, Applying
<1>3. lock = v /\ v # NoWorker
  BY <1>2 DEF Typed, TypeOK, Applying, Locked
<1>4. \A u \in Worker : \A place : Goto(u, place) => pc'[u] = place
  BY DEF Goto, Typed, TypeOK
<1>5. \A u \in Worker : ~ApplyEvent(u)
  <2>1. SUFFICES ASSUME NEW u \in Worker, ApplyEvent(u) PROVE FALSE
    OBVIOUS
  <2>2. u = v
    BY <1>3, <2>1 DEF ApplyEvent, Typed, TypeOK, Locked
  <2>3. QED
    BY <1>1, <1>4, <2>1, <2>2 DEF ApplyEvent
<1>6. trans' = trans
  <2>1. \A u \in Worker : ~Finish(u)
    <3>1. SUFFICES ASSUME NEW u \in Worker, Finish(u) PROVE FALSE
      OBVIOUS
    <3>2. u = v /\ pc[v] = "finish"
      BY <1>3, <3>1 DEF Finish, FreeLock
    <3>3. pc'[v] = job[v].then /\ job[v].then \in {"idle", "scope"}
      BY <1>4, <3>1, <3>2, JobKept DEF Finish, JobType
    <3>4. QED
      BY <1>1, <3>2, <3>3
  <2>2. \A u \in Worker : ~PurgePending(u)
    BY <1>2, <1>3 DEF PurgePending, Typed, TypeOK, Locked, Applying
  <2>3. \A u \in Worker : ~Release(u)
    BY <1>3 DEF Release, TakeLock
  <2>4. \A u \in Worker : ~ \E disp \in Place : WriteAssessment(u, disp)
    BY <1>3 DEF WriteAssessment, TakeLock
  <2>5. QED
    BY <2>1, <2>2, <2>3, <2>4, TransWriters
<1>7. events' = events
  BY <1>5, EventWriters
<1>8. \A q \in rows : \E p \in rows' : p.seq = q.seq
  BY DEF RowsChange, RowsKept
<1>9. QED
  BY <1>1, <1>6, <1>7, <1>8 DEF AuditInv, AuditAt

LEMMA AuditInvStep ==
  Typed /\ Typed' /\ RowsInv /\ AuditInv /\ [Next]_vars => AuditInv'
<1>1. ASSUME AuditInv, UNCHANGED vars PROVE AuditInv'
  BY <1>1 DEF AuditInv, AuditAt, AuditedOnce, AssessmentAudited, vars
<1>2. ASSUME Typed, Typed', RowsInv, AuditInv, NEW w \in Worker, StepOf(w), [Next]_vars
      PROVE  AuditInv'
  <2>1. RowsChange
    BY <1>2, RowsStep
  <2>2. AuditedOnce' /\ AssessmentAudited'
    BY <1>2, <2>1, AuditedOnceStep, AssessmentAuditedStep
  <2>3. \A v \in Worker : AuditAt(v)'
    BY <1>2, <2>1, AuditOwn, AuditOthers
  <2>4. QED
    BY <2>2, <2>3 DEF AuditInv
<1>3. QED
  BY <1>1, <1>2, StepOfOne

LEMMA AuditInit == Init => AuditInv
BY DEF Init, AuditInv, AuditAt, AuditedOnce, AssessmentAudited, Applying

LEMMA AuditAlways == Spec => []AuditInv
BY TypedInit, TypedStep, RowsInit, RowsInvStep, AuditInit, AuditInvStep, PTL DEF Spec

\* However often a transition is carried out, by its writer or by recoveries
\* after crashes, its event is appended at most once, and after its row.
THEOREM EventsOnce == Spec => []AuditedOnce
<1>1. AuditInv => AuditedOnce
  BY DEF AuditInv
<1>2. QED
  BY <1>1, AuditAlways, PTL

\* No crash leaves an assessment in the index that is neither audited nor
\* waiting for a recovery, unless another transition was recorded over its own.
THEOREM EventsComplete == Spec => []AssessmentAudited
<1>1. AuditInv => AssessmentAudited
  BY DEF AuditInv
<1>2. QED
  BY <1>1, AuditAlways, PTL

-----------------------------------------------------------------------------
(* The PDF is where the current assessment says.                            *)

RowsUpTo(n) == \A r \in rows : r.seq <= n

\* The first commit finds no PDF and no row, and is alone.
Arriving ==
  /\ \A w \in Worker : pc[w] = "ingest_pdf" => rows = {} /\ pdf = {}
  /\ \A v, w \in Worker : pc[v] \in Ingesting /\ pc[w] \in Ingesting => v = w
  /\ \A w \in Worker : pc[w] = "ingest_row" => job[w].place \in pdf

\* Without a transition the PDF is where the last row says, whichever file the
\* row is read from.
AtRest ==
  trans = NoTransition /\ pdf # {} => \A r \in rows : RowsUpTo(r.seq) => r.path \in pdf

\* A transition is for the last number or the next one, and the PDF is at one
\* of its two ends.
OnTheMove ==
  trans # NoTransition =>
    /\ pdf # {} => trans.from \in pdf \/ trans.row.path \in pdf
    /\ \A r \in rows : /\ r.seq <= trans.row.seq
                       /\ r.seq = trans.row.seq => Same(r, trans.row)

\* Who carries the transition out has moved the PDF before anything else.
Moved(w) ==
  /\ pc[w] = "unlink_source" => trans.from # trans.row.path
  /\ pc[w] \in Applying \ {"move"} /\ pdf # {} => trans.row.path \in pdf

\* An assessment that is about to be written was read from a row that is
\* still there; when it is the last one, it names the place of the PDF.
Judged(w) ==
  pc[w] \in {"evaluate", "write"} =>
    /\ job[w].prior.seq > 1
         => \E r \in rows : r.seq = job[w].prior.seq /\ Same(r, job[w].prior)
    /\ trans = NoTransition /\ pdf # {} /\ RowsUpTo(job[w].prior.seq) => job[w].prior.path \in pdf

Placed == Arriving /\ AtRest /\ OnTheMove /\ \A w \in Worker : Moved(w) /\ Judged(w)
PlaceInv == raced \/ Placed

LEMMA RacedWrite ==
  ASSUME NEW w \in Worker, NEW disp \in Place, WriteAssessment(w, disp)
  PROVE  raced' = raced \/ raced' = (raced \/ trans # NoTransition)
<1>1. CASE rows # {} /\ Current.seq # job[w].prior.seq
  BY <1>1 DEF WriteAssessment, history
<1>2. CASE ~ (rows # {} /\ Current.seq # job[w].prior.seq)
  BY <1>2 DEF WriteAssessment, Record
<1>3. QED
  BY <1>1, <1>2

LEMMA RacedStays ==
  ASSUME [Next]_vars, raced
  PROVE  raced'
BY ZenonT(60), RacedWrite
   DEF Next, vars, history, Recover, Scope, NoVerdict, Refresh, Release, Record, Apply,
       MovePdf, UnlinkSource, ApplyText, ApplyRow, ApplyEvent, Finish, Evaluate, StartIngest,
       StartPurge, PurgeText, PurgePending, PurgePdf, PurgeEnd, StartCompact, RemoveOriginal,
       StartReindex, RebuildRead, RebuildRow, RebuildText, IngestPdf, IngestRow, IngestText, Stop

\* Who comes to move the PDF, to judge a row, or to commit the document.
Comes(w) ==
  /\ pc'[w] = "ingest_pdf" => \E disp \in Place : StartIngest(w, disp)
  /\ pc'[w] = "ingest_row" => IngestPdf(w)
  /\ pc'[w] = "ingest_text" => IngestRow(w)
  /\ pc'[w] = "unlink_source" => MovePdf(w)
  /\ pc'[w] = "text" => MovePdf(w) \/ UnlinkSource(w)
  /\ pc'[w] = "row" => ApplyText(w)
  /\ pc'[w] = "event" => ApplyRow(w)
  /\ pc'[w] = "finish" => ApplyEvent(w)
  /\ pc'[w] = "evaluate" => Scope(w)
  /\ pc'[w] = "write" => \E extract \in BOOLEAN : Evaluate(w, extract)

LEMMA WhoComes ==
  ASSUME Typed, NEW w \in Worker, StepOf(w)
  PROVE  Comes(w)
<1>1. \A place : Goto(w, place) => pc'[w] = place
  BY DEF Goto, Typed, TypeOK
<1>2. Done(w) => pc'[w] = "idle"
  BY DEF Done, Typed, TypeOK
<1>3. CASE Scope(w) \/ \E extract \in BOOLEAN : Evaluate(w, extract)
  BY <1>1, <1>2, <1>3 DEF Scope, Evaluate, Comes
<1>4. CASE \E disp \in Place : WriteAssessment(w, disp)
  <2>1. pc'[w] \in {"move", "idle"}
    BY <1>1, <1>2, <1>4 DEF WriteAssessment, Record
  <2>2. QED
    BY <2>1 DEF Comes
<1>5. CASE MovePdf(w) \/ UnlinkSource(w) \/ ApplyText(w) \/ ApplyEvent(w)
  BY <1>1, <1>5 DEF MovePdf, UnlinkSource, ApplyText, ApplyEvent, Comes
<1>6. CASE ApplyRow(w)
  <2>1. pc'[w] \in {"event", "idle"}
    BY <1>1, <1>2, <1>6 DEF ApplyRow
  <2>2. QED
    BY <1>6, <2>1 DEF Comes
<1>7. CASE Finish(w) \/ \E then \in {"idle", "scope"} : Recover(w, then)
  <2>1. pc'[w] \in {"idle", "scope", "move"}
    BY <1>1, <1>7, JobKept DEF Finish, Recover, JobType
  <2>2. QED
    BY <2>1 DEF Comes
<1>8. CASE \/ NoVerdict(w) \/ Refresh(w) \/ Release(w) \/ Stop(w)
            \/ PurgeEnd(w) \/ RebuildText(w) \/ IngestText(w)
  <2>1. pc'[w] \in {"idle", "move"}
    BY <1>1, <1>2, <1>8 DEF NoVerdict, Refresh, Release, Record, Stop, PurgeEnd, RebuildText,
                             IngestText
  <2>2. QED
    BY <2>1 DEF Comes
<1>9. CASE \/ \E hard \in BOOLEAN : StartPurge(w, hard)
            \/ PurgeText(w) \/ PurgePending(w) \/ PurgePdf(w)
  <2>1. pc'[w] \in {"purge_text", "purge_pending", "purge_pdf", "purge_end"}
    BY <1>1, <1>9 DEF StartPurge, PurgeText, PurgePending, PurgePdf
  <2>2. QED
    BY <2>1 DEF Comes
<1>10. CASE StartCompact(w) \/ RemoveOriginal(w)
  <2>1. pc'[w] \in {"compact", "idle"}
    BY <1>1, <1>2, <1>10 DEF StartCompact, RemoveOriginal
  <2>2. QED
    BY <2>1 DEF Comes
<1>11. CASE StartReindex(w) \/ RebuildRead(w) \/ RebuildRow(w)
  <2>1. pc'[w] \in {"rebuild_read", "rebuild_row", "rebuild_text", "idle"}
    BY <1>1, <1>2, <1>11 DEF StartReindex, RebuildRead, RebuildRow
  <2>2. QED
    BY <2>1 DEF Comes
<1>12. CASE (\E disp \in Place : StartIngest(w, disp)) \/ IngestPdf(w) \/ IngestRow(w)
  BY <1>1, <1>12 DEF StartIngest, IngestPdf, IngestRow, Comes
<1>13. CASE Apply(w)
  BY <1>5, <1>6, <1>7, <1>13 DEF Apply
<1>14. CASE \E disp \in Place : WriteAssessment(w, disp) \/ StartIngest(w, disp)
  BY <1>4, <1>12, <1>14
<1>15. QED
  BY <1>3, <1>7, <1>8, <1>9, <1>10, <1>11, <1>12, <1>13, <1>14 DEF StepOf

Facts == Typed /\ Typed' /\ RowsInv /\ RowsChange /\ AuditInv

LEMMA NotEmptied ==
  ASSUME Facts, trans # NoTransition
  PROVE  rows # {} /\ trans.row \in Row /\ trans.row.seq > 1
BY DEF Facts, Typed, Transition, RowsInv

\* What a step does to the PDF.
LEMMA PdfStep ==
  ASSUME Facts, ~raced', Placed, [Next]_vars
  PROVE  \/ pdf' = pdf
         \/ pdf' = {} /\ \E w \in Worker : PurgePdf(w)
         \/ /\ trans # NoTransition /\ pdf # {} /\ trans.row.path \in pdf'
            /\ pdf \subseteq pdf' /\ \E w \in Worker : MovePdf(w)
         \/ /\ trans # NoTransition
            /\ trans.row.path \in pdf' \/ pdf' = {}
            /\ pdf # {} => trans.row.path \in pdf'
            /\ pdf' \subseteq pdf /\ \E w \in Worker : UnlinkSource(w)
         \/ /\ rows = {} /\ pdf = {} /\ trans = NoTransition
            /\ \E w \in Worker : IngestPdf(w)
<1>1. ASSUME NEW w \in Worker, MovePdf(w), pdf' # pdf
      PROVE  /\ trans # NoTransition /\ pdf # {} /\ trans.row.path \in pdf'
             /\ pdf \subseteq pdf'
  BY <1>1 DEF MovePdf, Facts, Typed, TypeOK, Applying
<1>2. ASSUME NEW w \in Worker, UnlinkSource(w)
      PROVE  /\ trans # NoTransition
             /\ trans.row.path \in pdf' \/ pdf' = {}
             /\ pdf # {} => trans.row.path \in pdf'
             /\ pdf' \subseteq pdf
  <2>1. trans # NoTransition
    BY <1>2 DEF UnlinkSource, Facts, Typed, TypeOK
  <2>2. pdf' = pdf \ {trans.from} /\ trans.from # trans.row.path
    BY <1>2 DEF UnlinkSource, Placed, Moved
  <2>3. pdf # {} => trans.row.path \in pdf
    BY <1>2 DEF UnlinkSource, Placed, Moved, Applying
  <2>4. QED
    BY <2>1, <2>2, <2>3
<1>3. ASSUME NEW w \in Worker, PurgePdf(w) PROVE pdf' = {}
  BY <1>3 DEF PurgePdf
<1>4. ASSUME NEW w \in Worker, IngestPdf(w)
      PROVE  rows = {} /\ pdf = {} /\ trans = NoTransition
  <2>1. rows = {} /\ pdf = {}
    BY <1>4 DEF IngestPdf, Placed, Arriving
  <2>2. QED
    BY <2>1, NotEmptied
<1>5. QED
  BY <1>1, <1>2, <1>3, <1>4, PdfWriters

\* What a row that is new says of the PDF.
LEMMA NewRows ==
  ASSUME Facts, ~raced', Placed, [Next]_vars, NEW r \in rows'
  PROVE  \/ \E q \in rows : q.seq = r.seq /\ q.path = r.path
         \/ r.seq = 1 /\ r.path \in pdf /\ pdf' = pdf
         \/ trans # NoTransition /\ r = trans.row
<1> DEFINE Known == \/ \E q \in rows : q.seq = r.seq /\ q.path = r.path
                    \/ r.seq = 1 /\ r.path \in pdf /\ pdf' = pdf
                    \/ trans # NoTransition /\ r = trans.row
<1>1. CASE r \in rows
  BY <1>1
<1>2. ASSUME NEW w \in Worker, StartCompact(w) PROVE Known
  <2>1. rows' = rows \cup {[q EXCEPT !.file = "merged"] : q \in rows}
    BY <1>2 DEF StartCompact
  <2>2. \A q \in rows : /\ [q EXCEPT !.file = "merged"].seq = q.seq
                        /\ [q EXCEPT !.file = "merged"].path = q.path
    BY DEF Facts, Typed, TypeOK, Row
  <2>3. QED
    BY <2>1, <2>2
<1>3. ASSUME NEW w \in Worker, RebuildRow(w) \/ IngestRow(w) PROVE Known
  <2>1. rows' = FirstRow(job[w].place) /\ pdf' = pdf
    BY <1>3 DEF RebuildRow, IngestRow
  <2>2. job[w].place \in pdf
    BY <1>3 DEF RebuildRow, IngestRow, Placed, Arriving
  <2>3. r \in rows \/ r = [NoRow EXCEPT !.seq = 1, !.disp = job[w].place, !.path = job[w].place]
    BY <2>1 DEF FirstRow
  <2>4. r \in rows \/ (r.seq = 1 /\ r.path = job[w].place)
    BY <2>3 DEF NoRow
  <2>5. QED
    BY <2>1, <2>2, <2>4
<1>4. ASSUME NEW w \in Worker, ApplyRow(w) \/ RemoveOriginal(w) PROVE Known
  <2>1. r \in rows \/ r = trans.row
    BY <1>4 DEF ApplyRow, RemoveOriginal
  <2>2. ApplyRow(w) => trans # NoTransition
    BY DEF ApplyRow, Facts, Typed, TypeOK
  <2>3. RemoveOriginal(w) => r \in rows
    BY DEF RemoveOriginal
  <2>4. QED
    BY <1>4, <2>1, <2>2, <2>3
<1>5. QED
  BY <1>1, <1>2, <1>3, <1>4, RowWriters

LEMMA RecordUnlocked ==
  ASSUME lock # NoWorker, NEW w \in Worker, NEW disp \in Place, WriteAssessment(w, disp)
  PROVE  UNCHANGED <<trans, pdf>>
BY DEF WriteAssessment, TakeLock, stores

\* Whoever holds the lock is alone with the transition and with the PDF.
LEMMA LockedAlone ==
  ASSUME Facts, ~raced', Placed, [Next]_vars, NEW w \in Worker, StepOf(w),
         NEW v \in Worker, v # w, pc[v] \in Locked
  PROVE  trans' = trans /\ pdf' = pdf
<1>1. pc'[v] = pc[v] /\ job'[v] = job[v]
  BY WorkerFrame DEF Facts
<1>2. lock = v /\ v # NoWorker
  BY DEF Facts, Typed, TypeOK
<1>3. pc[w] \notin Locked /\ lock' = v
  BY <1>1, <1>2 DEF Facts, Typed, TypeOK
<1>4. UNCHANGED <<trans, pdf>>
  BY <1>2, <1>3, AssessmentWrites, RecordUnlocked
     DEF StepOf, stores, Recover, Scope, NoVerdict, Refresh, Release, Apply, MovePdf, Locked,
         UnlinkSource, ApplyText, ApplyRow, ApplyEvent, Finish, Evaluate, StartIngest, StartPurge,
         PurgeText, PurgePending, PurgePdf, PurgeEnd, StartCompact, RemoveOriginal, TakeLock,
         StartReindex, RebuildRead, RebuildRow, RebuildText, IngestPdf, IngestRow, IngestText, Stop
<1>5. QED
  BY <1>4

LEMMA ArrivingStep ==
  ASSUME Facts, ~raced', Placed, [Next]_vars, NEW w \in Worker, StepOf(w)
  PROVE  Arriving'
<1>1. \A v \in Worker \ {w} : pc'[v] = pc[v] /\ job'[v] = job[v]
  BY WorkerFrame DEF Facts
<1>2. Comes(w)
  BY WhoComes DEF Facts
<1>3. \A place : Goto(w, place) => pc'[w] = place
  BY DEF Goto, Facts, Typed, TypeOK
<1>4. pc'[w] \in Ingesting => \/ pc[w] \in Ingesting
                              \/ /\ \A v \in Worker : pc[v] \notin Ingesting
                                 /\ rows' = {} /\ pdf' = {} /\ pc'[w] = "ingest_pdf"
  BY <1>2, <1>3 DEF Comes, Ingesting, StartIngest, IngestPdf, IngestRow, stores
<1>5. ASSUME NEW u \in Worker, NEW v \in Worker, pc'[u] \in Ingesting, pc'[v] \in Ingesting
      PROVE  u = v
  BY <1>1, <1>4, <1>5 DEF Placed, Arriving
<1>6. ASSUME NEW v \in Worker, pc'[v] = "ingest_row" PROVE job'[v].place \in pdf'
  <2>1. CASE v = w
    <3>1. IngestPdf(w)
      BY <1>2, <1>6, <2>1 DEF Comes
    <3>2. QED
      BY <2>1, <3>1 DEF IngestPdf
  <2>2. CASE v # w
    <3>1. pc[v] = "ingest_row" /\ job'[v] = job[v]
      BY <1>1, <1>6, <2>2
    <3>2. pdf' = pdf
      BY <2>2, <3>1, LockedAlone DEF Locked
    <3>3. QED
      BY <3>1, <3>2 DEF Placed, Arriving
  <2>3. QED
    BY <2>1, <2>2
<1>7. ASSUME NEW v \in Worker, pc'[v] = "ingest_pdf" PROVE rows' = {} /\ pdf' = {}
  <2>1. CASE v = w
    <3>1. \E disp \in Place : StartIngest(w, disp)
      BY <1>2, <1>7, <2>1 DEF Comes
    <3>2. QED
      BY <3>1 DEF StartIngest, stores
  <2>2. CASE v # w
    <3>1. pc[v] = "ingest_pdf" /\ pc[v] \in Ingesting
      BY <1>1, <1>7, <2>2 DEF Ingesting
    <3>2. rows = {} /\ pdf = {}
      BY <3>1 DEF Placed, Arriving
    <3>3. trans = NoTransition
      BY <3>2, NotEmptied
    <3>4. ~ \E r \in rows' : TRUE
      BY <3>2, <3>3, NewRows
    <3>5. \A u \in Worker : ~IngestPdf(u)
      <4>1. SUFFICES ASSUME NEW u \in Worker, IngestPdf(u) PROVE FALSE
        OBVIOUS
      <4>2. u = v
        BY <3>1, <4>1 DEF Placed, Arriving, IngestPdf, Ingesting
      <4>3. pc'[v] = "ingest_row"
        BY <4>1, <4>2 DEF IngestPdf, Goto, Facts, Typed, TypeOK
      <4>4. QED
        BY <1>7, <4>3
    <3>6. pdf' = {}
      BY <3>2, <3>3, <3>5, PdfStep
    <3>7. QED
      BY <3>4, <3>6
  <2>3. QED
    BY <2>1, <2>2
<1>8. QED
  BY <1>5, <1>6, <1>7 DEF Arriving

LEMMA SamePath ==
  ASSUME NEW r \in Row, NEW s \in Row, Same(r, s)
  PROVE  r.path = s.path
<1>1. [r EXCEPT !.file = "own"].path = r.path /\ [s EXCEPT !.file = "own"].path = s.path
  BY DEF Row
<1>2. QED
  BY <1>1 DEF Same

\* A number that was not passed before is not passed for having more files.
LEMMA UpToBefore ==
  ASSUME Facts, NEW n, RowsUpTo(n)'
  PROVE  RowsUpTo(n)
BY DEF Facts, RowsChange, RowsKept, RowsUpTo

\* A transition that ends has brought the PDF where the last row says.
LEMMA TransitionEnds ==
  ASSUME Facts, ~raced', Placed, [Next]_vars, trans # NoTransition, trans' = NoTransition,
         pdf' # {}
  PROVE  /\ rows' = rows /\ pdf' = pdf /\ trans.row.path \in pdf
         /\ trans.row.seq > 1
         /\ \E q \in rows : q.seq = trans.row.seq
<1>1. ASSUME NEW u \in Worker, PurgePending(u) PROVE FALSE
  <2>1. trans' = [trans EXCEPT !.text = NoText]
    BY <1>1 DEF PurgePending
  <2>2. trans'.row = trans.row
    BY <2>1 DEF Facts, Typed, Transition
  <2>3. QED
    BY <2>2, NotEmptied DEF NoTransition, NoRow
<1>2. ASSUME NEW u \in Worker,
             Release(u) \/ (trans' # trans /\ \E disp \in Place : WriteAssessment(u, disp))
      PROVE  FALSE
  BY <1>2, NextNumber DEF Facts
<1>3. PICK u \in Worker : Finish(u)
  BY <1>1, <1>2, TransWriters
<1>4. UNCHANGED <<rows, pdf>> /\ pc[u] = "finish"
  BY <1>3 DEF Finish
<1>5. trans.row.path \in pdf
  BY <1>4 DEF Placed, Moved, Applying
<1>6. \E q \in rows : q.seq = trans.row.seq
  BY <1>4 DEF Facts, AuditInv, AuditAt
<1>7. QED
  BY <1>4, <1>5, <1>6, NotEmptied

LEMMA AtRestStep ==
  ASSUME Facts, ~raced', Placed, [Next]_vars
  PROVE  AtRest'
<1>1. SUFFICES ASSUME trans' = NoTransition, pdf' # {}, NEW r \in rows', RowsUpTo(r.seq)'
               PROVE  r.path \in pdf'
  BY DEF AtRest
<1>2. RowsUpTo(r.seq) /\ r.seq \in Nat
  <2>1. r \in Row
    BY DEF Facts, Typed, TypeOK
  <2>2. QED
    BY <1>1, <2>1, UpToBefore DEF Row, Seqs
<1>3. CASE trans # NoTransition
  <2>1. PICK q \in rows : q.seq = trans.row.seq
    BY <1>1, <1>3, TransitionEnds
  <2>2. rows' = rows /\ pdf' = pdf /\ trans.row.path \in pdf
    BY <1>1, <1>3, TransitionEnds
  <2>3. r.seq = trans.row.seq
    BY <1>1, <1>2, <1>3, <2>1, <2>2 DEF Placed, OnTheMove, RowsUpTo, Facts, Typed, TypeOK, Row,
                                        Seqs
  <2>4. Same(r, trans.row) /\ r \in Row /\ trans.row \in Row
    BY <1>3, <2>2, <2>3, NotEmptied DEF Placed, OnTheMove, Facts, Typed, TypeOK
  <2>5. r.path = trans.row.path
    BY <2>4, SamePath
  <2>6. QED
    BY <2>2, <2>5
<1>4. CASE trans = NoTransition
  <2>1. CASE r.seq = 1 /\ r.path \in pdf /\ pdf' = pdf
    BY <2>1
  <2>2. ASSUME NEW q \in rows, q.seq = r.seq, q.path = r.path PROVE r.path \in pdf'
    <3>1. pdf # {} => r.path \in pdf
      BY <1>2, <1>4, <2>2 DEF Placed, AtRest
    <3>2. pdf' = pdf
      BY <1>1, <1>4, <2>2, PdfStep
    <3>3. QED
      BY <1>1, <3>1, <3>2
  <2>3. QED
    BY <1>4, <2>1, <2>2, NewRows
<1>5. QED
  BY <1>3, <1>4

\* A new transition starts where the PDF is.
LEMMA StartsAtPdf ==
  ASSUME Facts, ~raced', Placed, [Next]_vars, NEW w \in Worker, pdf # {},
         Release(w) \/ (trans' # trans /\ \E disp \in Place : WriteAssessment(w, disp))
  PROVE  pdf' = pdf /\ (trans'.from \in pdf \/ trans'.row.path \in pdf)
<1>1. CASE Release(w)
  <2>1. Current \in Row
    BY <1>1, CurrentType DEF Release, Facts, Typed, TypeOK
  <2>2. /\ pdf' = pdf /\ (Current.path \in pdf \/ "archive" \in pdf)
        /\ trans'.from = Current.path /\ trans'.row.path = Destination(Current.path, "archive")
    BY <1>1, <2>1 DEF Release, Record, Row
  <2>3. QED
    BY <2>2 DEF Destination
<1>2. ASSUME NEW disp \in Place, WriteAssessment(w, disp), trans' # trans
      PROVE  pdf' = pdf /\ (trans'.from \in pdf \/ trans'.row.path \in pdf)
  <2>1. ~ (rows # {} /\ Current.seq # job[w].prior.seq)
    BY <1>2 DEF WriteAssessment, stores
  <2>2. rows # {} /\ pc[w] = "write"
    BY <1>2 DEF WriteAssessment, Facts, RowsInv
  <2>3. trans'.from = job[w].prior.path /\ pdf' = pdf
    BY <1>2, <2>1 DEF WriteAssessment, Record
  <2>4. raced' = (raced \/ trans # NoTransition)
    <3>1. raced' = (raced \/ (trans # NoTransition /\ "job.reassessed" = "job.reassessed"))
      BY <1>2, <2>1 DEF WriteAssessment, Record
    <3>2. QED
      BY <3>1
  <2>5. trans = NoTransition
    BY <2>4
  <2>6. \A s \in rows : s.seq <= Current.seq
    BY <2>2, CurrentIsGreatest DEF Facts, Typed, TypeOK
  <2>7. RowsUpTo(job[w].prior.seq)
    BY <2>1, <2>2, <2>6 DEF RowsUpTo
  <2>8. job[w].prior.path \in pdf
    BY <2>2, <2>5, <2>7 DEF Placed, Judged
  <2>9. QED
    BY <2>3, <2>8
<1>3. QED
  BY <1>1, <1>2

LEMMA OnTheMoveStep ==
  ASSUME Facts, ~raced', Placed, [Next]_vars
  PROVE  OnTheMove'
<1>1. SUFFICES ASSUME trans' # NoTransition
               PROVE  /\ pdf' # {} => trans'.from \in pdf' \/ trans'.row.path \in pdf'
                      /\ \A r \in rows' : /\ r.seq <= trans'.row.seq
                                          /\ r.seq = trans'.row.seq => Same(r, trans'.row)
  BY DEF OnTheMove
<1>2. ASSUME NEW w \in Worker,
             Release(w) \/ (trans' # trans /\ \E disp \in Place : WriteAssessment(w, disp))
      PROVE  /\ pdf' # {} => trans'.from \in pdf' \/ trans'.row.path \in pdf'
             /\ \A r \in rows' : /\ r.seq <= trans'.row.seq
                                 /\ r.seq = trans'.row.seq => Same(r, trans'.row)
  <2>1. rows # {} /\ rows' = rows /\ trans'.row.seq = Current.seq + 1
    BY <1>2, NextNumber DEF Facts
  <2>2. Current \in rows /\ \A s \in rows : s.seq <= Current.seq
    BY <2>1, CurrentIsGreatest DEF Facts, Typed, TypeOK
  <2>3. \A r \in rows' : r.seq < trans'.row.seq
    BY <2>1, <2>2 DEF Facts, Typed, TypeOK, Row, Seqs
  <2>4. pdf' = pdf
    BY <1>2, AssessmentWrites DEF Release, Record
  <2>5. trans'.row.seq \in Nat /\ \A r \in rows' : r.seq \in Nat
    BY <2>1, <2>2 DEF Facts, Typed, TypeOK, Row, Seqs
  <2>6. \A r \in rows' : r.seq <= trans'.row.seq /\ r.seq # trans'.row.seq
    BY <2>3, <2>5
  <2>7. QED
    BY <1>2, <2>4, <2>6, StartsAtPdf
<1>3. CASE trans'.from = trans.from /\ trans'.row = trans.row /\ trans # NoTransition
  <2>1. pdf' # {} => trans.from \in pdf' \/ trans.row.path \in pdf'
    BY <1>3, PdfStep DEF Placed, OnTheMove
  <2>2. ASSUME NEW r \in rows'
        PROVE  r.seq <= trans.row.seq /\ (r.seq = trans.row.seq => Same(r, trans.row))
    <3>1. trans.row.seq > 1 /\ trans.row.seq \in Nat /\ trans.row \in Row /\ r.seq \in Nat
      BY <1>3, NotEmptied DEF Row, Seqs, Facts, Typed, TypeOK
    <3>2. CASE r.seq = 1
      BY <3>1, <3>2
    <3>3. ASSUME NEW q \in rows, q.seq = r.seq, Same(q, r)
          PROVE  r.seq <= trans.row.seq /\ (r.seq = trans.row.seq => Same(r, trans.row))
      BY <1>3, <3>3 DEF Placed, OnTheMove, Same
    <3>4. CASE r = trans.row
      BY <3>1, <3>4 DEF Same
    <3>5. QED
      BY <3>2, <3>3, <3>4 DEF Facts, RowsChange, RowsGrow
  <2>3. QED
    BY <1>3, <2>1, <2>2
<1>4. ASSUME NEW w \in Worker, PurgePending(w)
      PROVE  trans'.from = trans.from /\ trans'.row = trans.row /\ trans # NoTransition
  <2>1. trans' = [trans EXCEPT !.text = NoText]
    BY <1>4 DEF PurgePending
  <2>2. QED
    BY <1>1, <2>1 DEF Facts, Typed, Transition, NoTransition
<1>5. ASSUME NEW w \in Worker, Finish(w) PROVE FALSE
  BY <1>1, <1>5 DEF Finish
<1>6. QED
  BY <1>1, <1>2, <1>3, <1>4, <1>5, TransWriters

LEMMA MovedStep ==
  ASSUME Facts, ~raced', Placed, [Next]_vars, NEW w \in Worker, StepOf(w), NEW v \in Worker
  PROVE  Moved(v)'
<1>1. CASE v # w
  <2>1. pc'[v] = pc[v]
    BY <1>1, WorkerFrame DEF Facts
  <2>2. pc[v] \in Applying => trans' = trans /\ pdf' = pdf
    BY <1>1, LockedAlone DEF Applying, Locked
  <2>3. QED
    BY <2>1, <2>2 DEF Placed, Moved, Applying
<1>2. CASE v = w
  <2>1. Comes(w)
    BY WhoComes DEF Facts
  <2>2. \A place : Goto(w, place) => pc'[w] = place
    BY DEF Goto, Facts, Typed, TypeOK
  <2>3. CASE MovePdf(w)
    <3>1. trans' = trans /\ trans # NoTransition
      BY <2>3 DEF MovePdf, Facts, Typed, TypeOK
    <3>2. CASE trans.from # trans.row.path /\ trans.from \in pdf
      BY <1>2, <2>2, <2>3, <3>1, <3>2 DEF MovePdf, Moved
    <3>3. CASE ~ (trans.from # trans.row.path /\ trans.from \in pdf)
      <4>1. pdf' = pdf /\ pc'[w] = "text"
        BY <2>2, <2>3, <3>3 DEF MovePdf
      <4>2. pdf # {} => trans.row.path \in pdf
        BY <3>1, <3>3 DEF Placed, OnTheMove
      <4>3. QED
        BY <1>2, <3>1, <4>1, <4>2 DEF Moved
    <3>4. QED
      BY <3>2, <3>3
  <2>4. CASE UnlinkSource(w)
    <3>1. trans' = trans /\ pc'[w] = "text" /\ pdf' = pdf \ {trans.from}
      BY <2>2, <2>4 DEF UnlinkSource
    <3>2. trans.from # trans.row.path /\ (pdf # {} => trans.row.path \in pdf)
      BY <2>4 DEF UnlinkSource, Placed, Moved, Applying
    <3>3. QED
      BY <1>2, <3>1, <3>2 DEF Moved
  <2>5. CASE ApplyText(w) \/ ApplyRow(w) \/ ApplyEvent(w)
    <3>1. trans' = trans /\ pdf' = pdf /\ pc'[w] # "unlink_source"
      BY <2>2, <2>5 DEF ApplyText, ApplyRow, ApplyEvent, Done, Facts, Typed, TypeOK
    <3>2. pdf # {} => trans.row.path \in pdf
      BY <2>5 DEF ApplyText, ApplyRow, ApplyEvent, Placed, Moved, Applying
    <3>3. QED
      BY <1>2, <3>1, <3>2 DEF Moved
  <2>6. CASE pc'[w] \notin Applying \ {"move"}
    BY <1>2, <2>6 DEF Moved, Applying
  <2>7. QED
    BY <2>1, <2>3, <2>4, <2>5, <2>6 DEF Comes, Applying
<1>3. QED
  BY <1>1, <1>2

LEMMA JudgedStep ==
  ASSUME Facts, ~raced', Placed, [Next]_vars, NEW w \in Worker, StepOf(w), NEW v \in Worker
  PROVE  Judged(v)'
<1> DEFINE prior == job[v].prior
<1>1. SUFFICES ASSUME pc'[v] \in {"evaluate", "write"} PROVE Judged(v)'
  BY DEF Judged
<1>2. CASE pc[v] \in {"evaluate", "write"} /\ job'[v].prior = prior
  <2>1. rows # {} /\ (prior.seq > 1 => \E r \in rows : r.seq = prior.seq /\ Same(r, prior))
    BY <1>2 DEF Facts, RowsInv, Placed, Judged
  <2>2. prior.seq > 1 => \E r \in rows' : r.seq = prior.seq /\ Same(r, prior)
    <3>1. SUFFICES ASSUME prior.seq > 1 PROVE \E r \in rows' : r.seq = prior.seq /\ Same(r, prior)
      OBVIOUS
    <3>2. PICK r \in rows : r.seq = prior.seq /\ Same(r, prior)
      BY <2>1, <3>1
    <3>3. PICK s \in rows' : s.seq = r.seq /\ (r.seq > 1 => Same(r, s))
      BY DEF Facts, RowsChange, RowsKept
    <3>4. Same(s, prior)
      BY <3>1, <3>2, <3>3 DEF Same
    <3>5. QED
      BY <3>2, <3>3, <3>4
  <2>3. ASSUME trans' = NoTransition, pdf' # {}, \A r \in rows' : r.seq <= prior.seq
        PROVE  prior.path \in pdf'
    <3>1. RowsUpTo(prior.seq)
      BY <2>3 DEF RowsUpTo, Facts, RowsChange, RowsKept
    <3>2. CASE trans = NoTransition
      <4>1. pdf' = pdf
        BY <2>1, <2>3, <3>2, PdfStep
      <4>2. QED
        BY <1>2, <2>3, <3>1, <3>2, <4>1 DEF Placed, Judged
    <3>3. CASE trans # NoTransition
      <4>1. pdf' = pdf /\ trans.row.path \in pdf /\ trans.row.seq > 1
        BY <2>3, <3>3, TransitionEnds
      <4>2. PICK q \in rows : q.seq = trans.row.seq
        BY <2>3, <3>3, TransitionEnds
      <4>3. prior \in Row \cup {NoRow} /\ prior.seq \in Nat /\ trans.row \in Row
        BY <3>3, JobKept, NotEmptied DEF Facts, JobType, Row, NoRow, Seqs
      <4>4. trans.row.seq \in Nat /\ prior.seq >= trans.row.seq
        BY <3>1, <4>2, <4>3 DEF RowsUpTo, Row, Seqs
      <4>5. prior.seq > 1
        BY <4>1, <4>3, <4>4
      <4>6. PICK r \in rows : r.seq = prior.seq /\ Same(r, prior)
        BY <2>1, <4>5
      <4>7. r.seq <= trans.row.seq /\ (r.seq = trans.row.seq => Same(r, trans.row))
        BY <3>3 DEF Placed, OnTheMove
      <4>8. Same(prior, trans.row)
        BY <4>3, <4>4, <4>6, <4>7 DEF Same
      <4>9. prior \in Row
        BY <4>3, <4>5 DEF NoRow
      <4>10. prior.path = trans.row.path
        BY <4>3, <4>8, <4>9, SamePath
      <4>11. QED
        BY <4>1, <4>10
    <3>4. QED
      BY <3>2, <3>3
  <2>4. QED
    BY <1>2, <2>2, <2>3 DEF Judged, RowsUpTo
<1>3. CASE v # w
  BY <1>1, <1>2, <1>3, WorkerFrame DEF Facts
<1>4. CASE v = w
  <2>1. Comes(w)
    BY WhoComes DEF Facts
  <2>2. CASE Scope(w) /\ pc'[w] = "evaluate"
    <3>1. /\ rows # {} /\ job' = [job EXCEPT ![w].prior = Current]
          /\ UNCHANGED <<rows, pdf, trans>>
      BY <2>2 DEF Scope, stores, Done, Facts, Typed, TypeOK
    <3>2. job'[w].prior = Current
      BY <3>1 DEF Facts, Typed, JobType
    <3>3. Current \in rows
      BY <3>1, CurrentIsGreatest DEF Facts, Typed, TypeOK
    <3>4. Same(Current, Current)
      BY DEF Same
    <3>5. trans = NoTransition /\ pdf # {} /\ RowsUpTo(Current.seq) => Current.path \in pdf
      BY <3>3 DEF Placed, AtRest
    <3>6. RowsUpTo(Current.seq)' => RowsUpTo(Current.seq)
      BY <3>1 DEF RowsUpTo, Current
    <3>7. job'[w].prior.seq = Current.seq /\ job'[w].prior.path = Current.path
      BY <3>2
    <3>8. \E r \in rows' : r.seq = job'[w].prior.seq /\ Same(r, job'[w].prior)
      BY <3>1, <3>2, <3>3, <3>4
    <3>9. RowsUpTo(job[w].prior.seq)' => RowsUpTo(Current.seq)
      BY <3>1, <3>2 DEF RowsUpTo
    <3>10. QED
      BY <1>4, <3>1, <3>2, <3>5, <3>8, <3>9 DEF Judged
  <2>3. CASE \E extract \in BOOLEAN : Evaluate(w, extract)
    <3>1. pc[w] = "evaluate" /\ job'[w].prior = job[w].prior
      BY <2>3 DEF Evaluate, Facts, Typed, JobType
    <3>2. QED
      BY <1>2, <1>4, <3>1
  <2>4. QED
    BY <1>1, <1>4, <2>1, <2>2, <2>3 DEF Comes
<1>5. QED
  BY <1>3, <1>4

LEMMA PlaceInvStep ==
  Typed /\ Typed' /\ RowsInv /\ AuditInv /\ PlaceInv /\ [Next]_vars => PlaceInv'
<1>1. ASSUME PlaceInv, UNCHANGED vars PROVE PlaceInv'
  BY <1>1 DEF PlaceInv, Placed, Arriving, AtRest, OnTheMove, Moved, Judged, RowsUpTo, Same, vars
<1>2. ASSUME Typed, Typed', RowsInv, AuditInv, PlaceInv, NEW w \in Worker, StepOf(w),
             [Next]_vars, ~raced'
      PROVE  Placed'
  <2>1. Facts
    BY <1>2, RowsStep DEF Facts
  <2>2. Placed
    BY <1>2, RacedStays DEF PlaceInv
  <2>3. QED
    BY <1>2, <2>1, <2>2, ArrivingStep, AtRestStep, OnTheMoveStep, MovedStep, JudgedStep DEF Placed
<1>3. QED
  BY <1>1, <1>2, StepOfOne DEF PlaceInv

LEMMA PlaceInit == Init => PlaceInv
BY DEF Init, PlaceInv, Placed, Arriving, AtRest, OnTheMove, Moved, Judged, Ingesting, Applying

\* After crashed moves, recoveries, releases that overtake them, compactions,
\* rebuilds and purges, a PDF that was not erased is where the current
\* assessment says, once no transition is left and nobody holds the lock.
THEOREM PdfInPlace == Spec => []PdfWhereRowSays
<1>1. Typed /\ PlaceInv => PdfWhereRowSays
  <2>1. SUFFICES ASSUME Typed, Placed, trans = NoTransition, rows # {}, pdf # {}
                 PROVE  Current.path \in pdf
    BY DEF PlaceInv, PdfWhereRowSays, Quiet
  <2>2. Current \in rows /\ RowsUpTo(Current.seq)
    BY <2>1, CurrentIsGreatest DEF Typed, TypeOK, RowsUpTo
  <2>3. QED
    BY <2>1, <2>2 DEF Placed, AtRest
<1>2. QED
  BY <1>1, TypedInit, TypedStep, RowsInit, RowsInvStep, AuditInit, AuditInvStep, PlaceInit,
     PlaceInvStep, PTL DEF Spec
=============================================================================
