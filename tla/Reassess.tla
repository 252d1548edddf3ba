------------------------------- MODULE Reassess -------------------------------
(***************************************************************************)
(* The assessment history of one document after its ingest                 *)
(* (src/dlpduck/reprocess.py) and everything that shares its stores: the   *)
(* release of a quarantined PDF, purge (pipeline.py), compaction of the    *)
(* index (index.py), the rebuild of the index (reindex.py) and the first   *)
(* commit.  An assessment is a recorded transition: a file that names the  *)
(* move of the PDF, the text, the row and the audit event to come, carried *)
(* out step by step and finished by a later recovery when a process dies   *)
(* in between.  Writers hold the work directory's lock; evaluation, the    *)
(* refresh of the text without a verdict, and reindex do not.              *)
(***************************************************************************)
EXTENDS Integers, FiniteSets, FiniteSetsExt

CONSTANTS Worker,      \* threads of the daemon, the console and the CLI
          NoWorker,    \* nobody
          MaxSeq,      \* bound: assessments of the document
          MaxPurges,   \* bound: purges begun
          MaxFaults    \* bound: processes that die

ASSUME ParameterAssumption ==
  /\ NoWorker \notin Worker
  /\ MaxSeq \in Nat \ {0} /\ MaxPurges \in Nat /\ MaxFaults \in Nat

VARIABLES rows,      \* the index: rows in files of their own or in the merged file
          pdf,       \* the roots that hold <job_id>.pdf
          text,      \* the content store: NoText, or when the text was read
          trans,     \* transitions/<job_id>.json
          events,    \* the audit trail: how often each event names an assessment
          purges,    \* purge.started events in the trail
          lock,      \* the holder of the work directory's lock
          pc, job,   \* per worker: where it stands, and what it has read
          faults, dropped, halted, raced, overtaken   \* history, read by properties only

stores == <<rows, pdf, text, trans, events, purges>>
history == <<faults, dropped, halted, raced, overtaken>>
vars == <<rows, pdf, text, trans, events, purges, lock, pc, job, faults, dropped, halted,
          raced, overtaken>>

Place == {"archive", "quarantine"}
Seqs == 1..MaxSeq
Row == [seq : Seqs, disp : Place, pending : BOOLEAN, path : Place, file : {"own", "merged"}]
NoRow == [seq |-> 0, disp |-> "archive", pending |-> FALSE, path |-> "archive", file |-> "own"]

\* Text, in the store, in a transition or in a worker's memory, carries the
\* number of purges begun when it was read from its document, which is what
\* a purge has to be final against, whenever it is written.
NoText == -1
NoTransition == [from |-> "archive", row |-> NoRow, text |-> NoText, event |-> "none"]
Kinds == {"job.reassessed", "job.released"}

\* latest_index_rows(): one row per job, the highest sequence number.
Current == IF rows = {} THEN NoRow
           ELSE CHOOSE r \in rows : \A s \in rows : s.seq <= r.seq

NoJob == [prior |-> NoRow, text |-> NoText, then |-> "idle", recovering |-> FALSE,
          place |-> "archive", listed |-> 0, files |-> {}, hard |-> FALSE]

Goto(w, place) == pc' = [pc EXCEPT ![w] = place]
Done(w) == pc' = [pc EXCEPT ![w] = "idle"] /\ job' = [job EXCEPT ![w] = NoJob]
TakeLock(w) == lock = NoWorker /\ lock' = w
FreeLock(w) == lock = w /\ lock' = NoWorker

\* Whoever stores or records words that it had read before a purge began.
Overtakes(words) == overtaken' = (overtaken \/ words \notin {NoText, purges})
Store(words) == text' = words /\ Overtakes(words)

\* A document that has not arrived yet, or one whose index was lost, with
\* or without its text.
Init ==
  /\ rows = {}
  /\ pdf \in {{}} \cup {{p} : p \in Place}
  /\ text \in IF pdf = {} THEN {NoText} ELSE {NoText, 0}
  /\ trans = NoTransition
  /\ events = [k \in Kinds |-> [s \in Seqs |-> 0]]
  /\ purges = 0
  /\ lock = NoWorker
  /\ pc = [w \in Worker |-> "idle"]
  /\ job = [w \in Worker |-> NoJob]
  /\ faults = 0 /\ dropped = {} /\ halted = FALSE /\ raced = FALSE /\ overtaken = FALSE

-------------------------------------------------------------------------------
\* commit(): recover, read the scope, evaluate, write under the lock.

\* _recover_transitions(), called by the constructor of any command and at
\* the start of a reassessment; then is what the worker goes on to do.
Recover(w, then) ==
  /\ pc[w] = "idle"
  /\ IF trans = NoTransition
     THEN /\ then # "idle"
          /\ lock = NoWorker
          /\ lock' = lock
          /\ Goto(w, then)
          /\ job' = job
     ELSE /\ TakeLock(w)
          /\ Goto(w, "move")
          /\ job' = [job EXCEPT ![w].then = then, ![w].recovering = TRUE]
  /\ UNCHANGED <<stores, history>>

\* _scope_rows(): without the lock.
Scope(w) ==
  /\ pc[w] = "scope"
  /\ IF rows = {} THEN Done(w)
     ELSE Goto(w, "evaluate") /\ job' = [job EXCEPT ![w].prior = Current]
  /\ UNCHANGED <<stores, lock, history>>

\* _evaluate() without a verdict to record: no text or no PDF to read, a
\* rule over its budget, or nothing changed (in rules mode).
NoVerdict(w) ==
  /\ pc[w] = "evaluate"
  /\ Done(w)
  /\ UNCHANGED <<stores, lock, history>>

\* A verdict from the stored text or from a new extraction of the PDF.
Evaluate(w, extract) ==
  /\ pc[w] = "evaluate"
  /\ IF extract THEN job[w].prior.path \in pdf ELSE text # NoText
  /\ job' = [job EXCEPT ![w].text = IF extract THEN purges ELSE NoText]
  /\ \/ job[w].prior.seq < MaxSeq /\ Goto(w, "write")
     \/ extract /\ Goto(w, "refresh")
  /\ UNCHANGED <<stores, lock, history>>

\* extract mode, verdict unchanged: _refresh_content_only(), without the lock.
Refresh(w) ==
  /\ pc[w] = "refresh"
  /\ Store(job[w].text)
  /\ Done(w)
  /\ UNCHANGED <<rows, pdf, trans, events, purges, lock, faults, dropped, halted, raced>>

\* _destination_path(): the destination, also when a crashed move has left
\* the PDF there; the old path when it is in neither place.
\* Variant: looks only where the index says.
DestinationByIndex(path, into) == IF path \in pdf THEN into ELSE path
Destination(path, into) == IF path \in pdf \/ into \in pdf THEN into ELSE path

\* Where an assessment leaves the PDF: only an escalation moves it.
\* Variant: a de-escalation moves it back.
PathAfterBoth(prior, disp) ==
  IF prior.disp # disp THEN Destination(prior.path, disp) ELSE prior.path
PathAfter(prior, disp) ==
  IF prior.disp = "archive" /\ disp = "quarantine"
  THEN Destination(prior.path, "quarantine") ELSE prior.path

\* _commit_transition(): the transition is recorded, over whatever was there.
Record(w, from, row, words, event) ==
  /\ row.seq \in Seqs
  /\ trans' = [from |-> from, row |-> row, text |-> words, event |-> event]
  /\ dropped' = IF trans = NoTransition THEN dropped ELSE dropped \cup {trans.row.seq}
  /\ Goto(w, "move")
  /\ raced' = (raced \/ (trans # NoTransition /\ event = "job.reassessed"))
  /\ Overtakes(words)
  /\ UNCHANGED <<rows, pdf, text, events, purges, faults, halted>>

\* _write_assessment(): refused when another assessment came first.
WriteAssessment(w, disp) ==
  /\ pc[w] = "write"
  /\ LET prior == job[w].prior
         deescalate == prior.disp = "quarantine" /\ disp = "archive"
         row == [seq |-> prior.seq + 1, disp |-> disp, file |-> "own",
                 pending |-> disp = "archive" /\ (deescalate \/ prior.pending),
                 path |-> PathAfter(prior, disp)]
     IN IF rows # {} /\ Current.seq # prior.seq
        THEN lock = NoWorker /\ Done(w) /\ UNCHANGED <<stores, lock, history>>
        ELSE /\ TakeLock(w)
             /\ Record(w, prior.path, row, job[w].text, "job.reassessed")
             /\ job' = [job EXCEPT ![w] = NoJob]

\* release(): a human carries out the pending release of the current row.
\* It is denied when none is pending or the PDF is gone.
Release(w) ==
  /\ pc[w] = "idle"
  /\ rows # {} /\ Current.pending
  /\ Current.path \in pdf \/ "archive" \in pdf
  /\ TakeLock(w)
  /\ Record(w, Current.path,
            [Current EXCEPT !.seq = @ + 1, !.pending = FALSE, !.file = "own",
                            !.path = Destination(@, "archive")],
            NoText, "job.released")
  /\ job' = job

-------------------------------------------------------------------------------
\* _apply_transition(), under the lock

\* move_durably(): a complete copy first, then the source goes.
MovePdf(w) ==
  /\ pc[w] = "move"
  /\ IF trans.from # trans.row.path /\ trans.from \in pdf
     THEN pdf' = pdf \cup {trans.row.path} /\ Goto(w, "unlink_source")
     ELSE pdf' = pdf /\ Goto(w, "text")
  /\ UNCHANGED <<rows, text, trans, events, purges, lock, job, history>>

UnlinkSource(w) ==
  /\ pc[w] = "unlink_source"
  /\ pdf' = pdf \ {trans.from}
  /\ Goto(w, "text")
  /\ UNCHANGED <<rows, text, trans, events, purges, lock, job, history>>

ApplyText(w) ==
  /\ pc[w] = "text"
  /\ text' = IF trans.text = NoText THEN text ELSE trans.text
  /\ Goto(w, "row")
  /\ UNCHANGED <<rows, pdf, trans, events, purges, lock, job, history>>

\* write_row(exclusive=True), unless the index already has the assessment;
\* AssessmentExists leaves the transition behind.
ApplyRow(w) ==
  /\ pc[w] = "row"
  /\ IF Current.seq >= trans.row.seq
     THEN rows' = rows /\ lock' = lock /\ job' = job /\ Goto(w, "event")
     ELSE IF \E r \in rows : r.file = "own" /\ r.seq = trans.row.seq
          THEN rows' = rows /\ FreeLock(w) /\ Done(w)
          ELSE rows' = rows \cup {trans.row} /\ lock' = lock /\ job' = job /\ Goto(w, "event")
  /\ UNCHANGED <<pdf, text, trans, events, purges, history>>

\* The one step that cannot be repeated: a recovery looks in the trail first.
\* Variants: the event is repeated; the row is taken for the event.
AppendAgain(w) == FALSE
AuditedByRow(w) == job[w].recovering /\ Current.seq >= trans.row.seq
AlreadyAudited(w) == job[w].recovering /\ events[trans.event][trans.row.seq] > 0

ApplyEvent(w) ==
  /\ pc[w] = "event"
  /\ events' = IF AlreadyAudited(w) THEN events
               ELSE [events EXCEPT ![trans.event][trans.row.seq] = IF @ < 2 THEN @ + 1 ELSE @]
  /\ Goto(w, "finish")
  /\ UNCHANGED <<rows, pdf, text, trans, purges, lock, job, history>>

\* path.unlink(); a recovery goes on to what its command is for.
Finish(w) ==
  /\ pc[w] = "finish"
  /\ trans' = NoTransition
  /\ FreeLock(w)
  /\ Goto(w, job[w].then)
  /\ job' = [job EXCEPT ![w] = NoJob]
  /\ UNCHANGED <<rows, pdf, text, events, purges, history>>

-------------------------------------------------------------------------------
\* Pipeline.purge_content()

StartPurge(w, hard) ==
  /\ pc[w] = "idle"
  /\ purges < MaxPurges
  /\ TakeLock(w)
  /\ purges' = purges + 1
  /\ overtaken' = FALSE
  /\ job' = [job EXCEPT ![w].hard = hard]
  /\ Goto(w, "purge_text")
  /\ UNCHANGED <<rows, pdf, text, trans, events, faults, dropped, halted, raced>>

PurgeText(w) ==
  /\ pc[w] = "purge_text"
  /\ text' = NoText
  /\ Goto(w, "purge_pending")
  /\ UNCHANGED <<rows, pdf, trans, events, purges, lock, job, history>>

\* _drop_pending_transition_text(): the assessment may still be finished,
\* its text may not.
\* Variant: the pending text stays.
PurgePendingKept(w) ==
  /\ pc[w] = "purge_pending"
  /\ Goto(w, IF job[w].hard THEN "purge_pdf" ELSE "purge_end")
  /\ UNCHANGED <<rows, pdf, text, trans, events, purges, lock, job, history>>
PurgePending(w) ==
  /\ pc[w] = "purge_pending"
  /\ trans' = [trans EXCEPT !.text = NoText]
  /\ Goto(w, IF job[w].hard THEN "purge_pdf" ELSE "purge_end")
  /\ UNCHANGED <<rows, pdf, text, events, purges, lock, job, history>>

PurgePdf(w) ==
  /\ pc[w] = "purge_pdf"
  /\ pdf' = {}
  /\ Goto(w, "purge_end")
  /\ UNCHANGED <<rows, text, trans, events, purges, lock, job, history>>

PurgeEnd(w) ==
  /\ pc[w] = "purge_end"
  /\ halted' = FALSE
  /\ FreeLock(w)
  /\ Done(w)
  /\ UNCHANGED <<stores, faults, dropped, raced, overtaken>>

-------------------------------------------------------------------------------
\* compact_partition(): the merged file first, then the files it replaces.

\* Variant: the new merged file leaves the old one's rows out.
StartCompactOwnOnly(w) ==
  /\ pc[w] = "idle"
  /\ \E r \in rows : r.file = "own"
  /\ TakeLock(w)
  /\ LET own == {r \in rows : r.file = "own"}
     IN /\ job' = [job EXCEPT ![w].files = own]
        /\ rows' = own \cup {[r EXCEPT !.file = "merged"] : r \in own}
  /\ Goto(w, "compact")
  /\ UNCHANGED <<pdf, text, trans, events, purges, history>>
StartCompact(w) ==
  /\ pc[w] = "idle"
  /\ \E r \in rows : r.file = "own"
  /\ TakeLock(w)
  /\ job' = [job EXCEPT ![w].files = {r \in rows : r.file = "own"}]
  /\ rows' = rows \cup {[r EXCEPT !.file = "merged"] : r \in rows}
  /\ Goto(w, "compact")
  /\ UNCHANGED <<pdf, text, trans, events, purges, history>>

\* One file is unlinked, by name: whatever is in it now.
RemoveOriginal(w) ==
  /\ pc[w] = "compact"
  /\ LET seq == Min({r.seq : r \in job[w].files})
         left == {r \in job[w].files : r.seq # seq}
     IN /\ rows' = {r \in rows : r.file = "merged" \/ r.seq # seq}
        /\ IF left = {} THEN FreeLock(w) /\ Done(w)
           ELSE lock' = lock /\ pc' = pc /\ job' = [job EXCEPT ![w].files = left]
  /\ UNCHANGED <<pdf, text, trans, events, purges, history>>

-------------------------------------------------------------------------------
\* Reindexer.run(): no lock; what it lists at the start it uses to the end.

StartReindex(w) ==
  /\ pc[w] = "idle"
  /\ rows = {} /\ pdf # {}
  /\ job' = [job EXCEPT ![w].place = IF "quarantine" \in pdf THEN "quarantine" ELSE "archive",
                       ![w].listed = purges]
  /\ Goto(w, "rebuild_read")
  /\ UNCHANGED <<stores, lock, history>>

\* _rebuild_one(): the text from the content store, else from the PDF; it
\* raises when the PDF has left the place where it was listed.
RebuildRead(w) ==
  /\ pc[w] = "rebuild_read"
  /\ IF job[w].place \in pdf
     THEN job' = [job EXCEPT ![w].text = text] /\ Goto(w, "rebuild_row")
     ELSE Done(w)
  /\ UNCHANGED <<stores, lock, history>>

\* Row 1 of a file of its own, over whatever has that name.
FirstRow(disp) == {r \in rows : r.file = "merged" \/ r.seq # 1}
                  \cup {[NoRow EXCEPT !.seq = 1, !.disp = disp, !.path = disp]}

RebuildRow(w) ==
  /\ pc[w] = "rebuild_row"
  /\ rows' = FirstRow(job[w].place)
  /\ raced' = (raced \/ job[w].place \notin pdf)
  /\ IF job[w].text = NoText /\ job[w].listed = 0
     THEN Goto(w, "rebuild_text") /\ job' = job
     ELSE Done(w)
  /\ UNCHANGED <<pdf, text, trans, events, purges, lock, faults, dropped, halted, overtaken>>

\* The text that was extracted from the PDF, for a job that was not in the
\* list of purged ones: it is as old as that list.
RebuildText(w) ==
  /\ pc[w] = "rebuild_text"
  /\ Store(job[w].listed)
  /\ Done(w)
  /\ UNCHANGED <<rows, pdf, trans, events, purges, lock, faults, dropped, halted, raced>>

-------------------------------------------------------------------------------
\* Pipeline.commit() of a new arrival, in its order (IngestPipeline has its
\* crashes); the job's own lock keeps a second arrival out.

Ingesting == {"ingest_pdf", "ingest_row", "ingest_text"}

StartIngest(w, disp) ==
  /\ pc[w] = "idle"
  /\ rows = {} /\ pdf = {}
  /\ \A v \in Worker : pc[v] \notin Ingesting
  /\ job' = [job EXCEPT ![w].place = disp, ![w].text = purges]
  /\ Goto(w, "ingest_pdf")
  /\ UNCHANGED <<stores, lock, history>>

IngestPdf(w) ==
  /\ pc[w] = "ingest_pdf"
  /\ TakeLock(w)
  /\ pdf' = pdf \cup {job[w].place}
  /\ Goto(w, "ingest_row")
  /\ UNCHANGED <<rows, text, trans, events, purges, job, history>>

IngestRow(w) ==
  /\ pc[w] = "ingest_row"
  /\ rows' = FirstRow(job[w].place)
  /\ raced' = (raced \/ rows # {})
  /\ Goto(w, "ingest_text")
  /\ UNCHANGED <<pdf, text, trans, events, purges, lock, job, faults, dropped, halted,
                 overtaken>>

IngestText(w) ==
  /\ pc[w] = "ingest_text"
  /\ Store(job[w].text)
  /\ FreeLock(w)
  /\ Done(w)
  /\ UNCHANGED <<rows, pdf, trans, events, purges, faults, dropped, halted, raced>>

-------------------------------------------------------------------------------
\* The process dies, or a call raises, between two steps.
Stop(w) ==
  /\ pc[w] \notin {"idle"} \cup Ingesting
  /\ faults < MaxFaults
  /\ faults' = faults + 1
  /\ halted' = (halted \/ pc[w] \in {"purge_text", "purge_pending", "purge_pdf", "purge_end"})
  /\ lock' = IF lock = w THEN NoWorker ELSE lock
  /\ Done(w)
  /\ UNCHANGED <<stores, dropped, raced, overtaken>>

Apply(w) == MovePdf(w) \/ UnlinkSource(w) \/ ApplyText(w) \/ ApplyRow(w)
            \/ ApplyEvent(w) \/ Finish(w)

Next == \E w \in Worker :
          \/ \E then \in {"idle", "scope"} : Recover(w, then)
          \/ Scope(w) \/ NoVerdict(w) \/ Refresh(w) \/ Release(w) \/ Apply(w)
          \/ \E extract \in BOOLEAN : Evaluate(w, extract)
          \/ \E disp \in Place : WriteAssessment(w, disp) \/ StartIngest(w, disp)
          \/ \E hard \in BOOLEAN : StartPurge(w, hard)
          \/ PurgeText(w) \/ PurgePending(w) \/ PurgePdf(w) \/ PurgeEnd(w)
          \/ StartCompact(w) \/ RemoveOriginal(w)
          \/ StartReindex(w) \/ RebuildRead(w) \/ RebuildRow(w) \/ RebuildText(w)
          \/ IngestPdf(w) \/ IngestRow(w) \/ IngestText(w)
          \/ Stop(w)

Spec == Init /\ [][Next]_vars

-------------------------------------------------------------------------------
Unlocked == {"idle", "scope", "evaluate", "write", "refresh", "ingest_pdf",
             "rebuild_read", "rebuild_row", "rebuild_text"}
Locked == {"move", "unlink_source", "text", "row", "event", "finish", "purge_text",
           "purge_pending", "purge_pdf", "purge_end", "compact", "ingest_row", "ingest_text"}

TypeOK ==
  /\ rows \subseteq Row
  /\ pdf \subseteq Place
  /\ text \in NoText..purges
  /\ trans.from \in Place /\ trans.row \in Row \cup {NoRow} /\ trans.text \in NoText..purges
  /\ trans = NoTransition \/ trans.event \in Kinds
  /\ events \in [Kinds -> [Seqs -> 0..2]]
  /\ purges \in 0..MaxPurges
  /\ lock \in Worker \cup {NoWorker}
  /\ pc \in [Worker -> Unlocked \cup Locked]
  /\ \A w \in Worker : (pc[w] \in Locked) <=> (lock = w)
  /\ \A w \in Worker : pc[w] \in {"move", "unlink_source", "text", "row", "event", "finish"}
                          => trans # NoTransition
  /\ faults \in 0..MaxFaults /\ dropped \subseteq Seqs
  /\ {halted, raced, overtaken} \subseteq BOOLEAN

Same(r, s) == [r EXCEPT !.file = "own"] = [s EXCEPT !.file = "own"]

\* "Nothing is ever rewritten": no step loses a number, and no step loses or
\* alters an assessment after the first, whatever compaction, reindex and
\* concurrent writers do to the files.
HistoryKept ==
  [][\A r \in rows : \E s \in rows' : s.seq = r.seq /\ (r.seq > 1 => Same(r, s))]_vars

\* An assessment is audited at most once however often its transition is
\* carried out, and only after its row is in the index.
AuditedOnce == \A k \in Kinds, s \in Seqs :
                 /\ events[k][s] <= 1
                 /\ events[k][s] = 1 => \E r \in rows : r.seq = s

\* Every assessment after the first is in the audit trail, or its
\* transition is still there to be finished, or was overwritten.
AssessmentAudited ==
  \A r \in rows : r.seq > 1 => \/ \E k \in Kinds : events[k][r.seq] = 1
                               \/ trans.row.seq = r.seq
                               \/ r.seq \in dropped

\* Between operations the PDF, unless it was erased, is where the current
\* assessment says: after crashed moves, after a release that overtook the
\* recovery of another one.  (raced: a reassessment was written over a
\* crashed transition, or row 1 was rebuilt for a PDF that had left, or
\* committed over a rebuilt one.)
Quiet == trans = NoTransition /\ lock = NoWorker
PdfWhereRowSays == (Quiet /\ rows # {} /\ pdf # {} /\ ~raced) => Current.path \in pdf

\* A PDF enters the archive by its commit or by a release; no reassessment,
\* recovery or rebuild takes a document out of quarantine.
NoUnattendedRelease ==
  [][("archive" \notin pdf /\ "archive" \in pdf')
     => \/ trans.event = "job.released"
        \/ \E w \in Worker : pc[w] = "ingest_pdf"]_vars

\* No text read before the last purge is in the store once that purge has
\* been there, also when a pending transition that holds such text is
\* finished later: unless the purge was interrupted, or was overtaken by a
\* call that had the text in memory when it began.
PurgeFinal ==
  \/ text = NoText \/ text = purges
  \/ halted \/ overtaken
  \/ \E w \in Worker : pc[w] \in {"purge_text", "purge_pending"}

\* "No recovery path puts purged content back" (SECURITY.md): a rebuild
\* stores no text of a job that the audit trail records as purged, but for a
\* purge that has yet to come to the text; and a reassessment that only
\* refreshes the text does so for a document that is still stored, not for
\* one that a hard purge has erased since it was read.
ErasureStands ==
  [][\A w \in Worker :
       /\ RebuildText(w) => purges = 0 \/ \E v \in Worker : pc[v] = "purge_text"
       /\ Refresh(w) => pdf # {}]_vars
===============================================================================
