------------------------------- MODULE Screening -------------------------------
(***************************************************************************)
(* From the bytes of a document to a verdict and the event that tells of   *)
(* it: Pipeline.process() (src/dlpduck/pipeline.py), the DLP engine        *)
(* (src/dlpduck/engine.py, rules.py, masking.py), the policy               *)
(* (src/dlpduck/disposition.py), the console's reveal                      *)
(* (src/dlpduck/console/app.py) and the messages of the syslog sink.       *)
(* Extraction says what is read from a page, Spool what becomes of an      *)
(* event.  What commit() stores is IngestPipeline's.                       *)
(***************************************************************************)
EXTENDS Extraction, Spool

CONSTANTS Menu,                 \* the documents of some of the jobs
          Rules,                \* the enabled rules, in their order
          Alnum,                \* tokens that count as letters and digits
          Dot,                  \* the mask's character
          MaxPages,             \* limits.max_pages
          QuarantineOnDegraded, \* dlp.quarantine_on_degraded
          MaxMessage            \* SyslogSink.max_message_bytes, in fields

ASSUME ScreeningAssumption ==
  /\ Dot \notin Alnum /\ MaxPages \in Nat /\ MaxMessage \in Nat
  /\ QuarantineOnDegraded \in BOOLEAN

VARIABLE job   \* each JobContext

vars == <<spoolVars, job>>

-----------------------------------------------------------------------------
(* Masks.                                                                   *)

Characters(raw) == SelectSeq(raw, LAMBDA c : c \in Alnum)
Dots(n) == [i \in 1..n |-> Dot]
Mask(raw, keep) ==
  LET chars == Characters(raw)
      n == Len(chars)
  IN  IF keep = 0 \/ n <= keep + 3 THEN Dots(n)
      ELSE Dots(n - keep) \o SubSeq(chars, n - keep + 1, n)

-----------------------------------------------------------------------------
(* Rules.                                                                   *)

MatchAt(pattern, text, i) ==
  /\ i + Len(pattern) - 1 <= Len(text)
  /\ \A k \in DOMAIN pattern : text[i + k - 1] \in pattern[k]
\* finditer(): where the matches begin, the leftmost first, none in another.
FindIter(pattern, text) ==
  FoldLeftDomain(
    LAMBDA found, i :
      IF /\ MatchAt(pattern, text, i)
         /\ found # <<>> => Last(found) + Len(pattern) <= i
      THEN Append(found, i) ELSE found, <<>>, text)

InRange(rule, line) ==
  LET position == IF rule.lineScope # "page" THEN line.number
                  ELSE IF rule.fromEnd THEN line.ofPage - 1 - line.onPage
                  ELSE line.onPage
  IN  rule.limited => rule.min <= position /\ position <= rule.max

ContextNear(rule, text, line) ==
  \E k \in DOMAIN text.lines :
    /\ text.lines[k].number \in line.number - rule.window .. line.number + rule.window
    /\ FindIter(rule.context, text.lines[k].text) # <<>>

\* A match: the line it begins on, where it begins there, and the value.
Candidate(rule, line, base, all, i) ==
  [line |-> line, start |-> i - 1 - base,
   raw |-> SubSeq(all, i, i + Len(rule.pattern) - 1)]

InLine(rule, line) ==
  LET found == FindIter(rule.pattern, line.text)
  IN  [m \in DOMAIN found |-> Candidate(rule, line, 0, line.text, found[m])]

\* Variant: a match over the document keeps its offset in the document.
ScanDocumentGlobal(rule, text) ==
  LET all == FullText(text)
      found == FindIter(rule.pattern, all)
  IN  [m \in DOMAIN found |->
         Candidate(rule, LineAt(text, found[m] - 1), 0, all, found[m])]

ScanDocument(rule, text) ==
  LET all == FullText(text)
      found == FindIter(rule.pattern, all)
      Begins(m) == LineAt(text, found[m] - 1)
  IN  [m \in DOMAIN found |->
         Candidate(rule, Begins(m), Offset(text, Begins(m).number), all, found[m])]

ScanLines(rule, text) ==
  FlattenSeq([k \in DOMAIN text.lines |-> InLine(rule, text.lines[k])])

Matches(rule, text) ==
  SelectSeq(IF rule.scope = "line" THEN ScanLines(rule, text)
            ELSE ScanDocument(rule, text),
            LAMBDA m : /\ m.raw \notin rule.rejected
                       /\ InRange(rule, m.line)
                       /\ rule.context # <<>> => ContextNear(rule, text, m.line))

Hit(rule, m) ==
  [rule |-> rule.id, action |-> rule.action, page |-> m.line.page,
   line |-> m.line.number, start |-> m.start, end |-> m.start + Len(m.raw),
   masked |-> Mask(m.raw, rule.keep)]

\* DLPEngine.scan(): each hit with the value, which the code does not keep.
Scan(text) ==
  FlattenSeq([r \in DOMAIN Rules |->
    LET found == Matches(Rules[r], text)
    IN  [m \in DOMAIN found |-> [hit |-> Hit(Rules[r], found[m]), raw |-> found[m].raw]]])

\* _rederive_hit_value(): the value a hit's position stands for now, if its
\* mask is the recorded one.
Rederive(text, hit) ==
  LET all == FullText(text)
      base == Offset(text, hit.line)
      value == SubSeq(all, base + hit.start + 1, base + hit.end)
      keep == Len(SelectSeq(hit.masked, LAMBDA c : c # Dot))
  IN  IF /\ hit.line < Len(text.lines)
         /\ base + hit.start >= 0 /\ base + hit.end <= Len(all)
         /\ hit.start < hit.end /\ Mask(value, keep) = hit.masked
      THEN value ELSE <<>>

\* decide()
Decide(text, hits) ==
  IF QuarantineOnDegraded /\ text.failed > 0
  THEN <<"quarantine", "degraded_extraction">>
  ELSE IF QuarantineOnDegraded /\ text.pages > 0 /\ text.lines = <<>>
  THEN <<"quarantine", "no_text_extracted">>
  ELSE IF QuarantineOnDegraded /\ text.degraded
  THEN <<"quarantine", "degraded_extraction">>
  ELSE IF \E i \in DOMAIN hits : hits[i].action = "quarantine"
  THEN <<"quarantine", "dlp_hit">>
  ELSE <<"archive", "none">>

\* SyslogSink._format(): the whole event if it fits, else without its hits,
\* else without its metadata too.
Message(j) ==
  LET n == Len(job[j].hits)
      Event(left, hits) == [disposition |-> job[j].verdict[1], count |-> n,
                            hits |-> hits, truncated |-> left]
  IN  IF n + job[j].doc.meta <= MaxMessage THEN Event({}, n)
      ELSE IF job[j].doc.meta <= MaxMessage THEN Event({"hits"}, 0)
      ELSE Event({"hits", "metadata"}, 0)

-----------------------------------------------------------------------------
(* Pipeline.process().                                                      *)

Context(doc) ==
  [pc |-> "gone", doc |-> doc, text |-> EmptyText, hits |-> <<>>, raws |-> <<>>,
   verdict |-> <<"none", "none">>]
Gone == Context([pages |-> <<>>, encrypted |-> FALSE, meta |-> 0])

Init ==
  /\ SpoolInit
  /\ \E doc \in Menu :
       job = [j \in Job |-> IF j \in DOMAIN doc
                            THEN [Context(doc[j]) EXCEPT !.pc = "extract"] ELSE Gone]

Fails(j, reason) ==
  job' = [job EXCEPT ![j] = [Gone EXCEPT !.verdict = <<"failed", reason>>]]

\* A document the extractor refuses, or a worker that dies or runs too long.
ExtractRefused(j) ==
  /\ job[j].pc = "extract"
  /\ \/ job[j].doc.encrypted /\ Fails(j, "encrypted")
     \/ /\ ~job[j].doc.encrypted /\ Len(job[j].doc.pages) > MaxPages
        /\ Fails(j, "page_count_exceeds_limit")
  /\ UNCHANGED spoolVars

ExtractFails(j) ==
  /\ job[j].pc = "extract" /\ Fails(j, "extraction_error") /\ Fault
  /\ UNCHANGED <<deliveryVars, entries, rotten, aside, got, drain>>

Extract(j) ==
  /\ job[j].pc = "extract"
  /\ ~job[j].doc.encrypted /\ Len(job[j].doc.pages) <= MaxPages
  /\ job' = [job EXCEPT ![j].text = DocumentText(job[j].doc.pages), ![j].pc = "scan"]
  /\ UNCHANGED spoolVars

ScanAll(j) ==
  /\ job[j].pc = "scan"
  /\ LET found == Scan(job[j].text)
     IN  job' = [job EXCEPT ![j].hits = [i \in DOMAIN found |-> found[i].hit],
                            ![j].raws = [i \in DOMAIN found |-> found[i].raw],
                            ![j].pc = "enrich"]
  /\ UNCHANGED spoolVars

\* A rule is out of time or a validator raises; a critical plugin raises.
ScanFails(j) ==
  /\ \/ /\ job[j].pc = "scan"
        /\ \E reason \in {"rule_budget_exceeded", "scan_error"} : Fails(j, reason)
     \/ job[j].pc = "enrich" /\ Fails(j, "enrich_plugin_failed")
  /\ Fault
  /\ UNCHANGED <<deliveryVars, entries, rotten, aside, got, drain>>

\* The enrich plugins are done: a plugin that is not critical may have failed.
Assess(j) ==
  /\ job[j].pc = "enrich"
  /\ job' = [job EXCEPT ![j].verdict = Decide(job[j].text, job[j].hits),
                        ![j].pc = "assessed"]
  /\ UNCHANGED spoolVars

\* commit() comes to its emit phase; a failed job does not.  The context is
\* not needed after it.
Emit(j) ==
  /\ job[j].pc = "assessed"
  /\ job' = [job EXCEPT ![j] = Gone]
  /\ EmitAt(j, "none", "deliver")
  /\ event' = [event EXCEPT ![j] = Message(j)]
  /\ UNCHANGED <<stamp, clock, entries, rotten, aside, got, drain, faults>>

Next ==
  \/ \E j \in Job : \/ ExtractRefused(j) \/ ExtractFails(j) \/ Extract(j)
                    \/ ScanAll(j) \/ ScanFails(j) \/ Assess(j) \/ Emit(j)
  \/ SpoolNext /\ UNCHANGED job

Spec == Init /\ [][Next]_vars

-----------------------------------------------------------------------------
Assessed == {j \in Job : job[j].pc = "assessed"}
PagesOf(j) == {<<i, job[j].doc.pages[i]>> : i \in DOMAIN job[j].doc.pages}

\* Nothing unread and nothing that a rule forbids is archived: each page of an
\* archived document gave a line or carries no more ink than a blank one, was
\* rendered if that was needed, and no piece of text on it, as it was read,
\* holds what a quarantine rule without conditions looks for.  Two things on
\* a page are not read at all: an OCR box that mostly covers a native run, and
\* native runs below NativeMin where OCR is used in their place
\* (extract.py, disposition.py, engine.py).
ArchivedWasRead ==
  \A j \in Assessed : job[j].verdict[1] = "archive" /\ QuarantineOnDegraded =>
    \A page \in PagesOf(j) :
      LET p == page[2]
          lines == {l \in ToSet(job[j].text.lines) : l.page = page[1]}
          read == ToSet(IF NativeOnly(p) THEN p.native ELSE Boxes(p))
      IN  /\ ~p.broken /\ (p.area <= CoarseArea \/ NativeOnly(p))
          /\ lines # {} \/ p.ink <= BlankMaxInk
          /\ \A rule \in ToSet(Rules), b \in read :
               /\ rule.action = "quarantine" /\ ~rule.limited
               /\ rule.context = <<>> /\ rule.rejected = {}
               => FindIter(rule.pattern, b.text) = <<>>

\* The console shows for a hit the value the rule matched, whole, also when it
\* goes on in the next line (types.offset_of(), app._rederive_hit_value()).
RevealIsTheMatch ==
  \A j \in Assessed : \A i \in DOMAIN job[j].hits :
    Rederive(job[j].text, job[j].hits[i]) = job[j].raws[i]

\* Rows are what they look like: all boxes of a row lie within the tolerance
\* of each other, a row ends where the next box is too far from its first, the
\* rows go down the page, and every box is in one (LineExtractor._group()).
RowsTogether ==
  \A j \in Assessed : \A page \in PagesOf(j) :
    LET boxes == Boxes(page[2])
        rows == Group(boxes)
        tol == Tolerance2(boxes)
    IN  /\ \A r \in DOMAIN rows : \A a, b \in ToSet(rows[r]) : Cy2(a) - Cy2(b) <= tol
        /\ \A r, q \in DOMAIN rows : r < q =>
             \A a \in ToSet(rows[r]), b \in ToSet(rows[q]) :
               Cy2(a) <= Cy2(b) /\ Cy2(b) - Cy2(Head(rows[r])) > tol
        /\ ToSet(FlattenSeq(rows)) = ToSet(boxes)
===============================================================================
