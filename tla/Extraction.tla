------------------------------ MODULE Extraction ------------------------------
(***************************************************************************)
(* What src/dlpduck/extract.py reads from a page and how the text of a     *)
(* document is put together (src/dlpduck/types.py).  PDFium and RapidOCR   *)
(* are external: a page says what each of them would return.  Positions    *)
(* are whole points from the top of the page; text is a sequence of        *)
(* tokens.                                                                 *)
(***************************************************************************)
EXTENDS Integers, SequencesExt

CONSTANTS NativeMin,   \* LineExtractor.NATIVE_MIN_CHARS, in tokens
          BlankMaxInk, \* LineExtractor.BLANK_MAX_INK, in marks on the page
          RasterArea,  \* the largest area rendered at the configured dpi
          CoarseArea   \* the largest area rendered at MIN_DPI

ASSUME ExtractionAssumption ==
  /\ NativeMin \in Nat \ {0} /\ BlankMaxInk \in Nat
  /\ RasterArea \in Nat /\ CoarseArea \in Nat /\ RasterArea <= CoarseArea

\* A page: native are PDFium's text runs, ocr what RapidOCR finds in the
\* rendered page, ink the dark marks on it.
Box(x0, x1, top, bottom, text) ==
  [x0 |-> x0, x1 |-> x1, top |-> top, bottom |-> bottom, text |-> text]
Blank == [native |-> <<>>, images |-> TRUE, rotation |-> 0, area |-> 1,
          broken |-> FALSE, ocr |-> <<>>, ink |-> 0]

Texts(boxes) == [i \in DOMAIN boxes |-> boxes[i].text]
JoinedBy(sep, texts) ==
  IF texts = <<>> THEN <<>>
  ELSE FoldLeft(LAMBDA all, t : all \o <<sep>> \o t, Head(texts), Tail(texts))

\* sorted() is stable: equal keys keep the order they had.
SortedBy(key(_), s) ==
  LET order == SetToSortSeq(DOMAIN s,
                 LAMBDA i, j : \/ key(s[i]) < key(s[j])
                               \/ key(s[i]) = key(s[j]) /\ i < j)
  IN  [i \in DOMAIN s |-> s[order[i]]]

-----------------------------------------------------------------------------
(* Rows.  Lengths that the code halves are doubled here.                    *)

Cy2(b) == b.top + b.bottom
Height(b) == b.bottom - b.top
Larger(a, b) == IF a > b THEN a ELSE b
Smaller(a, b) == IF a < b THEN a ELSE b

Tolerance2(boxes) ==
  LET tall == SelectSeq(SortedBy(Height, boxes), LAMBDA b : Height(b) > 0)
  IN  Larger(4, IF tall = <<>> THEN 12 ELSE Height(tall[Len(tall) \div 2 + 1]))

\* Variant: a row is anchored on its last box, not on its first.
GroupByLast(boxes) ==
  LET tol == Tolerance2(boxes)
      Place(rows, b) ==
        IF rows # <<>> /\ Cy2(b) - Cy2(Last(Last(rows))) <= tol
        THEN [rows EXCEPT ![Len(rows)] = Append(@, b)]
        ELSE Append(rows, <<b>>)
  IN  FoldLeft(Place, <<>>, SortedBy(Cy2, boxes))

Group(boxes) ==
  LET tol == Tolerance2(boxes)
      Place(rows, b) ==
        IF rows # <<>> /\ Cy2(b) - Cy2(Head(Last(rows))) <= tol
        THEN [rows EXCEPT ![Len(rows)] = Append(@, b)]
        ELSE Append(rows, <<b>>)
  IN  FoldLeft(Place, <<>>, SortedBy(Cy2, boxes))

RowText(row) == JoinedBy(" ", Texts(SortedBy(LAMBDA b : b.x0, row)))
Cluster(boxes) ==
  LET rows == Group(boxes) IN [i \in DOMAIN rows |-> RowText(rows[i])]

\* Do two boxes cover more than half of the smaller one?
Overlaps(a, b) ==
  LET width == Smaller(a.x1, b.x1) - Larger(a.x0, b.x0)
      height == Smaller(a.bottom, b.bottom) - Larger(a.top, b.top)
      Area(c) == (c.x1 - c.x0) * (c.bottom - c.top)
  IN  /\ width > 0 /\ height > 0
      /\ 2 * width * height > Smaller(Area(a), Area(b))

-----------------------------------------------------------------------------
(* A page, a document.                                                      *)

EnoughNative(p) == Len(FlattenSeq(Texts(p.native))) >= NativeMin
NativeOnly(p) == EnoughNative(p) /\ ~p.images
\* PDFium reads a page turned by a quarter from its last line to its first.
NativeLines(p) ==
  IF p.rotation = 90 THEN Reverse(Texts(p.native)) ELSE Texts(p.native)
\* _safe_dpi(): a page that does not fit at MIN_DPI is refused.
Refused(p) == p.area > RasterArea /\ p.area > CoarseArea

\* The native runs that keep their place beside what OCR reads, and what OCR
\* adds to them.
Kept(p) == IF EnoughNative(p) /\ p.images /\ p.rotation = 0 THEN p.native ELSE <<>>
Extra(p) ==
  SelectSeq(p.ocr, LAMBDA b : \A i \in DOMAIN Kept(p) : ~Overlaps(b, Kept(p)[i]))
Boxes(p) == Kept(p) \o Extra(p)

PageRaises(p) == p.broken \/ (~NativeOnly(p) /\ Refused(p))
PageKind(p) ==
  IF NativeOnly(p) THEN "native"
  ELSE IF Kept(p) # <<>> THEN IF Extra(p) # <<>> THEN "mixed" ELSE "native"
  ELSE IF p.ocr = <<>> /\ BlankMaxInk > 0 /\ p.ink <= BlankMaxInk THEN "blank"
  ELSE "ocr"
PageRows(p) == IF NativeOnly(p) THEN NativeLines(p) ELSE Cluster(Boxes(p))

EmptyText == [lines |-> <<>>, pages |-> 0, ocr |-> 0, degraded |-> FALSE,
              failed |-> 0, blank |-> 0]

\* The lines of page i, numbered on from those before it.
Lines(rows, i, first) ==
  [k \in DOMAIN rows |-> [number |-> first + k - 1, page |-> i, onPage |-> k - 1,
                          ofPage |-> Len(rows), text |-> rows[k]]]

\* Variant: a page OCR reads nothing from is not degraded.
AddPageTrusting(text, p, i) ==
  IF PageRaises(p) THEN [text EXCEPT !.degraded = TRUE, !.failed = @ + 1]
  ELSE [text EXCEPT !.lines = @ \o Lines(PageRows(p), i, Len(@)),
                    !.blank = @ + (IF PageKind(p) = "blank" THEN 1 ELSE 0),
                    !.ocr = @ + (IF PageKind(p) = "native" THEN 0 ELSE 1)]

AddPage(text, p, i) ==
  IF PageRaises(p) THEN [text EXCEPT !.degraded = TRUE, !.failed = @ + 1]
  ELSE [text EXCEPT !.lines = @ \o Lines(PageRows(p), i, Len(@)),
                    !.blank = @ + (IF PageKind(p) = "blank" THEN 1 ELSE 0),
                    !.degraded = @ \/ (PageRows(p) = <<>> /\ PageKind(p) # "blank"),
                    !.ocr = @ + (IF PageKind(p) = "native" THEN 0 ELSE 1)]

DocumentText(pages) ==
  FoldLeftDomain(LAMBDA text, i : AddPage(text, pages[i], i),
                 [EmptyText EXCEPT !.pages = Len(pages)], pages)

FullText(text) == JoinedBy("\n", [k \in DOMAIN text.lines |-> text.lines[k].text])
\* Where a line begins in the joined text, counting from 0.
Offset(text, number) ==
  FoldLeft(LAMBDA n, l : n + Len(l.text) + 1, 0, SubSeq(text.lines, 1, number))
LineAt(text, offset) ==
  LET before == {k \in DOMAIN text.lines : Offset(text, k - 1) <= offset}
  IN  text.lines[CHOOSE k \in before : \A m \in before : m <= k]
===============================================================================
