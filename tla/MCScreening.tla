----------------------------- MODULE MCScreening -----------------------------
(***************************************************************************)
(* One job with a document of none, one or two pages of every kind, of     *)
(* three boxes at every height, or one the extractor refuses; and, for the *)
(* spool, three jobs at once with blank documents.                         *)
(***************************************************************************)
EXTENDS Screening

CONSTANTS j1, j2, j3, d1, d2, none

D == {"1", "2"}
Word == <<"a", "a">>
Account == <<"1", "2", "2", "1", "2">>
MCAlnum == {"1", "2", "a"}

Plain == [id |-> "account", scope |-> "line", pattern |-> <<D, D, D, D, D>>,
          keep |-> 1, action |-> "quarantine", rejected |-> {}, context |-> <<>>,
          window |-> 0, limited |-> FALSE, lineScope |-> "document",
          fromEnd |-> FALSE, min |-> 0, max |-> 0]
MCRules ==
  << Plain,
     \* a value with a break in it, across lines too
     [Plain EXCEPT !.id = "broken", !.scope = "document", !.keep = 0,
        !.pattern = <<D, D, {"-", "\n"}, D, D>>],
     \* only beside its label
     [Plain EXCEPT !.id = "labelled", !.pattern = <<{"2"}, {"2"}>>, !.action = "flag",
        !.context = <<{"a"}, {"a"}>>, !.window = 1, !.rejected = {<<"1", "1">>}],
     \* only in the last line of a page
     [Plain EXCEPT !.id = "footer", !.pattern = <<{"1"}, {"1"}>>, !.limited = TRUE,
        !.lineScope = "page", !.fromEnd = TRUE] >>

Page(native, ocr) == [Blank EXCEPT !.native = native, !.images = ocr # <<>>,
                                   !.ocr = ocr, !.ink = 5]
Label == Box(0, 20, 10, 18, Word)
Digits == Box(30, 80, 11, 19, Account)
Head12 == Box(0, 20, 10, 18, <<"a", "1", "2">>)
Rest22 == Box(0, 20, 30, 38, <<"2", "2", "a">>)
Footer == Box(0, 20, 50, 58, <<"a", "a", "1", "1">>)

Native == Page(<<Label, Footer>>, <<>>)
Wrapped == Page(<<Head12, Rest22>>, <<>>)
Pages ==
  { Native, Wrapped, Blank,
    Page(<<>>, <<Digits, Label>>),                    \* a form, scanned
    [Wrapped EXCEPT !.images = TRUE, !.ocr = <<Digits>>],      \* mixed
    [Wrapped EXCEPT !.images = TRUE,                  \* OCR reads the run again
        !.ocr = <<Box(0, 22, 9, 19, Word), Box(0, 80, 29, 39, Account)>>],
    [Wrapped EXCEPT !.rotation = 90],
    [Wrapped EXCEPT !.area = 9],
    [Blank EXCEPT !.ink = 5],                         \* faint
    [Blank EXCEPT !.area = 9],
    [Blank EXCEPT !.area = 4, !.native = <<Label>>],  \* few characters
    [Native EXCEPT !.broken = TRUE] }

Heights == {0, 3, 6, 9}
Layouts == {Page(<<>>, <<Box(40, 50, a, a + 8, Word), Box(20, 30, b, b + 8, <<"1">>),
                         Box(0, 10, c, c + 8, <<"2">>)>>) : a, b, c \in Heights}

Document(pages) == [pages |-> pages, encrypted |-> FALSE, meta |-> 1]
Documents ==
  {Document(pages) : pages \in {<<>>} \union {<<p>> : p \in Pages \union Layouts}
                               \union {<<p, q>> : p, q \in Pages}}
  \union { Document(<<Native, Native, Native>>),
           [Document(<<Native>>) EXCEPT !.encrypted = TRUE],
           [Document(<<Page(<<>>, <<Digits, Label>>)>>) EXCEPT !.meta = 3] }

MCMenu == [{j1} -> Documents] \union [{j1, j2, j3} -> {Document(<<Blank>>)}]
Symmetry == Permutations({d1, d2}) \union Permutations({j1, j2, j3})
===============================================================================
