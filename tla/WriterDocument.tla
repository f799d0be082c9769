--------------------------- MODULE WriterDocument ---------------------------
(* The document of ProseWriter (prosewriter/app/src/PWDocument.cpp) as     *)
(* operators on a record: paragraphs of characters, the images on their    *)
(* marks, the undo and redo stacks, named styles and the header.           *)
(*                                                                         *)
(* An offset counts characters over the whole document, one more for the   *)
(* end of each paragraph but the last.  A character carries its format,    *)
(* which is what the normalised runs say of it.                            *)
EXTENDS Integers, Sequences, FiniteSets, FiniteSetsExt, SequencesExt

CONSTANTS Letters,     \* what is typed, besides a space and a cell's end
          CharFormats, \* character formats, Plain among them
          Plain,       \* MakeDefaultFormat()
          ParaFormats, \* paragraph formats: alignment, indents, list
          Numbered,    \* those that number their paragraph
          Left,        \* PWParaFormat(): the format of a new document
          UndoCap      \* steps the undo stack holds (512)

ASSUME WriterAssumption ==
    /\ Plain \in CharFormats /\ Left \in ParaFormats \ Numbered
    /\ Numbered \subseteq ParaFormats /\ UndoCap \in Nat \ {0}

Cell == "cell"  \* kCellSep
Mark == "mark"  \* kObjectChar
Line == "newline"
Glyphs == Letters \cup {"space", Cell, Mark}

Chars(glyphs, f) == [k \in DOMAIN glyphs |-> [c |-> glyphs[k], f |-> f]]
Paragraph(id) == [id |-> id, rev |-> 0, text |-> <<>>, format |-> Left, images |-> {}]

NewDocument ==
    [paras |-> <<Paragraph(1)>>, next |-> 2, undo |-> <<>>, redo |-> <<>>,
     modified |-> FALSE, styles |-> <<>>, header |-> "none",
     quiet |-> FALSE,    \* fInternalEdit: Undo() or Redo() is at work
     stray |-> FALSE]    \* history: a step was noted where it did not happen

ParaStart(d, p) ==
    LET start[k \in 0 .. Len(d.paras)] ==
          IF k = 0 THEN 0 ELSE start[k - 1] + Len(d.paras[k].text) + 1
    IN  start[p - 1]
Length(d) == ParaStart(d, Len(d.paras) + 1) - 1

(* Locate(): past the end is the end.                                      *)
Locate(d, o) ==
    LET holds == {p \in DOMAIN d.paras : o <= ParaStart(d, p) + Len(d.paras[p].text)}
        last  == Len(d.paras)
    IN  IF holds = {} THEN [para |-> last, at |-> Len(d.paras[last].text)]
        ELSE [para |-> Min(holds), at |-> o - ParaStart(d, Min(holds))]

(* PlainText() and GetText(): past a paragraph's text is its end.          *)
GlyphAt(d, at) ==
    LET t == d.paras[at.para].text IN IF at.at < Len(t) THEN t[at.at + 1].c ELSE Line
Text(d) == [k \in 1 .. Length(d) |-> GlyphAt(d, Locate(d, k - 1))]
GetText(d, o, n) == SubSeq(Text(d), o + 1, Min({o + n, Length(d)}))

FormatIn(t, at) == IF t = <<>> THEN Plain ELSE IF at < Len(t) THEN t[at + 1].f ELSE Last(t).f
FormatAtPlace(d, at) == FormatIn(d.paras[at.para].text, at.at)
FormatAt(d, o) == FormatAtPlace(d, Locate(d, o))

(* FormatForInsert(): typing after a styled letter goes on in its style.   *)
FormatForInsert(p, at) ==
    IF p.text = <<>> THEN Plain ELSE p.text[IF at > 0 THEN at ELSE 1].f

(* PushUndo().  The step keeps, as history, the text before it.            *)
Step == [kind |-> "insert", at |-> 0, len |-> 0, text |-> <<>>, runs |-> {},
         images |-> {}, format |-> Left, join |-> FALSE, was |-> <<>>]

PushUndo(d, s) ==
    IF d.quiet THEN [d EXCEPT !.modified = TRUE]
    ELSE LET stack == Append(d.undo, s)
         IN  [d EXCEPT !.modified = TRUE, !.redo = <<>>,
                       !.undo = IF Len(stack) > UndoCap THEN Tail(stack) ELSE stack]

Touched(p) == [p EXCEPT !.rev = @ + 1]

(* Insert(), a payload without a line end: one letter typed right behind   *)
(* the step on top joins it, and then the redo stack stays.                *)
Insertion(p, at, chars) ==
    Touched([p EXCEPT !.text = SubSeq(@, 1, at) \o chars \o SubSeq(@, at + 1, Len(@)),
                      !.images = {IF k >= at THEN k + Len(chars) ELSE k : k \in @}])

PlacedAt(d, at, glyphs, f) ==
    LET given == IF f = {} THEN {FormatForInsert(d.paras[at.para], at.at)} ELSE f
    IN  [d EXCEPT !.paras[at.para] = Insertion(@, at.at, Chars(glyphs, CHOOSE g \in given : TRUE))]
Placed(d, o, glyphs, f) == PlacedAt(d, Locate(d, o), glyphs, f)

Joins(d, o, glyphs) ==
    /\ ~d.quiet /\ d.undo # <<>> /\ Len(glyphs) = 1
    /\ Last(d.undo).kind = "insert" /\ Last(d.undo).join
    /\ Last(d.undo).at + Last(d.undo).len = o

Longer(s, glyphs) == [s EXCEPT !.len = @ + 1, !.text = @ \o glyphs]

(* Defect: a letter that joins the step on top does not mark the document. *)
JoinedUnmarked(d, glyphs) == [d EXCEPT !.undo[Len(d.undo)] = Longer(@, glyphs)]
Joined(d, glyphs) == [d EXCEPT !.undo[Len(d.undo)] = Longer(@, glyphs), !.modified = TRUE]

Strayed(d, strays) == [d EXCEPT !.stray = @ \/ strays]

InsertPiece(d, o, glyphs, f) ==
    LET e == Strayed(Placed(d, o, glyphs, f), o > Length(d))
    IN  IF Joins(d, o, glyphs) THEN Joined(Strayed(e, d.redo # <<>>), glyphs)
        ELSE PushUndo(e, [Step EXCEPT !.at = o, !.len = Len(glyphs), !.text = glyphs,
                                      !.join = ~d.quiet, !.was = Text(d)])

(* SplitPara(): the second half is a new paragraph of the same format.     *)
(* Defect: it keeps the identity and the revision of the first.            *)
SecondHalfSameId(d, p, at) ==
    [p EXCEPT !.text = SubSeq(@, at + 1, Len(@)),
              !.images = {k - at : k \in {i \in @ : i >= at}}]

SecondHalf(d, p, at) ==
    [Paragraph(d.next) EXCEPT !.text = SubSeq(p.text, at + 1, Len(p.text)),
                              !.format = p.format,
                              !.images = {k - at : k \in {i \in p.images : i >= at}}]

FirstHalf(p, at) == Touched([p EXCEPT !.text = SubSeq(@, 1, at), !.images = {k \in @ : k < at}])

SplitAt(d, at) ==
    LET p == d.paras[at.para]
    IN  [d EXCEPT !.paras = SubSeq(@, 1, at.para - 1)
                            \o <<FirstHalf(p, at.at), SecondHalf(d, p, at.at)>>
                            \o SubSeq(@, at.para + 1, Len(@)),
                  !.next = @ + 1]

SplitPara(d, o) ==
    PushUndo(Strayed(SplitAt(d, Locate(d, o)), o > Length(d)),
             [Step EXCEPT !.at = o, !.len = 1, !.text = <<Line>>, !.was = Text(d)])

(* Insert(): a piece, a split, a piece...  At a line's end, and at the end *)
(* of them all, what stands before it since the last one is inserted.      *)
PieceStart(glyphs, k) == Max({0} \cup {i \in DOMAIN glyphs : i < k /\ glyphs[i] = Line}) + 1
InsertLine(d, o, glyphs, k, f) ==
    LET first == PieceStart(glyphs, k)
    IN  IF first = k THEN d ELSE InsertPiece(d, o + first - 1, SubSeq(glyphs, first, k - 1), f)
Insert(d, o, glyphs, f) ==
    LET after[k \in 0 .. Len(glyphs)] ==
          IF k = 0 THEN d
          ELSE IF glyphs[k] # Line THEN after[k - 1]
          ELSE SplitPara(InsertLine(after[k - 1], o, glyphs, k, f), o + k - 1)
    IN  InsertLine(after[Len(glyphs)], o, glyphs, Len(glyphs) + 1, f)

(* CaptureRuns(): the formats of n characters from o.  It never ends when  *)
(* the range passes the document's end.                                    *)
NeverEnds(d, o, n) == n > 0 /\ o + n > Length(d)

ParaFormatsFrom(t, first, n) ==
    {[at |-> first + k, f |-> t[k + 1].f] : k \in {i \in 0 .. Len(t) - 1 : first + i \in 0 .. n - 1}}
CaptureRuns(d, o, n) ==
    UNION {ParaFormatsFrom(d.paras[p].text, ParaStart(d, p) - o, n) : p \in DOMAIN d.paras}

(* Remove(): the last paragraph it reaches into joins the first.  Images   *)
(* of the later ones are kept as if they had stood in the first, which by  *)
(* then is where they are.                                                 *)
Merged(p, a, q, b) ==
    Touched([p EXCEPT !.text = SubSeq(@, 1, a) \o SubSeq(q.text, b + 1, Len(q.text)),
                      !.images = {x \in @ : x < a} \cup {x - b + a : x \in {y \in q.images : y >= b}}])

ErasedParas(d, i, j) ==
    SubSeq(d.paras, 1, i.para - 1)
    \o <<Merged(d.paras[i.para], i.at, d.paras[j.para], j.at)>>
    \o SubSeq(d.paras, j.para + 1, Len(d.paras))

ErasedImages(d, i, j) ==
    LET Lost(k) == {x \in d.paras[k].images : (k > i.para \/ x >= i.at) /\ (k < j.para \/ x < j.at)}
        Base(k) == IF k = i.para THEN 0 ELSE i.at
    IN  UNION {{ParaStart(d, i.para) + Base(k) + x : x \in Lost(k)} : k \in i.para .. j.para}

Removed(d, o, n) ==
    PushUndo([d EXCEPT !.paras = ErasedParas(d, Locate(d, o), Locate(d, o + n))],
             [Step EXCEPT !.kind = "remove", !.at = o, !.len = n, !.text = GetText(d, o, n),
                          !.runs = CaptureRuns(d, o, n), !.was = Text(d),
                          !.images = ErasedImages(d, Locate(d, o), Locate(d, o + n))])

RemoveText(d, o, length) ==
    IF length <= 0 \/ o >= Length(d) THEN d
    ELSE Removed(d, o, Min({length, Length(d) - o}))

(* ApplyFormat().                                                          *)
PaintedPara(p, from, n, f) ==
    LET hit == {k \in DOMAIN p.text : k > from /\ k <= from + n}
    IN  IF hit = {} THEN p
        ELSE Touched([p EXCEPT !.text =
               [k \in DOMAIN @ |-> IF k \in hit THEN [@[k] EXCEPT !.f = f] ELSE @[k]]])
Painted(d, o, n, f) ==
    [d EXCEPT !.paras = [p \in DOMAIN @ |-> PaintedPara(@[p], o - ParaStart(d, p), n, f)]]

ApplyFormat(d, o, n, f) ==
    IF n <= 0 THEN d
    ELSE PushUndo(Painted(d, o, n, f),
                  [Step EXCEPT !.kind = "format", !.at = o, !.len = n,
                               !.runs = CaptureRuns(d, o, n), !.was = Text(d)])

(* Defect: a new paragraph format is not a new revision.                   *)
SetParaFormatQuietly(d, p, format) ==
    PushUndo([d EXCEPT !.paras[p].format = format],
             [Step EXCEPT !.kind = "paraformat", !.at = p,
                          !.format = d.paras[p].format, !.was = Text(d)])

SetParaFormat(d, p, format) ==
    PushUndo([d EXCEPT !.paras[p] = Touched([@ EXCEPT !.format = format])],
             [Step EXCEPT !.kind = "paraformat", !.at = p,
                          !.format = d.paras[p].format, !.was = Text(d)])

(* The runs of a step put back, and the images on their marks.             *)
RepaintedPara(p, first, runs) ==
    LET Back(k) == {r \in runs : r.at = first + k - 1}
    IN  IF \A k \in DOMAIN p.text : Back(k) = {} THEN p
        ELSE Touched([p EXCEPT !.text = [k \in DOMAIN @ |->
               IF Back(k) = {} THEN @[k] ELSE [@[k] EXCEPT !.f = (CHOOSE r \in Back(k) : TRUE).f]]])
Repainted(d, o, runs) ==
    [d EXCEPT !.paras = [p \in DOMAIN @ |-> RepaintedPara(@[p], ParaStart(d, p) - o, runs)]]

Hung(d, at) ==
    LET p == d.paras[at.para]
    IN  [d EXCEPT !.paras[at.para] = Touched([p EXCEPT !.images = @ \cup {at.at}])]
HungIn(d, images, p) == {k \in images : Locate(d, k).para = p}
RehungPara(d, images, p) ==
    [d.paras[p] EXCEPT !.images = @ \cup {Locate(d, k).at : k \in HungIn(d, images, p)},
                       !.rev = @ + Cardinality(HungIn(d, images, p))]
Rehung(d, images) == [d EXCEPT !.paras = [p \in DOMAIN @ |-> RehungPara(d, images, p)]]

(* SetParaFormat() as Undo() and Redo() do it.                             *)
Reformatted(d, p, format) ==
    IF p > Len(d.paras) THEN d
    ELSE [d EXCEPT !.paras[p] = Touched([@ EXCEPT !.format = format])]

(* Defect: undoing a removal at a paragraph's end leaves the end out.      *)
UndoneOnePiece(d, s) ==
    IF s.kind = "remove" /\ Line \in {s.text[k] : k \in DOMAIN s.text}
    THEN InsertPiece(d, s.at, SelectSeq(s.text, LAMBDA c : c # Line), {})
    ELSE CASE s.kind = "insert" -> RemoveText(d, s.at, s.len)
           [] s.kind = "remove" -> Insert(d, s.at, s.text, {})
           [] s.kind = "format" -> Repainted(d, s.at, s.runs)
           [] OTHER -> Reformatted(d, s.at, s.format)

(* Undo(): what undoes the top step, and what goes on the redo stack.  The     *)
(* runs restyle all the text that comes back, so the format it is given    *)
(* before them does not show.  A                                           *)
(* paragraph's format goes there as it was, so that Redo() sets it again.  *)
Undone(d, s) ==
    CASE s.kind = "insert" -> RemoveText(d, s.at, s.len)
      [] s.kind = "remove" ->
           Rehung(Repainted(Insert(d, s.at, s.text, {}), s.at, s.runs), s.images)
      [] s.kind = "format" -> Repainted(d, s.at, s.runs)
      [] OTHER -> Reformatted(d, s.at, s.format)

WithRuns(d, s) ==
    IF s.kind = "format" THEN [s EXCEPT !.runs = CaptureRuns(d, s.at, s.len)] ELSE s

Undo(d, s) ==
    [Undone([d EXCEPT !.quiet = TRUE], s) EXCEPT
       !.quiet = FALSE, !.modified = TRUE, !.undo = Front(d.undo),
       !.redo = Append(d.redo, [WithRuns(d, s) EXCEPT !.was = Text(d)])]

Redone(d, s) ==
    CASE s.kind = "insert" -> Insert(d, s.at, s.text, {})
      [] s.kind = "remove" -> RemoveText(d, s.at, s.len)
      [] s.kind = "format" -> Repainted(d, s.at, s.runs)
      [] OTHER -> Reformatted(d, s.at, s.format)

ForUndo(d, s) ==
    IF s.kind # "paraformat" \/ s.at > Len(d.paras) THEN WithRuns(d, s)
    ELSE [s EXCEPT !.format = d.paras[s.at].format]

Redo(d, s) ==
    [Redone([d EXCEPT !.quiet = TRUE], s) EXCEPT
       !.quiet = FALSE, !.modified = TRUE, !.redo = Front(d.redo),
       !.undo = Append(d.undo, [ForUndo(d, s) EXCEPT !.was = Text(d)])]

(* SaveToMessage() and LoadFromMessage().                                  *)
Saved(d) ==
    [styles |-> d.styles, header |-> d.header,
     paras |-> [p \in DOMAIN d.paras |-> [text |-> d.paras[p].text, format |-> d.paras[p].format,
                                          images |-> d.paras[p].images]]]

Load(d, file) ==
    LET n      == Len(file.paras)
        Para(p) == [id |-> d.next + p - 1, rev |-> 0, text |-> file.paras[p].text,
                    format |-> file.paras[p].format, images |-> file.paras[p].images]
    IN  [NewDocument EXCEPT
           !.paras = IF n = 0 THEN <<Paragraph(d.next)>> ELSE [p \in 1 .. n |-> Para(p)],
           !.next = d.next + Max({n, 1}), !.styles = file.styles, !.header = file.header]

(* InsertImage(): the mark, then the image on it.                          *)
InsertImage(d, o) == Hung(Insert(d, o, <<Mark>>, {}), Locate(d, o))

(* A table is a maximal run of paragraphs that hold cell ends.             *)
IsRow(d, p) == p \in DOMAIN d.paras /\ \E k \in DOMAIN d.paras[p].text : d.paras[p].text[k].c = Cell
CellEnds(t) == {k \in DOMAIN t : t[k].c = Cell}
Cells(n)    == [k \in 1 .. n |-> Cell]
FirstRow(d, p) == Min({k \in 1 .. p : \A i \in k .. p : IsRow(d, i)})
LastRow(d, p)  == Min({k \in p .. Len(d.paras) : ~IsRow(d, k + 1)})

(* CellStart(): where the row's cell `col' (from 0) begins, if it is there. *)
CellStart(d, p, col) ==
    LET ends == CellEnds(d.paras[p].text)
    IN  {ParaStart(d, p) + k : k \in {e \in {0} \cup ends : Cardinality({i \in ends : i <= e}) = col}}

ColumnOf(d, at) == Cardinality({k \in CellEnds(d.paras[at.para].text) : k <= at.at})
ParaEnd(d, p) == ParaStart(d, p) + Len(d.paras[p].text)

InsertTable(d, o, rows, cols, f) ==
    LET after[k \in 0 .. rows - 1] ==
          IF k = 0 THEN Insert(d, o, Cells(cols - 1), f)
          ELSE Insert(SplitPara(after[k - 1], o + k * cols - 1), o + k * cols, Cells(cols - 1), {})
    IN  after[rows - 1]

(* The structure edits of a table.                                         *)
InsertTableRowAfter(d, o) ==
    LET p == Locate(d, o).para
    IN  Insert(SplitPara(d, ParaEnd(d, p)), ParaEnd(d, p) + 1,
               Cells(Cardinality(CellEnds(d.paras[p].text))), {})

\* A row too short for the cell gets it at its end.
InsertCell(d, p, col) ==
    Insert(d, Min(CellStart(d, p, col) \cup {ParaEnd(d, p)}), <<Cell>>, {})

InsertTableColumnAt(d, o) ==
    LET at   == Locate(d, o)
        last == LastRow(d, at.para)
        after[k \in 0 .. last - at.para + 1] ==   \* from the last row up
          IF k = 0 THEN d ELSE InsertCell(after[k - 1], last + 1 - k, ColumnOf(d, at))
    IN  after[last - at.para + 1]

DeleteTableRow(d, o) ==
    LET p  == Locate(d, o).para
        at == ParaStart(d, p)
        n  == Len(d.paras[p].text)
    IN  IF ~IsRow(d, p - 1) /\ ~IsRow(d, p + 1) THEN RemoveText(RemoveText(d, at, n), at, 1)
        ELSE RemoveText(d, IF IsRow(d, p - 1) THEN at - 1 ELSE at, n + 1)

DeleteCell(d, p, col) ==
    LET start == CellStart(d, p, col)
        next  == CellStart(d, p, col + 1) \cup {ParaEnd(d, p)}
    IN  IF start = {} THEN d ELSE RemoveText(d, Min(start), Min(next) - Min(start))

DeleteTableColumnAt(d, o) ==
    LET at    == Locate(d, o)
        first == FirstRow(d, at.para)
        last  == LastRow(d, at.para)
        after[k \in 0 .. last - first + 1] ==
          IF k = 0 THEN d ELSE DeleteCell(after[k - 1], last + 1 - k, ColumnOf(d, at))
    IN  after[last - first + 1]

(* Where a column edit leaves the caret: in its row's cell, if there is one. *)
ColumnCaret(d, e, o) ==
    LET start == CellStart(e, Locate(d, o).para, ColumnOf(d, Locate(d, o)))
    IN  IF start = {} THEN o ELSE Min(start)

(* Named styles: AddStyle(), RemoveStyle(), ApplyStyle().                  *)
AddStyle(d, name, f, format) ==
    LET has == {k \in DOMAIN d.styles : d.styles[k].name = name}
        s   == [name |-> name, f |-> f, format |-> format]
    IN  [d EXCEPT !.modified = TRUE,
                  !.styles = IF has = {} THEN Append(@, s) ELSE [@ EXCEPT ![Min(has)] = s]]

RemoveStyle(d, k) ==
    IF k \notin DOMAIN d.styles THEN d
    ELSE [d EXCEPT !.modified = TRUE, !.styles = RemoveAt(@, k)]

SetParaFormats(d, from, to, format) ==
    LET first == Locate(d, from).para
        last  == Locate(d, to).para
        after[k \in 0 .. last - first + 1] ==
          IF k = 0 THEN d ELSE SetParaFormat(after[k - 1], first + k - 1, format)
    IN  after[last - first + 1]

ApplyStyle(d, o, n, k) ==
    IF k \notin DOMAIN d.styles THEN d
    ELSE SetParaFormats(ApplyFormat(d, o, n, d.styles[k].f), o, o + Max({n, 1}),
                        d.styles[k].format)

SetHeaderText(d, text) == [d EXCEPT !.header = text, !.modified = TRUE]

(* FindNext(): the first match from an offset, over the whole text.        *)
FindNext(d, needle, from, wrap) ==
    LET t    == Text(d)
        Hits(lo) == {at \in lo .. Len(t) - Len(needle) :
                       SubSeq(t, at + 1, at + Len(needle)) = needle}
    IN  IF Hits(from) # {} THEN {Min(Hits(from))}
        ELSE IF wrap /\ Hits(0) # {} THEN {Min(Hits(0))} ELSE {}

(* ReplaceAll(): goes on behind what it has put in, until it finds no more, *)
(* which is after as many matches as there are characters at most.         *)
ReplaceNext(r, find, replace) ==
    LET found == FindNext(r.d, find, r.at, FALSE)
        hit   == Min(found)
    IN  IF found = {} THEN r
        ELSE [d |-> Insert(RemoveText(r.d, hit, Len(find)), hit, replace, {}),
              at |-> hit + Len(replace)]
ReplaceAllText(d, find, replace) ==
    LET after[k \in 0 .. Length(d)] ==
          IF k = 0 THEN [d |-> d, at |-> 0] ELSE ReplaceNext(after[k - 1], find, replace)
    IN  IF find = <<>> \/ find = replace THEN d ELSE after[Length(d)].d
=============================================================================
