----------------------------- MODULE WriterView -----------------------------
(* The page view of ProseWriter (prosewriter/app/src/PWPageView.cpp): the  *)
(* caret, the selection and the keys, over the document and its layout.    *)
(*                                                                         *)
(* Nothing moves the caret or the selection's other end when the text      *)
(* under them goes, so that both may lie past the document's end; a format *)
(* for such a selection is never done (NeverEnds), and the window with it. *)
EXTENDS WriterLayout

CONSTANTS MaxOps,    \* edits of the document
          MaxTurns   \* undos, redos, saves, openings, page setups and copies

ASSUME ViewAssumption == MaxOps \in Nat /\ MaxTurns \in Nat

VARIABLES doc,      \* fDoc
          view,     \* fCaret, fSelAnchor, fCurrentFormat, fOverrideFormat
          layout,   \* fLayout
          clip,     \* the clipboard: nothing, or one styled text
          mode,     \* "open", "closed", or "stuck" in a loop without end
          ops,      \* edits so far
          turns,    \* operations of the other kind so far
          disk,     \* what each file holds
          path,     \* fFilePath: no path, or one
          given     \* history: a script gave the text (AdoptDoc)

files == <<disk, path, given>>

None == -1
HasSelection == view.anchor # None /\ view.anchor # view.caret
From == IF HasSelection THEN Min({view.anchor, view.caret}) ELSE view.caret
To   == IF HasSelection THEN Max({view.anchor, view.caret}) ELSE view.caret

Within(d, o) == IF o \in 0 .. Length(d) THEN o ELSE IF o < 0 THEN 0 ELSE Length(d)

(* SetCaret(): a selection begins where the caret goes, not where it was.  *)
SetCaret(d, v, o, extend) ==
    LET to == Within(d, o)
    IN  [v EXCEPT !.caret = to, !.fmt = IF v.over THEN @ ELSE FormatAt(d, to),
                  !.anchor = IF ~extend THEN None ELSE IF @ = None THEN to ELSE @]

Select(d, v, a, b) ==
    [v EXCEPT !.anchor = Within(d, Min({a, b})), !.caret = Within(d, Max({a, b}))]

(* An operation ends in Relayout().                                        *)
Shows(d, v) ==
    /\ mode = "open" /\ ops < MaxOps /\ ops' = ops + 1
    /\ doc' = d /\ view' = v /\ layout' = Layout(layout, doc', layout.width)
    /\ UNCHANGED <<clip, mode, turns, files>>

Turn == mode = "open" /\ turns < MaxTurns /\ turns' = turns + 1

(* Any other operation that shows a document.                              *)
TurnsTo(d, v) ==
    /\ Turn
    /\ doc' = d /\ view' = v /\ layout' = Layout(layout, doc', layout.width)
    /\ UNCHANGED <<clip, mode, ops>>

(* Only the caret moves: as often as it likes before the last edit.        *)
Moves(v) ==
    /\ mode = "open" /\ ops < MaxOps /\ view' = v
    /\ UNCHANGED <<doc, layout, clip, mode, ops, turns, files>>

Stuck ==
    /\ mode = "open" /\ mode' = "stuck"
    /\ UNCHANGED <<doc, view, layout, clip, ops, turns, files>>

(* The document and the caret without the selection.                       *)
Cleared      == RemoveText(doc, From, To - From)
ClearedCaret == [view EXCEPT !.caret = From, !.anchor = IF HasSelection THEN None ELSE @]

(* HandlePrintableChar().                                                  *)
InsertText(d, v, glyph) ==
    Shows(Insert(d, v.caret, <<glyph>>, {v.fmt}),
          [v EXCEPT !.caret = @ + 1, !.anchor = None, !.over = FALSE])

TypeLetter == \E g \in Letters \cup {"space"} : InsertText(Cleared, ClearedCaret, g)

Backspace ==
    IF HasSelection THEN Shows(Cleared, ClearedCaret)
    ELSE view.caret > 0 /\ Shows(RemoveText(doc, view.caret - 1, 1), [view EXCEPT !.caret = @ - 1])

DeleteKey ==
    IF HasSelection THEN Shows(Cleared, ClearedCaret)
    ELSE view.caret < Length(doc) /\ Shows(RemoveText(doc, view.caret, 1), view)

Enter ==
    Shows(SplitPara(Cleared, ClearedCaret.caret),
          [ClearedCaret EXCEPT !.caret = @ + 1, !.anchor = None])

(* MoveToNextCell(): the next cell, the next row, or a new row after the   *)
(* last one; the new row has one cell less.                                *)
NewRow(d, p) ==
    Insert(SplitPara(d, ParaEnd(d, p)), ParaEnd(d, p) + 1,
           Cells(Cardinality(CellEnds(d.paras[p].text)) - 1), {})

Tab ==
    \E d \in {Cleared} :
      LET v    == ClearedCaret
          at   == Locate(d, v.caret)
          next == {k \in CellEnds(d.paras[at.para].text) : k > at.at}
          Goes(e, o) == Shows(e, SetCaret(e, v, o, FALSE))
      IN  IF ~IsRow(d, at.para)
          THEN InsertText(d, v, "space")
          ELSE IF next # {} THEN Goes(d, ParaStart(d, at.para) + Min(next))
          ELSE IF IsRow(d, at.para + 1) THEN Goes(d, ParaStart(d, at.para + 1))
          ELSE Goes(NewRow(d, at.para), ParaEnd(d, at.para) + 1)

(* HandleNavigationKey(): the arrows, a word, a line, a page, the ends.    *)
Blank(t, k) == k \in DOMAIN t /\ t[k] = "space"
InWord(t, k) == k \in DOMAIN t /\ t[k] \notin {"space", Line}
WordLeft(t, c) ==
    LET a == Max({k \in 0 .. c : ~Blank(t, k)})
    IN  Max({k \in 0 .. a : ~InWord(t, k)})
WordRight(t, c) ==
    LET a == Min({k \in c .. Len(t) : ~Blank(t, k + 1)})
    IN  Min({k \in a .. Len(t) : ~InWord(t, k + 1)})

KeyTargets ==
    LET c    == view.caret
        line == LineOf(layout, c)
    IN  {c - 1, c + 1, 0, Length(doc), PrevLineStart(layout, c), NextLineStart(layout, doc, c),
         layout.starts[line], LineStop(layout, doc, line)}
        \cup IF c > Length(doc) THEN 0 .. Length(doc) ELSE {WordLeft(Text(doc), c), WordRight(Text(doc), c)}

Navigate == \E o \in KeyTargets, extend \in BOOLEAN : Moves(SetCaret(doc, view, o, extend))

(* ClickCycled() and the drag that follows; a page key goes to a place     *)
(* as a click does.                                                        *)
Click == \E o \in Places(layout, doc), extend \in BOOLEAN : Moves(SetCaret(doc, view, o, extend))

DoubleClick ==
    \E o \in Places(layout, doc) :
      LET t == Text(doc)
      IN  Moves(Select(doc, view, Max({k \in 0 .. o : ~InWord(t, k)}),
                       Min({k \in o .. Len(t) : ~InWord(t, k + 1)})))

TripleClick ==
    \E o \in Places(layout, doc) :
      LET p == Locate(doc, o).para
      IN  Moves(Select(doc, view, ParaStart(doc, p), ParaEnd(doc, p)))

SelectAll == Moves(Select(doc, view, 0, Length(doc)))

(* ApplyCharFormat(): for what is typed next, and for the selection.       *)
ApplyCharFormat ==
    \E f \in CharFormats \ {view.fmt} :
      LET v == [view EXCEPT !.fmt = f, !.over = TRUE]
      IN  IF ~HasSelection THEN TurnsTo(doc, v) /\ UNCHANGED files
          ELSE IF NeverEnds(doc, From, To - From) THEN Stuck
          ELSE Shows(ApplyFormat(doc, From, To - From, f), v)

(* Cut(), Copy() and Paste(): the text, then each run's format.            *)
Joint(chars, r) == \E s \in chars : s.at = r.at - 1 /\ s.f = r.f
CopiedRuns(chars) ==
    {[at |-> r.at, f |-> r.f,
      len |-> Min({n \in 1 .. Cardinality(chars) :
                     ~\E s \in chars : s.at = r.at + n /\ s.f = r.f})] :
       r \in {x \in chars : ~Joint(chars, x)}}
Copied == [text |-> GetText(doc, From, To - From),
           runs |-> CopiedRuns(CaptureRuns(doc, From, To - From))]

Copy ==
    /\ HasSelection /\ Turn
    /\ clip' = {Copied} /\ UNCHANGED <<doc, view, layout, mode, ops, files>>

Cut ==
    /\ mode = "open" /\ HasSelection /\ ops < MaxOps /\ ops' = ops + 1
    /\ clip' = {Copied} /\ doc' = Cleared /\ view' = ClearedCaret
    /\ layout' = Layout(layout, doc', layout.width) /\ UNCHANGED <<mode, turns, files>>

RestyledBy(d, at, runs) ==
    LET r == CHOOSE x \in runs : TRUE
    IN  IF runs = {} \/ at + r.at + r.len > Length(d) THEN d
        ELSE ApplyFormat(d, at + r.at, r.len, r.f)
Restyled(d, at, c) ==
    LET after[k \in 0 .. Len(c.text)] ==
          IF k = 0 THEN d ELSE RestyledBy(after[k - 1], at, {r \in c.runs : r.at = k - 1})
    IN  after[Len(c.text)]

Paste ==
    \E c \in clip, d \in {Cleared} :
      LET at == ClearedCaret.caret
          e  == IF c.text = <<>> THEN d ELSE Insert(d, at, c.text, {view.fmt})
      IN  Shows(Restyled(e, at, c),
                [view EXCEPT !.caret = at + Len(c.text), !.anchor = None])

Keys == TypeLetter \/ Backspace \/ DeleteKey \/ Enter \/ Tab \/ Navigate
Mouse == Click \/ DoubleClick \/ TripleClick \/ SelectAll
Clipboard == Copy \/ Cut \/ Paste
=============================================================================
