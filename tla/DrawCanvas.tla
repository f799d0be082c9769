---------------------------- MODULE DrawCanvas ----------------------------
(* The canvas of ProseDraw (prosedraw/app/src/PDCanvas.cpp): the tools, the*)
(* selection and the mouse gestures that edit a DrawDocument.  Mouse, keys *)
(* and the label editor arrive one message at a time on the window's       *)
(* thread, and the messages and scripts of DrawApp between any two.        *)
EXTENDS DrawDocument

CONSTANTS MaxShapes,   \* bound: ids handed out
          MaxOps       \* bound: operations

ASSUME BoundAssumption == MaxShapes \in Nat

VARIABLES doc,         \* the document
          canvas,      \* fTool, fSelection, fDrag, fMoveBase, fConnectFrom, ...
          ops          \* operations so far; picking tools and releasing are free

Tools == {"select", "shape", "text", "connector"}
Drags == {"none", "move", "resize", "create", "band", "connect"}

IdleCanvas ==
    [tool |-> "select",
     sel  |-> <<>>,     \* fSelection
     drag |-> "none",   \* fDrag
     base |-> <<>>,     \* fMoveBase: where the boxes of a move began
     grip |-> Nobody,   \* what fSelection[0] held when a resize began
     from |-> Nobody,   \* fConnectFrom
     editor |-> Nobody, \* fEditorShapeId while the label editor is open
     began |-> {},      \* history: what the press of a move or resize put on
                        \* the undo stack, while no undo takes it off
     cut |-> FALSE]     \* history: a press left a move or resize without its
                        \* Touch() while the document counted as saved

Ids(s)        == {s[k] : k \in DOMAIN s}
Select(c, s)  == [c EXCEPT !.sel = s]

(* What of a selection is in I, in the order of the selection.             *)
Chosen(s, I) ==
    LET walk[k \in 0 .. Len(s)] ==
          IF k = 0 THEN <<>>
          ELSE IF s[k] \in I THEN Append(walk[k - 1], s[k]) ELSE walk[k - 1]
    IN  walk[Len(s)]
BoxesIn(s, S) == Chosen(s, Boxes(S))
LeftOut(s, i) == Chosen(s, Ids(s) \ {i})

(* The ids of a set in drawing order, as a loop over fShapes meets them.   *)
InOrder(I, S) ==
    CHOOSE s \in [1 .. Cardinality(I) -> I] :
        /\ Ids(s) = I
        /\ \A j, k \in DOMAIN s : j < k => S[s[j]].rank <= S[s[k]].rank

Room(n) == doc.next + n <= MaxShapes + 1 /\ ops < MaxOps

Do(d, c)   == doc' = d /\ canvas' = c /\ ops' = ops + 1
Tool(c)    == canvas' = c /\ UNCHANGED <<doc, ops>>

(***************************************************************************)
(* MouseDown, a tool at a time.  It does not look at fDrag: the press of   *)
(* another button, or one after another tool was picked, takes the place   *)
(* of a gesture that goes on, and a move or resize it ends so is not       *)
(* marked by MouseUp.                                                      *)
(***************************************************************************)
Reshaping == canvas.drag \in {"move", "resize"}
Takes(c, drag) ==
    [c EXCEPT !.drag = drag, !.began = {}, !.cut = @ \/ (Reshaping /\ ~doc.modified)]
Opens(c, drag) == [c EXCEPT !.drag = drag, !.began = {Now(doc)}]

OneBoxSelected ==
    Len(canvas.sel) = 1 /\ canvas.sel[1] \in Boxes(doc.shapes)

ResizeBegins ==
    /\ canvas.tool = "select" /\ ops < MaxOps
    /\ OneBoxSelected
    /\ Do(Snapshot(doc), [Opens(canvas, "resize") EXCEPT !.grip = canvas.sel[1]])

Clicked(hit, additive) ==
    CASE hit \in Ids(canvas.sel) -> IF additive THEN LeftOut(canvas.sel, hit)
                                                ELSE canvas.sel
      [] OTHER -> IF additive THEN Append(canvas.sel, hit) ELSE <<hit>>

OpenLabelEditor(c) ==
    IF c.editor = Nobody /\ Len(c.sel) = 1 /\ c.sel[1] \in Boxes(doc.shapes)
    THEN [c EXCEPT !.editor = c.sel[1]] ELSE c

(* A click on a shape selects it and begins a move; a double click on a    *)
(* single selection opens the editor instead.                              *)
ClickShape ==
    /\ canvas.tool = "select" /\ ops < MaxOps
    /\ \E hit \in Hits(doc.shapes) \ {Nobody}, additive, double \in BOOLEAN :
         LET s == Clicked(hit, additive)
             c == Select(canvas, s)
         IN  IF double /\ Len(s) = 1
             THEN Do(doc, OpenLabelEditor(c))
             ELSE LET moved == BoxesIn(s, doc.shapes)
                  IN  Do(Snapshot(doc),
                         [Opens(c, "move") EXCEPT
                             !.base = [k \in DOMAIN moved |-> doc.shapes[moved[k]].pos]])

ClickNothing ==
    /\ canvas.tool = "select" /\ ops < MaxOps
    /\ Nobody \in Hits(doc.shapes)
    /\ \E shift \in BOOLEAN :
         Do(doc, Select(Takes(canvas, "band"), IF shift THEN canvas.sel ELSE <<>>))

(* The connector tool remembers the shape of the first click until the     *)
(* second one, whatever becomes of that shape in between.                  *)
ClickConnector ==
    /\ canvas.tool = "connector" /\ Room(1)
    /\ \E p \in Positions, look \in Looks :
         LET hit == ShapeAtPoint(doc.shapes, p)
             d   == AddShape(doc, NewConnector(doc.shapes, canvas.from, hit, p, look))
         IN  \/ /\ hit # Nobody /\ canvas.from = Nobody
                /\ Do(doc, [Takes(canvas, "connect") EXCEPT !.from = hit])
             \/ /\ hit # Nobody /\ canvas.from \notin {Nobody, hit}
                /\ Do(d, [Takes(canvas, "none") EXCEPT !.from = Nobody,
                                                       !.sel = <<doc.next>>])
             \/ /\ hit \in {Nobody, canvas.from} /\ canvas.from # Nobody
                /\ Do(doc, [Takes(canvas, "none") EXCEPT !.from = Nobody])

ClickText ==
    /\ canvas.tool = "text" /\ Room(1)
    /\ \E p \in Positions, look \in Looks :
         Do(AddShape(doc, NewBox(p, look)), Select(canvas, <<doc.next>>))

CreateBegins ==
    /\ canvas.tool = "shape" /\ ops < MaxOps
    /\ Do(doc, Takes(canvas, "create"))

(***************************************************************************)
(* MouseMoved and MouseUp.  A gesture changes the shapes in place: the     *)
(* snapshot of its MouseDown stands for all of it, and MouseUp marks the   *)
(* document modified.  fMoveBase holds the boxes of the selection only,    *)
(* fSelection all of it, and both are walked with the same index.          *)
(***************************************************************************)
MoveTo(delta) ==
    LET S == doc.shapes
        at(i) == {k \in DOMAIN canvas.sel \cap DOMAIN canvas.base :
                    canvas.sel[k] = i /\ i \in Boxes(S)}
    IN  [i \in DOMAIN S |-> IF at(i) = {} THEN S[i]
                            ELSE [S[i] EXCEPT !.pos = canvas.base[Max(at(i))] + delta]]

Dragged ==
    /\ canvas.drag = "move" /\ canvas.base # <<>> /\ ops < MaxOps
    /\ \E delta \in -1 .. 1 :
         /\ \A i \in DOMAIN doc.shapes : MoveTo(delta)[i].pos \in Positions
         /\ Do([doc EXCEPT !.shapes = MoveTo(delta)], canvas)

(* A resize takes fSelection[0] even when the selection was emptied since: *)
(* the build reads what is left of the vector, the old id or anything.     *)
Resized ==
    /\ canvas.drag = "resize" /\ ops < MaxOps
    /\ \E i \in (IF canvas.sel # <<>> THEN {canvas.sel[1]}
                 ELSE {canvas.grip, Nobody}), p \in Positions :
         Do(IF i \in DOMAIN doc.shapes
            THEN [doc EXCEPT !.shapes = [doc.shapes EXCEPT ![i].pos = p]]
            ELSE doc, canvas)

CreateEnds ==
    /\ canvas.drag = "create" /\ Room(1)
    /\ \E p \in Positions, look \in Looks :
         Do(AddShape(doc, NewBox(p, look)),
            [canvas EXCEPT !.drag = "none", !.sel = <<doc.next>>])

(* The band chooses the boxes whose middle it holds.                       *)
BandEnds ==
    /\ canvas.drag = "band" /\ ops < MaxOps
    /\ \E a, b \in Positions, shift \in BOOLEAN :
         LET S    == doc.shapes
             kept == IF shift THEN canvas.sel ELSE <<>>
             new  == {i \in Boxes(S) : S[i].pos \in a .. b} \ Ids(kept)
         IN  Do(doc, [canvas EXCEPT !.drag = "none", !.sel = kept \o InOrder(new, S)])

GestureEnds ==
    /\ Reshaping
    /\ doc' = [doc EXCEPT !.modified = TRUE]
    /\ canvas' = [canvas EXCEPT !.drag = "none", !.began = {}] /\ UNCHANGED ops

ConnectReleased ==
    /\ canvas.drag = "connect" /\ Tool([canvas EXCEPT !.drag = "none"])

(***************************************************************************)
(* What keys and messages do with the selection.                           *)
(***************************************************************************)
DeleteSelection ==
    /\ canvas.sel # <<>> /\ ops < MaxOps
    /\ Do(RemoveShapes(doc, Ids(canvas.sel)), Select(canvas, <<>>))

(* NudgeSelection(): one SetShapeRect() a box, so one snapshot a box.      *)
Nudge(d, s, dx) ==
    LET step(e, i) == IF i \in Boxes(e.shapes)
                      THEN SetShapeRect(e, i, e.shapes[i].pos + dx) ELSE e
        walk[k \in 0 .. Len(s)] == IF k = 0 THEN d ELSE step(walk[k - 1], s[k])
    IN  walk[Len(s)]

NudgeSelection ==
    /\ canvas.sel # <<>> /\ ops < MaxOps
    /\ \E dx \in {-1, 1} :
         /\ \A i \in Ids(canvas.sel) \cap Boxes(doc.shapes) : doc.shapes[i].pos + dx \in Positions
         /\ Do(Nudge(doc, canvas.sel, dx), canvas)

(* DuplicateSelection(): copies of the boxes, then of the connectors       *)
(* between them.  A connector's fields are read through a pointer that     *)
(* AddShape() may have left dangling, so a copy can join any two copies,   *)
(* or a copy to nothing.                                                   *)
Copies(d, boxes) ==
    LET copy(e, i) == AddShape(e, [e.shapes[i] EXCEPT !.pos = @ + 1, !.img = 0])
        walk[k \in 0 .. Len(boxes)] ==
            IF k = 0 THEN d ELSE copy(walk[k - 1], boxes[k])
    IN  walk[Len(boxes)]

Within(s, S) == Chosen(s, {c \in Connectors(S) : Ends(S[c]) \subseteq Ids(BoxesIn(s, S))})

Joins(d, lines, from, to, S) ==
    LET join(e, k) == AddShape(e, NewConnector(e.shapes, from[k], to[k],
                                               S[lines[k]].pos, S[lines[k]].look))
        walk[k \in 0 .. Len(lines)] == IF k = 0 THEN d ELSE join(walk[k - 1], k)
    IN  walk[Len(lines)]

DuplicateSelection ==
    /\ canvas.sel # <<>>
    /\ LET S     == doc.shapes
           boxes == BoxesIn(canvas.sel, S)
           lines == Within(canvas.sel, S)
           n     == Len(boxes) + Len(lines)
           twins == {doc.next - 1 + k : k \in DOMAIN boxes} \cup {Nobody}
       IN  /\ Room(n) /\ \A k \in DOMAIN boxes : S[boxes[k]].pos + 1 \in Positions
           /\ \E from, to \in [DOMAIN lines -> twins] :
                Do(Joins(Copies(doc, boxes), lines, from, to, S),
                   Select(canvas, [k \in 1 .. n |-> doc.next - 1 + k]))

(* QueueConnector(): scripted, joins the two boxes on top.                 *)
QueueConnector ==
    LET S == doc.shapes
        order == InOrder(Boxes(S), S)
        n == Len(order)
    IN  /\ n >= 2 /\ Room(1)
        /\ \E p \in Positions, look \in Looks :
             Do(AddShape(doc, NewConnector(S, order[n - 1], order[n], p, look)),
                Select(canvas, <<doc.next>>))

SelectAll ==
    /\ ops < MaxOps
    /\ Do(doc, Select(canvas, InOrder(Boxes(doc.shapes), doc.shapes)))

Escape ==
    /\ canvas.editor = Nobody /\ ops < MaxOps
    /\ Do(doc, Select(canvas, <<>>))

EnterKey ==
    /\ canvas.editor = Nobody /\ ops < MaxOps
    /\ Do(doc, OpenLabelEditor(canvas))

(* Enter in the editor, or its loss of the focus, commits to the shape of  *)
(* that id, if there is one; Escape gives up.                              *)
CommitLabelEdit ==
    /\ canvas.editor # Nobody /\ ops < MaxOps
    /\ \E look \in Looks :
         Do(SetLook(doc, canvas.editor, look, FALSE), [canvas EXCEPT !.editor = Nobody])

CancelLabelEdit ==
    /\ canvas.editor # Nobody /\ ops < MaxOps
    /\ Do(doc, [canvas EXCEPT !.editor = Nobody])

(* DropCreateAt() and DropColourAt().                                      *)
DropCreateAt ==
    /\ Room(1)
    /\ \E p \in Positions, look \in Looks :
         Do(AddShape(doc, NewBox(p, look)), Select(canvas, <<doc.next>>))

DropColourAt ==
    /\ ops < MaxOps
    /\ \E look \in Looks, hit \in Hits(doc.shapes) \ {Nobody} :
         Do(SetLook(doc, hit, look, FALSE), canvas)
=============================================================================
