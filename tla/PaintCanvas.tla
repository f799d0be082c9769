---------------------------- MODULE PaintCanvas ----------------------------
(* The canvas of ProsePaint (prosepaint/app/src/PPCanvas.cpp): mouse       *)
(* strokes, one message at a time, between which the window may be sent    *)
(* strokes, layer operations and the rest by menus and scripts.            *)
EXTENDS PaintDocument

CONSTANTS MaxWidth,   \* bound: widest canvas
          MaxOps      \* bound: operations

ASSUME WidthAssumption == MaxWidth \in Nat \ {0}

VARIABLES doc,        \* the document
          canvas,     \* fTool, fPainting, fShaping
          tangled,    \* history: paint went where its stroke's step does not look
          ops         \* operations so far; picking tools and releasing are free

Tools == {"brush", "eraser", "smudge", "fill", "shape"}
Free  == ops < MaxOps
Spots == 1 .. MaxWidth    \* pixels a pointer can be at, on the canvas or not

Do(d)   == doc' = d /\ ops' = ops + 1
Calm(d) == Do(d) /\ UNCHANGED tangled
Tangle(d, when) == Do(d) /\ tangled' = (tangled \/ when)

(* PaintDab(): what a touch of the tool can do.  A brush dabs any ink.     *)
PaintDabs(d, tool, cell) ==
    CASE tool \in {"brush", "shape"} -> {Dab(d, {cell}, ink) : ink \in Inks}
      [] tool = "eraser" -> {Dab(d, {cell}, Bare)}
      [] tool = "smudge" -> {Smudge(d, cell, keep) : keep \in BOOLEAN}
      [] OTHER -> {d}

(* Paint that no step will hold: laid outside a stroke, or smudged on      *)
(* another layer than the stroke's, or in a stroke that began on none.     *)
Stray(d, e) ==
    /\ \E k \in DOMAIN d.layers : d.layers[k].bits # e.layers[k].bits
    /\ ~d.stroke.on \/ d.active # d.stroke.layer \/ d.stroke.before = <<>>

(* A smudge that was under way when another stroke begins: StrokeBegin()   *)
(* forgets its pixels, which lie on the layer already.                     *)
Drops ==
    /\ doc.stroke.on /\ HasLayer(doc, doc.stroke.layer)
    /\ \/ Pixels(doc, doc.stroke.layer) # doc.stroke.before
       \/ doc.stroke.foot # {} /\ doc.stroke.rect # {}

(* MouseDown.                                                              *)
PressBrush ==
    /\ canvas.tool \in {"brush", "eraser", "smudge"} /\ Free
    /\ canvas' = [canvas EXCEPT !.painting = TRUE]
    /\ \E c \in Spots : \E d \in PaintDabs(StrokeBegin(doc), canvas.tool, c) : Tangle(d, Drops)

Filled(d, seed, ink) == StrokeEnd(FillAt(StrokeBegin(d), seed, ink))

PressFill ==
    /\ canvas.tool = "fill" /\ Free
    /\ \E c \in Spots, ink \in Inks : Tangle(Filled(doc, c, ink), Drops)
    /\ UNCHANGED canvas

PressShape ==
    /\ canvas.tool = "shape" /\ Free /\ ~canvas.shaping
    /\ Calm(doc) /\ canvas' = [canvas EXCEPT !.shaping = TRUE]

(* MouseMoved and Pulse: another touch of whatever the tool is by now.     *)
Moved ==
    /\ canvas.painting /\ ~canvas.shaping /\ Free
    /\ \E c \in Spots : \E d \in PaintDabs(doc, canvas.tool, c) :
         Tangle(d, Stray(doc, d))
    /\ UNCHANGED canvas

(* CommitShape(): the pixels of the shape, if the tool is still one, in a  *)
(* stroke of their own.                                                    *)
Stamped(d, tool, cells, ink) ==
    StrokeEnd(IF tool = "shape" THEN Dab(StrokeBegin(d), cells, ink) ELSE StrokeBegin(d))

Release ==
    \/ /\ canvas.shaping /\ Free
       /\ \E a, b \in Spots, ink \in Inks :
            Tangle(Stamped(doc, canvas.tool, a .. b, ink), Drops)
       /\ canvas' = [canvas EXCEPT !.shaping = FALSE]
    \/ /\ ~canvas.shaping /\ canvas.painting
       /\ doc' = StrokeEnd(doc) /\ UNCHANGED <<tangled, ops>>
       /\ canvas' = [canvas EXCEPT !.painting = FALSE]

(* StrokeSegment(), DabAt() and ShapeStroke(): a whole stroke, scripted.   *)
(* Begun in the middle of a mouse stroke it ends that one too.             *)
ScriptStroke ==
    /\ Free /\ UNCHANGED canvas
    /\ \/ /\ canvas.tool = "fill"
          /\ \E c \in Spots, ink \in Inks : Tangle(Filled(doc, c, ink), Drops)
       \/ /\ canvas.tool # "fill"
          /\ \E c \in Spots : \E d \in PaintDabs(StrokeBegin(doc), canvas.tool, c) :
               Tangle(StrokeEnd(d), Drops)

(* Draw(): the view shows the composite.                                   *)
Draw == doc.stale /\ doc' = Composite(doc) /\ UNCHANGED <<canvas, tangled, ops>>
=============================================================================
