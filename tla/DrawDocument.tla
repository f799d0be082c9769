--------------------------- MODULE DrawDocument ---------------------------
(* The document of ProseDraw (prosedraw/app/src/PDDocument.cpp) as         *)
(* operators on a record: shapes that are boxes, images or connectors, the *)
(* images they show, and undo and redo as stacks of whole drawings.        *)
(*                                                                         *)
(* Geometry is one grid coordinate `pos'; label, style and flags are one   *)
(* `look'.  The vector fShapes is a function from ids to shapes whose      *)
(* `rank' orders them as the vector does: the last one is drawn on top.    *)
EXTENDS Integers, Sequences, FiniteSets, FiniteSetsExt

CONSTANTS Positions,   \* grid coordinates of the page
          Looks,       \* what label, style and flags can be
          Pictures,    \* contents of image files
          UndoCap      \* drawings the undo stack holds (200)

ASSUME DrawAssumption ==
    /\ Positions \subseteq Int /\ Positions # {}
    /\ \A p, q \in Positions : p .. q \subseteq Positions
    /\ Looks # {}
    /\ UndoCap \in Nat \ {0}

Nobody == 0            \* the id no shape has
Kinds == {"box", "connector", "image"}

(* `clean' is history: both ends of this connector were boxes of the       *)
(* drawing when it was made.                                               *)
Shape == [kind : Kinds, pos : Positions, look : Looks, from : Nat, to : Nat,
          img : Nat, rank : Int, clean : BOOLEAN]

Drawings == UNION {[ids -> Shape] : ids \in SUBSET (Nat \ {Nobody})}

Boxes(S)      == {i \in DOMAIN S : S[i].kind # "connector"}
Connectors(S) == DOMAIN S \ Boxes(S)
Ends(s)       == {s.from, s.to}
Drawn(S)      == {c \in Connectors(S) : Ends(S[c]) \subseteq DOMAIN S}

AboveAll(S) == 1 + Max({0} \cup {S[i].rank : i \in DOMAIN S})
BelowAll(S) == Min({0} \cup {S[i].rank : i \in DOMAIN S}) - 1

With(S, i, s) == [j \in DOMAIN S \cup {i} |-> IF j = i THEN s ELSE S[j]]
Without(S, I) == [j \in DOMAIN S \ I |-> S[j]]

EmptyDocument ==
    [shapes |-> [i \in {} |-> 0], next |-> 1, undo |-> <<>>, redo |-> <<>>,
     images |-> <<>>, nextImage |-> 1, modified |-> FALSE]

Top(stack) == stack[Len(stack)]
Pop(stack) == SubSeq(stack, 1, Len(stack) - 1)
Now(d)     == [shapes |-> d.shapes, next |-> d.next]

(* Snapshot(): every edit begins with it, and forgets what was undone.     *)
Snapshot(d) ==
    LET stack == Append(d.undo, Now(d))
    IN  [d EXCEPT !.undo = IF Len(stack) > UndoCap THEN Tail(stack) ELSE stack,
                  !.redo = <<>>, !.modified = TRUE]

(* Defect: Restore() does not say that the document changed.               *)
UndoUnmarked(d) ==
    IF d.undo = <<>> THEN d
    ELSE [d EXCEPT !.shapes = Top(d.undo).shapes, !.next = Top(d.undo).next,
                   !.undo = Pop(d.undo), !.redo = Append(d.redo, Now(d))]

Undo(d) ==
    IF d.undo = <<>> THEN d
    ELSE [d EXCEPT !.shapes = Top(d.undo).shapes, !.next = Top(d.undo).next,
                   !.undo = Pop(d.undo), !.redo = Append(d.redo, Now(d)),
                   !.modified = TRUE]

Redo(d) ==
    IF d.redo = <<>> THEN d
    ELSE [d EXCEPT !.shapes = Top(d.redo).shapes, !.next = Top(d.redo).next,
                   !.redo = Pop(d.redo), !.undo = Append(d.undo, Now(d)),
                   !.modified = TRUE]

(* AddShape(); what the callers set in the shape they get back is in s.    *)
AddShape(d, s) ==
    [Snapshot(d) EXCEPT
        !.shapes = With(d.shapes, d.next, [s EXCEPT !.rank = AboveAll(d.shapes)]),
        !.next = d.next + 1]

NewBox(p, l)       == [kind |-> "box", pos |-> p, look |-> l, from |-> Nobody,
                       to |-> Nobody, img |-> 0, rank |-> 0, clean |-> TRUE]
NewImage(p, l, m)  == [NewBox(p, l) EXCEPT !.kind = "image", !.img = m]
NewConnector(S, a, b, p, l) ==
    [NewBox(p, l) EXCEPT !.kind = "connector", !.from = a, !.to = b,
                         !.clean = {a, b} \subseteq Boxes(S)]

(* Defect: a connector stays when the shape it ends at goes.               *)
RemoveShapesOnly(d, ids) == [Snapshot(d) EXCEPT !.shapes = Without(d.shapes, ids)]

(* RemoveShapes(): one pass along the order, so a connector that ends at a *)
(* connector goes with it only when it lies above it.                      *)
RemoveShapes(d, ids) ==
    LET S     == d.shapes
        gone  == ids \cup {c \in Connectors(S) : Ends(S[c]) \cap ids # {}}
        above == {c \in Connectors(S) :
                    \E g \in gone \cap Ends(S[c]) \cap DOMAIN S : S[g].rank < S[c].rank}
    IN  [Snapshot(d) EXCEPT !.shapes = Without(S, gone \cup above)]

(* Defect: a box is moved without a snapshot.                              *)
SetShapeRectForGood(d, i, p) ==
    IF i \notin DOMAIN d.shapes \/ d.shapes[i].pos = p THEN d
    ELSE [d EXCEPT !.shapes = [d.shapes EXCEPT ![i].pos = p], !.modified = TRUE]

SetShapeRect(d, i, p) ==
    IF i \notin DOMAIN d.shapes \/ d.shapes[i].pos = p THEN d
    ELSE [Snapshot(d) EXCEPT !.shapes = [d.shapes EXCEPT ![i].pos = p]]

(* SetShapeLabel(), SetShapeStyle() and, for connectors only,              *)
(* SetShapeFlags().                                                        *)
SetLook(d, i, l, flags) ==
    IF \/ i \notin DOMAIN d.shapes
       \/ flags /\ i \notin Connectors(d.shapes)
       \/ d.shapes[i].look = l
    THEN d
    ELSE [Snapshot(d) EXCEPT !.shapes = [d.shapes EXCEPT ![i].look = l]]

MoveZ(d, i, toFront) ==
    LET S == d.shapes
        there == \A j \in DOMAIN S : IF toFront THEN S[j].rank <= S[i].rank
                                                ELSE S[i].rank <= S[j].rank
    IN  IF i \notin DOMAIN S \/ there THEN d
        ELSE [Snapshot(d) EXCEPT
                !.shapes = [S EXCEPT ![i].rank = IF toFront THEN AboveAll(S)
                                                            ELSE BelowAll(S)]]

(* Align(): the eight modes put every chosen box somewhere inside the      *)
(* frame of them all; `put' says where.  Nothing happens to fewer than two,*)
(* nor when a chosen id is a connector or gone.                            *)
Alignable(d, ids) == Cardinality(ids) > 1 /\ ids \subseteq Boxes(d.shapes)
Frame(d, ids) == LET P == {d.shapes[i].pos : i \in ids} IN Min(P) .. Max(P)
Align(d, ids, put) ==
    [Snapshot(d) EXCEPT
        !.shapes = [i \in DOMAIN d.shapes |->
                      IF i \in ids THEN [d.shapes[i] EXCEPT !.pos = put[i]]
                                   ELSE d.shapes[i]]]

(* ShapeAtPoint(): the topmost shape there that is no connector.           *)
ShapeAtPoint(S, p) ==
    LET under == {i \in Boxes(S) : S[i].pos = p}
    IN  IF under = {} THEN Nobody
        ELSE CHOOSE i \in under : \A j \in under : S[j].rank <= S[i].rank

(* ConnectorAtPoint() may find any connector that is drawn; what a click   *)
(* hits is that, or else a box, or else nothing.                           *)
Hits(S) == Drawn(S) \cup {ShapeAtPoint(S, p) : p \in Positions}

(* AddImageRGBA() and ImageById(): the first image of that id.             *)
AddImage(d, pic) ==
    [d EXCEPT !.images = Append(d.images, [id |-> d.nextImage, pic |-> pic]),
              !.nextImage = d.nextImage + 1, !.modified = TRUE]
ImageById(images, m) ==
    IF \A k \in DOMAIN images : images[k].id # m THEN {}
    ELSE {images[CHOOSE k \in DOMAIN images :
                   images[k].id = m /\ \A j \in 1 .. k - 1 : images[j].id # m].pic}

(* SaveToMessage(): what a file holds of a drawing.                        *)
Saved(d) == [shapes |-> d.shapes, images |-> d.images]

(* LoadFromMessage(): the shapes are replaced, the images are added.       *)
Load(d, file) ==
    [d EXCEPT !.shapes = file.shapes, !.undo = <<>>, !.redo = <<>>,
              !.next = 1 + Max({0} \cup DOMAIN file.shapes),
              !.images = d.images \o file.images,
              !.nextImage = Max({d.nextImage}
                                \cup {file.images[k].id + 1 : k \in DOMAIN file.images}),
              !.modified = FALSE]

(* What a reader sees of shapes over images.                               *)
Shown(shapes, images) ==
    [i \in DOMAIN shapes |-> IF shapes[i].kind = "image"
                             THEN <<shapes[i], ImageById(images, shapes[i].img)>>
                             ELSE <<shapes[i], {}>>]
=============================================================================
