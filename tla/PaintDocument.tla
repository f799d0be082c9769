--------------------------- MODULE PaintDocument ---------------------------
(* The document of ProsePaint (prosepaint/app/src/PPDocument.cpp) as       *)
(* operators on a record: layers of pixels, the stroke being painted, undo *)
(* and redo as steps that hold the pixels a stroke changed, and the cached *)
(* composite.                                                              *)
(*                                                                         *)
(* The canvas is a row of `width' pixels, a pixel is bare (transparent) or *)
(* of one colour, a rectangle is the set of the pixels in it.              *)
EXTENDS Integers, Sequences, FiniteSets, FiniteSetsExt, SequencesExt

CONSTANTS Inks,      \* colours, White among them
          White,     \* the background of a new painting
          Bare,      \* no paint
          UndoCap    \* steps the undo stack holds (40)

ASSUME PaintAssumption ==
    /\ White \in Inks /\ Bare \notin Inks /\ UndoCap \in Nat \ {0}

Paint == Inks \cup {Bare}
Cells(width) == 1 .. width
Blank(width) == [c \in Cells(width) |-> Bare]

NoStroke ==
    [on     |-> FALSE,    \* fInStroke
     layer  |-> 0,        \* fCurrentStep.layerId
     rect   |-> {},       \* fCurrentStep.rect
     dirty  |-> {},       \* fDirty
     before |-> <<>>,     \* fBeforeSnap
     buffer |-> {},       \* fStrokeBuf: the pixels touched, and with what
     erase  |-> FALSE,    \* fStrokeErase
     foot   |-> {}]       \* fSmudgeFoot

(* The layers, bottom first.  Names and opacity are left out; `shown' is   *)
(* what visibility and opacity come to.                                    *)
IndexesOf(d, id) == {k \in DOMAIN d.layers : d.layers[k].id = id}
HasLayer(d, id)  == IndexesOf(d, id) # {}
LayerIx(d, id)   == CHOOSE k \in IndexesOf(d, id) : TRUE
Pixels(d, id)    == d.layers[LayerIx(d, id)].bits

(* MarkDirty().                                                            *)
MarkDirty(d, rect) ==
    LET c == rect \cap Cells(d.width)
    IN  IF c = {} THEN d
        ELSE [d EXCEPT !.stale = TRUE, !.stroke.dirty = @ \cup c]
AllDirty(d) == MarkDirty(d, Cells(d.width))
Edited(d)   == [AllDirty(d) EXCEPT !.modified = TRUE]

AddLayer(d) ==
    Edited([d EXCEPT !.layers = Append(@, [id |-> d.next, bits |-> Blank(d.width),
                                           shown |-> TRUE]),
                     !.active = d.next, !.next = d.next + 1])

(* SetCanvas(): a white background; the stroke and the cache stay.         *)
SetCanvas(d, width) ==
    LET fresh == AddLayer([d EXCEPT !.width = width, !.layers = <<>>, !.undo = <<>>,
                                    !.redo = <<>>, !.next = 1])
    IN  [fresh EXCEPT !.layers[1].bits = [c \in Cells(width) |-> White],
                      !.modified = FALSE]

NewDocument(width) ==
    SetCanvas([width |-> width, layers |-> <<>>, next |-> 1, active |-> 0,
               undo |-> <<>>, redo |-> <<>>, modified |-> FALSE,
               stroke |-> NoStroke, stale |-> TRUE, composite |-> <<>>], width)

DeleteLayer(d, id) ==
    IF Len(d.layers) <= 1 \/ ~HasLayer(d, id) THEN d
    ELSE LET rest == RemoveAt(d.layers, LayerIx(d, id))
         IN  Edited([d EXCEPT !.layers = rest,
                              !.active = IF d.active = id THEN Last(rest).id ELSE @])

MoveLayer(d, id, up) ==
    LET from == LayerIx(d, id)
        to   == IF up THEN from + 1 ELSE from - 1
    IN  IF ~HasLayer(d, id) \/ to \notin DOMAIN d.layers THEN d
        ELSE Edited([d EXCEPT !.layers[from] = d.layers[to], !.layers[to] = d.layers[from]])

SetLayerShown(d, id, shown) ==
    IF ~HasLayer(d, id) \/ d.layers[LayerIx(d, id)].shown = shown THEN d
    ELSE Edited([d EXCEPT !.layers[LayerIx(d, id)].shown = shown])

RenameLayer(d, id) == [d EXCEPT !.modified = @ \/ HasLayer(d, id)]
SetActiveLayer(d, id) == [d EXCEPT !.active = IF HasLayer(d, id) THEN id ELSE @]

(* StrokeBegin(): what an earlier stroke had not landed is dropped.        *)
StrokeBegin(d) ==
    [d EXCEPT !.stroke = [NoStroke EXCEPT
        !.on = TRUE, !.layer = d.active,
        !.before = IF HasLayer(d, d.active) THEN Pixels(d, d.active) ELSE <<>>]]

Grown(d) == [d EXCEPT !.stroke.rect = IF d.stroke.on THEN @ \cup d.stroke.dirty ELSE @]

(* DabColour() and DabErase(), of a brush that covers these pixels: into   *)
(* the buffer during a stroke, else straight onto the active layer.        *)
Dab(d, cells, ink) ==
    LET on == cells \cap Cells(d.width)
        d1 == IF d.stroke.on
              THEN [d EXCEPT !.stroke.buffer = {b \in @ : b.cell \notin on}
                                                 \cup {[cell |-> c, ink |-> ink] : c \in on},
                             !.stroke.erase = @ \/ ink = Bare]
              ELSE [d EXCEPT !.layers[LayerIx(d, d.active)].bits =
                               [c \in DOMAIN @ |-> IF c \in on THEN ink ELSE @[c]]]
    IN  IF ~HasLayer(d, d.active) THEN d ELSE Grown(MarkDirty(d1, on))

(* DabSmudge(): the first touch picks the paint up, no paint beside the    *)
(* canvas; the next ones mix it with what lies there, on the active layer  *)
(* at once.  A mixture is one of the two.                                  *)
Mixture(d, cell, keep) ==
    IF keep THEN CHOOSE f \in d.stroke.foot : TRUE ELSE Pixels(d, d.active)[cell]
Smudge(d, cell, keep) ==
    LET on    == cell \in Cells(d.width)
        mixed == Mixture(d, cell, keep)
    IN  IF ~HasLayer(d, d.active) THEN d
        ELSE IF d.stroke.foot = {}
        THEN [d EXCEPT !.stroke.foot = {IF on THEN Pixels(d, d.active)[cell] ELSE Bare}]
        ELSE IF ~on THEN d
        ELSE Grown(MarkDirty([d EXCEPT !.layers[LayerIx(d, d.active)].bits[cell] = mixed,
                                       !.stroke.foot = {mixed}], {cell}))

(* FillAt(): the run of equal pixels around the seed takes the ink.        *)
FillAt(d, seed, ink) ==
    LET bits == Pixels(d, d.active)
        near == {c \in DOMAIN bits :
                   \A x \in DOMAIN bits :
                      (seed <= x /\ x <= c) \/ (c <= x /\ x <= seed)
                         => bits[x] = bits[seed]}
        full == Edited([d EXCEPT !.layers[LayerIx(d, d.active)].bits =
                                    [c \in DOMAIN bits |-> IF c \in near THEN ink ELSE bits[c]]])
    IN  IF ~HasLayer(d, d.active) \/ seed \notin Cells(d.width) THEN d
        ELSE [full EXCEPT !.stroke.rect = IF d.stroke.on THEN @ \cup Cells(d.width) ELSE @]

(* What the layer becomes when the buffer lands on it.                     *)
Landed(bits, s) ==
    [c \in DOMAIN bits |->
        LET touched == {b \in s.buffer : b.cell = c}
        IN  IF touched = {} THEN bits[c]
            ELSE IF s.erase THEN Bare
            ELSE (CHOOSE b \in touched : TRUE).ink]

(* Defect: the step is taken from a layer the buffer has yet to land on.   *)
StrokeEndEarly(d) ==
    LET s == d.stroke
        k == LayerIx(d, s.layer)
        done == [d EXCEPT !.stroke = [s EXCEPT !.on = FALSE, !.before = <<>>, !.buffer = {}]]
        step == [layer |-> s.layer, rect |-> s.rect,
                 before |-> [c \in s.rect \cap DOMAIN s.before |-> s.before[c]],
                 after  |-> [c \in s.rect \cap Cells(d.width) |-> d.layers[k].bits[c]]]
    IN  IF ~s.on THEN d
        ELSE IF s.rect = {} \/ ~HasLayer(d, s.layer) \/ s.before = <<>> THEN done
        ELSE AllDirty([done EXCEPT !.layers[k].bits = Landed(d.layers[k].bits, s),
                                   !.undo = Append(d.undo, step),
                                   !.redo = <<>>, !.modified = TRUE])

(* StrokeEnd(): one undo step, unless nothing was painted or the layer of  *)
(* the stroke is gone.  `before' and the layer may be of another width than*)
(* the rectangle when the canvas changed in mid-stroke: the copy is cut to *)
(* what is there (the build reads past the end).                           *)
StrokeEnd(d) ==
    LET s == d.stroke
        k == LayerIx(d, s.layer)
        done == [d EXCEPT !.stroke = [s EXCEPT !.on = FALSE, !.before = <<>>, !.buffer = {}]]
        land == Landed(d.layers[k].bits, s)
        step == [layer |-> s.layer, rect |-> s.rect,
                 before |-> [c \in s.rect \cap DOMAIN s.before |-> s.before[c]],
                 after  |-> [c \in s.rect \cap DOMAIN land |-> land[c]]]
        stack == Append(d.undo, step)
        ended == [done EXCEPT !.layers[k].bits = land,
                              !.undo = IF Len(stack) > UndoCap THEN Tail(stack) ELSE stack,
                              !.redo = <<>>, !.modified = TRUE]
    IN  IF ~s.on THEN d
        ELSE IF s.rect = {} \/ ~HasLayer(d, s.layer) \/ s.before = <<>> THEN done
        ELSE IF s.buffer = {} THEN ended ELSE AllDirty(ended)

(* Defect: a resize is no change to save.                                  *)
ResizeUnmarked(d, width) ==
    LET cut(bits) == [c \in Cells(width) |-> IF c \in DOMAIN bits THEN bits[c] ELSE Bare]
    IN  IF width = d.width THEN d
        ELSE AllDirty([d EXCEPT !.width = width, !.undo = <<>>, !.redo = <<>>,
                                !.stroke.buffer = {},
                                !.layers = [k \in DOMAIN d.layers |->
                                    [d.layers[k] EXCEPT !.bits = cut(@)]]])

(* Resize(): anchored at the left, cut or padded.                          *)
Resize(d, width) ==
    LET cut(bits) == [c \in Cells(width) |-> IF c \in DOMAIN bits THEN bits[c] ELSE Bare]
    IN  IF width = d.width THEN d
        ELSE Edited([d EXCEPT !.width = width, !.undo = <<>>, !.redo = <<>>,
                              !.stroke.buffer = {},
                              !.layers = [k \in DOMAIN d.layers |->
                                  [d.layers[k] EXCEPT !.bits = cut(@)]]])

(* Defect: what a step changes is not composed again.                      *)
ApplyStepUnseen(d, step, bytes) ==
    IF ~HasLayer(d, step.layer) THEN d
    ELSE [d EXCEPT !.modified = TRUE,
                   !.layers[LayerIx(d, step.layer)].bits =
                       [c \in DOMAIN @ |-> IF c \in DOMAIN bytes THEN bytes[c] ELSE @[c]]]

(* ApplyStep(): pixels of a layer that is still there.                     *)
ApplyStep(d, step, bytes) ==
    IF ~HasLayer(d, step.layer) THEN d
    ELSE [MarkDirty(d, step.rect) EXCEPT
            !.modified = TRUE,
            !.layers[LayerIx(d, step.layer)].bits =
                [c \in DOMAIN @ |-> IF c \in DOMAIN bytes THEN bytes[c] ELSE @[c]]]

Undo(d) ==
    IF d.undo = <<>> THEN d
    ELSE [ApplyStep(d, Last(d.undo), Last(d.undo).before) EXCEPT
            !.undo = Front(d.undo), !.redo = Append(d.redo, Last(d.undo))]

Redo(d) ==
    IF d.redo = <<>> THEN d
    ELSE [ApplyStep(d, Last(d.redo), Last(d.redo).after) EXCEPT
            !.redo = Front(d.redo), !.undo = Append(d.undo, Last(d.redo))]

(* What the layers look like one over the other.                           *)
Flat(d) ==
    [c \in Cells(d.width) |->
        LET seen == {k \in DOMAIN d.layers : d.layers[k].shown /\ d.layers[k].bits[c] # Bare}
        IN  IF seen = {} THEN Bare
            ELSE d.layers[CHOOSE k \in seen : \A j \in seen : j <= k].bits[c]]

(* Composite(): recomputed only when stale.                                *)
Composite(d) == IF d.stale THEN [d EXCEPT !.composite = Flat(d), !.stale = FALSE] ELSE d

(* SaveToMessage() and LoadFromMessage(): the topmost layer is active.  A  *)
(* file none of whose layers can be read leaves a painting without layers. *)
Saved(d) == [width |-> d.width, layers |-> d.layers]
Load(d, file) ==
    LET ids    == {file.layers[k].id : k \in DOMAIN file.layers}
        loaded == [d EXCEPT !.width = file.width, !.layers = file.layers,
                            !.undo = <<>>, !.redo = <<>>,
                            !.next = 1 + Max({0} \cup ids)]
    IN  IF file.layers = <<>> THEN loaded
        ELSE [AllDirty(loaded) EXCEPT !.active = Last(file.layers).id, !.modified = FALSE]
=============================================================================
