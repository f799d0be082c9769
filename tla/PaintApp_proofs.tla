-------------------------- MODULE PaintApp_proofs ---------------------------
(* What is proved of PaintApp for every size of canvas, every set of inks,  *)
(* every number of operations and whatever the files hold: what its         *)
(* variables hold, that the window shows the layers, that a painting which  *)
(* counts as saved is in a file, and that the history fits the painting.    *)
EXTENDS PaintApp, FiniteSetTheorems, SequenceTheorems, WellFoundedInduction, TLAPS

Rects  == SUBSET Cells(MaxWidth)
Pieces == UNION {[rect -> Paint] : rect \in Rects}
Layers == [id : Nat \ {0}, bits : Pieces, shown : BOOLEAN]
Undoables == [layer : Nat, rect : Rects, before : Pieces, after : Pieces]
Strokes ==
    [on : BOOLEAN, layer : Nat, rect : Rects, dirty : Rects, before : Pieces,
     buffer : SUBSET [cell : Cells(MaxWidth), ink : Paint], erase : BOOLEAN, foot : SUBSET Paint]
Documents ==
    [width : Cells(MaxWidth), layers : Seq(Layers), next : Nat \ {0}, active : Nat,
     undo : Seq(Undoables), redo : Seq(Undoables), modified : BOOLEAN,
     stroke : Strokes, stale : BOOLEAN, composite : Pieces]

(* A stack of layers, and the steps there are to undo or to redo.          *)
Stacked(layers, width, next) ==
    /\ \A k \in DOMAIN layers :
         layers[k].id < next /\ layers[k].bits \in [Cells(width) -> Paint]
    /\ \A j, k \in DOMAIN layers : layers[j].id = layers[k].id => j = k
Undoes(steps, next) ==
    \A k \in DOMAIN steps :
      /\ steps[k].layer \in 1 .. next - 1
      /\ DOMAIN steps[k].before \subseteq steps[k].rect
      /\ DOMAIN steps[k].after \subseteq steps[k].rect
Sound(d) ==
    /\ d \in Documents
    /\ Stacked(d.layers, d.width, d.next)
    /\ d.layers # <<>> => HasLayer(d, d.active)
    /\ Undoes(d.undo, d.next) /\ Undoes(d.redo, d.next)
    /\ Len(d.undo) + Len(d.redo) <= UndoCap

(* What the layers are is the same, and so is what is shown of them.       *)
SameLayers(d, e) == e.width = d.width /\ e.layers = d.layers

(* From one document to another: paint is composed again, and a change to  *)
(* the layers marks the painting.                                          *)
Shows(d, e) == e.stale \/ (SameLayers(d, e) /\ e.composite = d.composite /\ ~d.stale)
Marks(d, e) == e.modified \/ (SameLayers(d, e) /\ ~d.modified)

(* A smudge lies on the layer already; the stroke will mark it.            *)
Mixed(d) ==
    /\ d.stroke.on /\ d.stroke.foot # {} /\ d.stroke.rect # {} /\ d.stroke.before # <<>>
    /\ HasLayer(d, d.stroke.layer)
Holds(d, e) == Mixed(d) => Mixed(e) \/ e.modified

(* A change between strokes, or around one.                                *)
Fine(d, e) ==
    Sound(e) /\ Shows(d, e) /\ Marks(d, e) /\ Holds(d, e) /\ e.stroke.on = d.stroke.on
-----------------------------------------------------------------------------
LEMMA EmptyPiece == <<>> \in Pieces
<1>1. <<>> \in [{} -> Paint] /\ {} \in Rects
  BY DEF Rects
<1> QED
  BY <1>1 DEF Pieces

LEMMA WidthIsRect ==
  ASSUME NEW w \in Cells(MaxWidth)
  PROVE  Cells(w) \in Rects /\ Cells(w) # {} /\ w \in Nat \ {0}
         /\ [Cells(w) -> Paint] \subseteq Pieces
<1>1. w \in Nat \ {0} /\ w <= MaxWidth /\ MaxWidth \in Nat
  BY WidthAssumption DEF Cells
<1>2. Cells(w) \in Rects
  BY <1>1 DEF Cells, Rects
<1>3. 1 \in Cells(w)
  BY <1>1 DEF Cells
<1>4. [Cells(w) -> Paint] \subseteq Pieces
  BY <1>2 DEF Pieces
<1> QED
  BY <1>1, <1>2, <1>3, <1>4

\* A layer that is there is where LayerIx() finds it.
LEMMA LayerIsThere ==
  ASSUME NEW d, NEW id, HasLayer(d, id)
  PROVE  LayerIx(d, id) \in DOMAIN d.layers /\ d.layers[LayerIx(d, id)].id = id
<1>1. LayerIx(d, id) \in IndexesOf(d, id)
  BY DEF HasLayer, LayerIx
<1> QED
  BY <1>1 DEF IndexesOf

\* Whether a layer is there depends on the layers alone.
LEMMA SameLayersHave ==
  ASSUME NEW d, NEW e, e.layers = d.layers
  PROVE  \A id : HasLayer(e, id) <=> HasLayer(d, id)
  BY DEF HasLayer, IndexesOf

\* What leaves the layers and the history alone keeps a document sound.
LEMMA SoundFrame ==
  ASSUME NEW d, Sound(d), NEW e \in Documents, SameLayers(d, e),
         e.next = d.next, e.undo = d.undo, e.redo = d.redo,
         e.active = d.active \/ HasLayer(d, e.active)
  PROVE  Sound(e)
  BY SameLayersHave DEF Sound, SameLayers

LEMMA MarkDirtyIs ==
  ASSUME NEW d \in Documents, NEW rect
  PROVE  LET e == MarkDirty(d, rect)
         IN  /\ e \in Documents /\ SameLayers(d, e)
             /\ e.next = d.next /\ e.active = d.active /\ e.undo = d.undo /\ e.redo = d.redo
             /\ e.modified = d.modified /\ e.composite = d.composite
             /\ e.stroke = [d.stroke EXCEPT !.dirty = @ \cup (rect \cap Cells(d.width))]
             /\ e.stale = (d.stale \/ rect \cap Cells(d.width) # {})
<1> DEFINE c == rect \cap Cells(d.width)
<1>1. c \in Rects /\ d.stroke \in Strokes
  BY WidthIsRect DEF Documents, Rects
<1>2. CASE c = {}
  <2>1. d.stroke = [d.stroke EXCEPT !.dirty = @ \cup c]
    BY <1>1, <1>2 DEF Strokes
  <2> QED
    BY <1>2, <2>1 DEF MarkDirty, SameLayers, Documents
<1>3. CASE c # {}
  <2>1. MarkDirty(d, rect) = [d EXCEPT !.stale = TRUE, !.stroke.dirty = @ \cup c]
    BY <1>3 DEF MarkDirty
  <2>2. [d.stroke EXCEPT !.dirty = @ \cup c] \in Strokes
    BY <1>1 DEF Strokes, Rects
  <2> HIDE DEF c
  <2> DEFINE e == [d EXCEPT !.stale = TRUE, !.stroke.dirty = @ \cup c]
  <2>3. /\ e \in Documents /\ SameLayers(d, e)
        /\ e.next = d.next /\ e.active = d.active /\ e.undo = d.undo /\ e.redo = d.redo
        /\ e.modified = d.modified /\ e.composite = d.composite
        /\ e.stroke = [d.stroke EXCEPT !.dirty = @ \cup c] /\ e.stale = TRUE
    BY <2>2 DEF Documents, SameLayers
  <2> QED
    BY <1>3, <2>1, <2>3 DEF c, Documents
<1> QED
  BY <1>2, <1>3

LEMMA EditedIs ==
  ASSUME NEW d \in Documents
  PROVE  LET e == Edited(d)
         IN  /\ e \in Documents /\ SameLayers(d, e)
             /\ e.next = d.next /\ e.active = d.active /\ e.undo = d.undo /\ e.redo = d.redo
             /\ e.modified = TRUE /\ e.stale = TRUE /\ e.composite = d.composite
             /\ e.stroke = [d.stroke EXCEPT !.dirty = @ \cup Cells(d.width)]
<1> DEFINE m == MarkDirty(d, Cells(d.width))
<1>1. Cells(d.width) # {} /\ Cells(d.width) \cap Cells(d.width) = Cells(d.width)
  BY WidthIsRect DEF Documents
<1>2. /\ m \in Documents /\ SameLayers(d, m)
      /\ m.next = d.next /\ m.active = d.active /\ m.undo = d.undo /\ m.redo = d.redo
      /\ m.stale = TRUE /\ m.composite = d.composite
      /\ m.stroke = [d.stroke EXCEPT !.dirty = @ \cup Cells(d.width)]
  <2> DEFINE c == Cells(d.width) \cap Cells(d.width)
  <2>1. /\ m \in Documents /\ SameLayers(d, m)
        /\ m.next = d.next /\ m.active = d.active /\ m.undo = d.undo /\ m.redo = d.redo
        /\ m.stale = (d.stale \/ c # {}) /\ m.composite = d.composite
        /\ m.stroke = [d.stroke EXCEPT !.dirty = @ \cup c]
    BY MarkDirtyIs, Zenon
  <2> HIDE DEF m
  <2>2. c = Cells(d.width) /\ c # {}
    BY <1>1
  <2> HIDE DEF c
  <2> QED
    BY <2>1, <2>2
<1>3. Edited(d) = [m EXCEPT !.modified = TRUE]
  BY DEF Edited, AllDirty
<1> HIDE DEF m
<1> QED
  BY <1>2, <1>3 DEF Documents, SameLayers

\* A marked stroke is the same stroke.
LEMMA MarkedStroke ==
  ASSUME NEW d \in Documents, NEW e \in Documents, NEW c,
         e.stroke = [d.stroke EXCEPT !.dirty = c], \A id : HasLayer(d, id) => HasLayer(e, id)
  PROVE  Holds(d, e)
  BY DEF Holds, Mixed, Documents, Strokes

\* Layers one of which is painted anew.
Repainted(layers, k, bits) == [layers EXCEPT ![k].bits = bits]

LEMMA RepaintedIs ==
  ASSUME NEW width \in Cells(MaxWidth), NEW next, NEW layers \in Seq(Layers), Stacked(layers, width, next),
         NEW k \in DOMAIN layers, NEW bits \in [Cells(width) -> Paint]
  PROVE  LET then == Repainted(layers, k, bits)
         IN  /\ then \in Seq(Layers) /\ DOMAIN then = DOMAIN layers
             /\ \A j \in DOMAIN layers : then[j].id = layers[j].id /\ then[j].shown = layers[j].shown
             /\ \A j \in DOMAIN layers : then[j].bits = IF j = k THEN bits ELSE layers[j].bits
             /\ Stacked(then, width, next)
             /\ bits = layers[k].bits => then = layers
             /\ then = <<>> <=> layers = <<>>
<1> DEFINE then == Repainted(layers, k, bits)
           new == [layers[k] EXCEPT !.bits = bits]
<1>1. layers[k] \in Layers /\ bits \in Pieces
  BY WidthIsRect
<1>2. new \in Layers /\ new.id = layers[k].id /\ new.shown = layers[k].shown /\ new.bits = bits
  BY <1>1 DEF Layers
<1>3. bits = layers[k].bits => new = layers[k]
  BY <1>1 DEF Layers
<1>4. then = [layers EXCEPT ![k] = new]
  BY DEF Repainted
<1> HIDE DEF new, then
<1>5. /\ then \in Seq(Layers) /\ DOMAIN then = DOMAIN layers
      /\ \A j \in DOMAIN layers : then[j] = IF j = k THEN new ELSE layers[j]
  BY <1>2, <1>4, ExceptSeq
<1>6. /\ \A j \in DOMAIN layers : then[j].id = layers[j].id /\ then[j].shown = layers[j].shown
      /\ \A j \in DOMAIN layers : then[j].bits = IF j = k THEN bits ELSE layers[j].bits
  BY <1>2, <1>5
<1>7. Stacked(then, width, next)
  BY <1>5, <1>6 DEF Stacked
<1>8. bits = layers[k].bits => then = layers
  BY <1>3, <1>4
<1>9. then = <<>> <=> layers = <<>>
  BY <1>5
<1> QED
  BY <1>5, <1>6, <1>7, <1>8, <1>9 DEF then

\* Where the numbers of the layers are the same, the same layers are there.
LEMMA SameIdsHave ==
  ASSUME NEW d, NEW e, DOMAIN e.layers = DOMAIN d.layers,
         \A k \in DOMAIN d.layers : e.layers[k].id = d.layers[k].id
  PROVE  \A id : HasLayer(e, id) <=> HasLayer(d, id)
  BY DEF HasLayer, IndexesOf

LEMMA SoundRepainted ==
  ASSUME NEW d, Sound(d), NEW e \in Documents, e.width = d.width,
         NEW k \in DOMAIN d.layers, NEW bits \in [Cells(d.width) -> Paint],
         e.layers = Repainted(d.layers, k, bits),
         e.next = d.next, e.undo = d.undo, e.redo = d.redo, e.active = d.active
  PROVE  Sound(e) /\ \A id : HasLayer(e, id) <=> HasLayer(d, id)
<1>1. /\ d.width \in Cells(MaxWidth) /\ d.layers \in Seq(Layers) /\ Stacked(d.layers, d.width, d.next)
  BY DEF Sound, Documents
<1>2. /\ DOMAIN e.layers = DOMAIN d.layers /\ Stacked(e.layers, e.width, e.next)
      /\ \A j \in DOMAIN d.layers : e.layers[j].id = d.layers[j].id
      /\ e.layers = <<>> <=> d.layers = <<>>
  BY <1>1, RepaintedIs
<1>3. \A id : HasLayer(e, id) <=> HasLayer(d, id)
  BY <1>2, SameIdsHave
<1> QED
  BY <1>2, <1>3 DEF Sound

\* The pixels of a layer that is there.
LEMMA PixelsAre ==
  ASSUME NEW d, Sound(d), NEW id, HasLayer(d, id)
  PROVE  /\ LayerIx(d, id) \in DOMAIN d.layers
         /\ Pixels(d, id) = d.layers[LayerIx(d, id)].bits
         /\ Pixels(d, id) \in [Cells(d.width) -> Paint] /\ Pixels(d, id) \in Pieces
         /\ id \in 1 .. d.next - 1 /\ id \in Nat
<1>1. LayerIx(d, id) \in DOMAIN d.layers /\ d.layers[LayerIx(d, id)].id = id
  BY LayerIsThere
<1>2. d.layers[LayerIx(d, id)] \in Layers /\ d.width \in Cells(MaxWidth) /\ d.next \in Nat \ {0}
  BY <1>1 DEF Sound, Documents
<1>3. Pixels(d, id) \in [Cells(d.width) -> Paint]
  BY <1>1 DEF Sound, Stacked, Pixels
<1>4. id < d.next /\ id \in Nat \ {0}
  BY <1>1, <1>2 DEF Sound, Stacked, Layers
<1> QED
  BY <1>1, <1>2, <1>3, <1>4, WidthIsRect DEF Pixels

\* One field replaced, and the others as they were.
LEMMA WithLayers ==
  ASSUME NEW d \in Documents, NEW layers \in Seq(Layers)
  PROVE  LET e == [d EXCEPT !.layers = layers]
         IN  /\ e \in Documents /\ e.layers = layers /\ e.width = d.width /\ e.next = d.next
             /\ e.active = d.active /\ e.undo = d.undo /\ e.redo = d.redo /\ e.modified = d.modified
             /\ e.stroke = d.stroke /\ e.stale = d.stale /\ e.composite = d.composite
  BY DEF Documents

LEMMA WithStroke ==
  ASSUME NEW d \in Documents, NEW stroke \in Strokes
  PROVE  LET e == [d EXCEPT !.stroke = stroke]
         IN  /\ e \in Documents /\ SameLayers(d, e) /\ e.next = d.next
             /\ e.active = d.active /\ e.undo = d.undo /\ e.redo = d.redo /\ e.modified = d.modified
             /\ e.stroke = stroke /\ e.stale = d.stale /\ e.composite = d.composite
  BY DEF Documents, SameLayers

Walked(d, undo, redo) == [[d EXCEPT !.undo = undo] EXCEPT !.redo = redo]

LEMMA WithHistory ==
  ASSUME NEW d \in Documents, NEW undo \in Seq(Undoables), NEW redo \in Seq(Undoables)
  PROVE  LET e == Walked(d, undo, redo)
         IN  /\ e \in Documents /\ SameLayers(d, e) /\ e.next = d.next
             /\ e.active = d.active /\ e.undo = undo /\ e.redo = redo /\ e.modified = d.modified
             /\ e.stroke = d.stroke /\ e.stale = d.stale /\ e.composite = d.composite
  BY DEF Documents, SameLayers, Walked

LEMMA WithMark ==
  ASSUME NEW d \in Documents, NEW modified \in BOOLEAN
  PROVE  LET e == [d EXCEPT !.modified = modified]
         IN  /\ e \in Documents /\ SameLayers(d, e) /\ e.next = d.next
             /\ e.active = d.active /\ e.undo = d.undo /\ e.redo = d.redo /\ e.modified = modified
             /\ e.stroke = d.stroke /\ e.stale = d.stale /\ e.composite = d.composite
  BY DEF Documents, SameLayers

\* Sequences without their last element, and without one in between.
LEMMA FrontIs ==
  ASSUME NEW T, NEW s \in Seq(T), s # <<>>
  PROVE  /\ Front(s) \in Seq(T) /\ Len(Front(s)) = Len(s) - 1 /\ Last(s) \in T
         /\ Len(s) \in DOMAIN s /\ Last(s) = s[Len(s)]
         /\ \A k \in 1 .. Len(s) - 1 : Front(s)[k] = s[k]
<1>1. Len(s) \in Nat \ {0} /\ DOMAIN s = 1 .. Len(s)
  OBVIOUS
<1> QED
  BY <1>1, SubSeqProperties DEF Front, Last

LEMMA RemoveAtIs ==
  ASSUME NEW T, NEW s \in Seq(T), NEW i \in DOMAIN s
  PROVE  LET r == RemoveAt(s, i)
         IN  /\ r \in Seq(T) /\ Len(r) = Len(s) - 1
             /\ \A k \in DOMAIN r : r[k] = s[IF k < i THEN k ELSE k + 1]
<1> DEFINE a == SubSeq(s, 1, i - 1)
           b == SubSeq(s, i + 1, Len(s))
           r == RemoveAt(s, i)
<1>1. Len(s) \in Nat /\ i \in 1 .. Len(s)
  OBVIOUS
<1>2. a \in Seq(T) /\ Len(a) = i - 1 /\ \A k \in 1 .. i - 1 : a[k] = s[k]
  BY <1>1
<1>3. b \in Seq(T) /\ Len(b) = Len(s) - i /\ \A k \in 1 .. Len(s) - i : b[k] = s[i + k]
  <2>1. CASE i < Len(s)
    BY <1>1, <2>1
  <2>2. CASE i = Len(s)
    BY <1>1, <2>2
  <2> QED
    BY <1>1, <2>1, <2>2
<1>4. r = a \o b
  BY DEF RemoveAt
<1> HIDE DEF a, b, r
<1>5. /\ r \in Seq(T) /\ Len(r) = Len(s) - 1
      /\ \A k \in 1 .. Len(r) : r[k] = IF k <= Len(a) THEN a[k] ELSE b[k - Len(a)]
  <2>1. /\ r \in Seq(T) /\ Len(r) = Len(a) + Len(b)
        /\ \A k \in 1 .. Len(a) + Len(b) : r[k] = IF k <= Len(a) THEN a[k] ELSE b[k - Len(a)]
    BY <1>2, <1>3, <1>4, ConcatProperties
  <2>2. Len(a) + Len(b) = Len(s) - 1
    BY <1>1, <1>2, <1>3
  <2> QED
    BY <2>1, <2>2
<1>6. ASSUME NEW k \in DOMAIN r PROVE r[k] = s[IF k < i THEN k ELSE k + 1]
  <2>1. k \in 1 .. Len(r)
    BY <1>5
  <2>2. CASE k < i
    <3>1. k \in 1 .. i - 1 /\ k <= Len(a)
      BY <1>1, <1>2, <2>1, <2>2
    <3> QED
      BY <1>2, <1>5, <2>1, <2>2, <3>1
  <2>3. CASE ~(k < i)
    <3>1. k - Len(a) = k - i + 1 /\ k - i + 1 \in 1 .. Len(s) - i /\ ~(k <= Len(a))
      BY SMTT(60), <1>1, <1>2, <1>5, <2>1, <2>3
    <3>11. r[k] = b[k - Len(a)]
      BY <1>5, <2>1, <3>1
    <3>2. i + (k - i + 1) = k + 1
      BY <1>1, <2>1
    <3> QED
      BY <1>3, <2>3, <3>1, <3>11, <3>2
  <2> QED
    BY <2>2, <2>3
<1> QED
  BY <1>5, <1>6 DEF r

\* The least of some natural numbers.
LEMMA LeastIs ==
  ASSUME NEW S \in SUBSET Nat, S # {}
  PROVE  \E n \in S : \A m \in S : n <= m
<1>1. OpToRel(<, Nat) = {p \in Nat \X Nat : p[1] < p[2]}
  BY Zenon DEF OpToRel
<1>2. PICK n \in S : \A m \in S : ~(<<m, n>> \in OpToRel(<, Nat))
  BY NatLessThanWellFounded, WFMin, Zenon
<1>3. ASSUME NEW m \in S, m < n PROVE FALSE
  <2>1. <<m, n>> \in {p \in Nat \X Nat : p[1] < p[2]}
    BY <1>3
  <2> QED
    BY <1>1, <1>2, <2>1
<1> QED
  BY <1>3

-----------------------------------------------------------------------------
(* The operations of the document.                                         *)

\* A layer is put on top.
LEMMA StackGrows ==
  ASSUME NEW layers \in Seq(Layers), NEW width, NEW next \in Nat \ {0}, Stacked(layers, width, next),
         NEW layer \in Layers, layer.id = next, layer.bits \in [Cells(width) -> Paint]
  PROVE  Append(layers, layer) \in Seq(Layers) /\ Stacked(Append(layers, layer), width, next + 1)
<1> DEFINE then == Append(layers, layer)
           n == Len(layers)
<1>1. /\ n \in Nat /\ then \in Seq(Layers) /\ DOMAIN then = 1 .. n + 1 /\ DOMAIN layers = 1 .. n
      /\ then[n + 1] = layer /\ \A k \in 1 .. n : then[k] = layers[k]
  OBVIOUS
<1>2. \A k \in 1 .. n : layers[k].id \in Nat /\ layers[k].id < next
  <2>1. \A k \in 1 .. n : layers[k] \in Layers
    BY <1>1
  <2> QED
    BY <1>1, <2>1 DEF Stacked, Layers
<1> HIDE DEF then, n
<1>3. ASSUME NEW k \in 1 .. n + 1
      PROVE  then[k].id < next + 1 /\ then[k].bits \in [Cells(width) -> Paint]
  <2>1. CASE k = n + 1
    BY <1>1, <2>1
  <2>2. CASE k # n + 1
    BY <1>1, <1>2, <2>2 DEF Stacked
  <2> QED
    BY <2>1, <2>2
<1>4. ASSUME NEW j \in 1 .. n + 1, NEW k \in 1 .. n + 1, then[j].id = then[k].id
      PROVE  j = k
  <2>1. CASE j \in 1 .. n /\ k \in 1 .. n
    BY <1>1, <1>4, <2>1 DEF Stacked
  <2>2. CASE j = n + 1 \/ k = n + 1
    BY <1>1, <1>2, <1>4, <2>2
  <2> QED
    BY <1>1, <2>1, <2>2
<1> QED
  BY <1>1, <1>3, <1>4 DEF Stacked, then

LEMMA UndoesLater ==
  ASSUME NEW steps \in Seq(Undoables), NEW next \in Nat, NEW later \in Nat, next <= later, Undoes(steps, next)
  PROVE  Undoes(steps, later)
<1>1. ASSUME NEW k \in DOMAIN steps PROVE steps[k].layer \in Nat
  <2>1. steps[k] \in Undoables
    OBVIOUS
  <2> QED
    BY <2>1 DEF Undoables
<1> QED
  BY <1>1 DEF Undoes

\* The layers worked on between dabs: the history, the stroke and the paint
\* stay as they are, and a layer's number is not used again.
KeepsPaint(d, e, k) ==
    \/ e.layers[k].id >= d.next
    \/ \E j \in DOMAIN d.layers :
         d.layers[j].id = e.layers[k].id /\ d.layers[j].bits = e.layers[k].bits
KeepsStroke(d, e) ==
    /\ e.stroke.on = d.stroke.on /\ e.stroke.layer = d.stroke.layer
    /\ e.stroke.before = d.stroke.before /\ e.stroke.rect = d.stroke.rect
    /\ e.stroke.buffer = d.stroke.buffer
    /\ e.stroke.dirty \subseteq d.stroke.dirty \cup Cells(d.width)
Keeps(d, e) ==
    /\ e.width = d.width /\ e.undo = d.undo /\ e.redo = d.redo /\ d.next <= e.next
    /\ KeepsStroke(d, e) /\ \A k \in DOMAIN e.layers : KeepsPaint(d, e, k)

LEMMA KeepsSame ==
  ASSUME NEW d, d.next \in Nat, NEW e, SameLayers(d, e), e.next = d.next,
         e.undo = d.undo, e.redo = d.redo, e.stroke = d.stroke
  PROVE  Keeps(d, e)
<1>1. KeepsStroke(d, e)
  BY DEF KeepsStroke
<1> QED
  BY <1>1 DEF Keeps, KeepsPaint, SameLayers

LEMMA KeepsEdited ==
  ASSUME NEW d, NEW m \in Documents, m.width = d.width, m.stroke = d.stroke, Keeps(d, m)
  PROVE  Keeps(d, Edited(m))
<1> DEFINE e == Edited(m)
<1>1. /\ e \in Documents /\ SameLayers(m, e) /\ e.next = m.next /\ e.undo = m.undo /\ e.redo = m.redo
      /\ e.stroke = [m.stroke EXCEPT !.dirty = @ \cup Cells(m.width)]
  BY EditedIs
<1> HIDE DEF e
<1>2. m.stroke \in Strokes
  BY DEF Documents
<1>3. KeepsStroke(d, e)
  BY <1>1, <1>2 DEF KeepsStroke, Strokes
<1>4. \A k \in DOMAIN e.layers : KeepsPaint(d, e, k)
  BY <1>1 DEF Keeps, KeepsPaint, SameLayers
<1> QED
  BY <1>1, <1>3, <1>4 DEF Keeps, SameLayers, e

LEMMA AddLayerIs ==
  ASSUME NEW d, Sound(d)
  PROVE  LET e == AddLayer(d)
             layer == [id |-> d.next, bits |-> Blank(d.width), shown |-> TRUE]
         IN  /\ Sound(e) /\ e.stale = TRUE /\ e.modified = TRUE /\ Holds(d, e)
             /\ e.width = d.width /\ e.layers = Append(d.layers, layer) /\ e.stroke.on = d.stroke.on
             /\ e.undo = d.undo /\ e.redo = d.redo /\ Keeps(d, e)
<1> DEFINE layer == [id |-> d.next, bits |-> Blank(d.width), shown |-> TRUE]
           m == [d EXCEPT !.layers = Append(@, layer), !.active = d.next, !.next = d.next + 1]
           e == AddLayer(d)
           n == Len(d.layers)
<1>1. /\ d \in Documents /\ d.width \in Cells(MaxWidth) /\ d.next \in Nat \ {0} /\ d.layers \in Seq(Layers)
      /\ d.undo \in Seq(Undoables) /\ d.redo \in Seq(Undoables) /\ Stacked(d.layers, d.width, d.next)
      /\ Undoes(d.undo, d.next) /\ Undoes(d.redo, d.next) /\ d.stroke \in Strokes
  BY DEF Sound, Documents
<1>2. layer \in Layers /\ layer.bits \in [Cells(d.width) -> Paint]
  <2>1. Blank(d.width) \in [Cells(d.width) -> Paint]
    BY DEF Blank, Paint
  <2> QED
    BY <1>1, <2>1, WidthIsRect DEF Layers
<1>3. Append(d.layers, layer) \in Seq(Layers) /\ Stacked(Append(d.layers, layer), d.width, d.next + 1)
  BY <1>1, <1>2, StackGrows
<1>4. /\ m \in Documents /\ m.width = d.width /\ m.layers = Append(d.layers, layer)
      /\ m.active = d.next /\ m.next = d.next + 1 /\ m.undo = d.undo /\ m.redo = d.redo
      /\ m.stroke = d.stroke
  <2> DEFINE more == Append(d.layers, layer)
  <2> HIDE DEF layer, more
  <2>0. more \in Seq(Layers) /\ d.next + 1 \in Nat \ {0}
    BY <1>1, <1>3 DEF more
  <2>1. [d EXCEPT !.layers = more, !.active = d.next, !.next = d.next + 1] \in Documents
    BY <1>1, <2>0 DEF Documents
  <2>2. m = [d EXCEPT !.layers = more, !.active = d.next, !.next = d.next + 1]
    BY DEF more
  <2> HIDE DEF m
  <2> QED
    BY <1>1, <2>1, <2>2 DEF Documents, more
<1>5. e = Edited(m)
  BY DEF AddLayer
<1>6. Append(d.layers, layer) # <<>> /\ n + 1 \in DOMAIN Append(d.layers, layer)
      /\ Append(d.layers, layer)[n + 1] = layer
      /\ DOMAIN d.layers \subseteq DOMAIN Append(d.layers, layer)
      /\ \A k \in DOMAIN d.layers : Append(d.layers, layer)[k] = d.layers[k]
  BY SMTT(60), <1>1
<1>7. layer.id = d.next
  OBVIOUS
<1>13. Keeps(d, m)
  <2> HIDE DEF m, layer
  <2>1. ASSUME NEW k \in DOMAIN m.layers PROVE KeepsPaint(d, m, k)
    <3>1. k = n + 1 \/ k \in DOMAIN d.layers
      BY <1>1, <1>4
    <3>2. CASE k = n + 1
      BY <1>1, <1>4, <1>6, <1>7, <3>2 DEF KeepsPaint
    <3>3. CASE k \in DOMAIN d.layers
      BY <1>4, <1>6, <3>3 DEF KeepsPaint
    <3> QED
      BY <3>1, <3>2, <3>3
  <2> QED
    BY <1>1, <1>4, <2>1 DEF Keeps, KeepsStroke
<1>14. Keeps(d, e)
  <2> HIDE DEF m, layer
  <2> QED
    BY <1>4, <1>5, <1>13, KeepsEdited
<1> HIDE DEF m, layer
<1>8. /\ e \in Documents /\ e.width = d.width /\ e.layers = Append(d.layers, layer)
      /\ e.active = d.next /\ e.next = d.next + 1 /\ e.undo = d.undo /\ e.redo = d.redo
      /\ e.modified = TRUE /\ e.stale = TRUE
      /\ e.stroke = [d.stroke EXCEPT !.dirty = @ \cup Cells(m.width)]
  <2> HIDE DEF e
  <2>1. /\ e \in Documents /\ SameLayers(m, e)
        /\ e.next = m.next /\ e.active = m.active /\ e.undo = m.undo /\ e.redo = m.redo
        /\ e.modified = TRUE /\ e.stale = TRUE
        /\ e.stroke = [m.stroke EXCEPT !.dirty = @ \cup Cells(m.width)]
    BY <1>4, <1>5, EditedIs
  <2> QED
    BY <1>4, <2>1 DEF SameLayers
<1> HIDE DEF e
<1>9. HasLayer(e, e.active)
  BY <1>6, <1>7, <1>8 DEF HasLayer, IndexesOf
<1>10. Undoes(e.undo, e.next) /\ Undoes(e.redo, e.next)
  BY SMTT(60), <1>1, <1>8, UndoesLater
<1>11. Sound(e)
  BY <1>3, <1>8, <1>9, <1>10 DEF Sound
<1>12. Holds(d, e) /\ e.stroke.on = d.stroke.on
  BY <1>1, <1>8 DEF Holds, Strokes
<1> QED
  BY <1>8, <1>11, <1>12, <1>14 DEF e, layer

LEMMA SetActiveIsSound ==
  ASSUME NEW d, Sound(d), NEW id \in Nat
  PROVE  LET e == SetActiveLayer(d, id)
         IN  /\ Sound(e) /\ e.stroke = d.stroke /\ Keeps(d, e)
             /\ Shows(d, e) /\ Marks(d, e) /\ Holds(d, e)
<1> DEFINE e == SetActiveLayer(d, id)
<1>1. d \in Documents
  BY DEF Sound
<1>2. /\ e \in Documents /\ SameLayers(d, e)
      /\ e.next = d.next /\ e.undo = d.undo /\ e.redo = d.redo /\ e.stroke = d.stroke
      /\ e.modified = d.modified /\ e.stale = d.stale /\ e.composite = d.composite
      /\ e.active = IF HasLayer(d, id) THEN id ELSE d.active
  BY <1>1 DEF SetActiveLayer, Documents, SameLayers
<1> HIDE DEF e
<1>3. Sound(e)
  BY <1>2, SoundFrame
<1>4. \A i : HasLayer(e, i) <=> HasLayer(d, i)
  BY <1>2, SameLayersHave DEF SameLayers
<1>5. Keeps(d, e)
  BY <1>1, <1>2, KeepsSame DEF Documents
<1> QED
  BY <1>1, <1>2, <1>3, <1>4, <1>5 DEF Shows, Marks, Holds, Mixed, e, Documents

LEMMA RenameIsSound ==
  ASSUME NEW d, Sound(d), NEW id
  PROVE  LET e == RenameLayer(d, id)
         IN  /\ Sound(e) /\ e.stroke = d.stroke /\ Keeps(d, e)
             /\ Shows(d, e) /\ Marks(d, e) /\ Holds(d, e)
<1> DEFINE e == RenameLayer(d, id)
<1>1. d \in Documents /\ HasLayer(d, id) \in BOOLEAN
  BY DEF Sound, HasLayer
<1>2. /\ e \in Documents /\ SameLayers(d, e)
      /\ e.next = d.next /\ e.undo = d.undo /\ e.redo = d.redo /\ e.stroke = d.stroke
      /\ e.modified = (d.modified \/ HasLayer(d, id)) /\ e.stale = d.stale
      /\ e.composite = d.composite /\ e.active = d.active
  BY <1>1 DEF RenameLayer, Documents, SameLayers
<1> HIDE DEF e
<1>3. Sound(e)
  BY <1>2, SoundFrame
<1>4. \A i : HasLayer(e, i) <=> HasLayer(d, i)
  BY <1>2, SameLayersHave DEF SameLayers
<1>5. Keeps(d, e)
  BY <1>1, <1>2, KeepsSame DEF Documents
<1> QED
  BY <1>1, <1>2, <1>3, <1>4, <1>5 DEF Shows, Marks, Holds, Mixed, e, Documents

\* SetCanvas(), which keeps the stroke and the cache, on any document whose
\* next layer's number may be anything: the constructor begins with none.
LEMMA SetCanvasIs ==
  ASSUME NEW d \in Documents, NEW width \in Cells(MaxWidth)
  PROVE  LET e == SetCanvas(d, width)
             first == [id |-> 1, bits |-> [c \in Cells(width) |-> White], shown |-> TRUE]
         IN  /\ Sound(e) /\ e.stale = TRUE /\ e.modified = FALSE /\ e.stroke.on = d.stroke.on
             /\ e.width = width /\ e.layers = <<first>> /\ e.undo = <<>> /\ e.redo = <<>>
<1> DEFINE bare == [d EXCEPT !.width = width, !.layers = <<>>, !.undo = <<>>, !.redo = <<>>, !.next = 1]
           fresh == AddLayer(bare)
           blank == [id |-> 1, bits |-> Blank(width), shown |-> TRUE]
           white == [c \in Cells(width) |-> White]
           first == [id |-> 1, bits |-> white, shown |-> TRUE]
           e == SetCanvas(d, width)
<1>1. /\ bare \in Documents /\ bare.width = width /\ bare.layers = <<>> /\ bare.undo = <<>>
      /\ bare.redo = <<>> /\ bare.next = 1 /\ bare.stroke = d.stroke
  <2> DEFINE none == <<>>
             one == 1
             b1 == [d EXCEPT !.width = width]
             b2 == [b1 EXCEPT !.layers = none]
             b3 == [b2 EXCEPT !.undo = none]
             b4 == [b3 EXCEPT !.redo = none]
             b5 == [b4 EXCEPT !.next = one]
  <2>1. none \in Seq(Layers) /\ none \in Seq(Undoables) /\ one \in Nat \ {0}
    OBVIOUS
  <2>2. bare = b5
    BY Zenon
  <2> HIDE DEF none, one, bare
  <2>3. b1 \in Documents /\ b1.width = width /\ b1.stroke = d.stroke
    BY DEF Documents
  <2> HIDE DEF b1
  <2>4. b2 \in Documents /\ b2.width = width /\ b2.stroke = d.stroke /\ b2.layers = none
    BY <2>1, <2>3 DEF Documents
  <2> HIDE DEF b2
  <2>5. b3 \in Documents /\ b3.width = width /\ b3.stroke = d.stroke /\ b3.layers = none
        /\ b3.undo = none
    BY <2>1, <2>4 DEF Documents
  <2> HIDE DEF b3
  <2>6. b4 \in Documents /\ b4.width = width /\ b4.stroke = d.stroke /\ b4.layers = none
        /\ b4.undo = none /\ b4.redo = none
    BY <2>1, <2>5 DEF Documents
  <2> HIDE DEF b4
  <2>7. b5 \in Documents /\ b5.width = width /\ b5.stroke = d.stroke /\ b5.layers = none
        /\ b5.undo = none /\ b5.redo = none /\ b5.next = one
    BY <2>1, <2>6 DEF Documents
  <2> HIDE DEF b5
  <2> QED
    BY <2>2, <2>7 DEF none, one
<1> HIDE DEF bare
<1>2. Sound(bare)
  BY <1>1, PaintAssumption DEF Sound, Stacked, Undoes
<1>3. /\ Sound(fresh) /\ fresh.stale = TRUE /\ fresh.stroke.on = d.stroke.on
      /\ fresh.width = width /\ fresh.undo = <<>> /\ fresh.redo = <<>>
      /\ fresh.layers = Append(<<>>, blank)
  BY <1>1, <1>2, AddLayerIs
<1>4. fresh.layers = <<blank>> /\ fresh \in Documents
  BY <1>3 DEF Sound
<1> HIDE DEF fresh
<1>5. e = [fresh EXCEPT !.layers[1].bits = white, !.modified = FALSE]
  BY DEF SetCanvas, fresh, bare
<1>6. white \in [Cells(width) -> Paint]
  BY PaintAssumption DEF Paint
<1>7. [<<blank>> EXCEPT ![1].bits = white] = <<first>>
  <2>0. blank \in Layers /\ white \in Pieces
    BY <1>6, WidthIsRect, PaintAssumption DEF Layers, Blank, Paint
  <2> HIDE DEF white
  <2>1. [blank EXCEPT !.bits = white] = first
    <3>1. first \in Layers
      BY <2>0 DEF Layers
    <3> DEFINE over == [blank EXCEPT !.bits = white]
    <3>2. over \in Layers
      BY <2>0 DEF Layers
    <3>3. over.id = first.id /\ over.bits = first.bits /\ over.shown = first.shown
      BY <2>0
    <3> HIDE DEF over, first
    <3>4. over = first
      BY <3>1, <3>2, <3>3 DEF Layers
    <3> QED
      BY <3>4, Zenon DEF over
  <2> HIDE DEF blank, first
  <2>2. [<<blank>> EXCEPT ![1] = [blank EXCEPT !.bits = white]]
          = [<<blank>> EXCEPT ![1].bits = white]
    OBVIOUS
  <2>3. [<<blank>> EXCEPT ![1] = first] = <<first>>
    OBVIOUS
  <2> QED
    BY <2>1, <2>2, <2>3
<1>8. first \in Layers
  BY <1>6, WidthIsRect DEF Layers
<1>9. <<first>> \in Seq(Layers)
  BY <1>8
<1> HIDE DEF first, blank, white
<1>10. /\ e \in Documents /\ e.layers = <<first>> /\ e.modified = FALSE /\ e.width = width
       /\ e.stale = TRUE /\ e.undo = <<>> /\ e.redo = <<>> /\ e.next = fresh.next
       /\ e.stroke = fresh.stroke /\ e.active = fresh.active
  <2> DEFINE one == <<first>>
             painted == [fresh EXCEPT !.layers = one]
  <2>1. e = [painted EXCEPT !.modified = FALSE]
    <3>1. [fresh EXCEPT !.layers[1].bits = white]
            = [fresh EXCEPT !.layers = [fresh.layers EXCEPT ![1].bits = white]]
      BY Zenon
    <3> QED
      BY <1>4, <1>5, <1>7, <3>1, Zenon
  <2> HIDE DEF one
  <2>2. /\ painted \in Documents /\ painted.layers = one /\ painted.width = fresh.width
        /\ painted.stale = fresh.stale /\ painted.undo = fresh.undo /\ painted.redo = fresh.redo
        /\ painted.next = fresh.next /\ painted.stroke = fresh.stroke /\ painted.active = fresh.active
    BY <1>4, <1>9 DEF Documents, one
  <2> HIDE DEF painted
  <2>3. /\ e \in Documents /\ e.layers = one /\ e.width = fresh.width /\ e.modified = FALSE
        /\ e.stale = fresh.stale /\ e.undo = fresh.undo /\ e.redo = fresh.redo
        /\ e.next = fresh.next /\ e.stroke = fresh.stroke /\ e.active = fresh.active
    BY <2>1, <2>2 DEF Documents
  <2> QED
    BY <1>3, <2>3 DEF one
<1>11. 1 \in DOMAIN fresh.layers /\ e.layers = Repainted(fresh.layers, 1, white)
  BY <1>4, <1>7, <1>10 DEF Repainted
<1> HIDE DEF e
<1>12. Sound(e)
  BY <1>3, <1>6, <1>10, <1>11, SoundRepainted
<1> QED
  BY <1>3, <1>10, <1>12 DEF e, first, white

LEMMA NoStrokeIs == NoStroke \in Strokes /\ NoStroke.on = FALSE /\ NoStroke.foot = {}
<1> DEFINE none == <<>>
<1>1. none \in Pieces
  BY EmptyPiece
<1>2. NoStroke = [on |-> FALSE, layer |-> 0, rect |-> {}, dirty |-> {}, before |-> none,
                  buffer |-> {}, erase |-> FALSE, foot |-> {}]
  BY DEF NoStroke
<1> HIDE DEF none
<1>3. {} \in Rects /\ {} \in SUBSET [cell : Cells(MaxWidth), ink : Paint] /\ {} \in SUBSET Paint
  BY DEF Rects
<1> QED
  BY <1>1, <1>2, <1>3 DEF Strokes

\* A new painting: one white layer.
LEMMA NewDocumentIs ==
  ASSUME NEW width \in Cells(MaxWidth)
  PROVE  LET e == NewDocument(width)
             first == [id |-> 1, bits |-> [c \in Cells(width) |-> White], shown |-> TRUE]
         IN  /\ Sound(e) /\ e.stale = TRUE /\ e.modified = FALSE /\ e.stroke.on = FALSE
             /\ e.width = width /\ e.layers = <<first>> /\ e.undo = <<>> /\ e.redo = <<>>
<1> DEFINE none == <<>>
           d == [width |-> width, layers |-> none, next |-> 1, active |-> 0,
                 undo |-> none, redo |-> none, modified |-> FALSE,
                 stroke |-> NoStroke, stale |-> TRUE, composite |-> none]
<1>1. none \in Seq(Layers) /\ none \in Seq(Undoables) /\ none \in Pieces
  BY EmptyPiece
<1>2. NewDocument(width) = SetCanvas(d, width)
  BY DEF NewDocument
<1> HIDE DEF none
<1>3. d \in Documents /\ d.stroke = NoStroke
  BY <1>1, NoStrokeIs DEF Documents
<1> HIDE DEF d
<1> DEFINE e == SetCanvas(d, width)
           first == [id |-> 1, bits |-> [c \in Cells(width) |-> White], shown |-> TRUE]
<1>4. /\ Sound(e) /\ e.stale = TRUE /\ e.modified = FALSE /\ e.stroke.on = d.stroke.on
      /\ e.width = width /\ e.layers = <<first>> /\ e.undo = <<>> /\ e.redo = <<>>
  BY <1>3, SetCanvasIs, Zenon
<1> HIDE DEF e
<1> QED
  BY <1>2, <1>3, <1>4, NoStrokeIs DEF e

\* A canvas replaced is a new painting under the same stroke.
LEMMA SetCanvasIsNew ==
  ASSUME NEW d \in Documents, NEW width \in Cells(MaxWidth)
  PROVE  SetCanvas(d, width).layers = NewDocument(width).layers
  BY ZenonT(60), SetCanvasIs, NewDocumentIs

LEMMA FineEdited ==
  ASSUME NEW d, NEW m, Sound(m), m.stroke.on = d.stroke.on
  PROVE  Fine(d, Edited(m))
<1> DEFINE e == Edited(m)
<1>0. m \in Documents
  BY DEF Sound
<1>1. /\ e \in Documents /\ SameLayers(m, e)
      /\ e.next = m.next /\ e.active = m.active /\ e.undo = m.undo /\ e.redo = m.redo
      /\ e.modified = TRUE /\ e.stale = TRUE
      /\ e.stroke = [m.stroke EXCEPT !.dirty = @ \cup Cells(m.width)]
  BY <1>0, EditedIs
<1> HIDE DEF e
<1>2. Sound(e)
  BY <1>1, SoundFrame
<1>3. e.stroke.on = m.stroke.on
  BY <1>0, <1>1 DEF Documents, Strokes
<1>4. Shows(d, e) /\ Marks(d, e) /\ Holds(d, e)
  BY <1>1 DEF Shows, Marks, Holds
<1> QED
  BY <1>2, <1>3, <1>4 DEF Fine, e

LEMMA FineSame ==
  ASSUME NEW d, Sound(d)
  PROVE  Fine(d, d)
  BY DEF Sound, Fine, Shows, Marks, Holds, SameLayers, Documents

\* A change of the stack of layers, and of which of them is active.
Restacked(d, layers, active) == [d EXCEPT !.layers = layers, !.active = active]

LEMMA WithStack ==
  ASSUME NEW d, Sound(d), NEW layers \in Seq(Layers), Stacked(layers, d.width, d.next),
         NEW active \in Nat,
         layers # <<>> => \E k \in DOMAIN layers : layers[k].id = active
  PROVE  LET m == Restacked(d, layers, active)
         IN  /\ Sound(m) /\ m.stroke = d.stroke /\ m.layers = layers /\ m.width = d.width
             /\ m.next = d.next /\ m.undo = d.undo /\ m.redo = d.redo
<1> DEFINE m == Restacked(d, layers, active)
<1>1. d \in Documents
  BY DEF Sound
<1>2. /\ m \in Documents /\ m.layers = layers /\ m.active = active /\ m.width = d.width
      /\ m.next = d.next /\ m.undo = d.undo /\ m.redo = d.redo /\ m.stroke = d.stroke
  BY <1>1 DEF Documents, Restacked
<1> HIDE DEF m
<1>3. m.layers # <<>> => HasLayer(m, m.active)
  BY <1>2 DEF HasLayer, IndexesOf
<1> QED
  BY <1>2, <1>3 DEF Sound, m

LEMMA DeleteLayerIs ==
  ASSUME NEW d, Sound(d), NEW id
  PROVE  Fine(d, DeleteLayer(d, id)) /\ Keeps(d, DeleteLayer(d, id))
<1>1. CASE Len(d.layers) <= 1 \/ ~HasLayer(d, id)
  BY <1>1, FineSame, KeepsSame DEF DeleteLayer, Sound, Documents, SameLayers
<1>2. CASE ~(Len(d.layers) <= 1 \/ ~HasLayer(d, id))
  <2> DEFINE i == LayerIx(d, id)
             rest == RemoveAt(d.layers, i)
             active == IF d.active = id THEN Last(rest).id ELSE d.active
             m == Restacked(d, rest, active)
  <2>1. DeleteLayer(d, id) = Edited(m)
    BY <1>2, Zenon DEF DeleteLayer, Restacked
  <2>2. /\ d.layers \in Seq(Layers) /\ i \in DOMAIN d.layers /\ d.layers[i].id = id /\ HasLayer(d, id)
        /\ Stacked(d.layers, d.width, d.next) /\ d.active \in Nat /\ HasLayer(d, d.active)
    BY <1>2, LayerIsThere DEF Sound, Documents
  <2>3. /\ rest \in Seq(Layers) /\ Len(rest) = Len(d.layers) - 1
        /\ \A k \in DOMAIN rest : rest[k] = d.layers[IF k < i THEN k ELSE k + 1]
    BY <2>2, RemoveAtIs
  <2> HIDE DEF i, rest
  <2>4. /\ Len(d.layers) \in Nat /\ DOMAIN d.layers = 1 .. Len(d.layers) /\ Len(d.layers) > 1
        /\ DOMAIN rest = 1 .. Len(rest) /\ Len(rest) \in Nat /\ Len(rest) \in DOMAIN rest
        /\ i \in 1 .. Len(d.layers)
    BY <1>2, <2>2, <2>3
  <2>5. \A k \in DOMAIN rest : (IF k < i THEN k ELSE k + 1) \in DOMAIN d.layers
    BY <2>3, <2>4
  <2>6. Stacked(rest, d.width, d.next)
    <3>1. ASSUME NEW j \in DOMAIN rest, NEW k \in DOMAIN rest, rest[j].id = rest[k].id
          PROVE  j = k
      <4>1. (IF j < i THEN j ELSE j + 1) = (IF k < i THEN k ELSE k + 1)
        BY <2>2, <2>3, <2>5, <3>1 DEF Stacked
      <4> QED
        BY <2>4, <4>1
    <3>2. ASSUME NEW k \in DOMAIN rest
          PROVE  rest[k].id < d.next /\ rest[k].bits \in [Cells(d.width) -> Paint]
      BY <2>2, <2>3, <2>5 DEF Stacked
    <3> QED
      BY <3>1, <3>2 DEF Stacked
  <2>7. active \in Nat /\ \E k \in DOMAIN rest : rest[k].id = active
    <3>1. CASE d.active = id
      <4>1. rest[Len(rest)] \in Layers
        BY <2>3, <2>4
      <4> QED
        BY <2>4, <3>1, <4>1 DEF Layers, Last
    <3>2. CASE d.active # id
      <4>1. PICK n \in DOMAIN d.layers : d.layers[n].id = d.active
        BY <2>2 DEF HasLayer, IndexesOf
      <4>2. n # i
        BY <2>2, <3>2, <4>1
      <4>3. CASE n < i
        <5>1. n \in DOMAIN rest /\ rest[n] = d.layers[n]
          BY <2>3, <2>4, <4>3
        <5> QED
          BY <2>2, <3>2, <4>1, <5>1
      <4>4. CASE ~(n < i)
        <5>1. n - 1 \in DOMAIN rest /\ ~(n - 1 < i) /\ (n - 1) + 1 = n
          BY <2>3, <2>4, <4>2, <4>4
        <5>2. rest[n - 1] = d.layers[n]
          BY <2>3, <5>1
        <5> QED
          BY <2>2, <3>2, <4>1, <5>1, <5>2
      <4> QED
        BY <4>3, <4>4
    <3> QED
      BY <3>1, <3>2
  <2> HIDE DEF active
  <2>8. /\ Sound(m) /\ m.stroke = d.stroke /\ m.layers = rest /\ m.width = d.width
        /\ m.next = d.next /\ m.undo = d.undo /\ m.redo = d.redo
    BY <2>3, <2>6, <2>7, WithStack
  <2> HIDE DEF m
  <2>9. Keeps(d, m)
    <3>1. \A k \in DOMAIN m.layers : KeepsPaint(d, m, k)
      BY <2>3, <2>5, <2>8 DEF KeepsPaint
    <3>2. KeepsStroke(d, m)
      BY <2>8 DEF KeepsStroke
    <3> QED
      BY <2>8, <3>1, <3>2 DEF Keeps, Sound, Documents
  <2> QED
    BY <2>1, <2>8, <2>9, FineEdited, KeepsEdited DEF Sound
<1> QED
  BY <1>1, <1>2

LEMMA MoveLayerIs ==
  ASSUME NEW d, Sound(d), NEW id, NEW up \in BOOLEAN
  PROVE  Fine(d, MoveLayer(d, id, up)) /\ Keeps(d, MoveLayer(d, id, up))
<1> DEFINE from == LayerIx(d, id)
           to == IF up THEN from + 1 ELSE from - 1
<1>1. CASE ~HasLayer(d, id) \/ to \notin DOMAIN d.layers
  BY <1>1, FineSame, KeepsSame DEF MoveLayer, Sound, Documents, SameLayers
<1>2. CASE ~(~HasLayer(d, id) \/ to \notin DOMAIN d.layers)
  <2> DEFINE a == d.layers[to]
             b == d.layers[from]
             once == [d.layers EXCEPT ![from] = a]
             moved == [once EXCEPT ![to] = b]
             m == [d EXCEPT !.layers[from] = a, !.layers[to] = b]
  <2>1. MoveLayer(d, id, up) = Edited(m)
    BY <1>2, Zenon DEF MoveLayer
  <2>2. /\ d \in Documents /\ d.layers \in Seq(Layers) /\ from \in DOMAIN d.layers
        /\ to \in DOMAIN d.layers /\ Stacked(d.layers, d.width, d.next) /\ d.active \in Nat
        /\ (d.layers # <<>> => HasLayer(d, d.active))
    BY <1>2, LayerIsThere DEF Sound, Documents
  <2>3. m = [d EXCEPT !.layers = moved]
    <3> HIDE DEF a, b, from, to
    <3>1. [d EXCEPT !.layers[from] = a] = [d EXCEPT !.layers = once]
      BY Zenon
    <3>2. m = [[d EXCEPT !.layers = once] EXCEPT !.layers[to] = b]
      BY <3>1, Zenon
    <3> HIDE DEF once, moved
    <3> QED
      BY <2>2, <3>2 DEF moved, Documents
  <2>4. /\ moved \in Seq(Layers) /\ DOMAIN moved = DOMAIN d.layers
        /\ \A k \in DOMAIN moved :
             moved[k] = IF k = to THEN b ELSE IF k = from THEN a ELSE d.layers[k]
    <3>1. a \in Layers /\ b \in Layers
      BY <2>2
    <3> HIDE DEF a, b, from, to
    <3>2. /\ once \in Seq(Layers) /\ DOMAIN once = DOMAIN d.layers
          /\ \A k \in DOMAIN d.layers : once[k] = IF k = from THEN a ELSE d.layers[k]
      BY <2>2, <3>1, ExceptSeq
    <3> HIDE DEF once
    <3> QED
      BY <2>2, <3>1, <3>2, ExceptSeq
  <2> DEFINE was == [k \in DOMAIN moved |-> IF k = to THEN from ELSE IF k = from THEN to ELSE k]
  <2>5. /\ \A k \in DOMAIN moved : was[k] \in DOMAIN d.layers /\ moved[k] = d.layers[was[k]]
        /\ \A j, k \in DOMAIN moved : was[j] = was[k] => j = k
        /\ \A n \in DOMAIN d.layers : \E k \in DOMAIN moved : was[k] = n
    <3> HIDE DEF from, to, moved
    <3>1. \A n \in DOMAIN d.layers : was[was[n]] = n /\ was[n] \in DOMAIN moved
      BY <2>2, <2>4
    <3>2. \A k \in DOMAIN moved : was[k] \in DOMAIN d.layers /\ moved[k] = d.layers[was[k]]
      BY <2>2, <2>4
    <3>3. \A j, k \in DOMAIN moved : was[j] = was[k] => j = k
      BY <2>2, <2>4
    <3> QED
      BY <3>1, <3>2, <3>3, <2>4
  <2> HIDE DEF was, moved, m, from, to
  <2>6. Stacked(moved, d.width, d.next)
    <3>1. ASSUME NEW k \in DOMAIN moved
          PROVE  moved[k].id < d.next /\ moved[k].bits \in [Cells(d.width) -> Paint]
      BY <2>2, <2>5 DEF Stacked
    <3>2. ASSUME NEW j \in DOMAIN moved, NEW k \in DOMAIN moved, moved[j].id = moved[k].id
          PROVE  j = k
      <4>1. d.layers[was[j]].id = d.layers[was[k]].id /\ was[j] \in DOMAIN d.layers
            /\ was[k] \in DOMAIN d.layers
        BY <2>5, <3>2
      <4>2. was[j] = was[k]
        BY <2>2, <4>1 DEF Stacked
      <4> QED
        BY <2>5, <4>2
    <3> QED
      BY <3>1, <3>2 DEF Stacked
  <2>7. moved # <<>> => \E k \in DOMAIN moved : moved[k].id = d.active
    <3>1. HasLayer(d, d.active)
      BY <2>2
    <3>2. PICK n \in DOMAIN d.layers : d.layers[n].id = d.active
      BY <3>1 DEF HasLayer, IndexesOf
    <3>3. PICK k \in DOMAIN moved : was[k] = n
      BY <2>5, <3>2
    <3> QED
      BY <2>5, <3>2, <3>3
  <2>8. /\ m \in Documents /\ m.layers = moved /\ m.width = d.width /\ m.next = d.next
        /\ m.active = d.active /\ m.undo = d.undo /\ m.redo = d.redo /\ m.stroke = d.stroke
    BY <2>2, <2>3, <2>4, WithLayers
  <2>9. m.layers # <<>> => HasLayer(m, m.active)
    BY <2>7, <2>8 DEF HasLayer, IndexesOf
  <2>10. Sound(m)
    BY <2>6, <2>8, <2>9 DEF Sound
  <2>11. Keeps(d, m)
    <3>1. \A k \in DOMAIN m.layers : KeepsPaint(d, m, k)
      BY <2>5, <2>8 DEF KeepsPaint
    <3>2. KeepsStroke(d, m)
      BY <2>8 DEF KeepsStroke
    <3> QED
      BY <2>8, <3>1, <3>2 DEF Keeps, Sound, Documents
  <2> QED
    BY <2>1, <2>8, <2>10, <2>11, FineEdited, KeepsEdited
<1> QED
  BY <1>1, <1>2

LEMMA SetLayerShownIs ==
  ASSUME NEW d, Sound(d), NEW id, NEW shown \in BOOLEAN
  PROVE  Fine(d, SetLayerShown(d, id, shown)) /\ Keeps(d, SetLayerShown(d, id, shown))
<1> DEFINE i == LayerIx(d, id)
<1>1. CASE ~HasLayer(d, id) \/ d.layers[i].shown = shown
  BY <1>1, FineSame, KeepsSame DEF SetLayerShown, Sound, Documents, SameLayers
<1>2. CASE ~(~HasLayer(d, id) \/ d.layers[i].shown = shown)
  <2> DEFINE layer == [d.layers[i] EXCEPT !.shown = shown]
             then == [d.layers EXCEPT ![i] = layer]
             m == [d EXCEPT !.layers[i].shown = shown]
  <2>1. SetLayerShown(d, id, shown) = Edited(m)
    BY <1>2, Zenon DEF SetLayerShown
  <2>2. /\ d \in Documents /\ d.layers \in Seq(Layers) /\ i \in DOMAIN d.layers
        /\ Stacked(d.layers, d.width, d.next) /\ d.active \in Nat
        /\ (d.layers # <<>> => HasLayer(d, d.active))
    BY <1>2, LayerIsThere DEF Sound, Documents
  <2>3. m = [d EXCEPT !.layers = then]
    BY Zenon
  <2> HIDE DEF i, m
  <2>4. d.layers[i] \in Layers
    BY <2>2
  <2>5. layer \in Layers /\ layer.id = d.layers[i].id /\ layer.bits = d.layers[i].bits
    BY <2>4 DEF Layers
  <2> HIDE DEF layer
  <2>6. /\ then \in Seq(Layers) /\ DOMAIN then = DOMAIN d.layers
        /\ \A k \in DOMAIN then : then[k] = IF k = i THEN layer ELSE d.layers[k]
    BY <2>2, <2>5, ExceptSeq
  <2> HIDE DEF then
  <2>7. /\ m \in Documents /\ m.layers = then /\ m.width = d.width /\ m.next = d.next
        /\ m.active = d.active /\ m.undo = d.undo /\ m.redo = d.redo /\ m.stroke = d.stroke
    BY <2>2, <2>3, <2>6, WithLayers
  <2>8. \A k \in DOMAIN then : then[k].id = d.layers[k].id /\ then[k].bits = d.layers[k].bits
    BY <2>5, <2>6
  <2>9. Stacked(then, d.width, d.next)
    BY <2>2, <2>6, <2>8 DEF Stacked
  <2>10. HasLayer(m, m.active) \/ m.layers = <<>>
    BY <2>2, <2>6, <2>7, <2>8 DEF HasLayer, IndexesOf
  <2>11. Sound(m)
    BY <2>7, <2>9, <2>10 DEF Sound
  <2>12. Keeps(d, m)
    <3>1. \A k \in DOMAIN m.layers : KeepsPaint(d, m, k)
      BY <2>6, <2>7, <2>8 DEF KeepsPaint
    <3>2. KeepsStroke(d, m)
      BY <2>7 DEF KeepsStroke
    <3> QED
      BY <2>7, <3>1, <3>2 DEF Keeps, Sound, Documents
  <2> QED
    BY <2>1, <2>7, <2>11, <2>12, FineEdited, KeepsEdited
<1> QED
  BY <1>1, <1>2

LEMMA AddLayerFine ==
  ASSUME NEW d, Sound(d)
  PROVE  Fine(d, AddLayer(d))
  BY AddLayerIs DEF Fine, Shows, Marks

LEMMA SetActiveFine ==
  ASSUME NEW d, Sound(d), NEW id \in Nat
  PROVE  Fine(d, SetActiveLayer(d, id))
  BY SetActiveIsSound DEF Fine

LEMMA RenameFine ==
  ASSUME NEW d, Sound(d), NEW id
  PROVE  Fine(d, RenameLayer(d, id))
  BY RenameIsSound DEF Fine

-----------------------------------------------------------------------------
(* The strokes.                                                            *)

\* What is left alone by a change of the stroke.
SameButStroke(d, e) ==
    /\ SameLayers(d, e) /\ e.next = d.next /\ e.active = d.active /\ e.undo = d.undo
    /\ e.redo = d.redo /\ e.modified = d.modified /\ e.composite = d.composite

LEMMA SoundStroke ==
  ASSUME NEW d, Sound(d), NEW e \in Documents, SameButStroke(d, e)
  PROVE  Sound(e)
  BY SoundFrame DEF SameButStroke

LEMMA StrokeBeginIs ==
  ASSUME NEW d, Sound(d)
  PROVE  LET e == StrokeBegin(d)
         IN  /\ Sound(e) /\ SameButStroke(d, e) /\ e.stale = d.stale
             /\ e.stroke.on = TRUE /\ e.stroke.layer = d.active /\ e.stroke.rect = {}
             /\ e.stroke.foot = {} /\ e.stroke.buffer = {} /\ e.stroke.dirty = {}
<1> DEFINE before == IF HasLayer(d, d.active) THEN Pixels(d, d.active) ELSE <<>>
           stroke == [NoStroke EXCEPT !.on = TRUE, !.layer = d.active, !.before = before]
           e == StrokeBegin(d)
<1>1. d \in Documents /\ d.active \in Nat
  BY DEF Sound, Documents
<1>2. before \in Pieces
  BY PixelsAre, EmptyPiece
<1>3. e = [d EXCEPT !.stroke = stroke]
  BY DEF StrokeBegin
<1> HIDE DEF before, e
<1>4. /\ stroke \in Strokes /\ stroke.on = TRUE /\ stroke.layer = d.active /\ stroke.rect = {}
      /\ stroke.foot = {} /\ stroke.buffer = {} /\ stroke.dirty = {}
  <2>1. /\ NoStroke \in Strokes /\ NoStroke.rect = {} /\ NoStroke.foot = {}
        /\ NoStroke.buffer = {} /\ NoStroke.dirty = {}
    BY NoStrokeIs DEF NoStroke
  <2> QED
    BY <1>1, <1>2, <2>1 DEF Strokes
<1> HIDE DEF stroke
<1>5. /\ e \in Documents /\ SameButStroke(d, e) /\ e.stroke = stroke /\ e.stale = d.stale
  BY <1>1, <1>3, <1>4, WithStroke DEF SameButStroke
<1> QED
  BY <1>4, <1>5, SoundStroke DEF e

LEMMA GrownIs ==
  ASSUME NEW d \in Documents
  PROVE  LET e == Grown(d)
         IN  /\ e \in Documents /\ SameButStroke(d, e) /\ e.stale = d.stale
             /\ e.stroke = [d.stroke EXCEPT !.rect = IF d.stroke.on THEN @ \cup d.stroke.dirty ELSE @]
<1> DEFINE rect == IF d.stroke.on THEN d.stroke.rect \cup d.stroke.dirty ELSE d.stroke.rect
           stroke == [d.stroke EXCEPT !.rect = rect]
           e == Grown(d)
<1>1. d.stroke \in Strokes
  BY DEF Documents
<1>2. rect \in Rects
  BY <1>1 DEF Strokes, Rects
<1>3. e = [d EXCEPT !.stroke = [d.stroke EXCEPT !.rect = IF d.stroke.on THEN @ \cup d.stroke.dirty ELSE @]]
  BY Zenon DEF Grown
<1>4. [d.stroke EXCEPT !.rect = IF d.stroke.on THEN @ \cup d.stroke.dirty ELSE @] = stroke
  BY Zenon
<1> HIDE DEF rect, e
<1>5. stroke \in Strokes
  BY <1>1, <1>2 DEF Strokes
<1>6. e = [d EXCEPT !.stroke = stroke]
  BY <1>3, <1>4
<1> HIDE DEF stroke
<1>7. e \in Documents /\ SameButStroke(d, e) /\ e.stroke = stroke /\ e.stale = d.stale
  BY <1>5, <1>6, WithStroke DEF SameButStroke
<1> QED
  BY <1>4, <1>7 DEF e

\* A touch grows the rectangle of its stroke by what it touched.
LEMMA TouchedIs ==
  ASSUME NEW d \in Documents, NEW cells
  PROVE  LET e == Grown(MarkDirty(d, cells))
             on == cells \cap Cells(d.width)
         IN  /\ e \in Documents /\ SameButStroke(d, e) /\ e.stale = (d.stale \/ on # {})
             /\ e.stroke.on = d.stroke.on /\ e.stroke.layer = d.stroke.layer
             /\ e.stroke.before = d.stroke.before /\ e.stroke.buffer = d.stroke.buffer
             /\ e.stroke.foot = d.stroke.foot /\ d.stroke.rect \subseteq e.stroke.rect
             /\ d.stroke.on => on \subseteq e.stroke.rect
             /\ e.stroke.rect \subseteq d.stroke.rect \cup d.stroke.dirty \cup on
             /\ e.stroke.dirty = d.stroke.dirty \cup on
<1> DEFINE on == cells \cap Cells(d.width)
           m == MarkDirty(d, cells)
           e == Grown(m)
<1>1. d.stroke \in Strokes
  BY DEF Documents
<1>2. /\ m \in Documents /\ SameButStroke(d, m) /\ m.stroke = [d.stroke EXCEPT !.dirty = @ \cup on]
      /\ m.stale = (d.stale \/ on # {})
  BY MarkDirtyIs DEF SameButStroke
<1> HIDE DEF on, m
<1>3. /\ e \in Documents /\ SameButStroke(m, e) /\ e.stale = m.stale
      /\ e.stroke = [m.stroke EXCEPT !.rect = IF m.stroke.on THEN @ \cup m.stroke.dirty ELSE @]
  BY <1>2, GrownIs
<1> HIDE DEF e
<1>4. /\ m.stroke.on = d.stroke.on /\ m.stroke.layer = d.stroke.layer
      /\ m.stroke.before = d.stroke.before /\ m.stroke.buffer = d.stroke.buffer
      /\ m.stroke.foot = d.stroke.foot /\ m.stroke.rect = d.stroke.rect
      /\ m.stroke.dirty = d.stroke.dirty \cup on /\ m.stroke \in Strokes
  BY <1>1, <1>2 DEF Strokes, Documents
<1>5. /\ e.stroke.on = d.stroke.on /\ e.stroke.layer = d.stroke.layer
      /\ e.stroke.before = d.stroke.before /\ e.stroke.buffer = d.stroke.buffer
      /\ e.stroke.foot = d.stroke.foot /\ d.stroke.rect \subseteq e.stroke.rect
      /\ d.stroke.on => on \subseteq e.stroke.rect
      /\ e.stroke.rect \subseteq d.stroke.rect \cup d.stroke.dirty \cup on
      /\ e.stroke.dirty = d.stroke.dirty \cup on
  BY <1>3, <1>4 DEF Strokes
<1>6. SameButStroke(d, e)
  BY <1>2, <1>3 DEF SameButStroke, SameLayers
<1> QED
  BY <1>2, <1>3, <1>5, <1>6 DEF e, m, on

\* Paint on the active layer alone, and, during a stroke, where the stroke's
\* rectangle comes to be.
StrokeGrows(d, e) ==
    /\ e.stroke.on = d.stroke.on /\ e.stroke.layer = d.stroke.layer
    /\ e.stroke.before = d.stroke.before /\ d.stroke.rect \subseteq e.stroke.rect
    /\ e.stroke.rect \subseteq d.stroke.rect \cup d.stroke.dirty \cup Cells(d.width)
    /\ e.stroke.dirty \subseteq d.stroke.dirty \cup Cells(d.width)
    /\ \A b \in e.stroke.buffer : b \in d.stroke.buffer \/ (d.stroke.on /\ b.cell \in e.stroke.rect)
PaintStays(d, e, k) ==
    /\ e.layers[k].id = d.layers[k].id
    /\ d.layers[k].id # d.active => e.layers[k].bits = d.layers[k].bits
    /\ d.stroke.on => \A c \in Cells(d.width) \ e.stroke.rect : e.layers[k].bits[c] = d.layers[k].bits[c]
Brushed(d, e) ==
    /\ e.width = d.width /\ e.next = d.next /\ e.active = d.active
    /\ e.undo = d.undo /\ e.redo = d.redo /\ StrokeGrows(d, e)
    /\ DOMAIN e.layers = DOMAIN d.layers /\ \A k \in DOMAIN d.layers : PaintStays(d, e, k)

\* One touch of a tool: what it lays down it composes again, and what it
\* lays down on a layer itself is of a stroke that holds it, or stray.
Touch(d, e) ==
    /\ Sound(e) /\ Brushed(d, e) /\ e.composite = d.composite /\ e.modified = d.modified
    /\ e.stroke.on = d.stroke.on
    /\ e.stale \/ (SameLayers(d, e) /\ ~d.stale)
    /\ d.stroke.on /\ d.stroke.foot = {} => SameLayers(d, e)
    /\ Stray(d, e) \/ Mixed(e) \/ (SameLayers(d, e) /\ ~Mixed(d))

LEMMA TouchNone ==
  ASSUME NEW d, Sound(d)
  PROVE  Touch(d, d)
<1>1. Brushed(d, d)
  BY DEF Brushed, StrokeGrows, PaintStays
<1> QED
  BY <1>1 DEF Touch, Sound, Documents, SameLayers

\* A change of the stroke alone.
LEMMA BrushedStroke ==
  ASSUME NEW d, NEW e, SameButStroke(d, e), StrokeGrows(d, e)
  PROVE  Brushed(d, e)
  BY DEF Brushed, PaintStays, SameButStroke, SameLayers

LEMMA BrushedLayer ==
  ASSUME NEW d, Sound(d), NEW e, e.width = d.width,
         NEW k \in DOMAIN d.layers, NEW bits \in [Cells(d.width) -> Paint],
         e.layers = Repainted(d.layers, k, bits), d.layers[k].id = d.active,
         e.next = d.next, e.undo = d.undo, e.redo = d.redo, e.active = d.active, StrokeGrows(d, e),
         d.stroke.on => \A c \in Cells(d.width) \ e.stroke.rect : bits[c] = d.layers[k].bits[c]
  PROVE  Brushed(d, e)
<1>1. /\ d.width \in Cells(MaxWidth) /\ d.layers \in Seq(Layers) /\ Stacked(d.layers, d.width, d.next)
  BY DEF Sound, Documents
<1>2. /\ DOMAIN e.layers = DOMAIN d.layers
      /\ \A j \in DOMAIN d.layers :
           e.layers[j].id = d.layers[j].id /\ e.layers[j].bits = IF j = k THEN bits ELSE d.layers[j].bits
  BY <1>1, RepaintedIs
<1>3. ASSUME NEW j \in DOMAIN d.layers PROVE PaintStays(d, e, j)
  BY <1>2 DEF PaintStays
<1> QED
  BY <1>2, <1>3 DEF Brushed

\* Paint on a layer outside a stroke.
LEMMA TouchRepainted ==
  ASSUME NEW d, Sound(d), NEW e \in Documents, e.width = d.width,
         NEW k \in DOMAIN d.layers, NEW bits \in [Cells(d.width) -> Paint],
         e.layers = Repainted(d.layers, k, bits),
         e.next = d.next, e.undo = d.undo, e.redo = d.redo, e.active = d.active,
         e.composite = d.composite, e.modified = d.modified, e.stroke.on = d.stroke.on,
         e.stale \/ (~d.stale /\ bits = d.layers[k].bits),
         d.stroke.on => d.stroke.foot # {},
         Mixed(d) => Mixed(e),
         d.stroke.on /\ d.active = d.stroke.layer /\ d.stroke.before # <<>> => Mixed(e),
         d.layers[k].id = d.active, StrokeGrows(d, e),
         d.stroke.on => \A c \in Cells(d.width) \ e.stroke.rect : bits[c] = d.layers[k].bits[c]
  PROVE  Touch(d, e)
<1>1. /\ d \in Documents /\ d.width \in Cells(MaxWidth) /\ d.layers \in Seq(Layers)
      /\ Stacked(d.layers, d.width, d.next)
  BY DEF Sound, Documents
<1>2. /\ e.layers[k].bits = bits /\ (bits = d.layers[k].bits => e.layers = d.layers)
  BY <1>1, RepaintedIs
<1>3. Sound(e)
  BY SoundRepainted
<1>4. Stray(d, e) \/ Mixed(e) \/ (SameLayers(d, e) /\ ~Mixed(d))
  BY <1>2 DEF Stray, SameLayers
<1>5. Brushed(d, e)
  BY BrushedLayer
<1> QED
  BY <1>2, <1>3, <1>4, <1>5 DEF Touch, SameLayers

LEMMA DabIs ==
  ASSUME NEW d, Sound(d), NEW cells, NEW ink \in Paint
  PROVE  Touch(d, Dab(d, cells, ink))
<1> DEFINE on == cells \cap Cells(d.width)
           buffer == {b \in d.stroke.buffer : b.cell \notin on} \cup {[cell |-> c, ink |-> ink] : c \in on}
           erase == d.stroke.erase \/ ink = Bare
           stroke == [d.stroke EXCEPT !.buffer = buffer, !.erase = erase]
           k == LayerIx(d, d.active)
           bits == [c \in DOMAIN d.layers[k].bits |-> IF c \in on THEN ink ELSE d.layers[k].bits[c]]
           painted == Repainted(d.layers, k, bits)
           b1 == [d EXCEPT !.stroke = stroke]
           l1 == [d EXCEPT !.layers = painted]
           e == Dab(d, cells, ink)
<1>1. /\ d \in Documents /\ d.stroke \in Strokes /\ d.layers \in Seq(Layers)
      /\ d.width \in Cells(MaxWidth) /\ Stacked(d.layers, d.width, d.next)
  BY DEF Sound, Documents
<1>2. on \cap Cells(d.width) = on /\ on \in Rects
  BY <1>1, WidthIsRect DEF Rects
<1>3. CASE ~HasLayer(d, d.active)
  BY <1>3, TouchNone DEF Dab
<1>4. CASE HasLayer(d, d.active) /\ d.stroke.on
  <2>1. b1 = [d EXCEPT !.stroke.buffer = {b \in @ : b.cell \notin on}
                                           \cup {[cell |-> c, ink |-> ink] : c \in on},
                       !.stroke.erase = @ \/ ink = Bare]
    <3> HIDE DEF on
    <3>1. buffer = {b \in d.stroke.buffer : b.cell \notin on} \cup {[cell |-> c, ink |-> ink] : c \in on}
          /\ erase = (d.stroke.erase \/ ink = Bare)
      OBVIOUS
    <3> HIDE DEF buffer, erase
    <3>2. b1 = [[d EXCEPT !.stroke.buffer = buffer] EXCEPT !.stroke.erase = erase]
      BY <1>1 DEF Documents, Strokes
    <3> QED
      BY <1>1, <3>1, <3>2 DEF Documents, Strokes
  <2>2. e = Grown(MarkDirty(b1, on))
    BY <1>4, <2>1, Zenon DEF Dab
  <2>3. stroke \in Strokes /\ stroke.on = d.stroke.on /\ stroke.layer = d.stroke.layer
        /\ stroke.before = d.stroke.before /\ stroke.rect = d.stroke.rect /\ stroke.foot = d.stroke.foot
        /\ stroke.dirty = d.stroke.dirty
        /\ \A b \in stroke.buffer : b \in d.stroke.buffer \/ b.cell \in on
    <3>1. buffer \in SUBSET [cell : Cells(MaxWidth), ink : Paint] /\ erase \in BOOLEAN
      BY <1>1, <1>2 DEF Strokes, Rects
    <3>2. \A b \in buffer : b \in d.stroke.buffer \/ b.cell \in on
      OBVIOUS
    <3> HIDE DEF buffer, erase
    <3> QED
      BY <1>1, <3>1, <3>2 DEF Strokes
  <2> HIDE DEF stroke, on
  <2>4. b1 \in Documents /\ SameButStroke(d, b1) /\ b1.stroke = stroke /\ b1.stale = d.stale
    BY <1>1, <2>3, WithStroke DEF SameButStroke
  <2> HIDE DEF b1, e
  <2>5. /\ e \in Documents /\ SameButStroke(b1, e) /\ e.stale = (b1.stale \/ on # {})
        /\ e.stroke.on = b1.stroke.on /\ e.stroke.layer = b1.stroke.layer
        /\ e.stroke.before = b1.stroke.before /\ e.stroke.buffer = b1.stroke.buffer
        /\ e.stroke.foot = b1.stroke.foot /\ b1.stroke.rect \subseteq e.stroke.rect
        /\ b1.stroke.on => on \subseteq e.stroke.rect
        /\ e.stroke.rect \subseteq b1.stroke.rect \cup b1.stroke.dirty \cup on
        /\ e.stroke.dirty = b1.stroke.dirty \cup on
    BY <1>2, <2>2, <2>4, TouchedIs DEF SameButStroke, SameLayers
  <2>6. SameButStroke(d, e)
    BY <2>4, <2>5 DEF SameButStroke, SameLayers
  <2>7. Sound(e)
    BY <2>5, <2>6, SoundStroke
  <2>8. Mixed(d) => Mixed(e)
    BY <2>3, <2>4, <2>5, <2>6, SameLayersHave DEF Mixed, SameButStroke, SameLayers
  <2>9. d.stale \in BOOLEAN
    BY <1>1 DEF Documents
  <2>11. StrokeGrows(d, e)
    <3>1. on \subseteq Cells(d.width)
      BY DEF on
    <3> QED
      BY <1>4, <2>3, <2>4, <2>5, <3>1 DEF StrokeGrows
  <2>12. Brushed(d, e)
    BY <2>6, <2>11, BrushedStroke
  <2>10. Touch(d, e)
    BY <2>3, <2>4, <2>5, <2>6, <2>7, <2>8, <2>9, <2>12 DEF Touch, SameButStroke
  <2> QED
    BY <2>10 DEF e
<1>5. CASE HasLayer(d, d.active) /\ ~d.stroke.on
  <2>1. l1 = [d EXCEPT !.layers[k].bits = [c \in DOMAIN @ |-> IF c \in on THEN ink ELSE @[c]]]
    BY Zenon DEF Repainted
  <2>2. e = Grown(MarkDirty(l1, on))
    BY <1>5, <2>1, Zenon DEF Dab
  <2>3. k \in DOMAIN d.layers /\ d.layers[k].bits \in [Cells(d.width) -> Paint] /\ d.layers[k].id = d.active
    BY <1>1, <1>5, LayerIsThere DEF Stacked
  <2>4. bits \in [Cells(d.width) -> Paint] /\ (on = {} => bits = d.layers[k].bits)
    BY <2>3
  <2> HIDE DEF on, bits, k
  <2>5. painted \in Seq(Layers)
    BY <1>1, <2>3, <2>4, RepaintedIs
  <2> HIDE DEF painted
  <2>6. l1 \in Documents /\ l1.layers = painted /\ l1.width = d.width /\ l1.next = d.next
        /\ l1.active = d.active /\ l1.undo = d.undo /\ l1.redo = d.redo /\ l1.modified = d.modified
        /\ l1.stroke = d.stroke /\ l1.stale = d.stale /\ l1.composite = d.composite
    BY <1>1, <2>5, WithLayers
  <2> HIDE DEF l1, e
  <2>7. /\ e \in Documents /\ SameButStroke(l1, e) /\ e.stale = (l1.stale \/ on # {})
        /\ e.stroke.on = l1.stroke.on /\ e.stroke.layer = l1.stroke.layer
        /\ e.stroke.before = l1.stroke.before /\ e.stroke.buffer = l1.stroke.buffer
        /\ l1.stroke.rect \subseteq e.stroke.rect
        /\ e.stroke.rect \subseteq l1.stroke.rect \cup l1.stroke.dirty \cup on
        /\ e.stroke.dirty = l1.stroke.dirty \cup on
    BY <1>2, <2>2, <2>6, TouchedIs
  <2>11. StrokeGrows(d, e)
    <3>1. on \subseteq Cells(d.width)
      BY DEF on
    <3> QED
      BY <2>6, <2>7, <3>1 DEF StrokeGrows
  <2>8. e.stale \/ (~d.stale /\ bits = d.layers[k].bits)
    BY <1>1, <2>4, <2>6, <2>7 DEF Documents
  <2>9. ~Mixed(d)
    BY <1>5 DEF Mixed
  <2>10. Touch(d, e)
    BY <1>5, <2>3, <2>4, <2>6, <2>7, <2>8, <2>9, <2>11, TouchRepainted DEF SameButStroke, SameLayers, painted
  <2> QED
    BY <2>10 DEF e
<1> QED
  BY <1>3, <1>4, <1>5

LEMMA SmudgeIs ==
  ASSUME NEW d, Sound(d), NEW cell, NEW keep \in BOOLEAN
  PROVE  Touch(d, Smudge(d, cell, keep))
<1> DEFINE k == LayerIx(d, d.active)
           mixed == Mixture(d, cell, keep)
           seen == IF cell \in Cells(d.width) THEN Pixels(d, d.active)[cell] ELSE Bare
           old == d.layers[k].bits
           bits == [old EXCEPT ![cell] = mixed]
           painted == Repainted(d.layers, k, bits)
           e == Smudge(d, cell, keep)
<1>1. /\ d \in Documents /\ d.stroke \in Strokes /\ d.layers \in Seq(Layers)
      /\ d.width \in Cells(MaxWidth) /\ Stacked(d.layers, d.width, d.next)
  BY DEF Sound, Documents
<1>2. CASE ~HasLayer(d, d.active) \/ (d.stroke.foot # {} /\ cell \notin Cells(d.width))
  BY <1>2, TouchNone DEF Smudge
<1>3. CASE HasLayer(d, d.active) /\ d.stroke.foot = {}
  <2> DEFINE stroke == [d.stroke EXCEPT !.foot = {seen}]
  <2>1. e = [d EXCEPT !.stroke = stroke]
    BY <1>3, Zenon DEF Smudge
  <2>2. seen \in Paint
    BY <1>3, PixelsAre DEF Paint
  <2> HIDE DEF seen
  <2>3. /\ stroke \in Strokes /\ stroke.on = d.stroke.on /\ stroke.layer = d.stroke.layer
        /\ stroke.before = d.stroke.before /\ stroke.rect = d.stroke.rect /\ stroke.dirty = d.stroke.dirty
        /\ stroke.buffer = d.stroke.buffer
    BY <1>1, <2>2 DEF Strokes
  <2> HIDE DEF stroke, e
  <2>4. e \in Documents /\ SameButStroke(d, e) /\ e.stroke = stroke /\ e.stale = d.stale
    BY <1>1, <2>1, <2>3, WithStroke DEF SameButStroke
  <2>5. Sound(e)
    BY <2>4, SoundStroke
  <2>6. ~Mixed(d) /\ d.stale \in BOOLEAN
    BY <1>1, <1>3 DEF Mixed, Documents
  <2>8. StrokeGrows(d, e)
    BY <2>3, <2>4 DEF StrokeGrows
  <2>7. Touch(d, e)
    BY <2>3, <2>4, <2>5, <2>6, <2>8, BrushedStroke DEF Touch, SameButStroke
  <2> QED
    BY <2>7 DEF e
<1>4. CASE HasLayer(d, d.active) /\ d.stroke.foot # {} /\ cell \in Cells(d.width)
  <2> DEFINE stroke == [d.stroke EXCEPT !.foot = {mixed}]
             m == [[d EXCEPT !.layers = painted] EXCEPT !.stroke = stroke]
  <2>1. [d EXCEPT !.layers[LayerIx(d, d.active)].bits[cell] = mixed, !.stroke.foot = {mixed}] = m
    <3>1. [d EXCEPT !.layers[k].bits[cell] = mixed] = [d EXCEPT !.layers = painted]
      BY Zenon DEF Repainted
    <3>2. [d EXCEPT !.layers[k].bits[cell] = mixed, !.stroke.foot = {mixed}]
            = [[d EXCEPT !.layers[k].bits[cell] = mixed] EXCEPT !.stroke.foot = {mixed}]
      BY Zenon
    <3> HIDE DEF painted, mixed
    <3>3. [[d EXCEPT !.layers = painted] EXCEPT !.stroke.foot = {mixed}]
            = [[d EXCEPT !.layers = painted] EXCEPT !.stroke = stroke]
      BY <1>1 DEF Documents
    <3> QED
      BY <3>1, <3>2, <3>3
  <2>2. e = Grown(MarkDirty(m, {cell}))
    BY <1>4, <2>1, Zenon DEF Smudge
  <2>3. /\ k \in DOMAIN d.layers /\ old \in [Cells(d.width) -> Paint] /\ Pixels(d, d.active) = old
        /\ d.layers[k].id = d.active
    BY <1>1, <1>4, LayerIsThere DEF Stacked, Pixels
  <2>4. mixed \in Paint
    BY <1>1, <1>4, <2>3 DEF Mixture, Strokes
  <2> HIDE DEF mixed, old, k
  <2>5. bits \in [Cells(d.width) -> Paint] /\ \A c \in Cells(d.width) \ {cell} : bits[c] = old[c]
    BY <2>3, <2>4
  <2> HIDE DEF bits
  <2>6. painted \in Seq(Layers) /\ painted = Repainted(d.layers, k, bits)
    BY <1>1, <2>3, <2>5, RepaintedIs DEF old
  <2>7. stroke \in Strokes /\ stroke.on = d.stroke.on /\ stroke.layer = d.stroke.layer
        /\ stroke.before = d.stroke.before /\ stroke.rect = d.stroke.rect /\ stroke.foot = {mixed}
        /\ stroke.dirty = d.stroke.dirty /\ stroke.buffer = d.stroke.buffer
    BY <1>1, <2>4 DEF Strokes
  <2> HIDE DEF painted, stroke
  <2>8. /\ m \in Documents /\ m.layers = painted /\ m.width = d.width /\ m.next = d.next
        /\ m.active = d.active /\ m.undo = d.undo /\ m.redo = d.redo /\ m.modified = d.modified
        /\ m.stroke = stroke /\ m.stale = d.stale /\ m.composite = d.composite
    <3> DEFINE m1 == [d EXCEPT !.layers = painted]
    <3>1. /\ m1 \in Documents /\ m1.layers = painted /\ m1.width = d.width /\ m1.next = d.next
          /\ m1.active = d.active /\ m1.undo = d.undo /\ m1.redo = d.redo /\ m1.modified = d.modified
          /\ m1.stroke = d.stroke /\ m1.stale = d.stale /\ m1.composite = d.composite
      BY <1>1, <2>6, WithLayers
    <3> HIDE DEF m1
    <3>2. m = [m1 EXCEPT !.stroke = stroke]
      BY Zenon DEF m1
    <3> HIDE DEF m
    <3> QED
      BY <2>7, <3>1, <3>2, WithStroke DEF SameLayers
  <2> HIDE DEF m, e
  <2>9. {cell} \cap Cells(m.width) = {cell}
    BY <1>4, <2>8
  <2>10. /\ e \in Documents /\ SameButStroke(m, e) /\ e.stale = TRUE
         /\ e.stroke.on = d.stroke.on /\ e.stroke.layer = d.stroke.layer
         /\ e.stroke.before = d.stroke.before /\ e.stroke.foot = {mixed}
         /\ d.stroke.on => cell \in e.stroke.rect
         /\ StrokeGrows(d, e)
    <3> DEFINE on == {cell} \cap Cells(m.width)
    <3>1. /\ e \in Documents /\ SameButStroke(m, e) /\ e.stale = (m.stale \/ on # {})
          /\ e.stroke.on = m.stroke.on /\ e.stroke.layer = m.stroke.layer
          /\ e.stroke.before = m.stroke.before /\ e.stroke.foot = m.stroke.foot
          /\ m.stroke.on => on \subseteq e.stroke.rect
          /\ e.stroke.buffer = m.stroke.buffer /\ m.stroke.rect \subseteq e.stroke.rect
          /\ e.stroke.rect \subseteq m.stroke.rect \cup m.stroke.dirty \cup on
          /\ e.stroke.dirty = m.stroke.dirty \cup on
      BY <2>2, <2>8, TouchedIs
    <3>2. on = {cell} /\ on \subseteq Cells(d.width)
      BY <2>8, <2>9
    <3> HIDE DEF on
    <3>3. StrokeGrows(d, e)
      BY <2>7, <2>8, <3>1, <3>2 DEF StrokeGrows
    <3> QED
      BY <2>7, <2>8, <3>1, <3>2, <3>3
  <2>11. \A id : HasLayer(d, id) => HasLayer(e, id)
    <3>1. DOMAIN painted = DOMAIN d.layers /\ \A j \in DOMAIN d.layers : painted[j].id = d.layers[j].id
      BY <1>1, <2>3, <2>5, <2>6, RepaintedIs
    <3>2. e.layers = painted
      BY <2>8, <2>10 DEF SameButStroke, SameLayers
    <3> QED
      BY <3>1, <3>2, SameIdsHave
  <2>12. Mixed(d) => Mixed(e)
    BY <2>10, <2>11 DEF Mixed
  <2>13. d.stroke.on /\ d.active = d.stroke.layer /\ d.stroke.before # <<>> => Mixed(e)
    BY <1>4, <2>10, <2>11 DEF Mixed
  <2>14. Touch(d, e)
    <3>1. d.stroke.on => \A c \in Cells(d.width) \ e.stroke.rect : bits[c] = d.layers[k].bits[c]
      BY <2>5, <2>10 DEF old
    <3> QED
      BY <1>4, <2>3, <2>5, <2>6, <2>8, <2>10, <2>12, <2>13, <3>1, TouchRepainted DEF SameButStroke, SameLayers
  <2> QED
    BY <2>14 DEF e
<1> QED
  BY <1>2, <1>3, <1>4

\* Whatever the tool is, it touches.
LEMMA PaintDabsAre ==
  ASSUME NEW d, Sound(d), NEW tool \in Tools, NEW cell, NEW e \in PaintDabs(d, tool, cell)
  PROVE  Touch(d, e)
<1>1. Inks \subseteq Paint /\ Bare \in Paint
  BY DEF Paint
<1>2. CASE tool \in {"brush", "shape"}
  <2>1. \E ink \in Inks : e = Dab(d, {cell}, ink)
    BY <1>2 DEF PaintDabs
  <2> QED
    BY <1>1, <2>1, DabIs
<1>3. CASE tool = "eraser"
  <2>1. e = Dab(d, {cell}, Bare)
    BY <1>3 DEF PaintDabs
  <2> QED
    BY <1>1, <2>1, DabIs
<1>4. CASE tool = "smudge"
  <2>1. \E keep \in BOOLEAN : e = Smudge(d, cell, keep)
    BY <1>4 DEF PaintDabs
  <2> QED
    BY <2>1, SmudgeIs
<1>5. CASE tool = "fill"
  <2>1. e = d
    BY <1>5 DEF PaintDabs
  <2> QED
    BY <2>1, TouchNone
<1> QED
  BY <1>2, <1>3, <1>4, <1>5 DEF Tools

LEMMA FillAtIs ==
  ASSUME NEW d, Sound(d), NEW seed, NEW ink \in Paint
  PROVE  LET e == FillAt(d, seed, ink)
         IN  /\ Sound(e) /\ e.stroke.on = d.stroke.on /\ Brushed(d, e)
             /\ e = d \/ (e.modified = TRUE /\ e.stale = TRUE)
<1> DEFINE k == LayerIx(d, d.active)
           old == d.layers[k].bits
           near == {c \in DOMAIN old :
                      \A x \in DOMAIN old :
                         (seed <= x /\ x <= c) \/ (c <= x /\ x <= seed) => old[x] = old[seed]}
           bits == [c \in DOMAIN old |-> IF c \in near THEN ink ELSE old[c]]
           painted == Repainted(d.layers, k, bits)
           m == [d EXCEPT !.layers = painted]
           full == Edited(m)
           e == FillAt(d, seed, ink)
<1>1. /\ d \in Documents /\ d.stroke \in Strokes /\ d.layers \in Seq(Layers)
      /\ d.width \in Cells(MaxWidth) /\ Stacked(d.layers, d.width, d.next)
  BY DEF Sound, Documents
<1>2. CASE ~HasLayer(d, d.active) \/ seed \notin Cells(d.width)
  BY <1>2, TouchNone DEF FillAt, Touch
<1>3. CASE ~(~HasLayer(d, d.active) \/ seed \notin Cells(d.width))
  <2> DEFINE rect == IF d.stroke.on THEN full.stroke.rect \cup Cells(d.width) ELSE full.stroke.rect
             stroke == [full.stroke EXCEPT !.rect = rect]
  <2>1. e = [full EXCEPT !.stroke = stroke]
    <3>1. m = [d EXCEPT !.layers[k].bits = bits]
      BY Zenon DEF Repainted
    <3> HIDE DEF m
    <3>2. e = [Edited([d EXCEPT !.layers[k].bits = bits]) EXCEPT
                 !.stroke.rect = IF d.stroke.on THEN @ \cup Cells(d.width) ELSE @]
      BY <1>3, Zenon DEF FillAt, Pixels
    <3> HIDE DEF k, bits
    <3>3. e = [full EXCEPT !.stroke.rect = IF d.stroke.on THEN @ \cup Cells(d.width) ELSE @]
      BY <3>1, <3>2
    <3> HIDE DEF full, e
    <3> QED
      BY <3>3, Zenon
  <2>2. k \in DOMAIN d.layers /\ old \in [Cells(d.width) -> Paint] /\ d.layers[k].id = d.active
    BY <1>1, <1>3, LayerIsThere DEF Stacked
  <2> HIDE DEF old, k
  <2>3. bits \in [Cells(d.width) -> Paint]
    BY <2>2
  <2> HIDE DEF bits
  <2>4. painted \in Seq(Layers)
    BY <1>1, <2>2, <2>3, RepaintedIs
  <2> HIDE DEF painted
  <2>5. /\ m \in Documents /\ m.layers = painted /\ m.width = d.width /\ m.next = d.next
        /\ m.active = d.active /\ m.undo = d.undo /\ m.redo = d.redo /\ m.stroke = d.stroke
    BY <1>1, <2>4, WithLayers
  <2> HIDE DEF m
  <2>6. Sound(m)
    BY <2>2, <2>3, <2>5, SoundRepainted DEF painted
  <2>7. Fine(d, full)
    BY <2>5, <2>6, FineEdited
  <2>8. /\ full \in Documents /\ full.modified = TRUE /\ full.stale = TRUE
        /\ full.stroke = [d.stroke EXCEPT !.dirty = @ \cup Cells(d.width)]
        /\ full.width = d.width /\ full.layers = painted /\ full.next = d.next /\ full.active = d.active
        /\ full.undo = d.undo /\ full.redo = d.redo
    BY <2>5, EditedIs DEF SameLayers
  <2> HIDE DEF full
  <2>13. /\ full.stroke.on = d.stroke.on /\ full.stroke.layer = d.stroke.layer
         /\ full.stroke.before = d.stroke.before /\ full.stroke.rect = d.stroke.rect
         /\ full.stroke.dirty = d.stroke.dirty \cup Cells(d.width) /\ full.stroke.buffer = d.stroke.buffer
    BY <1>1, <2>8 DEF Strokes
  <2>9. /\ rect \in Rects /\ full.stroke \in Strokes /\ d.stroke.rect \subseteq rect
        /\ rect \subseteq d.stroke.rect \cup Cells(d.width) /\ (d.stroke.on => Cells(d.width) \subseteq rect)
    BY <1>1, <2>8, <2>13, WidthIsRect DEF Documents, Strokes, Rects
  <2> HIDE DEF rect
  <2>10. /\ stroke \in Strokes /\ stroke.on = full.stroke.on /\ stroke.layer = d.stroke.layer
         /\ stroke.before = d.stroke.before /\ stroke.rect = rect /\ stroke.buffer = d.stroke.buffer
         /\ stroke.dirty = d.stroke.dirty \cup Cells(d.width)
    BY <2>9, <2>13 DEF Strokes
  <2> HIDE DEF stroke, e
  <2>11. e \in Documents /\ SameButStroke(full, e) /\ e.stroke = stroke /\ e.stale = full.stale
    BY <2>1, <2>8, <2>10, WithStroke DEF SameButStroke
  <2>12. Sound(e)
    BY <2>7, <2>11, SoundStroke DEF Fine
  <2>14. StrokeGrows(d, e)
    BY <2>9, <2>10, <2>11, <2>13 DEF StrokeGrows
  <2>15. Brushed(d, e)
    <3>1. d.stroke.on => \A c \in Cells(d.width) \ e.stroke.rect : bits[c] = d.layers[k].bits[c]
      BY <2>9, <2>10, <2>11
    <3> QED
      BY <2>2, <2>3, <2>8, <2>11, <2>14, <3>1, BrushedLayer DEF SameButStroke, SameLayers, painted
  <2> QED
    BY <2>7, <2>8, <2>10, <2>11, <2>12, <2>15 DEF Fine, SameButStroke, e
<1> QED
  BY <1>2, <1>3

LEMMA LandedIs ==
  ASSUME NEW width, NEW bits \in [Cells(width) -> Paint], NEW s \in Strokes
  PROVE  /\ Landed(bits, s) \in [Cells(width) -> Paint]
         /\ s.buffer = {} => Landed(bits, s) = bits
         /\ \A c \in Cells(width) : (\A b \in s.buffer : b.cell # c) => Landed(bits, s)[c] = bits[c]
<1> DEFINE touched(c) == {b \in s.buffer : b.cell = c}
           land(c) == IF touched(c) = {} THEN bits[c]
                      ELSE IF s.erase THEN Bare ELSE (CHOOSE b \in touched(c) : TRUE).ink
<1>1. ASSUME NEW c \in Cells(width) PROVE land(c) \in Paint
  <2>1. CASE touched(c) = {} \/ s.erase
    BY <2>1 DEF Paint
  <2>2. CASE ~(touched(c) = {} \/ s.erase)
    <3>1. (CHOOSE b \in touched(c) : TRUE) \in touched(c)
      BY <2>2
    <3>2. (CHOOSE b \in touched(c) : TRUE) \in [cell : Cells(MaxWidth), ink : Paint]
      BY <3>1 DEF Strokes
    <3> QED
      BY <2>2, <3>2
  <2> QED
    BY <2>1, <2>2
<1>2. s.buffer = {} => \A c \in Cells(width) : land(c) = bits[c]
  OBVIOUS
<1>3. Landed(bits, s) = [c \in Cells(width) |-> land(c)]
  BY DEF Landed
<1>4. \A c \in Cells(width) : (\A b \in s.buffer : b.cell # c) => land(c) = bits[c]
  OBVIOUS
<1> HIDE DEF land
<1> QED
  BY <1>1, <1>2, <1>3, <1>4

\* A step joins the undo stack, which drops its oldest when it is full.
LEMMA StackIs ==
  ASSUME NEW steps \in Seq(Undoables), NEW next, Undoes(steps, next), Len(steps) <= UndoCap,
         NEW step \in Undoables, step.layer \in 1 .. next - 1,
         DOMAIN step.before \subseteq step.rect, DOMAIN step.after \subseteq step.rect
  PROVE  LET stack == Append(steps, step)
             then == IF Len(stack) > UndoCap THEN Tail(stack) ELSE stack
         IN  then \in Seq(Undoables) /\ Undoes(then, next) /\ Len(then) <= UndoCap
<1> DEFINE stack == Append(steps, step)
           n == Len(steps)
           tail == Tail(stack)
<1>1. /\ n \in Nat /\ DOMAIN steps = 1 .. n /\ stack \in Seq(Undoables) /\ Len(stack) = n + 1
      /\ DOMAIN stack = 1 .. n + 1 /\ stack[n + 1] = step /\ \A k \in 1 .. n : stack[k] = steps[k]
      /\ stack # <<>> /\ UndoCap \in Nat \ {0}
  BY PaintAssumption
<1> HIDE DEF stack, n
<1>2. Undoes(stack, next)
  <2> SUFFICES ASSUME NEW k \in 1 .. n + 1
               PROVE  /\ stack[k].layer \in 1 .. next - 1
                      /\ DOMAIN stack[k].before \subseteq stack[k].rect
                      /\ DOMAIN stack[k].after \subseteq stack[k].rect
    BY <1>1 DEF Undoes
  <2>1. CASE k = n + 1
    BY <1>1, <2>1
  <2>2. CASE k # n + 1
    BY SMTT(60), <1>1, <2>2 DEF Undoes
  <2> QED
    BY <2>1, <2>2
<1>3. /\ tail \in Seq(Undoables) /\ Len(tail) = n /\ DOMAIN tail = 1 .. n
      /\ \A k \in 1 .. n : tail[k] = stack[k + 1]
  BY <1>1
<1> HIDE DEF tail
<1>4. Undoes(tail, next)
  <2>1. \A k \in 1 .. n : k + 1 \in DOMAIN stack
    BY <1>1
  <2> QED
    BY <1>2, <1>3, <2>1 DEF Undoes
<1>5. n <= UndoCap
  BY DEF n
<1> QED
  BY <1>1, <1>2, <1>3, <1>4, <1>5 DEF stack, tail

\* A piece cut to a rectangle.
LEMMA CutIs ==
  ASSUME NEW piece \in Pieces, NEW rect \in Rects
  PROVE  LET cut == [c \in rect \cap DOMAIN piece |-> piece[c]]
         IN  cut \in Pieces /\ DOMAIN cut \subseteq rect
<1>1. PICK r \in Rects : piece \in [r -> Paint]
  BY DEF Pieces
<1>2. rect \cap r \in Rects
  BY DEF Rects
<1>3. [c \in rect \cap DOMAIN piece |-> piece[c]] \in [rect \cap r -> Paint]
  BY <1>1
<1> QED
  BY <1>2, <1>3 DEF Pieces

\* What the end of a stroke leaves: nothing new, or the paint that has
\* landed and the step that takes it back.
StepOf(s, land) ==
    [layer |-> s.layer, rect |-> s.rect,
     before |-> [c \in s.rect \cap DOMAIN s.before |-> s.before[c]],
     after  |-> [c \in s.rect \cap DOMAIN land |-> land[c]]]
Pushed(stack) == IF Len(stack) > UndoCap THEN Tail(stack) ELSE stack
Unheld(d) ==
    ~d.stroke.on \/ d.stroke.rect = {} \/ ~HasLayer(d, d.stroke.layer) \/ d.stroke.before = <<>>
Laid(d, e, land) ==
    /\ e.width = d.width /\ e.redo = <<>>
    /\ e.layers = Repainted(d.layers, LayerIx(d, d.stroke.layer), land)
    /\ StepOf(d.stroke, land) \in Undoables
    /\ e.undo = Pushed(Append(d.undo, StepOf(d.stroke, land)))
Ends(d, e) ==
    /\ Unheld(d) => SameLayers(d, e) /\ e.undo = d.undo /\ e.redo = d.redo
    /\ ~Unheld(d) => Laid(d, e, Landed(Pixels(d, d.stroke.layer), d.stroke))

LEMMA StrokeEndIs ==
  ASSUME NEW d, Sound(d)
  PROVE  LET e == StrokeEnd(d)
         IN  /\ Sound(e) /\ e.stroke.on = FALSE /\ Ends(d, e)
             /\ Shows(d, e) /\ Marks(d, e) /\ (Mixed(d) => e.modified)
<1> DEFINE s == d.stroke
           k == LayerIx(d, s.layer)
           none == <<>>
           over == [s EXCEPT !.on = FALSE, !.before = none, !.buffer = {}]
           done == [d EXCEPT !.stroke = over]
           old == d.layers[k].bits
           land == Landed(old, s)
           step == [layer |-> s.layer, rect |-> s.rect,
                    before |-> [c \in s.rect \cap DOMAIN s.before |-> s.before[c]],
                    after  |-> [c \in s.rect \cap DOMAIN land |-> land[c]]]
           stack == Append(d.undo, step)
           undo == IF Len(stack) > UndoCap THEN Tail(stack) ELSE stack
           painted == Repainted(d.layers, k, land)
           ended == [done EXCEPT !.layers[k].bits = land, !.undo = undo, !.redo = none,
                                 !.modified = TRUE]
           e == StrokeEnd(d)
<1>1. /\ d \in Documents /\ s \in Strokes /\ d.layers \in Seq(Layers) /\ d.undo \in Seq(Undoables)
      /\ d.redo \in Seq(Undoables) /\ d.width \in Cells(MaxWidth)
      /\ Stacked(d.layers, d.width, d.next) /\ Undoes(d.undo, d.next)
      /\ d.stale \in BOOLEAN /\ d.modified \in BOOLEAN
      /\ Len(d.undo) + Len(d.redo) <= UndoCap /\ UndoCap \in Nat
  BY PaintAssumption DEF Sound, Documents
<1>2. CASE ~s.on
  <2>1. e = d
    BY <1>2 DEF StrokeEnd
  <2>2. Ends(d, d)
    BY <1>2 DEF Ends, Unheld, SameLayers
  <2> QED
    BY <1>1, <1>2, <2>1, <2>2 DEF Shows, Marks, Mixed, SameLayers, Strokes
<1>3. /\ over \in Strokes /\ over.on = FALSE
  <2>1. none \in Pieces /\ {} \in SUBSET [cell : Cells(MaxWidth), ink : Paint]
    BY EmptyPiece
  <2> HIDE DEF none
  <2> QED
    BY <1>1, <2>1 DEF Strokes
<1>4. /\ done \in Documents /\ SameButStroke(d, done) /\ done.stroke = over /\ done.stale = d.stale
  <2> HIDE DEF over
  <2> QED
    BY <1>1, <1>3, WithStroke DEF SameButStroke
<1>5. CASE s.on /\ (s.rect = {} \/ ~HasLayer(d, s.layer) \/ s.before = <<>>)
  <2>1. e = done
    BY <1>5 DEF StrokeEnd
  <2> HIDE DEF over, done
  <2>2. Sound(done)
    BY <1>4, SoundStroke
  <2>3. Ends(d, done)
    BY <1>4, <1>5 DEF Ends, Unheld, SameButStroke
  <2> QED
    BY <1>1, <1>3, <1>4, <1>5, <2>1, <2>2, <2>3 DEF Shows, Marks, Mixed, SameButStroke
<1>6. CASE s.on /\ ~(s.rect = {} \/ ~HasLayer(d, s.layer) \/ s.before = <<>>)
  <2>1. e = IF s.buffer = {} THEN ended ELSE AllDirty(ended)
    BY <1>6, Zenon DEF StrokeEnd
  <2>2. /\ k \in DOMAIN d.layers /\ old \in [Cells(d.width) -> Paint]
        /\ s.layer \in 1 .. d.next - 1 /\ s.layer \in Nat
    BY <1>6, PixelsAre
  <2> HIDE DEF k, old
  <2>3. land \in [Cells(d.width) -> Paint] /\ (s.buffer = {} => land = old) /\ land \in Pieces
    BY <1>1, <2>2, LandedIs, WidthIsRect
  <2> HIDE DEF land
  <2>4. /\ step \in Undoables /\ step.layer = s.layer
        /\ DOMAIN step.before \subseteq step.rect /\ DOMAIN step.after \subseteq step.rect
    <3>1. s.before \in Pieces /\ s.rect \in Rects
      BY <1>1 DEF Strokes
    <3> DEFINE before == [c \in s.rect \cap DOMAIN s.before |-> s.before[c]]
               after == [c \in s.rect \cap DOMAIN land |-> land[c]]
    <3>2. before \in Pieces /\ DOMAIN before \subseteq s.rect
      BY <3>1, CutIs
    <3>3. after \in Pieces /\ DOMAIN after \subseteq s.rect
      BY <2>3, <3>1, CutIs
    <3> HIDE DEF before, after
    <3>4. [layer |-> s.layer, rect |-> s.rect, before |-> before, after |-> after] \in Undoables
      BY <2>2, <3>1, <3>2, <3>3 DEF Undoables
    <3> QED
      BY <3>2, <3>3, <3>4 DEF before, after
  <2>11. step = StepOf(s, land) /\ land = Landed(Pixels(d, s.layer), s)
    BY Zenon DEF StepOf, land, old, k, Pixels
  <2> HIDE DEF step
  <2>5. undo \in Seq(Undoables) /\ Undoes(undo, d.next) /\ Len(undo) <= UndoCap
    <3>1. Len(d.undo) \in Nat /\ Len(d.redo) \in Nat
      BY <1>1
    <3>2. Len(d.undo) <= UndoCap
      <4> DEFINE a == Len(d.undo)
                 b == Len(d.redo)
      <4>1. a \in Nat /\ b \in Nat /\ a + b <= UndoCap /\ UndoCap \in Nat
        BY <1>1, <3>1
      <4> HIDE DEF a, b
      <4>2. a <= UndoCap
        BY <4>1
      <4> QED
        BY <4>2 DEF a
    <3> QED
      BY <1>1, <2>2, <2>4, <3>2, StackIs
  <2>12. undo = Pushed(Append(d.undo, step))
    BY DEF Pushed
  <2> HIDE DEF undo
  <2>6. painted \in Seq(Layers) /\ (land = old => painted = d.layers)
    BY <1>1, <2>2, <2>3, RepaintedIs DEF old
  <2>7. /\ ended \in Documents /\ ended.layers = painted /\ ended.width = d.width
        /\ ended.next = d.next /\ ended.active = d.active /\ ended.undo = undo
        /\ ended.redo = none /\ ended.modified = TRUE /\ ended.stroke = over
        /\ ended.stale = d.stale /\ ended.composite = d.composite
    <3> DEFINE m1 == [done EXCEPT !.layers = painted]
               m2 == Walked(m1, undo, none)
               m3 == [m2 EXCEPT !.modified = TRUE]
    <3>1. ended = m3
      <4>1. [done EXCEPT !.layers[k].bits = land] = m1
        <5>1. [done EXCEPT !.layers[k].bits = land]
                = [done EXCEPT !.layers = [done.layers EXCEPT ![k].bits = land]]
          BY Zenon
        <5>2. done.layers = d.layers
          BY <1>4 DEF SameButStroke, SameLayers
        <5> HIDE DEF done
        <5> QED
          BY <5>1, <5>2 DEF Repainted
      <4>2. ended = [[[[done EXCEPT !.layers[k].bits = land] EXCEPT !.undo = undo] EXCEPT
                        !.redo = none] EXCEPT !.modified = TRUE]
        BY Zenon
      <4>3. m3 = [[[m1 EXCEPT !.undo = undo] EXCEPT !.redo = none] EXCEPT !.modified = TRUE]
        BY Zenon DEF Walked
      <4> HIDE DEF m1, m3, ended
      <4> QED
        BY <4>1, <4>2, <4>3, Zenon
    <3>2. none \in Seq(Undoables)
      OBVIOUS
    <3> HIDE DEF none, ended, done, painted, over
    <3>3. /\ m1 \in Documents /\ m1.layers = painted /\ m1.width = done.width /\ m1.next = done.next
          /\ m1.active = done.active /\ m1.undo = done.undo /\ m1.redo = done.redo
          /\ m1.stroke = done.stroke /\ m1.stale = done.stale /\ m1.composite = done.composite
      BY <1>4, <2>6, WithLayers
    <3> HIDE DEF m1
    <3>4. /\ m2 \in Documents /\ SameLayers(m1, m2) /\ m2.next = m1.next /\ m2.active = m1.active
          /\ m2.undo = undo /\ m2.redo = none /\ m2.stroke = m1.stroke /\ m2.stale = m1.stale
          /\ m2.composite = m1.composite
      BY <2>5, <3>2, <3>3, WithHistory
    <3> HIDE DEF m2
    <3>5. /\ m3 \in Documents /\ SameLayers(m2, m3) /\ m3.next = m2.next /\ m3.active = m2.active
          /\ m3.undo = m2.undo /\ m3.redo = m2.redo /\ m3.modified = TRUE /\ m3.stroke = m2.stroke
          /\ m3.stale = m2.stale /\ m3.composite = m2.composite
      BY <3>4, WithMark
    <3> HIDE DEF m3
    <3> QED
      BY <1>4, <3>1, <3>3, <3>4, <3>5 DEF SameButStroke, SameLayers
  <2> HIDE DEF ended, done, over
  <2>13. ASSUME NEW f, SameLayers(ended, f), f.undo = ended.undo, f.redo = ended.redo
         PROVE  Ends(d, f)
    <3>1. ~Unheld(d)
      BY <1>6 DEF Unheld
    <3>2. Laid(d, f, land)
      BY <2>4, <2>7, <2>11, <2>12, <2>13 DEF Laid, SameLayers, painted, none, k
    <3> QED
      BY <2>11, <3>1, <3>2 DEF Ends
  <2>8. Sound(ended)
    <3> DEFINE bare == Walked(ended, d.undo, d.redo)
    <3>1. /\ bare \in Documents /\ SameLayers(ended, bare) /\ bare.next = ended.next
          /\ bare.active = ended.active /\ bare.undo = d.undo /\ bare.redo = d.redo
      BY <1>1, <2>7, WithHistory
    <3> HIDE DEF bare
    <3>2. Sound(bare)
      BY <2>2, <2>3, <2>7, <3>1, SoundRepainted DEF SameLayers, painted
    <3>3. HasLayer(ended, ended.active) <=> HasLayer(bare, bare.active)
      BY <3>1, SameLayersHave DEF SameLayers
    <3>4. Undoes(ended.redo, ended.next) /\ Len(ended.redo) = 0
      BY <2>7 DEF Undoes
    <3> QED
      BY <1>1, <2>5, <2>7, <3>1, <3>2, <3>3, <3>4 DEF Sound, SameLayers
  <2>9. CASE s.buffer = {}
    <3>1. e = ended /\ SameLayers(d, ended)
      BY <2>1, <2>3, <2>6, <2>7, <2>9 DEF SameLayers
    <3> HIDE DEF e
    <3>2. Sound(e) /\ e.stroke.on = FALSE /\ Shows(d, e) /\ Marks(d, e) /\ e.modified
      BY <1>1, <1>3, <2>7, <2>8, <3>1 DEF Shows, Marks
    <3>3. Ends(d, e)
      BY <2>13, <3>1 DEF SameLayers
    <3> QED
      BY <3>2, <3>3 DEF e
  <2>10. CASE s.buffer # {}
    <3> DEFINE c == Cells(ended.width) \cap Cells(ended.width)
    <3>1. e = MarkDirty(ended, Cells(ended.width))
      BY <2>1, <2>10 DEF AllDirty
    <3> HIDE DEF e
    <3>2. /\ e \in Documents /\ SameLayers(ended, e)
          /\ e.next = ended.next /\ e.active = ended.active /\ e.undo = ended.undo
          /\ e.redo = ended.redo /\ e.modified = ended.modified
          /\ e.stroke = [ended.stroke EXCEPT !.dirty = @ \cup c]
          /\ e.stale = (ended.stale \/ c # {})
      BY <2>7, <3>1, MarkDirtyIs
    <3>3. c # {}
      BY <1>1, <2>7, WidthIsRect
    <3> HIDE DEF c
    <3>4. Sound(e)
      BY <2>8, <3>2, SoundFrame
    <3>5. e.stroke.on = FALSE
      BY <1>3, <2>7, <3>2 DEF Strokes
    <3>6. Shows(d, e) /\ Marks(d, e) /\ e.modified
      BY <2>7, <3>2, <3>3 DEF Shows, Marks
    <3>7. Ends(d, e)
      BY <2>13, <3>2
    <3> QED
      BY <3>4, <3>5, <3>6, <3>7 DEF e
  <2> QED
    BY <2>9, <2>10
<1> QED
  BY <1>2, <1>5, <1>6

-----------------------------------------------------------------------------
(* Resizing, undoing and redoing.                                          *)
LEMMA ResizeIs ==
  ASSUME NEW d, Sound(d), NEW width \in Cells(MaxWidth)
  PROVE  LET e == Resize(d, width)
         IN  Fine(d, e) /\ (width # d.width => e.modified /\ e.undo = <<>> /\ e.redo = <<>>)
<1> DEFINE cut(bits) == [c \in Cells(width) |-> IF c \in DOMAIN bits THEN bits[c] ELSE Bare]
           layers == [k \in DOMAIN d.layers |-> [d.layers[k] EXCEPT !.bits = cut(@)]]
           none == <<>>
           stroke == [d.stroke EXCEPT !.buffer = {}]
           m1 == [d EXCEPT !.width = width]
           m2 == Walked(m1, none, none)
           m3 == [m2 EXCEPT !.stroke = stroke]
           m == [m3 EXCEPT !.layers = layers]
<1>1. /\ d \in Documents /\ d.stroke \in Strokes /\ d.layers \in Seq(Layers) /\ d.active \in Nat
      /\ Stacked(d.layers, d.width, d.next) /\ (d.layers # <<>> => HasLayer(d, d.active))
      /\ UndoCap \in Nat
  BY PaintAssumption DEF Sound, Documents
<1>2. CASE width = d.width
  BY <1>2, FineSame DEF Resize
<1>3. CASE width # d.width
  <2>1. Resize(d, width) = Edited(m)
    <3>1. m = [d EXCEPT !.width = width, !.undo = <<>>, !.redo = <<>>, !.stroke.buffer = {},
                        !.layers = layers]
      <4>1. m3 = [[[[d EXCEPT !.width = width] EXCEPT !.undo = <<>>] EXCEPT !.redo = <<>>] EXCEPT
                     !.stroke.buffer = {}]
        <5>1. m2 = [[[d EXCEPT !.width = width] EXCEPT !.undo = <<>>] EXCEPT !.redo = <<>>]
          BY Zenon DEF Walked
        <5>2. m2.stroke = d.stroke
          BY <1>1, <5>1 DEF Documents
        <5>3. [m2 EXCEPT !.stroke.buffer = {}] = [m2 EXCEPT !.stroke = [m2.stroke EXCEPT !.buffer = {}]]
          BY Zenon
        <5> HIDE DEF m2
        <5> QED
          BY <5>1, <5>2, <5>3
      <4> HIDE DEF layers, m3
      <4> QED
        BY <4>1, Zenon
    <3> HIDE DEF m
    <3> QED
      BY <1>3, <3>1, Zenon DEF Resize
  <2>2. none \in Seq(Undoables) /\ Undoes(none, d.next) /\ Len(none) + Len(none) <= UndoCap
    BY <1>1 DEF Undoes
  <2>3. stroke \in Strokes /\ stroke.on = d.stroke.on
    BY <1>1 DEF Strokes
  <2>4. /\ layers \in Seq(Layers) /\ DOMAIN layers = DOMAIN d.layers
        /\ \A k \in DOMAIN layers : /\ layers[k].id = d.layers[k].id
                                    /\ layers[k].bits \in [Cells(width) -> Paint]
    <3>1. ASSUME NEW k \in DOMAIN d.layers
          PROVE  /\ [d.layers[k] EXCEPT !.bits = cut(@)] \in Layers
                 /\ [d.layers[k] EXCEPT !.bits = cut(@)].id = d.layers[k].id
                 /\ [d.layers[k] EXCEPT !.bits = cut(@)].bits \in [Cells(width) -> Paint]
      <4> DEFINE bits == cut(d.layers[k].bits)
      <4>1. d.layers[k].bits \in [Cells(d.width) -> Paint] /\ d.layers[k] \in Layers
        BY <1>1 DEF Stacked
      <4>2. bits \in [Cells(width) -> Paint] /\ bits \in Pieces
        <5>1. bits \in [Cells(width) -> Paint]
          BY <4>1 DEF Paint
        <5> QED
          BY <5>1, WidthIsRect
      <4> HIDE DEF bits
      <4>3. /\ [d.layers[k] EXCEPT !.bits = bits] \in Layers
            /\ [d.layers[k] EXCEPT !.bits = bits].id = d.layers[k].id
            /\ [d.layers[k] EXCEPT !.bits = bits].bits = bits
        BY <4>1, <4>2 DEF Layers
      <4> QED
        BY <4>2, <4>3 DEF bits
    <3> DEFINE layer(k) == [d.layers[k] EXCEPT !.bits = cut(@)]
    <3>2. \A k \in DOMAIN d.layers : layer(k) \in Layers /\ layer(k).id = d.layers[k].id
                                     /\ layer(k).bits \in [Cells(width) -> Paint]
      BY <3>1
    <3>3. layers = [k \in DOMAIN d.layers |-> layer(k)]
      OBVIOUS
    <3>4. Len(d.layers) \in Nat /\ DOMAIN d.layers = 1 .. Len(d.layers)
      BY <1>1
    <3> HIDE DEF layer, layers
    <3>5. layers \in [1 .. Len(d.layers) -> Layers]
      BY <3>2, <3>3, <3>4
    <3>6. layers \in Seq(Layers)
      BY <3>4, <3>5, IsASeq
    <3> QED
      BY <3>2, <3>3, <3>6
  <2> HIDE DEF none, stroke, layers, m
  <2>5. /\ m1 \in Documents /\ m1.width = width /\ m1.layers = d.layers /\ m1.next = d.next
        /\ m1.active = d.active
    BY <1>1 DEF Documents
  <2> HIDE DEF m1
  <2>6. /\ m2 \in Documents /\ SameLayers(m1, m2) /\ m2.next = m1.next /\ m2.active = m1.active
        /\ m2.undo = none /\ m2.redo = none
    BY <2>2, <2>5, WithHistory
  <2> HIDE DEF m2
  <2>7. /\ m3 \in Documents /\ SameLayers(m2, m3) /\ m3.next = m2.next /\ m3.active = m2.active
        /\ m3.undo = m2.undo /\ m3.redo = m2.redo /\ m3.stroke = stroke
    BY <2>3, <2>6, WithStroke
  <2> HIDE DEF m3
  <2>8. /\ m \in Documents /\ m.layers = layers /\ m.width = m3.width /\ m.next = m3.next
        /\ m.active = m3.active /\ m.undo = m3.undo /\ m.redo = m3.redo /\ m.stroke = m3.stroke
    BY <2>4, <2>7, WithLayers DEF m
  <2>9. /\ m \in Documents /\ m.layers = layers /\ m.width = width /\ m.next = d.next
        /\ m.active = d.active /\ m.undo = none /\ m.redo = none /\ m.stroke.on = d.stroke.on
    BY <2>3, <2>5, <2>6, <2>7, <2>8 DEF SameLayers
  <2>10. Stacked(m.layers, m.width, m.next)
    BY <1>1, <2>4, <2>9 DEF Stacked
  <2>11. m.layers # <<>> => HasLayer(m, m.active)
    <3>1. \A id : HasLayer(m, id) <=> HasLayer(d, id)
      BY <2>4, <2>9, SameIdsHave
    <3>2. m.layers = <<>> <=> d.layers = <<>>
      BY <1>1, <2>4, <2>9
    <3> QED
      BY <1>1, <2>9, <3>1, <3>2
  <2>12. Sound(m)
    BY <2>2, <2>9, <2>10, <2>11 DEF Sound
  <2> QED
    <3>1. Fine(d, Edited(m))
      BY <2>9, <2>12, FineEdited
    <3>2. Edited(m).modified = TRUE /\ Edited(m).undo = <<>> /\ Edited(m).redo = <<>>
      BY <2>9, EditedIs DEF none
    <3> QED
      BY <2>1, <3>1, <3>2
<1> QED
  BY <1>2, <1>3

\* The pixels of a step put on its layer, if that is there.
Patched(d, e, step, bytes) ==
    /\ e.width = d.width /\ DOMAIN e.layers = DOMAIN d.layers
    /\ \A k \in DOMAIN d.layers :
         /\ e.layers[k].id = d.layers[k].id
         /\ \A c \in Cells(d.width) :
              e.layers[k].bits[c] = IF d.layers[k].id = step.layer /\ c \in DOMAIN bytes THEN bytes[c]
                                    ELSE d.layers[k].bits[c]

\* A step puts pixels inside its rectangle back; what it changes it shows.
LEMMA ApplyStepIs ==
  ASSUME NEW d, Sound(d), NEW step \in Undoables, NEW bytes \in Pieces, DOMAIN bytes \subseteq step.rect
  PROVE  LET e == ApplyStep(d, step, bytes)
         IN  /\ Fine(d, e) /\ e.undo = d.undo /\ e.redo = d.redo /\ e.next = d.next
             /\ Patched(d, e, step, bytes)
<1> DEFINE k == LayerIx(d, step.layer)
           old == d.layers[k].bits
           bits == [c \in DOMAIN old |-> IF c \in DOMAIN bytes THEN bytes[c] ELSE old[c]]
           painted == Repainted(d.layers, k, bits)
           on == step.rect \cap Cells(d.width)
           m == MarkDirty(d, step.rect)
           m1 == [m EXCEPT !.modified = TRUE]
           e == ApplyStep(d, step, bytes)
<1>1. /\ d \in Documents /\ d.stroke \in Strokes /\ d.layers \in Seq(Layers)
      /\ d.width \in Cells(MaxWidth) /\ Stacked(d.layers, d.width, d.next) /\ d.stale \in BOOLEAN
  BY DEF Sound, Documents
<1>2. CASE ~HasLayer(d, step.layer)
  <2>1. e = d
    BY <1>2 DEF ApplyStep
  <2>2. Patched(d, d, step, bytes)
    BY <1>2 DEF Patched, HasLayer, IndexesOf
  <2> QED
    BY <2>1, <2>2, FineSame
<1>3. CASE HasLayer(d, step.layer)
  <2>1. /\ m \in Documents /\ SameButStroke(d, m) /\ m.stroke = [d.stroke EXCEPT !.dirty = @ \cup on]
        /\ m.stale = (d.stale \/ on # {})
    BY <1>1, MarkDirtyIs DEF SameButStroke
  <2>2. e = [m1 EXCEPT !.layers = painted]
    <3>1. e = [MarkDirty(d, step.rect) EXCEPT !.modified = TRUE,
                 !.layers[k].bits = [c \in DOMAIN @ |-> IF c \in DOMAIN bytes THEN bytes[c] ELSE @[c]]]
      BY <1>3, Zenon DEF ApplyStep
    <3>2. e = [m1 EXCEPT !.layers[k].bits =
                 [c \in DOMAIN @ |-> IF c \in DOMAIN bytes THEN bytes[c] ELSE @[c]]]
      BY <3>1, Zenon
    <3>3. e = [m1 EXCEPT !.layers = [m1.layers EXCEPT ![k].bits =
                 [c \in DOMAIN @ |-> IF c \in DOMAIN bytes THEN bytes[c] ELSE @[c]]]]
      BY <3>2, Zenon
    <3>4. m1.layers = d.layers
      BY <2>1 DEF SameButStroke, SameLayers, Documents
    <3>5. Repainted(d.layers, k, bits)
            = [d.layers EXCEPT ![k].bits = [c \in DOMAIN @ |-> IF c \in DOMAIN bytes THEN bytes[c] ELSE @[c]]]
      BY Zenon DEF Repainted
    <3> HIDE DEF m1, m, e, k, bits
    <3> QED
      BY <3>3, <3>4, <3>5
  <2>3. k \in DOMAIN d.layers /\ old \in [Cells(d.width) -> Paint] /\ d.layers[k].id = step.layer
    BY <1>1, <1>3, PixelsAre, LayerIsThere
  <2>4. /\ bits \in [Cells(d.width) -> Paint] /\ (on = {} => bits = old)
        /\ \A c \in Cells(d.width) : bits[c] = IF c \in DOMAIN bytes THEN bytes[c] ELSE d.layers[k].bits[c]
    <3>1. \A c \in DOMAIN bytes : bytes[c] \in Paint
      BY DEF Pieces
    <3>2. on = {} => \A c \in Cells(d.width) : c \notin DOMAIN bytes
      OBVIOUS
    <3>3. old = d.layers[k].bits
      OBVIOUS
    <3> HIDE DEF on, old, k
    <3> QED
      BY <2>3, <3>1, <3>2, <3>3
  <2> HIDE DEF on, k, bits, m, e
  <2>5. painted \in Seq(Layers) /\ (bits = old => painted = d.layers)
    BY <1>1, <2>3, <2>4, RepaintedIs
  <2>6. /\ m1 \in Documents /\ SameLayers(m, m1) /\ m1.next = m.next
        /\ m1.active = m.active /\ m1.undo = m.undo /\ m1.redo = m.redo /\ m1.modified = TRUE
        /\ m1.stroke = m.stroke /\ m1.stale = m.stale /\ m1.composite = m.composite
    BY <2>1, WithMark
  <2> HIDE DEF m1, painted
  <2>7. /\ e \in Documents /\ e.layers = painted /\ e.width = d.width /\ e.next = d.next
        /\ e.active = d.active /\ e.undo = d.undo /\ e.redo = d.redo /\ e.modified = TRUE
        /\ e.stroke = m.stroke /\ e.stale = m.stale /\ e.composite = d.composite
    BY <2>1, <2>2, <2>5, <2>6, WithLayers DEF SameButStroke, SameLayers
  <2>8. Sound(e)
    BY <2>3, <2>4, <2>7, SoundRepainted DEF painted
  <2>9. e.stroke.on = d.stroke.on
    BY <1>1, <2>1, <2>7 DEF Strokes
  <2>10. Shows(d, e)
    BY <1>1, <2>1, <2>4, <2>5, <2>7 DEF Shows, SameLayers
  <2>11. Patched(d, e, step, bytes)
    <3>1. /\ DOMAIN e.layers = DOMAIN d.layers
          /\ \A j \in DOMAIN d.layers :
               e.layers[j].id = d.layers[j].id /\ e.layers[j].bits = IF j = k THEN bits ELSE d.layers[j].bits
      BY <1>1, <2>3, <2>4, <2>7, RepaintedIs DEF painted
    <3>2. \A j \in DOMAIN d.layers : d.layers[j].id = step.layer => j = k
      BY <1>1, <2>3 DEF Stacked
    <3> QED
      BY <2>3, <2>4, <2>7, <3>1, <3>2 DEF Patched
  <2> QED
    BY <2>7, <2>8, <2>9, <2>10, <2>11 DEF Fine, Marks, Holds, e
<1> QED
  BY <1>2, <1>3

\* A step moves from the top of one stack to the top of the other.
LEMMA StepMoves ==
  ASSUME NEW from \in Seq(Undoables), from # <<>>, NEW to \in Seq(Undoables), NEW next,
         Undoes(from, next), Undoes(to, next)
  PROVE  /\ Last(from) \in Undoables /\ Last(from).before \in Pieces /\ Last(from).after \in Pieces
         /\ DOMAIN Last(from).before \subseteq Last(from).rect
         /\ DOMAIN Last(from).after \subseteq Last(from).rect
         /\ Front(from) \in Seq(Undoables) /\ Append(to, Last(from)) \in Seq(Undoables)
         /\ Undoes(Front(from), next) /\ Undoes(Append(to, Last(from)), next)
         /\ Len(Front(from)) + Len(Append(to, Last(from))) = Len(from) + Len(to)
<1> DEFINE front == Front(from)
           step == Last(from)
           more == Append(to, step)
           n == Len(to)
<1>1. /\ front \in Seq(Undoables) /\ Len(front) = Len(from) - 1 /\ step \in Undoables
      /\ Len(from) \in DOMAIN from /\ step = from[Len(from)]
      /\ \A k \in 1 .. Len(from) - 1 : front[k] = from[k]
  BY FrontIs
<1>2. step.before \in Pieces /\ step.after \in Pieces
  BY <1>1 DEF Undoables
<1>3. /\ step.layer \in 1 .. next - 1 /\ DOMAIN step.before \subseteq step.rect
      /\ DOMAIN step.after \subseteq step.rect
  BY <1>1 DEF Undoes
<1> HIDE DEF step, front
<1>4. /\ n \in Nat /\ more \in Seq(Undoables) /\ Len(more) = n + 1 /\ DOMAIN more = 1 .. n + 1
      /\ DOMAIN to = 1 .. n /\ more[n + 1] = step /\ \A k \in 1 .. n : more[k] = to[k]
  BY <1>1
<1> HIDE DEF more, n
<1>5. Undoes(more, next)
  <2> SUFFICES ASSUME NEW k \in 1 .. n + 1
               PROVE  /\ more[k].layer \in 1 .. next - 1
                      /\ DOMAIN more[k].before \subseteq more[k].rect
                      /\ DOMAIN more[k].after \subseteq more[k].rect
    BY <1>4 DEF Undoes
  <2>1. CASE k = n + 1
    BY <1>3, <1>4, <2>1
  <2>2. CASE k # n + 1
    BY <1>4, <2>2 DEF Undoes
  <2> QED
    BY <2>1, <2>2
<1>6. Undoes(front, next)
  <2>1. DOMAIN front = 1 .. Len(from) - 1 /\ DOMAIN from = 1 .. Len(from) /\ Len(from) \in Nat
    BY <1>1
  <2>2. \A k \in DOMAIN front : k \in DOMAIN from /\ front[k] = from[k]
    BY <1>1, <2>1
  <2> QED
    BY <2>2 DEF Undoes
<1>7. Len(front) + Len(more) = Len(from) + Len(to)
  <2>1. Len(from) \in Nat
    OBVIOUS
  <2> QED
    BY <1>1, <1>4, <2>1 DEF n
<1> QED
  BY <1>1, <1>2, <1>3, <1>4, <1>5, <1>6, <1>7 DEF front, step, more

LEMMA FineWalk ==
  ASSUME NEW d, NEW a, Fine(d, a), NEW undo \in Seq(Undoables), NEW redo \in Seq(Undoables),
         Undoes(undo, a.next), Undoes(redo, a.next), Len(undo) + Len(redo) <= UndoCap
  PROVE  LET e == Walked(a, undo, redo)
         IN  Fine(d, e) /\ SameLayers(a, e) /\ e.undo = undo /\ e.redo = redo
<1> DEFINE e == Walked(a, undo, redo)
<1>1. a \in Documents /\ Sound(a)
  BY DEF Fine, Sound
<1>2. /\ e \in Documents /\ SameLayers(a, e) /\ e.next = a.next
      /\ e.active = a.active /\ e.undo = undo /\ e.redo = redo /\ e.modified = a.modified
      /\ e.stroke = a.stroke /\ e.stale = a.stale /\ e.composite = a.composite
  BY <1>1, WithHistory
<1> HIDE DEF e
<1>3. \A id : HasLayer(e, id) <=> HasLayer(a, id)
  BY <1>2, SameLayersHave DEF SameLayers
<1>4. Sound(e)
  BY <1>1, <1>2, <1>3 DEF Sound, SameLayers
<1>5. Mixed(e) <=> Mixed(a)
  BY <1>2, <1>3 DEF Mixed
<1>6. Shows(d, e) /\ Marks(d, e) /\ Holds(d, e)
  BY <1>2, <1>5 DEF Fine, Shows, Marks, Holds, SameLayers
<1> QED
  BY <1>2, <1>4, <1>6 DEF Fine, e

LEMMA UndoIs ==
  ASSUME NEW d, Sound(d)
  PROVE  LET e == Undo(d)
         IN  /\ Fine(d, e)
             /\ d.undo # <<>> =>
                  /\ Patched(d, e, Last(d.undo), Last(d.undo).before)
                  /\ e.undo = Front(d.undo) /\ e.redo = Append(d.redo, Last(d.undo))
<1>1. CASE d.undo = <<>>
  BY <1>1, FineSame DEF Undo
<1>2. CASE d.undo # <<>>
  <2> DEFINE step == Last(d.undo)
             front == Front(d.undo)
             more == Append(d.redo, step)
             a == ApplyStep(d, step, step.before)
  <2>1. Undo(d) = Walked(a, front, more)
    BY <1>2, Zenon DEF Undo, Walked
  <2>2. /\ d.undo \in Seq(Undoables) /\ d.redo \in Seq(Undoables) /\ Undoes(d.undo, d.next)
        /\ Undoes(d.redo, d.next) /\ Len(d.undo) + Len(d.redo) <= UndoCap
    BY DEF Sound, Documents
  <2>3. /\ step \in Undoables /\ step.before \in Pieces /\ DOMAIN step.before \subseteq step.rect
        /\ front \in Seq(Undoables) /\ more \in Seq(Undoables)
        /\ Undoes(front, d.next) /\ Undoes(more, d.next)
        /\ Len(front) + Len(more) = Len(d.undo) + Len(d.redo)
    BY <1>2, <2>2, StepMoves
  <2> HIDE DEF step, front, more
  <2>4. /\ Fine(d, a) /\ a.undo = d.undo /\ a.redo = d.redo /\ a.next = d.next
        /\ Patched(d, a, step, step.before)
    BY <2>3, ApplyStepIs
  <2>5. Undoes(front, a.next) /\ Undoes(more, a.next) /\ Len(front) + Len(more) <= UndoCap
    BY <2>2, <2>3, <2>4
  <2> HIDE DEF a
  <2> DEFINE e == Undo(d)
  <2>6. Fine(d, e) /\ SameLayers(a, e) /\ e.undo = front /\ e.redo = more
    BY <2>1, <2>3, <2>4, <2>5, FineWalk
  <2>7. Patched(d, e, step, step.before)
    BY <2>4, <2>6 DEF Patched, SameLayers
  <2> QED
    BY <2>6, <2>7 DEF step, front, more
<1> QED
  BY <1>1, <1>2

LEMMA RedoIs ==
  ASSUME NEW d, Sound(d)
  PROVE  LET e == Redo(d)
         IN  /\ Fine(d, e)
             /\ d.redo # <<>> =>
                  /\ Patched(d, e, Last(d.redo), Last(d.redo).after)
                  /\ e.redo = Front(d.redo) /\ e.undo = Append(d.undo, Last(d.redo))
<1>1. CASE d.redo = <<>>
  BY <1>1, FineSame DEF Redo
<1>2. CASE d.redo # <<>>
  <2> DEFINE step == Last(d.redo)
             front == Front(d.redo)
             more == Append(d.undo, step)
             a == ApplyStep(d, step, step.after)
  <2>1. Redo(d) = Walked(a, more, front)
    <3>1. Redo(d) = [a EXCEPT !.redo = front, !.undo = more]
      BY <1>2, Zenon DEF Redo
    <3>2. [a EXCEPT !.redo = front, !.undo = more] = [[a EXCEPT !.undo = more] EXCEPT !.redo = front]
      <4> DEFINE b == [[a EXCEPT !.redo = front] EXCEPT !.undo = more]
                 c == [[a EXCEPT !.undo = more] EXCEPT !.redo = front]
      <4>1. DOMAIN b = DOMAIN c /\ \A f \in DOMAIN b : b[f] = c[f]
        <5> HIDE DEF a, front, more
        <5> QED
          OBVIOUS
      <4> QED
        BY <4>1
    <3> QED
      BY <3>1, <3>2, Zenon DEF Walked
  <2>2. /\ d.undo \in Seq(Undoables) /\ d.redo \in Seq(Undoables) /\ Undoes(d.undo, d.next)
        /\ Undoes(d.redo, d.next) /\ Len(d.undo) + Len(d.redo) <= UndoCap
    BY DEF Sound, Documents
  <2>3. /\ step \in Undoables /\ step.after \in Pieces /\ DOMAIN step.after \subseteq step.rect
        /\ front \in Seq(Undoables) /\ more \in Seq(Undoables)
        /\ Undoes(front, d.next) /\ Undoes(more, d.next)
        /\ Len(front) + Len(more) = Len(d.redo) + Len(d.undo)
    BY <1>2, <2>2, StepMoves
  <2> HIDE DEF step, front, more
  <2>4. /\ Fine(d, a) /\ a.undo = d.undo /\ a.redo = d.redo /\ a.next = d.next
        /\ Patched(d, a, step, step.after)
    BY <2>3, ApplyStepIs
  <2>5. Undoes(front, a.next) /\ Undoes(more, a.next) /\ Len(more) + Len(front) <= UndoCap
    <3>1. Len(more) \in Nat /\ Len(front) \in Nat /\ Len(d.undo) \in Nat /\ Len(d.redo) \in Nat
      BY <2>2, <2>3
    <3> DEFINE a1 == Len(more)
               a2 == Len(front)
               a3 == Len(d.undo)
               a4 == Len(d.redo)
    <3>2. a1 \in Nat /\ a2 \in Nat /\ a3 \in Nat /\ a4 \in Nat /\ a2 + a1 = a4 + a3 /\ a3 + a4 <= UndoCap
      BY <2>2, <2>3, <3>1
    <3> HIDE DEF a1, a2, a3, a4
    <3>3. a1 + a2 <= UndoCap
      BY <3>2
    <3> QED
      BY <2>3, <2>4, <3>3 DEF a1, a2
  <2> HIDE DEF a
  <2> DEFINE e == Redo(d)
  <2>6. Fine(d, e) /\ SameLayers(a, e) /\ e.undo = more /\ e.redo = front
    BY <2>1, <2>3, <2>4, <2>5, FineWalk
  <2>7. Patched(d, e, step, step.after)
    BY <2>4, <2>6 DEF Patched, SameLayers
  <2> QED
    BY <2>6, <2>7 DEF step, front, more
<1> QED
  BY <1>1, <1>2

-----------------------------------------------------------------------------
(* What is shown, and what is read from a file.                            *)

\* The greatest of some natural numbers that have a bound.
LEMMA GreatestIs ==
  ASSUME NEW S \in SUBSET Nat, S # {}, NEW bound \in Nat, \A n \in S : n <= bound
  PROVE  \E n \in S : \A m \in S : m <= n
<1> DEFINE Over == {b \in Nat : \A n \in S : n <= b}
<1>1. Over # {} /\ Over \in SUBSET Nat
  OBVIOUS
<1>2. PICK b \in Over : \A c \in Over : b <= c
  BY <1>1, LeastIs
<1>3. b \in Nat /\ \A n \in S : n <= b
  BY <1>2
<1>4. b \in S
  <2> SUFFICES ASSUME b \notin S PROVE FALSE
    OBVIOUS
  <2>1. ASSUME NEW n \in S PROVE n < b
    <3>1. n # b /\ n \in Nat /\ n <= b
      BY <1>3
    <3> QED
      BY <1>3, <3>1
  <2>2. PICK n \in S : n \in Nat
    OBVIOUS
  <2>3. b \in Nat /\ n < b
    BY <1>3, <2>1
  <2>4. b - 1 \in Nat
    BY <2>2, <2>3
  <2>5. ASSUME NEW m \in S PROVE m <= b - 1
    <3>1. m \in Nat /\ m < b
      BY <2>1
    <3> QED
      BY <2>3, <3>1
  <2>6. b - 1 \in Over
    BY <2>4, <2>5
  <2> QED
    BY <1>2, <2>3, <2>6
<1> QED
  BY <1>3, <1>4

\* The layers one over the other.
FlatOf(layers, width) ==
    [c \in Cells(width) |->
        LET seen == {k \in DOMAIN layers : layers[k].shown /\ layers[k].bits[c] # Bare}
        IN  IF seen = {} THEN Bare
            ELSE layers[CHOOSE k \in seen : \A j \in seen : j <= k].bits[c]]

LEMMA FlatIsOf ==
  ASSUME NEW d
  PROVE  Flat(d) = FlatOf(d.layers, d.width)
  BY Zenon DEF Flat, FlatOf

LEMMA SameFlat ==
  ASSUME NEW d, NEW e, SameLayers(d, e)
  PROVE  Flat(e) = Flat(d)
  BY FlatIsOf DEF SameLayers

LEMMA FlatIs ==
  ASSUME NEW d, Sound(d)
  PROVE  Flat(d) \in Pieces
<1> DEFINE seen(c) == {k \in DOMAIN d.layers : d.layers[k].shown /\ d.layers[k].bits[c] # Bare}
           top(c) == CHOOSE k \in seen(c) : \A j \in seen(c) : j <= k
           flat(c) == IF seen(c) = {} THEN Bare ELSE d.layers[top(c)].bits[c]
<1>1. /\ d.layers \in Seq(Layers) /\ Stacked(d.layers, d.width, d.next) /\ d.width \in Cells(MaxWidth)
      /\ Len(d.layers) \in Nat /\ DOMAIN d.layers = 1 .. Len(d.layers)
  BY SMTT(60) DEF Sound, Documents
<1>2. ASSUME NEW c \in Cells(d.width) PROVE flat(c) \in Paint
  <2>1. CASE seen(c) = {}
    BY <2>1 DEF Paint
  <2>2. CASE seen(c) # {}
    <3>1. seen(c) \in SUBSET Nat /\ \A k \in seen(c) : k <= Len(d.layers)
      BY <1>1
    <3>2. \E k \in seen(c) : \A j \in seen(c) : j <= k
      <4> HIDE DEF seen
      <4> QED
        BY <1>1, <2>2, <3>1, GreatestIs
    <3>3. top(c) \in seen(c)
      <4> HIDE DEF seen
      <4> QED
        BY <3>2, Zenon
    <3>4. top(c) \in DOMAIN d.layers
      BY <3>3
    <3> HIDE DEF top, seen
    <3>5. d.layers[top(c)].bits \in [Cells(d.width) -> Paint]
      BY <1>1, <3>4 DEF Stacked
    <3> QED
      BY <2>2, <3>5
  <2> QED
    BY <2>1, <2>2
<1>3. Flat(d) = [c \in Cells(d.width) |-> flat(c)]
  BY Zenon DEF Flat
<1> HIDE DEF flat
<1> QED
  BY <1>1, <1>2, <1>3, WidthIsRect

\* The view, or a script, keeps an image of the layers.
LEMMA KeptImage ==
  ASSUME NEW d, Sound(d), NEW image \in Pieces
  PROVE  LET e == [d EXCEPT !.composite = image, !.stale = FALSE]
         IN  /\ Sound(e) /\ SameLayers(d, e) /\ e.composite = image /\ e.stale = FALSE
             /\ e.modified = d.modified /\ e.stroke = d.stroke
<1> DEFINE e == [d EXCEPT !.composite = image, !.stale = FALSE]
<1>1. d \in Documents
  BY DEF Sound
<1>2. /\ e \in Documents /\ SameLayers(d, e) /\ e.composite = image /\ e.stale = FALSE
      /\ e.modified = d.modified /\ e.stroke = d.stroke
      /\ e.next = d.next /\ e.undo = d.undo /\ e.redo = d.redo /\ e.active = d.active
  BY <1>1 DEF Documents, SameLayers
<1> HIDE DEF e
<1>3. Sound(e)
  BY <1>2, SoundFrame
<1> QED
  BY <1>2, <1>3 DEF e

LEMMA SumIsOver ==
  ASSUME NEW a \in Nat, NEW b \in Nat
  PROVE  a + b \in Nat /\ a <= a + b /\ b <= a + b
  OBVIOUS

\* The numbers of some layers have a greatest.
LEMMA IdsAreBounded ==
  ASSUME NEW layers \in Seq(Layers)
  PROVE  \E bound \in Nat : \A k \in DOMAIN layers : layers[k].id <= bound
<1> DEFINE Over(n, b) == \A k \in 1 .. n : layers[k].id <= b
           Bad == {n \in 0 .. Len(layers) : ~\E b \in Nat : Over(n, b)}
<1>1. Len(layers) \in Nat /\ DOMAIN layers = 1 .. Len(layers)
  OBVIOUS
<1>2. \A k \in 1 .. Len(layers) : layers[k].id \in Nat
  <2>1. \A k \in 1 .. Len(layers) : layers[k] \in Layers
    BY <1>1
  <2> QED
    BY <2>1 DEF Layers
<1>3. Bad = {}
  <2> SUFFICES ASSUME Bad # {} PROVE FALSE
    OBVIOUS
  <2>1. Bad \in SUBSET Nat
    BY <1>1
  <2>2. PICK n \in Bad : \A m \in Bad : n <= m
    <3> HIDE DEF Bad
    <3> QED
      BY <2>1, LeastIs
  <2>3. n \in 0 .. Len(layers) /\ ~\E b \in Nat : Over(n, b)
    OBVIOUS
  <2>4. n # 0
    <3>1. Over(0, 0)
      OBVIOUS
    <3> QED
      BY <2>3, <3>1
  <2>5. n \in 1 .. Len(layers) /\ n - 1 \in 0 .. Len(layers) /\ ~(n <= n - 1)
    BY <1>1, <2>3, <2>4
  <2>6. n - 1 \notin Bad
    BY <2>2, <2>5
  <2>7. PICK b \in Nat : Over(n - 1, b)
    BY <2>5, <2>6
  <2>8. PICK id \in Nat : id = layers[n].id
    BY <1>2, <2>5
  <2> DEFINE sum == b + id
  <2>9. sum \in Nat /\ b <= sum /\ id <= sum
    BY <2>7, <2>8, SumIsOver
  <2> HIDE DEF sum
  <2>10. ASSUME NEW k \in 1 .. n PROVE layers[k].id <= sum
    <3>1. CASE k = n
      BY <2>8, <2>9, <3>1
    <3>2. CASE k # n
      <4>1. k \in 1 .. n - 1 /\ k \in 1 .. Len(layers)
        BY <1>1, <2>5, <3>2
      <4>2. PICK other \in Nat : other = layers[k].id
        BY <1>2, <4>1
      <4>3. other <= b
        BY <2>7, <4>1, <4>2
      <4>4. other <= sum
        BY <2>9, <4>3
      <4> QED
        BY <4>2, <4>4
    <3> QED
      BY <3>1, <3>2
  <2>11. Over(n, sum)
    BY <2>10
  <2> QED
    BY <2>3, <2>9, <2>11
<1> DEFINE len == Len(layers)
<1>4. len \in 0 .. len
  <2>1. len \in Nat
    BY <1>1
  <2> HIDE DEF len
  <2> QED
    BY <2>1
<1>5. PICK b \in Nat : Over(Len(layers), b)
  BY <1>3, <1>4
<1>6. \A k \in DOMAIN layers : layers[k].id <= b
  BY <1>1, <1>5
<1> QED
  BY <1>6

LEMMA MaxIs ==
  ASSUME NEW S \in SUBSET Nat, S # {}, NEW bound \in Nat, \A n \in S : n <= bound
  PROVE  Max(S) \in S /\ \A m \in S : m <= Max(S)
<1>1. \E n \in S : \A m \in S : m <= n
  BY GreatestIs
<1>2. PICK n \in S : \A m \in S : n >= m
  BY <1>1
<1> QED
  BY <1>2 DEF Max

LEMMA ReadableIs ==
  ASSUME NEW file, Readable(file)
  PROVE  LET next == 1 + Max({0} \cup {file.layers[k].id : k \in DOMAIN file.layers})
         IN  /\ file.layers \in Seq(Layers) /\ next \in Nat \ {0}
             /\ Stacked(file.layers, file.width, next)
<1> DEFINE layers == file.layers
           ids == {layers[k].id : k \in DOMAIN layers}
           all == {0} \cup ids
           Own == [id : Nat \ {0}, bits : [Cells(file.width) -> Paint], shown : BOOLEAN]
<1>1. Own \subseteq Layers
  <2>1. [Cells(file.width) -> Paint] \subseteq Pieces
    BY WidthIsRect DEF Readable
  <2> QED
    BY <2>1 DEF Layers
<1>2. layers \in Seq(Own) /\ \A k \in DOMAIN layers : layers[k] \in Own
  <2>1. layers \in Seq(Own)
    BY Zenon DEF Readable
  <2> HIDE DEF Own, layers
  <2> QED
    BY <2>1
<1> HIDE DEF layers
<1>3. \A k \in DOMAIN layers : layers[k].id \in Nat /\ layers[k].bits \in [Cells(file.width) -> Paint]
  BY <1>2
<1> HIDE DEF Own
<1>4. layers \in Seq(Layers)
  BY <1>1, <1>2, SeqMonotonic
<1>5. PICK bound \in Nat : \A k \in DOMAIN layers : layers[k].id <= bound
  BY <1>4, IdsAreBounded
<1>6. all \in SUBSET Nat /\ all # {} /\ \A n \in all : n <= bound
  BY <1>3, <1>5
<1>7. Max(all) \in all /\ \A m \in all : m <= Max(all)
  <2> HIDE DEF all
  <2> QED
    BY <1>6, MaxIs
<1>8. 1 + Max(all) \in Nat \ {0} /\ \A k \in DOMAIN layers : layers[k].id < 1 + Max(all)
  <2> DEFINE max == Max(all)
  <2>1. max \in Nat
    BY <1>6, <1>7
  <2>2. \A k \in DOMAIN layers : layers[k].id <= max /\ layers[k].id \in Nat
    BY <1>3, <1>7
  <2> HIDE DEF max
  <2>3. 1 + max \in Nat \ {0} /\ \A k \in DOMAIN layers : layers[k].id < 1 + max
    BY <2>1, <2>2
  <2> QED
    BY <2>3 DEF max
<1>9. \A j, k \in DOMAIN layers : layers[j].id = layers[k].id => j = k
  BY DEF Readable, layers
<1>10. Stacked(layers, file.width, 1 + Max(all))
  BY <1>3, <1>8, <1>9 DEF Stacked
<1> QED
  BY <1>4, <1>8, <1>10 DEF layers

LEMMA LoadIs ==
  ASSUME NEW d, Sound(d), NEW file, Readable(file)
  PROVE  LET e == Load(d, file)
         IN  /\ Sound(e) /\ e.stroke.on = d.stroke.on /\ Saved(e) = file
             /\ e.undo = <<>> /\ e.redo = <<>>
             /\ file.layers # <<>> => e.stale = TRUE
<1> DEFINE layers == file.layers
           width == file.width
           next == 1 + Max({0} \cup {layers[k].id : k \in DOMAIN layers})
           none == <<>>
           m1 == [d EXCEPT !.width = width]
           m2 == [m1 EXCEPT !.layers = layers]
           m3 == Walked(m2, none, none)
           loaded == [m3 EXCEPT !.next = next]
           marked == MarkDirty(loaded, Cells(width))
           full == [[marked EXCEPT !.active = Last(layers).id] EXCEPT !.modified = FALSE]
           e == Load(d, file)
<1>1. /\ d \in Documents /\ d.stroke \in Strokes /\ d.active \in Nat /\ UndoCap \in Nat
  BY PaintAssumption DEF Sound, Documents
<1>2. /\ layers \in Seq(Layers) /\ next \in Nat \ {0} /\ Stacked(layers, width, next)
      /\ width \in Cells(MaxWidth)
  BY ReadableIs DEF Readable
<1>3. file = [width |-> width, layers |-> layers]
  BY Zenon DEF Readable
<1>4. e = IF layers = <<>> THEN loaded ELSE full
  <2>1. loaded = [d EXCEPT !.width = width, !.layers = layers, !.undo = <<>>, !.redo = <<>>,
                           !.next = next]
    <3> HIDE DEF next
    <3> QED
      BY Zenon DEF Walked
  <2>2. loaded.width = width
    <3> HIDE DEF width, layers, next, loaded
    <3> QED
      BY <1>1, <2>1 DEF Documents
  <2>3. full = [[AllDirty(loaded) EXCEPT !.active = Last(layers).id] EXCEPT !.modified = FALSE]
    BY <2>2, Zenon DEF AllDirty
  <2> HIDE DEF loaded, full
  <2> QED
    BY <2>1, <2>3, Zenon DEF Load
<1> HIDE DEF layers, width, next
<1>5. /\ m1 \in Documents /\ m1.width = width /\ m1.next = d.next /\ m1.active = d.active
      /\ m1.stroke = d.stroke
  BY <1>1, <1>2 DEF Documents
<1> HIDE DEF m1
<1>6. /\ m2 \in Documents /\ m2.width = width /\ m2.layers = layers /\ m2.active = d.active
      /\ m2.stroke = d.stroke
  BY <1>2, <1>5, WithLayers
<1> HIDE DEF m2
<1>7. /\ none \in Seq(Undoables) /\ Undoes(none, next) /\ Len(none) + Len(none) <= UndoCap
  BY <1>1 DEF Undoes
<1> HIDE DEF none
<1>8. /\ m3 \in Documents /\ m3.width = width /\ m3.layers = layers /\ m3.active = d.active
      /\ m3.stroke = d.stroke /\ m3.undo = none /\ m3.redo = none
  BY <1>6, <1>7, WithHistory DEF SameLayers
<1> HIDE DEF m3
<1>9. /\ loaded \in Documents /\ loaded.width = width /\ loaded.layers = layers
      /\ loaded.active = d.active /\ loaded.stroke = d.stroke /\ loaded.undo = none
      /\ loaded.redo = none /\ loaded.next = next
  BY <1>2, <1>8 DEF Documents
<1> HIDE DEF loaded
<1>10. CASE layers = <<>>
  <2>1. e = loaded
    BY <1>4, <1>10
  <2> HIDE DEF e
  <2>2. Sound(e)
    BY <1>2, <1>7, <1>9, <1>10, <2>1 DEF Sound
  <2> QED
    BY <1>3, <1>9, <1>10, <2>1, <2>2 DEF Saved, layers, none, e
<1>11. CASE layers # <<>>
  <2> DEFINE c == Cells(width) \cap Cells(loaded.width)
             top == Last(layers).id
             m4 == [marked EXCEPT !.active = top]
  <2>1. e = [m4 EXCEPT !.modified = FALSE]
    BY <1>4, <1>11, Zenon
  <2>2. /\ marked \in Documents /\ SameLayers(loaded, marked)
        /\ marked.next = loaded.next /\ marked.undo = loaded.undo /\ marked.redo = loaded.redo
        /\ marked.stroke = [loaded.stroke EXCEPT !.dirty = @ \cup c]
        /\ marked.stale = (loaded.stale \/ c # {})
    BY <1>9, MarkDirtyIs
  <2>3. c # {}
    BY <1>2, <1>9, WidthIsRect
  <2>4. /\ top \in Nat /\ Len(layers) \in DOMAIN layers /\ layers[Len(layers)].id = top
    <3>1. Last(layers) \in Layers /\ Len(layers) \in DOMAIN layers /\ Last(layers) = layers[Len(layers)]
      BY <1>2, <1>11, FrontIs
    <3> QED
      BY <3>1 DEF Layers
  <2> HIDE DEF marked, c, top
  <2>5. /\ m4 \in Documents /\ SameLayers(marked, m4) /\ m4.next = marked.next
        /\ m4.undo = marked.undo /\ m4.redo = marked.redo /\ m4.stroke = marked.stroke
        /\ m4.stale = marked.stale /\ m4.active = top
    BY <2>2, <2>4 DEF Documents, SameLayers
  <2> HIDE DEF m4, e
  <2>6. /\ e \in Documents /\ SameLayers(m4, e) /\ e.next = m4.next /\ e.undo = m4.undo
        /\ e.redo = m4.redo /\ e.stroke = m4.stroke /\ e.stale = m4.stale /\ e.active = m4.active
    BY <2>1, <2>5, WithMark
  <2>7. /\ e.layers = layers /\ e.width = width /\ e.next = next /\ e.undo = none /\ e.redo = none
        /\ e.active = top /\ e.stale = TRUE
    BY <1>9, <2>2, <2>3, <2>5, <2>6 DEF SameLayers
  <2>8. HasLayer(e, e.active)
    BY <2>4, <2>7 DEF HasLayer, IndexesOf
  <2>9. Sound(e)
    BY <1>2, <1>7, <2>6, <2>7, <2>8 DEF Sound
  <2>10. e.stroke.on = d.stroke.on
    BY <1>1, <1>9, <2>2, <2>5, <2>6 DEF Strokes
  <2> QED
    BY <1>3, <2>7, <2>9, <2>10 DEF Saved, none, e
<1> QED
  BY <1>10, <1>11

\* What is saved can be read.
LEMMA SavedIs ==
  ASSUME NEW d, Sound(d)
  PROVE  Readable(Saved(d))
<1> DEFINE Own == [id : Nat \ {0}, bits : [Cells(d.width) -> Paint], shown : BOOLEAN]
           file == Saved(d)
<1>1. /\ d.layers \in Seq(Layers) /\ d.width \in Cells(MaxWidth) /\ Stacked(d.layers, d.width, d.next)
  BY DEF Sound, Documents
<1>2. \A k \in DOMAIN d.layers : d.layers[k] \in Own
  <2> SUFFICES ASSUME NEW k \in DOMAIN d.layers PROVE d.layers[k] \in Own
    OBVIOUS
  <2>1. d.layers[k] \in Layers /\ d.layers[k].bits \in [Cells(d.width) -> Paint]
    BY <1>1 DEF Stacked
  <2> QED
    BY <2>1 DEF Layers
<1> HIDE DEF Own
<1>3. d.layers \in Seq(Own)
  <2>1. Len(d.layers) \in Nat /\ DOMAIN d.layers = 1 .. Len(d.layers)
        /\ d.layers \in [1 .. Len(d.layers) -> Layers]
    BY <1>1
  <2>2. d.layers \in [1 .. Len(d.layers) -> Own]
    BY <1>2, <2>1
  <2> QED
    BY <2>1, <2>2, IsASeq
<1>4. file.width = d.width /\ file.layers = d.layers /\ file = [width |-> file.width, layers |-> file.layers]
  BY DEF Saved
<1>5. \A j, k \in DOMAIN d.layers : d.layers[j].id = d.layers[k].id => j = k
  BY <1>1 DEF Stacked
<1> HIDE DEF file
<1> QED
  BY <1>1, <1>3, <1>4, <1>5 DEF Readable, file, Own

-----------------------------------------------------------------------------
(* The invariant.                                                          *)

\* A painting that counts as saved is in a file, is new, or is one a stroke
\* has smudged that will mark it when it ends.
Kept ==
    ~doc.modified /\ ~tangled /\ ~late.saved /\ doc.layers # <<>> =>
        \/ Saved(doc) \in {disk[f] : f \in Files}
        \/ doc.layers = NewDocument(doc.width).layers
        \/ Mixed(doc)

Typed ==
    /\ canvas \in [tool : Tools, painting : BOOLEAN, shaping : BOOLEAN]
    /\ tangled \in BOOLEAN /\ late \in [saved : BOOLEAN, drawn : BOOLEAN]
    /\ DOMAIN disk = Files /\ \A f \in Files : Readable(disk[f])
    /\ script \subseteq Files /\ pick \subseteq Pieces

IInv ==
    /\ Typed /\ Sound(doc)
    /\ doc.stroke.on => canvas.painting
    /\ CompositeIsCurrent /\ Kept

LEMMA SameSaved ==
  ASSUME NEW d, NEW e, SameLayers(d, e)
  PROVE  Saved(e) = Saved(d)
  BY DEF SameLayers, Saved

\* The painting is the same, or is marked, or is held by its stroke.
LEMMA KeptAgain ==
  ASSUME IInv, disk' = disk, late'.saved = late.saved,
         ~doc'.modified /\ ~tangled' =>
            ~tangled /\ (Mixed(doc') \/ (SameLayers(doc, doc') /\ ~doc.modified /\ ~Mixed(doc)))
  PROVE  Kept'
<1> SUFFICES ASSUME ~doc'.modified, ~tangled', ~late'.saved, doc'.layers # <<>>, ~Mixed(doc')
             PROVE  \/ Saved(doc') \in {disk[f] : f \in Files}
                    \/ doc'.layers = NewDocument(doc'.width).layers
  BY DEF Kept
<1>1. ~tangled /\ SameLayers(doc, doc') /\ ~doc.modified /\ ~Mixed(doc)
  OBVIOUS
<1>2. doc'.layers = doc.layers /\ doc'.width = doc.width /\ Saved(doc') = Saved(doc)
  BY <1>1, SameSaved DEF SameLayers
<1>3. Saved(doc) \in {disk[f] : f \in Files} \/ doc.layers = NewDocument(doc.width).layers
  BY <1>1, <1>2 DEF IInv, Kept
<1> QED
  BY <1>2, <1>3

\* What a change that shows itself leaves current.
LEMMA CurrentAgain ==
  ASSUME IInv, Shows(doc, doc'), ~late'.drawn /\ doc'.composite = doc.composite => ~late.drawn
  PROVE  CompositeIsCurrent'
<1> SUFFICES ASSUME ~doc'.stale, ~late'.drawn, doc'.layers # <<>>
             PROVE  doc'.composite = Flat(doc')
  BY DEF CompositeIsCurrent
<1>1. SameLayers(doc, doc') /\ doc'.composite = doc.composite /\ ~doc.stale
  BY DEF Shows
<1>2. Flat(doc') = Flat(doc) /\ doc'.layers = doc.layers
  BY <1>1, SameFlat DEF SameLayers
<1> QED
  BY <1>1, <1>2 DEF IInv, CompositeIsCurrent

\* Between strokes and around them.
LEMMA FineStep ==
  ASSUME IInv, Fine(doc, doc'), Typed', disk' = disk, late' = late,
         canvas'.painting = canvas.painting, (tangled => tangled') \/ doc'.modified
  PROVE  IInv'
<1>1. Sound(doc') /\ Shows(doc, doc') /\ Marks(doc, doc') /\ Holds(doc, doc')
      /\ doc'.stroke.on = doc.stroke.on
  BY DEF Fine
<1>2. CompositeIsCurrent'
  BY <1>1, CurrentAgain
<1>3. ~doc'.modified /\ ~tangled' =>
        ~tangled /\ (Mixed(doc') \/ (SameLayers(doc, doc') /\ ~doc.modified /\ ~Mixed(doc)))
  BY <1>1 DEF Marks, Holds
<1>4. Kept'
  BY <1>3, KeptAgain
<1> QED
  BY <1>1, <1>2, <1>4 DEF IInv

\* On the canvas.
LEMMA PaintStep ==
  ASSUME IInv, Typed', Sound(doc'), Shows(doc, doc'), disk' = disk,
         late' = [late EXCEPT !.drawn = @ /\ doc'.composite = doc.composite],
         doc'.stroke.on => canvas'.painting,
         ~doc'.modified /\ ~tangled' =>
            ~tangled /\ (Mixed(doc') \/ (SameLayers(doc, doc') /\ ~doc.modified /\ ~Mixed(doc)))
  PROVE  IInv'
<1>1. late'.saved = late.saved /\ (~late'.drawn /\ doc'.composite = doc.composite => ~late.drawn)
  BY DEF IInv, Typed
<1> QED
  BY <1>1, KeptAgain, CurrentAgain DEF IInv

\* The first touch of a stroke leaves the layers as they were.
LEMMA BegunIs ==
  ASSUME NEW d, Sound(d), NEW e, Touch(StrokeBegin(d), e)
  PROVE  /\ Sound(e) /\ SameLayers(d, e) /\ e.modified = d.modified /\ e.stroke.on = TRUE
         /\ e.composite = d.composite /\ (e.stale \/ ~d.stale)
<1> DEFINE b == StrokeBegin(d)
<1>1. /\ Sound(b) /\ SameButStroke(d, b) /\ b.stale = d.stale
      /\ b.stroke.on = TRUE /\ b.stroke.foot = {}
  BY StrokeBeginIs
<1> HIDE DEF b
<1>2. Touch(b, e)
  BY DEF b
<1> QED
  BY <1>1, <1>2 DEF Touch, SameButStroke, SameLayers

\* A stroke that has drawn nothing a step does not hold is in the document,
\* and what is dropped when another begins is what was tangled.
LEMMA DropsWhatIsMixed ==
  ASSUME ~Drops
  PROVE  ~Mixed(doc)
  BY DEF Drops, Mixed

\* A stroke from its beginning to its end.
LEMMA WholeStroke ==
  ASSUME NEW d, Sound(d), NEW t, Sound(t), t.modified \/ (SameLayers(d, t) /\ t.modified = d.modified),
         t.stale \/ (SameLayers(d, t) /\ ~d.stale /\ t.composite = d.composite)
  PROVE  LET e == StrokeEnd(t)
         IN  /\ Sound(e) /\ e.stroke.on = FALSE /\ Shows(d, e)
             /\ ~e.modified => SameLayers(d, e) /\ ~d.modified
<1> DEFINE e == StrokeEnd(t)
<1>1. Sound(e) /\ e.stroke.on = FALSE /\ Shows(t, e) /\ Marks(t, e)
  BY StrokeEndIs
<1> HIDE DEF e
<1>2. Shows(d, e)
  BY <1>1 DEF Shows, SameLayers
<1>3. ~e.modified => SameLayers(d, e) /\ ~d.modified
  BY <1>1 DEF Marks, SameLayers
<1> QED
  BY <1>1, <1>2, <1>3 DEF e

LEMMA FilledIs ==
  ASSUME NEW d, Sound(d), NEW seed, NEW ink \in Inks
  PROVE  LET e == Filled(d, seed, ink)
         IN  /\ Sound(e) /\ e.stroke.on = FALSE /\ Shows(d, e)
             /\ ~e.modified => SameLayers(d, e) /\ ~d.modified
<1> DEFINE b == StrokeBegin(d)
           t == FillAt(b, seed, ink)
<1>1. ink \in Paint /\ Filled(d, seed, ink) = StrokeEnd(t)
  BY DEF Paint, Filled
<1>2. Sound(b) /\ SameButStroke(d, b) /\ b.stale = d.stale
  BY StrokeBeginIs
<1> HIDE DEF b
<1>3. /\ Sound(t) /\ t.stroke.on = b.stroke.on
      /\ t = b \/ (t.modified = TRUE /\ t.stale = TRUE)
  BY <1>1, <1>2, FillAtIs
<1>4. d.stale \in BOOLEAN
  BY DEF Sound, Documents
<1> HIDE DEF t
<1>5. /\ t.modified \/ (SameLayers(d, t) /\ t.modified = d.modified)
      /\ t.stale \/ (SameLayers(d, t) /\ ~d.stale /\ t.composite = d.composite)
  BY <1>2, <1>3, <1>4 DEF SameButStroke
<1> DEFINE e == StrokeEnd(t)
<1>6. /\ Sound(e) /\ e.stroke.on = FALSE /\ Shows(d, e)
      /\ ~e.modified => SameLayers(d, e) /\ ~d.modified
  BY <1>3, <1>5, WholeStroke
<1> HIDE DEF e
<1> QED
  BY <1>1, <1>6 DEF e

LEMMA DabbedIs ==
  ASSUME NEW d, Sound(d), NEW t, Touch(StrokeBegin(d), t)
  PROVE  LET e == StrokeEnd(t)
         IN  /\ Sound(e) /\ e.stroke.on = FALSE /\ Shows(d, e)
             /\ ~e.modified => SameLayers(d, e) /\ ~d.modified
<1>1. /\ Sound(t) /\ SameLayers(d, t) /\ t.modified = d.modified
      /\ t.composite = d.composite /\ (t.stale \/ ~d.stale)
  BY BegunIs
<1> QED
  BY <1>1, WholeStroke

\* A whole stroke, by the mouse or by a script.
LEMMA StrokeStep ==
  ASSUME IInv, Typed', Sound(doc'), doc'.stroke.on = FALSE, Shows(doc, doc'), disk' = disk,
         late' = [late EXCEPT !.drawn = @ /\ doc'.composite = doc.composite],
         ~doc'.modified => SameLayers(doc, doc') /\ ~doc.modified, tangled' = (tangled \/ Drops)
  PROVE  IInv'
<1>1. ~doc'.modified /\ ~tangled' => ~tangled /\ SameLayers(doc, doc') /\ ~doc.modified /\ ~Mixed(doc)
  BY DropsWhatIsMixed
<1> QED
  BY <1>1, PaintStep

\* What the mouse, the pulse and the scripts do on the canvas.
LEMMA CanvasStep ==
  ASSUME IInv, Canvas
  PROVE  IInv'
<1>1. Sound(doc) /\ Typed /\ (doc.stroke.on => canvas.painting)
  BY DEF IInv
<1>2. /\ canvas.tool \in Tools /\ canvas.painting \in BOOLEAN /\ canvas.shaping \in BOOLEAN
      /\ tangled \in BOOLEAN /\ Inks \subseteq Paint /\ doc.stale \in BOOLEAN
      /\ Drops \in BOOLEAN /\ \A e : Stray(doc, e) \in BOOLEAN
  BY <1>1 DEF Typed, Sound, Documents, Paint, Drops, Stray
<1>3. /\ disk' = disk /\ script' = script /\ pick' = pick
      /\ late' = [late EXCEPT !.drawn = @ /\ doc'.composite = doc.composite]
  BY DEF Canvas
<1>4. ASSUME canvas' \in [tool : Tools, painting : BOOLEAN, shaping : BOOLEAN], tangled' \in BOOLEAN
      PROVE  Typed'
  <2>1. late' \in [saved : BOOLEAN, drawn : BOOLEAN]
    BY <1>1, <1>3 DEF Typed
  <2> QED
    BY <1>1, <1>3, <1>4, <2>1 DEF Typed
<1>5. canvas \in [tool : Tools, painting : BOOLEAN, shaping : BOOLEAN]
  BY <1>1 DEF Typed
<1>6. CASE PressBrush
  <2>1. PICK c \in Spots : \E e \in PaintDabs(StrokeBegin(doc), canvas.tool, c) : Tangle(e, Drops)
    BY <1>6 DEF PressBrush
  <2>2. PICK e \in PaintDabs(StrokeBegin(doc), canvas.tool, c) : Tangle(e, Drops)
    BY <2>1
  <2>3. doc' = e /\ tangled' = (tangled \/ Drops) /\ canvas' = [canvas EXCEPT !.painting = TRUE]
    BY <1>6, <2>2 DEF PressBrush, Tangle, Do
  <2>4. Touch(StrokeBegin(doc), e)
    BY <1>1, <1>2, StrokeBeginIs, PaintDabsAre
  <2>5. /\ Sound(e) /\ SameLayers(doc, e) /\ e.modified = doc.modified
        /\ e.composite = doc.composite /\ (e.stale \/ ~doc.stale)
    BY <1>1, <2>4, BegunIs
  <2>6. /\ canvas' \in [tool : Tools, painting : BOOLEAN, shaping : BOOLEAN] /\ tangled' \in BOOLEAN
        /\ canvas'.painting = TRUE
    BY <1>2, <1>5, <2>3
  <2>7. Typed'
    BY <1>4, <2>6
  <2>8. Shows(doc, doc')
    BY <2>3, <2>5 DEF Shows
  <2>9. ~doc'.modified /\ ~tangled' => ~tangled /\ SameLayers(doc, doc') /\ ~doc.modified /\ ~Mixed(doc)
    BY <2>3, <2>5, DropsWhatIsMixed
  <2> QED
    BY <1>3, <2>3, <2>5, <2>6, <2>7, <2>8, <2>9, PaintStep
<1>7. CASE PressFill
  <2>1. PICK c \in Spots, ink \in Inks : Tangle(Filled(doc, c, ink), Drops)
    BY <1>7 DEF PressFill
  <2>2. doc' = Filled(doc, c, ink) /\ tangled' = (tangled \/ Drops) /\ canvas' = canvas
    BY <1>7, <2>1 DEF PressFill, Tangle, Do
  <2>3. Typed'
    BY <1>2, <1>4, <1>5, <2>2
  <2>4. /\ Sound(doc') /\ doc'.stroke.on = FALSE /\ Shows(doc, doc')
        /\ ~doc'.modified => SameLayers(doc, doc') /\ ~doc.modified
    BY <1>1, <2>2, FilledIs
  <2> QED
    BY <1>3, <2>2, <2>3, <2>4, StrokeStep
<1>8. CASE PressShape
  <2>1. doc' = doc /\ tangled' = tangled /\ canvas' = [canvas EXCEPT !.shaping = TRUE]
    BY <1>8 DEF PressShape, Calm, Do
  <2>2. /\ canvas' \in [tool : Tools, painting : BOOLEAN, shaping : BOOLEAN] /\ tangled' \in BOOLEAN
        /\ canvas'.painting = canvas.painting
    BY <1>2, <1>5, <2>1
  <2>3. Typed'
    BY <1>4, <2>2
  <2>4. Fine(doc, doc')
    BY <1>1, <2>1, FineSame
  <2>5. Sound(doc') /\ Shows(doc, doc') /\ (doc'.stroke.on => canvas'.painting)
    BY <1>1, <2>1, <2>2, <2>4 DEF Fine
  <2>6. ~doc'.modified /\ ~tangled' =>
          ~tangled /\ (Mixed(doc') \/ (SameLayers(doc, doc') /\ ~doc.modified /\ ~Mixed(doc)))
    BY <2>1 DEF SameLayers
  <2> QED
    BY <1>3, <2>3, <2>5, <2>6, PaintStep
<1>9. CASE Moved
  <2>1. PICK c \in Spots : \E e \in PaintDabs(doc, canvas.tool, c) : Tangle(e, Stray(doc, e))
    BY <1>9 DEF Moved
  <2>2. PICK e \in PaintDabs(doc, canvas.tool, c) : Tangle(e, Stray(doc, e))
    BY <2>1
  <2>3. doc' = e /\ tangled' = (tangled \/ Stray(doc, e)) /\ canvas' = canvas
    BY <1>9, <2>2 DEF Moved, Tangle, Do
  <2>4. Touch(doc, e)
    BY <1>1, <1>2, PaintDabsAre
  <2>5. Typed'
    BY <1>2, <1>4, <1>5, <2>3
  <2>6. Sound(doc') /\ Shows(doc, doc') /\ (doc'.stroke.on => canvas'.painting)
    BY <1>1, <2>3, <2>4 DEF Touch, Shows
  <2>7. ~doc'.modified /\ ~tangled' =>
          ~tangled /\ (Mixed(doc') \/ (SameLayers(doc, doc') /\ ~doc.modified /\ ~Mixed(doc)))
    BY <2>3, <2>4 DEF Touch
  <2> QED
    BY <1>3, <2>5, <2>6, <2>7, PaintStep
<1>10. CASE Release
  <2>1. CASE canvas.shaping
    <3>1. PICK a \in Spots, b \in Spots, ink \in Inks :
            Tangle(Stamped(doc, canvas.tool, a .. b, ink), Drops)
          /\ canvas' = [canvas EXCEPT !.shaping = FALSE]
      BY <1>10, <2>1 DEF Release
    <3> DEFINE t == IF canvas.tool = "shape" THEN Dab(StrokeBegin(doc), a .. b, ink)
                    ELSE StrokeBegin(doc)
    <3>2. doc' = StrokeEnd(t) /\ tangled' = (tangled \/ Drops)
      BY <3>1 DEF Tangle, Do, Stamped
    <3>3. Sound(StrokeBegin(doc)) /\ ink \in Paint
      BY <1>1, <1>2, StrokeBeginIs
    <3>4. Touch(StrokeBegin(doc), t)
      <4>1. Touch(StrokeBegin(doc), Dab(StrokeBegin(doc), a .. b, ink))
        BY <3>3, DabIs
      <4>2. Touch(StrokeBegin(doc), StrokeBegin(doc))
        BY <3>3, TouchNone
      <4> QED
        BY <4>1, <4>2
    <3> HIDE DEF t
    <3>5. /\ canvas' \in [tool : Tools, painting : BOOLEAN, shaping : BOOLEAN] /\ tangled' \in BOOLEAN
      BY <1>2, <1>5, <3>1, <3>2
    <3>6. /\ Sound(doc') /\ doc'.stroke.on = FALSE /\ Shows(doc, doc')
          /\ ~doc'.modified => SameLayers(doc, doc') /\ ~doc.modified
      BY <1>1, <3>2, <3>4, DabbedIs
    <3>7. Typed'
      BY <1>4, <3>5
    <3> QED
      BY <1>3, <3>2, <3>6, <3>7, StrokeStep
  <2>2. CASE ~canvas.shaping
    <3>1. doc' = StrokeEnd(doc) /\ tangled' = tangled /\ canvas' = [canvas EXCEPT !.painting = FALSE]
      BY <1>10, <2>2 DEF Release
    <3>2. /\ canvas' \in [tool : Tools, painting : BOOLEAN, shaping : BOOLEAN] /\ tangled' \in BOOLEAN
      BY <1>2, <1>5, <3>1
    <3>3. Typed'
      BY <1>4, <3>2
    <3>4. /\ Sound(doc') /\ doc'.stroke.on = FALSE
          /\ Shows(doc, doc') /\ Marks(doc, doc') /\ (Mixed(doc) => doc'.modified)
      BY <1>1, <3>1, StrokeEndIs
    <3>5. ~doc'.modified /\ ~tangled' => ~tangled /\ SameLayers(doc, doc') /\ ~doc.modified /\ ~Mixed(doc)
      BY <3>1, <3>4 DEF Marks
    <3> QED
      BY <1>3, <3>3, <3>4, <3>5, PaintStep
  <2> QED
    BY <2>1, <2>2
<1>11. CASE ScriptStroke
  <2>1. CASE canvas.tool = "fill"
    <3>1. PICK c \in Spots, ink \in Inks : Tangle(Filled(doc, c, ink), Drops) /\ canvas' = canvas
      BY <1>11, <2>1 DEF ScriptStroke
    <3>2. doc' = Filled(doc, c, ink) /\ tangled' = (tangled \/ Drops)
      BY <3>1 DEF Tangle, Do
    <3>3. Typed'
      BY <1>2, <1>4, <1>5, <3>1, <3>2
    <3>4. /\ Sound(doc') /\ doc'.stroke.on = FALSE /\ Shows(doc, doc')
          /\ ~doc'.modified => SameLayers(doc, doc') /\ ~doc.modified
      BY <1>1, <3>2, FilledIs
    <3> QED
      BY <1>3, <3>2, <3>3, <3>4, StrokeStep
  <2>2. CASE canvas.tool # "fill"
    <3>1. PICK c \in Spots : \E t \in PaintDabs(StrokeBegin(doc), canvas.tool, c) :
                               Tangle(StrokeEnd(t), Drops)
      BY <1>11, <2>2 DEF ScriptStroke
    <3>2. PICK t \in PaintDabs(StrokeBegin(doc), canvas.tool, c) : Tangle(StrokeEnd(t), Drops)
      BY <3>1
    <3>3. doc' = StrokeEnd(t) /\ tangled' = (tangled \/ Drops) /\ canvas' = canvas
      BY <1>11, <3>2 DEF ScriptStroke, Tangle, Do
    <3>4. Touch(StrokeBegin(doc), t)
      BY <1>1, <1>2, StrokeBeginIs, PaintDabsAre
    <3>5. Typed'
      BY <1>2, <1>4, <1>5, <3>3
    <3>6. /\ Sound(doc') /\ doc'.stroke.on = FALSE /\ Shows(doc, doc')
          /\ ~doc'.modified => SameLayers(doc, doc') /\ ~doc.modified
      BY <1>1, <3>3, <3>4, DabbedIs
    <3> QED
      BY <1>3, <3>3, <3>5, <3>6, StrokeStep
  <2> QED
    BY <2>1, <2>2
<1>12. CASE Draw
  <2>1. /\ doc' = [doc EXCEPT !.composite = Flat(doc), !.stale = FALSE]
        /\ canvas' = canvas /\ tangled' = tangled
    BY <1>12 DEF Draw, Composite
  <2>2. /\ Sound(doc') /\ SameLayers(doc, doc') /\ doc'.composite = Flat(doc) /\ doc'.stale = FALSE
        /\ doc'.modified = doc.modified /\ doc'.stroke = doc.stroke
    BY ZenonT(60), <1>1, <2>1, FlatIs, KeptImage
  <2>3. Typed'
    BY <1>2, <1>4, <1>5, <2>1
  <2>4. CompositeIsCurrent'
    BY <2>2, SameFlat DEF CompositeIsCurrent
  <2>5. Mixed(doc) <=> Mixed(doc')
    BY <2>2, SameLayersHave DEF Mixed, SameLayers
  <2>6. ~doc'.modified /\ ~tangled' =>
          ~tangled /\ (Mixed(doc') \/ (SameLayers(doc, doc') /\ ~doc.modified /\ ~Mixed(doc)))
    BY <2>1, <2>2, <2>5
  <2>7. late'.saved = late.saved
    BY <1>1, <1>3 DEF Typed
  <2>8. Kept'
    BY <1>3, <2>6, <2>7, KeptAgain
  <2> QED
    BY <1>1, <2>1, <2>2, <2>3, <2>4, <2>8 DEF IInv
<1> QED
  BY <1>6, <1>7, <1>8, <1>9, <1>10, <1>11, <1>12 DEF Canvas

\* The layers, the history and the size of the canvas.
LEMMA EditStep ==
  ASSUME IInv, LayerOps \/ History \/ ChangeCanvas \/ SaveFails
  PROVE  IInv'
<1>1. /\ Sound(doc) /\ doc \in Documents /\ Typed /\ (doc.stroke.on => canvas.painting)
      /\ tangled \in BOOLEAN /\ doc.stroke.on \in BOOLEAN /\ doc.active \in Nat
      /\ doc.next \in Nat \ {0}
  BY DEF IInv, Typed, Sound, Documents, Strokes
<1>2. canvas' = canvas /\ disk' = disk /\ script' = script /\ pick' = pick /\ late' = late
  BY DEF LayerOps, History, ChangeCanvas, SaveFails, Elsewhere
<1>3. ASSUME tangled' \in BOOLEAN PROVE Typed'
  BY <1>1, <1>2, <1>3 DEF Typed
<1>4. ASSUME NEW e, Fine(doc, e), doc' = e, (tangled' = tangled) \/ (tangled' = (tangled \/ doc.stroke.on))
      PROVE  IInv'
  BY <1>1, <1>2, <1>3, <1>4, FineStep
<1>5. CASE LayerOps
  <2>1. CASE \E id \in 1 .. doc.next - 1 : Calm(SetActiveLayer(doc, id))
    <3>1. PICK id \in 1 .. doc.next - 1 : Calm(SetActiveLayer(doc, id))
      BY <2>1
    <3>2. id \in Nat
      BY <1>1
    <3>3. Fine(doc, SetActiveLayer(doc, id))
      BY <1>1, <3>2, SetActiveFine
    <3> QED
      BY <1>4, <3>1, <3>3 DEF Calm, Do
  <2>2. CASE Calm(AddLayer(doc))
    <3>1. Fine(doc, AddLayer(doc))
      BY <1>1, AddLayerFine
    <3> QED
      BY <1>4, <2>2, <3>1 DEF Calm, Do
  <2>3. CASE Calm(DeleteLayer(doc, doc.active))
    <3>1. Fine(doc, DeleteLayer(doc, doc.active))
      BY <1>1, DeleteLayerIs
    <3> QED
      BY <1>4, <2>3, <3>1 DEF Calm, Do
  <2>4. CASE \E up \in BOOLEAN : Calm(MoveLayer(doc, doc.active, up))
    <3>1. PICK up \in BOOLEAN : Calm(MoveLayer(doc, doc.active, up))
      BY <2>4
    <3>2. Fine(doc, MoveLayer(doc, doc.active, up))
      BY <1>1, MoveLayerIs
    <3> QED
      BY <1>4, <3>1, <3>2 DEF Calm, Do
  <2>5. CASE \E shown \in BOOLEAN : Calm(SetLayerShown(doc, doc.active, shown))
    <3>1. PICK shown \in BOOLEAN : Calm(SetLayerShown(doc, doc.active, shown))
      BY <2>5
    <3>2. Fine(doc, SetLayerShown(doc, doc.active, shown))
      BY <1>1, SetLayerShownIs
    <3> QED
      BY <1>4, <3>1, <3>2 DEF Calm, Do
  <2>6. CASE Calm(RenameLayer(doc, doc.active))
    <3>1. Fine(doc, RenameLayer(doc, doc.active))
      BY <1>1, RenameFine
    <3> QED
      BY <1>4, <2>6, <3>1 DEF Calm, Do
  <2> QED
    BY <1>5, <2>1, <2>2, <2>3, <2>4, <2>5, <2>6 DEF LayerOps
<1>6. CASE History
  <2>1. CASE Tangle(Undo(doc), doc.stroke.on)
    <3>1. Fine(doc, Undo(doc))
      BY <1>1, UndoIs
    <3> QED
      BY <1>4, <2>1, <3>1 DEF Tangle, Do
  <2>2. CASE Tangle(Redo(doc), doc.stroke.on)
    <3>1. Fine(doc, Redo(doc))
      BY <1>1, RedoIs
    <3> QED
      BY <1>4, <2>2, <3>1 DEF Tangle, Do
  <2> QED
    BY <1>6, <2>1, <2>2 DEF History
<1>7. CASE ChangeCanvas
  <2>1. PICK w \in Cells(MaxWidth) :
          (w # doc.width /\ Cleared(Resize(doc, w))) \/ Cleared(SetCanvas(doc, w))
    BY <1>7 DEF ChangeCanvas
  <2>2. tangled' = doc.stroke.on
    BY <2>1 DEF Cleared
  <2>3. Typed'
    BY <1>1, <1>3, <2>2
  <2>4. CASE w # doc.width /\ doc' = Resize(doc, w)
    <3>1. Fine(doc, doc') /\ doc'.modified
      BY <1>1, <2>4, ResizeIs
    <3> QED
      BY <1>2, <2>3, <3>1, FineStep
  <2>5. CASE doc' = SetCanvas(doc, w)
    <3>1. Sound(doc') /\ doc'.stale = TRUE /\ doc'.stroke.on = doc.stroke.on /\ doc'.width = w
      BY <1>1, <2>5, SetCanvasIs
    <3>2. doc'.layers = NewDocument(doc'.width).layers
      BY <1>1, <2>5, <3>1, SetCanvasIsNew
    <3> QED
      BY <1>1, <1>2, <2>3, <3>1, <3>2 DEF IInv, CompositeIsCurrent, Kept
  <2> QED
    BY <2>1, <2>4, <2>5 DEF Cleared, Do
<1>8. CASE SaveFails
  <2>1. Fine(doc, doc)
    BY <1>1, FineSame
  <2> QED
    BY <1>4, <1>8, <2>1 DEF SaveFails, Calm, Do
<1> QED
  BY <1>5, <1>6, <1>7, <1>8

\* The files and the scripts, which leave the layers alone or replace them.
LEMMA FileStep ==
  ASSUME IInv, Save \/ OpenFile \/ ScriptSaves \/ ScriptNotes \/ PixelComposes \/ PixelKeeps
  PROVE  IInv'
<1>1. /\ Sound(doc) /\ doc \in Documents /\ Typed /\ (doc.stroke.on => canvas.painting)
      /\ doc.stroke.on \in BOOLEAN /\ CompositeIsCurrent /\ Kept
      /\ late.saved \in BOOLEAN /\ late.drawn \in BOOLEAN
  BY DEF IInv, Typed, Sound, Documents, Strokes
<1>2. canvas' = canvas
  BY Zenon DEF Save, OpenFile, ScriptSaves, ScriptNotes, PixelComposes, PixelKeeps
<1>3. ASSUME NEW f \in Files, Write(f)
      PROVE  /\ DOMAIN disk' = Files /\ \A g \in Files : Readable(disk'[g])
             /\ Saved(doc) = disk'[f]
  <2>1. Readable(Saved(doc))
    BY <1>1, SavedIs
  <2>2. \A g \in Files : disk'[g] = IF g = f THEN Saved(doc) ELSE disk[g]
    BY <1>1, <1>3 DEF Write, Typed
  <2>3. DOMAIN disk' = Files
    BY <1>1, <1>3 DEF Write, Typed
  <2> QED
    BY <1>1, <2>1, <2>2, <2>3 DEF Typed
<1>4. ASSUME NEW m \in BOOLEAN, doc' = [doc EXCEPT !.modified = m]
      PROVE  /\ Sound(doc') /\ SameLayers(doc, doc') /\ doc'.modified = m /\ doc'.stroke = doc.stroke
             /\ doc'.stale = doc.stale /\ doc'.composite = doc.composite /\ Saved(doc') = Saved(doc)
  <2>1. /\ doc' \in Documents /\ SameLayers(doc, doc') /\ doc'.next = doc.next
        /\ doc'.active = doc.active /\ doc'.undo = doc.undo /\ doc'.redo = doc.redo /\ doc'.modified = m
        /\ doc'.stroke = doc.stroke /\ doc'.stale = doc.stale /\ doc'.composite = doc.composite
    BY <1>1, <1>4, WithMark
  <2> QED
    BY <1>1, <2>1, SoundFrame, SameSaved
<1>5. ASSUME SameLayers(doc, doc'), doc'.stale = doc.stale, doc'.composite = doc.composite,
             late'.drawn = late.drawn
      PROVE  CompositeIsCurrent'
  BY <1>1, <1>5, SameFlat DEF CompositeIsCurrent, SameLayers
<1>6. CASE Save
  <2>1. PICK f \in Files : Write(f)
    BY <1>6 DEF Save
  <2>2. /\ doc' = [doc EXCEPT !.modified = FALSE] /\ tangled' = tangled
        /\ late' = [late EXCEPT !.saved = FALSE] /\ script' = script /\ pick' = pick
    BY <1>6 DEF Save, Calm, Do
  <2>3. late' \in [saved : BOOLEAN, drawn : BOOLEAN] /\ late'.drawn = late.drawn
    BY <1>1, <2>2 DEF Typed
  <2>4. Typed'
    BY <1>1, <1>2, <1>3, <2>1, <2>2, <2>3 DEF Typed
  <2>5. /\ Sound(doc') /\ SameLayers(doc, doc') /\ doc'.stroke = doc.stroke
        /\ doc'.stale = doc.stale /\ doc'.composite = doc.composite /\ Saved(doc') = Saved(doc)
    BY <1>4, <2>2
  <2>6. Kept'
    BY <1>3, <2>1, <2>5 DEF Kept
  <2> QED
    BY <1>1, <1>2, <1>5, <2>3, <2>4, <2>5, <2>6 DEF IInv
<1>7. CASE OpenFile
  <2>1. PICK f \in Files : /\ Cleared(Load(doc, disk[f]))
                           /\ late' = [late EXCEPT !.saved = @ /\ disk[f].layers = <<>>]
    BY <1>7 DEF OpenFile
  <2>2. /\ doc' = Load(doc, disk[f]) /\ tangled' = doc.stroke.on
        /\ disk' = disk /\ script' = script /\ pick' = pick
    BY <1>7, <2>1 DEF OpenFile, Cleared, Do
  <2>3. late' \in [saved : BOOLEAN, drawn : BOOLEAN] /\ late'.drawn = late.drawn
    BY <1>1, <2>1 DEF Typed
  <2>4. Typed'
    BY <1>1, <1>2, <2>2, <2>3 DEF Typed
  <2>5. Readable(disk[f])
    BY <1>1 DEF Typed
  <2>6. /\ Sound(doc') /\ doc'.stroke.on = doc.stroke.on /\ Saved(doc') = disk[f]
        /\ disk[f].layers # <<>> => doc'.stale = TRUE
    BY <1>1, <2>2, <2>5, LoadIs
  <2>7. doc'.layers = disk[f].layers
    BY <2>6 DEF Saved
  <2>8. Kept' /\ CompositeIsCurrent'
    BY <2>2, <2>6, <2>7 DEF Kept, CompositeIsCurrent
  <2> QED
    BY <1>1, <1>2, <2>4, <2>6, <2>8 DEF IInv
<1>8. CASE ScriptSaves
  <2>1. PICK f \in Files : Write(f) /\ script' = {f}
    BY <1>8 DEF ScriptSaves
  <2>2. doc' = doc /\ tangled' = tangled /\ late' = late /\ pick' = pick
    BY <1>8 DEF ScriptSaves, Calm, Do
  <2>3. Typed'
    BY <1>1, <1>2, <1>3, <2>1, <2>2 DEF Typed
  <2>4. Saved(doc') \in {disk'[g] : g \in Files}
    BY <1>3, <2>1, <2>2
  <2>5. Kept'
    BY <2>4 DEF Kept
  <2>6. CompositeIsCurrent'
    BY <1>1, <2>2 DEF CompositeIsCurrent
  <2> QED
    BY <1>1, <1>2, <2>2, <2>3, <2>5, <2>6 DEF IInv
<1>9. CASE ScriptNotes
  <2>1. /\ doc' = [doc EXCEPT !.modified = FALSE] /\ script' = {} /\ tangled' = tangled
        /\ late' = [late EXCEPT !.saved = \A f \in script : disk[f] # Saved(doc)]
        /\ disk' = disk /\ pick' = pick /\ script # {}
    BY <1>9 DEF ScriptNotes
  <2>2. /\ late' \in [saved : BOOLEAN, drawn : BOOLEAN] /\ late'.drawn = late.drawn
        /\ late'.saved = \A f \in script : disk[f] # Saved(doc)
    <3> DEFINE none == \A f \in script : disk[f] # Saved(doc)
    <3>1. none \in BOOLEAN /\ late' = [late EXCEPT !.saved = none]
      BY <2>1
    <3> HIDE DEF none
    <3>2. /\ late' \in [saved : BOOLEAN, drawn : BOOLEAN] /\ late'.drawn = late.drawn
          /\ late'.saved = none
      BY <1>1, <3>1 DEF Typed
    <3> QED
      BY <3>2 DEF none
  <2>3. Typed'
    BY <1>1, <1>2, <2>1, <2>2 DEF Typed
  <2>4. /\ Sound(doc') /\ SameLayers(doc, doc') /\ doc'.stroke = doc.stroke
        /\ doc'.stale = doc.stale /\ doc'.composite = doc.composite /\ Saved(doc') = Saved(doc)
    BY <1>4, <2>1
  <2>5. script \subseteq Files
    BY <1>1 DEF Typed
  <2>6. Kept'
    <3>1. ~late'.saved => \E f \in Files : Saved(doc') = disk'[f]
      BY <2>1, <2>2, <2>4, <2>5
    <3> QED
      BY <3>1 DEF Kept
  <2> QED
    BY <1>1, <1>2, <1>5, <2>2, <2>3, <2>4, <2>6 DEF IInv
<1>10. CASE PixelComposes
  <2>1. /\ doc' = doc /\ tangled' = tangled /\ late' = late /\ pick' = {Flat(doc)}
        /\ disk' = disk /\ script' = script
    BY <1>10 DEF PixelComposes, Calm, Do
  <2>2. Flat(doc) \in Pieces
    BY <1>1, FlatIs
  <2>3. Typed'
    BY <1>1, <1>2, <2>1, <2>2 DEF Typed
  <2>4. CompositeIsCurrent' /\ Kept'
    BY <1>1, <2>1 DEF CompositeIsCurrent, Kept
  <2> QED
    BY <1>1, <1>2, <2>1, <2>3, <2>4 DEF IInv
<1>11. CASE PixelKeeps
  <2>1. PICK image \in pick :
          /\ doc' = [doc EXCEPT !.composite = image, !.stale = FALSE]
          /\ late' = [late EXCEPT !.drawn = image # Flat(doc)]
          /\ pick' = {} /\ tangled' = tangled /\ disk' = disk /\ script' = script
    BY <1>11 DEF PixelKeeps
  <2>2. image \in Pieces
    BY <1>1 DEF Typed
  <2>3. /\ Sound(doc') /\ SameLayers(doc, doc') /\ doc'.composite = image /\ doc'.stale = FALSE
        /\ doc'.modified = doc.modified /\ doc'.stroke = doc.stroke
    BY Zenon, <1>1, <2>1, <2>2, KeptImage
  <2>4. /\ late' \in [saved : BOOLEAN, drawn : BOOLEAN] /\ late'.saved = late.saved
        /\ late'.drawn = (image # Flat(doc))
    BY <1>1, <2>1 DEF Typed
  <2>5. Typed'
    BY <1>1, <1>2, <2>1, <2>4 DEF Typed
  <2>6. CompositeIsCurrent'
    BY <2>3, <2>4, SameFlat DEF CompositeIsCurrent
  <2>7. Mixed(doc) <=> Mixed(doc')
    BY <2>3, SameLayersHave DEF Mixed, SameLayers
  <2>8. Kept'
    <3>1. ~doc'.modified /\ ~tangled' =>
            ~tangled /\ (Mixed(doc') \/ (SameLayers(doc, doc') /\ ~doc.modified /\ ~Mixed(doc)))
      BY <2>1, <2>3, <2>7
    <3> QED
      BY <2>1, <2>4, <3>1, KeptAgain
  <2> QED
    BY <1>1, <1>2, <2>3, <2>5, <2>6, <2>8 DEF IInv
<1> QED
  BY <1>6, <1>7, <1>8, <1>9, <1>10, <1>11

-----------------------------------------------------------------------------
LEMMA InitIsSound == Init => IInv
<1> SUFFICES ASSUME Init PROVE IInv
  OBVIOUS
<1>1. MaxWidth \in Cells(MaxWidth)
  BY WidthAssumption DEF Cells
<1>2. /\ Sound(doc) /\ doc.stale = TRUE /\ doc.stroke.on = FALSE /\ doc.width = MaxWidth
      /\ doc.layers = NewDocument(doc.width).layers
  <2>1. doc = NewDocument(MaxWidth)
    BY DEF Init
  <2> QED
    BY <1>1, <2>1, NewDocumentIs
<1>3. Typed
  BY DiskAssumption DEF Init, Typed, Tools
<1> QED
  BY <1>2, <1>3 DEF IInv, CompositeIsCurrent, Kept

LEMMA StepIsSound == IInv /\ [Next]_vars => IInv'
<1> SUFFICES ASSUME IInv, [Next]_vars PROVE IInv'
  OBVIOUS
<1>1. CASE Canvas
  BY <1>1, CanvasStep
<1>2. CASE LayerOps \/ History \/ ChangeCanvas \/ SaveFails
  BY <1>2, EditStep
<1>3. CASE Save \/ OpenFile \/ ScriptSaves \/ ScriptNotes \/ PixelComposes \/ PixelKeeps
  BY <1>3, FileStep
<1>4. CASE PickTool
  <2>1. PICK t \in Tools : canvas' = [canvas EXCEPT !.tool = t]
    BY <1>4 DEF PickTool
  <2>2. /\ doc' = doc /\ tangled' = tangled /\ disk' = disk /\ script' = script /\ pick' = pick
        /\ late' = late
    BY <1>4 DEF PickTool
  <2>3. canvas' \in [tool : Tools, painting : BOOLEAN, shaping : BOOLEAN]
        /\ canvas'.painting = canvas.painting
    BY <2>1 DEF IInv, Typed
  <2>4. Typed'
    BY <2>2, <2>3 DEF IInv, Typed
  <2>5. Fine(doc, doc')
    BY <2>2, FineSame DEF IInv
  <2> QED
    BY <2>2, <2>3, <2>4, <2>5, FineStep
<1>5. CASE AdoptPath \/ UNCHANGED vars
  <2>1. /\ doc' = doc /\ tangled' = tangled /\ disk' = disk /\ script' = script /\ pick' = pick
        /\ late' = late /\ canvas' = canvas
    BY <1>5 DEF AdoptPath, vars
  <2>2. Typed'
    BY <2>1 DEF IInv, Typed
  <2>3. Fine(doc, doc')
    BY <2>1, FineSame DEF IInv
  <2> QED
    BY <2>1, <2>2, <2>3, FineStep
<1> QED
  BY <1>1, <1>2, <1>3, <1>4, <1>5 DEF Next, Messages, Scripting

-----------------------------------------------------------------------------
(* The history fits the painting.  What a step finds when its stack is      *)
(* walked, and what it leaves: `back' down the undo stack, else down redo.  *)
Sees(step, back)   == IF back THEN step.after ELSE step.before
Leaves(step, back) == IF back THEN step.before ELSE step.after

Covers(step, id, c) == step.layer = id /\ c \in step.rect
Clear(stack, low, high, id, c) == \A i \in low .. high : ~Covers(stack[i], id, c)

\* A pixel a step covers is as it left it under the next step up the stack
\* that covers it too, or in the picture when there is none.
Trail(stack, back, pic) ==
    \A k \in DOMAIN stack : \A id \in DOMAIN pic : \A c \in stack[k].rect :
       stack[k].layer = id =>
         /\ Clear(stack, k + 1, Len(stack), id, c) => pic[id][c] = Sees(stack[k], back)[c]
         /\ \A j \in DOMAIN stack :
              k < j /\ Covers(stack[j], id, c) /\ Clear(stack, k + 1, j - 1, id, c)
                => Leaves(stack[j], back)[c] = Sees(stack[k], back)[c]

Full(stack, width) ==
    \A k \in DOMAIN stack :
       /\ stack[k].rect \subseteq Cells(width)
       /\ DOMAIN stack[k].before = stack[k].rect /\ DOMAIN stack[k].after = stack[k].rect

\* What the layers are for the history: as they were before the stroke that
\* is being painted.
Live(d)   == {id \in Nat : HasLayer(d, id)}
Begun(d)  == d.stroke.on /\ d.stroke.before # <<>>
Picture(d) ==
    [id \in Live(d) |-> IF Begun(d) /\ id = d.stroke.layer THEN d.stroke.before ELSE Pixels(d, id)]

Fit(d) ==
    /\ Full(d.undo, d.width) /\ Full(d.redo, d.width)
    /\ Trail(d.undo, TRUE, Picture(d)) /\ Trail(d.redo, FALSE, Picture(d))

\* A stroke knows what it changes: outside of its rectangle the layer is as
\* it was, and nothing will land there.
StrokeFits(d) ==
    Begun(d) =>
      /\ DOMAIN d.stroke.before = Cells(d.width) /\ d.stroke.layer < d.next
      /\ d.stroke.rect \subseteq Cells(d.width) /\ d.stroke.dirty \subseteq Cells(d.width)
      /\ \A b \in d.stroke.buffer : b.cell \in d.stroke.rect
      /\ HasLayer(d, d.stroke.layer) =>
           \A c \in Cells(d.width) \ d.stroke.rect :
              Pixels(d, d.stroke.layer)[c] = d.stroke.before[c]

Fitting == ~tangled => Fit(doc) /\ StrokeFits(doc)

\* A trail of the same steps for a picture with fewer layers.
LEMMA TrailOfFewer ==
  ASSUME NEW stack, NEW back, NEW pic, NEW then, Trail(stack, back, pic),
         \A id \in DOMAIN then : \A k \in DOMAIN stack :
            stack[k].layer = id => id \in DOMAIN pic /\ then[id] = pic[id]
  PROVE  Trail(stack, back, then)
<1> SUFFICES ASSUME NEW k \in DOMAIN stack, NEW id \in DOMAIN then, NEW c \in stack[k].rect,
                    stack[k].layer = id
             PROVE  /\ Clear(stack, k + 1, Len(stack), id, c) => then[id][c] = Sees(stack[k], back)[c]
                    /\ \A j \in DOMAIN stack :
                         k < j /\ Covers(stack[j], id, c) /\ Clear(stack, k + 1, j - 1, id, c)
                           => Leaves(stack[j], back)[c] = Sees(stack[k], back)[c]
  BY DEF Trail
<1>1. id \in DOMAIN pic /\ then[id] = pic[id]
  OBVIOUS
<1> QED
  BY <1>1 DEF Trail

\* A step walked: what it leaves is what the steps below it find.
LEMMA TrailShortens ==
  ASSUME NEW T, NEW stack \in Seq(T), stack # <<>>, NEW back, NEW pic, NEW then, Trail(stack, back, pic),
         DOMAIN then = DOMAIN pic,
         \A id \in DOMAIN pic : \A k \in DOMAIN stack : \A c \in stack[k].rect :
            stack[k].layer = id =>
            then[id][c] = IF Covers(Last(stack), id, c) THEN Leaves(Last(stack), back)[c] ELSE pic[id][c]
  PROVE  Trail(Front(stack), back, then)
<1> DEFINE rest == Front(stack)
           n == Len(stack)
<1>1. /\ rest \in Seq(T) /\ Len(rest) = n - 1 /\ Last(stack) = stack[n] /\ n \in DOMAIN stack
      /\ \A k \in 1 .. n - 1 : rest[k] = stack[k]
  BY FrontIs
<1>2. /\ n \in Nat \ {0} /\ DOMAIN rest = 1 .. n - 1 /\ DOMAIN stack = 1 .. n
  BY <1>1
<1> SUFFICES ASSUME NEW k \in DOMAIN rest, NEW id \in DOMAIN then, NEW c \in rest[k].rect, rest[k].layer = id
             PROVE  /\ Clear(rest, k + 1, Len(rest), id, c) => then[id][c] = Sees(rest[k], back)[c]
                    /\ \A j \in DOMAIN rest :
                         k < j /\ Covers(rest[j], id, c) /\ Clear(rest, k + 1, j - 1, id, c)
                           => Leaves(rest[j], back)[c] = Sees(rest[k], back)[c]
  BY DEF Trail
<1> HIDE DEF rest, n
<1>3. k \in DOMAIN stack /\ k \in 1 .. n - 1 /\ rest[k] = stack[k] /\ k < n /\ id \in DOMAIN pic
  BY <1>1, <1>2
<1>4. \A hi \in Int : hi <= n - 1 /\ Clear(rest, k + 1, hi, id, c) => Clear(stack, k + 1, hi, id, c)
  <2> SUFFICES ASSUME NEW hi \in Int, hi <= n - 1, Clear(rest, k + 1, hi, id, c), NEW i \in k + 1 .. hi
               PROVE  ~Covers(stack[i], id, c)
    BY DEF Clear
  <2>1. i \in 1 .. n - 1
    BY <1>2, <1>3
  <2> QED
    BY <1>1, <2>1 DEF Clear
<1>5. ASSUME Clear(rest, k + 1, Len(rest), id, c)
      PROVE  then[id][c] = Sees(rest[k], back)[c]
  <2>1. Clear(stack, k + 1, n - 1, id, c)
    BY <1>1, <1>2, <1>4, <1>5
  <2>2. then[id][c] = IF Covers(stack[n], id, c) THEN Leaves(stack[n], back)[c] ELSE pic[id][c]
    BY <1>1, <1>3
  <2>3. CASE Covers(stack[n], id, c)
    BY <1>1, <1>3, <2>1, <2>2, <2>3 DEF Trail
  <2>4. CASE ~Covers(stack[n], id, c)
    <3>1. ASSUME NEW i \in k + 1 .. n PROVE ~Covers(stack[i], id, c)
      <4>1. i = n \/ i \in k + 1 .. n - 1
        BY <1>2
      <4> QED
        BY <2>1, <2>4, <4>1 DEF Clear
    <3>2. Clear(stack, k + 1, Len(stack), id, c)
      BY <3>1 DEF Clear, n
    <3> QED
      BY <1>3, <2>2, <2>4, <3>2 DEF Trail
  <2> QED
    BY <2>3, <2>4
<1>6. ASSUME NEW j \in DOMAIN rest, k < j, Covers(rest[j], id, c), Clear(rest, k + 1, j - 1, id, c)
      PROVE  Leaves(rest[j], back)[c] = Sees(rest[k], back)[c]
  <2>1. j \in DOMAIN stack /\ rest[j] = stack[j] /\ j - 1 <= n - 1 /\ j - 1 \in Int
    BY <1>1, <1>2
  <2>2. Clear(stack, k + 1, j - 1, id, c)
    BY <1>4, <1>6, <2>1
  <2> QED
    BY <1>3, <1>6, <2>1, <2>2 DEF Trail
<1> QED
  BY <1>5, <1>6

\* A step laid on top of a trail, over what it leaves when it is walked: it
\* changes what it covers, and nothing else that the steps below it cover.
Tops(stack, step, back, pic, then) ==
    /\ DOMAIN then = DOMAIN pic
    /\ \A id \in DOMAIN pic : \A c \in step.rect :
         step.layer = id => /\ then[id][c] = Sees(step, back)[c]
                            /\ pic[id][c] = Leaves(step, back)[c]
    /\ \A id \in DOMAIN pic : \A k \in DOMAIN stack : \A c \in stack[k].rect :
         stack[k].layer = id /\ ~Covers(step, id, c) => then[id][c] = pic[id][c]

LEMMA TrailGrows ==
  ASSUME NEW T, NEW stack \in Seq(T), NEW step \in T, NEW back, NEW pic, NEW then, Trail(stack, back, pic),
         Tops(stack, step, back, pic, then)
  PROVE  Trail(Append(stack, step), back, then)
<1>0. /\ DOMAIN then = DOMAIN pic
      /\ \A id \in DOMAIN pic : \A c \in step.rect :
            step.layer = id => /\ then[id][c] = Sees(step, back)[c]
                               /\ pic[id][c] = Leaves(step, back)[c]
      /\ \A id \in DOMAIN pic : \A k \in DOMAIN stack : \A c \in stack[k].rect :
            stack[k].layer = id /\ ~Covers(step, id, c) => then[id][c] = pic[id][c]
  BY DEF Tops
<1> DEFINE more == Append(stack, step)
           n == Len(stack)
<1>1. /\ n \in Nat /\ more \in Seq(T) /\ Len(more) = n + 1 /\ more[n + 1] = step
      /\ \A k \in 1 .. n : more[k] = stack[k]
      /\ DOMAIN more = 1 .. n + 1 /\ DOMAIN stack = 1 .. n
  BY AppendProperties
<1> SUFFICES ASSUME NEW k \in DOMAIN more, NEW id \in DOMAIN then, NEW c \in more[k].rect, more[k].layer = id
             PROVE  /\ Clear(more, k + 1, Len(more), id, c) => then[id][c] = Sees(more[k], back)[c]
                    /\ \A j \in DOMAIN more :
                         k < j /\ Covers(more[j], id, c) /\ Clear(more, k + 1, j - 1, id, c)
                           => Leaves(more[j], back)[c] = Sees(more[k], back)[c]
  BY DEF Trail
<1> HIDE DEF more, n
<1>2. CASE k = n + 1
  BY <1>0, <1>1, <1>2
<1>3. CASE k \in 1 .. n
  <2>1. k \in DOMAIN stack /\ more[k] = stack[k]
    BY <1>1, <1>3
  <2>2. \A hi \in Int : hi <= n /\ Clear(more, k + 1, hi, id, c) => Clear(stack, k + 1, hi, id, c)
    <3> SUFFICES ASSUME NEW hi \in Int, hi <= n, Clear(more, k + 1, hi, id, c), NEW i \in k + 1 .. hi
                 PROVE  ~Covers(stack[i], id, c)
      BY DEF Clear
    <3>1. i \in 1 .. n
      BY <1>1, <1>3
    <3> QED
      BY <1>1, <3>1 DEF Clear
  <2>3. ASSUME Clear(more, k + 1, Len(more), id, c)
        PROVE  then[id][c] = Sees(more[k], back)[c]
    <3>1. n + 1 \in k + 1 .. n + 1
      BY <1>1, <1>3
    <3>2. ~Covers(step, id, c)
      BY <1>1, <2>3, <3>1 DEF Clear
    <3>3. Clear(more, k + 1, n, id, c)
      <4>1. \A i \in k + 1 .. n : i \in k + 1 .. n + 1
        BY <1>1, <1>3
      <4> QED
        BY <1>1, <2>3, <4>1 DEF Clear
    <3>4. Clear(stack, k + 1, Len(stack), id, c)
      BY <1>1, <2>2, <3>3 DEF n
    <3>5. pic[id][c] = Sees(stack[k], back)[c]
      BY <1>0, <2>1, <3>4 DEF Trail
    <3> QED
      BY <1>0, <2>1, <3>2, <3>5
  <2>4. ASSUME NEW j \in DOMAIN more, k < j, Covers(more[j], id, c), Clear(more, k + 1, j - 1, id, c)
        PROVE  Leaves(more[j], back)[c] = Sees(more[k], back)[c]
    <3>1. j - 1 \in Int /\ j - 1 <= n
      BY <1>1
    <3>2. Clear(stack, k + 1, j - 1, id, c)
      BY <2>2, <2>4, <3>1
    <3>3. CASE j = n + 1
      <4>1. Clear(stack, k + 1, Len(stack), id, c)
        BY <1>1, <3>2, <3>3 DEF n
      <4>2. pic[id][c] = Sees(stack[k], back)[c]
        BY <1>0, <2>1, <4>1 DEF Trail
      <4>3. step.layer = id /\ c \in step.rect
        BY <1>1, <2>4, <3>3 DEF Covers
      <4> QED
        BY <1>0, <1>1, <2>1, <3>3, <4>2, <4>3
    <3>4. CASE j \in 1 .. n
      <4>1. j \in DOMAIN stack /\ more[j] = stack[j]
        BY <1>1, <3>4
      <4> QED
        BY <1>0, <2>1, <2>4, <3>2, <4>1 DEF Trail
    <3> QED
      BY <1>1, <3>3, <3>4
  <2> QED
    BY <2>3, <2>4
<1> QED
  BY <1>1, <1>2, <1>3

\* The oldest step forgotten.
LEMMA TrailForgets ==
  ASSUME NEW T, NEW stack \in Seq(T), stack # <<>>, NEW back, NEW pic, Trail(stack, back, pic)
  PROVE  Trail(Tail(stack), back, pic)
<1> DEFINE rest == Tail(stack)
           n == Len(stack)
<1>1. /\ n \in Nat \ {0} /\ DOMAIN stack = 1 .. n /\ rest \in Seq(T) /\ Len(rest) = n - 1
      /\ DOMAIN rest = 1 .. n - 1
      /\ \A k \in 1 .. n - 1 : rest[k] = stack[k + 1]
  OBVIOUS
<1> SUFFICES ASSUME NEW k \in DOMAIN rest, NEW id \in DOMAIN pic, NEW c \in rest[k].rect, rest[k].layer = id
             PROVE  /\ Clear(rest, k + 1, Len(rest), id, c) => pic[id][c] = Sees(rest[k], back)[c]
                    /\ \A j \in DOMAIN rest :
                         k < j /\ Covers(rest[j], id, c) /\ Clear(rest, k + 1, j - 1, id, c)
                           => Leaves(rest[j], back)[c] = Sees(rest[k], back)[c]
  BY DEF Trail
<1> HIDE DEF rest, n
<1>2. k \in 1 .. n - 1 /\ k + 1 \in DOMAIN stack /\ rest[k] = stack[k + 1]
  BY <1>1
<1>3. \A hi \in Int : hi <= n - 1 /\ Clear(rest, k + 1, hi, id, c) => Clear(stack, (k + 1) + 1, hi + 1, id, c)
  <2> SUFFICES ASSUME NEW hi \in Int, hi <= n - 1, Clear(rest, k + 1, hi, id, c),
                      NEW i \in (k + 1) + 1 .. hi + 1
               PROVE  ~Covers(stack[i], id, c)
    BY DEF Clear
  <2>1. i - 1 \in k + 1 .. hi /\ i - 1 \in 1 .. n - 1 /\ (i - 1) + 1 = i
    BY <1>1, <1>2
  <2> QED
    BY <1>1, <2>1 DEF Clear
<1>4. ASSUME Clear(rest, k + 1, Len(rest), id, c)
      PROVE  pic[id][c] = Sees(rest[k], back)[c]
  <2>1. Clear(stack, (k + 1) + 1, (n - 1) + 1, id, c)
    BY <1>1, <1>3, <1>4
  <2>2. Clear(stack, (k + 1) + 1, Len(stack), id, c)
    <3>1. (n - 1) + 1 = Len(stack)
      BY <1>1 DEF n
    <3> QED
      BY <2>1, <3>1
  <2> QED
    BY <1>2, <2>2 DEF Trail
<1>5. ASSUME NEW j \in DOMAIN rest, k < j, Covers(rest[j], id, c), Clear(rest, k + 1, j - 1, id, c)
      PROVE  Leaves(rest[j], back)[c] = Sees(rest[k], back)[c]
  <2>1. /\ j + 1 \in DOMAIN stack /\ rest[j] = stack[j + 1] /\ k + 1 < j + 1
        /\ j - 1 \in Int /\ j - 1 <= n - 1 /\ (j - 1) + 1 = (j + 1) - 1
    BY <1>1, <1>2, <1>5
  <2>2. Clear(stack, (k + 1) + 1, (j + 1) - 1, id, c)
    <3>1. Clear(stack, (k + 1) + 1, (j - 1) + 1, id, c)
      BY <1>3, <1>5, <2>1
    <3> QED
      BY <2>1, <3>1
  <2> QED
    BY <1>2, <1>5, <2>1, <2>2 DEF Trail
<1> QED
  BY <1>4, <1>5

-----------------------------------------------------------------------------
(* The documents.                                                          *)

\* A layer is found at the one place where its number is.
LEMMA FoundAt ==
  ASSUME NEW d, Sound(d), NEW k \in DOMAIN d.layers
  PROVE  /\ HasLayer(d, d.layers[k].id) /\ LayerIx(d, d.layers[k].id) = k
         /\ Pixels(d, d.layers[k].id) = d.layers[k].bits
         /\ d.layers[k].id \in Live(d)
<1>1. k \in IndexesOf(d, d.layers[k].id)
  BY DEF IndexesOf
<1>2. HasLayer(d, d.layers[k].id)
  BY <1>1 DEF HasLayer
<1>3. LayerIx(d, d.layers[k].id) = k
  BY <1>2, LayerIsThere DEF Sound, Stacked
<1>4. d.layers[k].id \in Nat
  <2>1. d.layers[k] \in Layers
    BY DEF Sound, Documents
  <2> QED
    BY <2>1 DEF Layers
<1> QED
  BY <1>2, <1>3, <1>4 DEF Pixels, Live

\* Where the steps lie: on layers with a number given out.
LEMMA StepsAre ==
  ASSUME NEW d, Sound(d), NEW stack, stack = d.undo \/ stack = d.redo
  PROVE  /\ stack \in Seq(Undoables) /\ d.next \in Nat
         /\ \A k \in DOMAIN stack : stack[k].layer < d.next /\ stack[k].layer \in Nat
<1>1. Undoes(stack, d.next) /\ d.next \in Nat /\ stack \in Seq(Undoables)
  BY DEF Sound, Documents
<1> QED
  BY <1>1 DEF Undoes

LEMMA PictureIs ==
  ASSUME NEW d
  PROVE  /\ DOMAIN Picture(d) = Live(d)
         /\ \A id \in Live(d) :
              Picture(d)[id] = IF Begun(d) /\ id = d.stroke.layer THEN d.stroke.before ELSE Pixels(d, id)
  BY DEF Picture

\* The same history of layers that are the same, or were not there.
LEMMA FitAgain ==
  ASSUME NEW d, Sound(d), Fit(d), NEW e, e.width = d.width, e.undo = d.undo, e.redo = d.redo,
         \A id \in Live(e) : id < d.next => id \in Live(d) /\ Picture(e)[id] = Picture(d)[id]
  PROVE  Fit(e)
<1>1. ASSUME NEW stack, stack = d.undo \/ stack = d.redo, NEW back, Trail(stack, back, Picture(d))
      PROVE  Trail(stack, back, Picture(e))
  <2>1. \A id \in DOMAIN Picture(e) : \A k \in DOMAIN stack :
           stack[k].layer = id => id \in DOMAIN Picture(d) /\ Picture(e)[id] = Picture(d)[id]
    BY <1>1, StepsAre, PictureIs
  <2> QED
    BY <1>1, <2>1, TrailOfFewer
<1> QED
  BY <1>1 DEF Fit

LEMMA KeptFits ==
  ASSUME NEW d, Sound(d), NEW e, Sound(e), Keeps(d, e), Fit(d), StrokeFits(d)
  PROVE  Fit(e) /\ StrokeFits(e)
<1>0. d.next \in Nat /\ e.next \in Nat /\ d.next <= e.next
  BY DEF Sound, Documents, Keeps
<1>1. ASSUME NEW id, HasLayer(e, id), id < d.next
      PROVE  HasLayer(d, id) /\ Pixels(e, id) = Pixels(d, id)
  <2>1. PICK k \in DOMAIN e.layers : e.layers[k].id = id
    BY <1>1 DEF HasLayer, IndexesOf
  <2>2. Pixels(e, id) = e.layers[k].bits /\ id \in Nat
    BY <2>1, FoundAt DEF Live
  <2>3. PICK j \in DOMAIN d.layers : d.layers[j].id = id /\ d.layers[j].bits = e.layers[k].bits
    BY <1>0, <1>1, <2>1, <2>2 DEF Keeps, KeepsPaint
  <2> QED
    BY <2>2, <2>3, FoundAt
<1>2. /\ Begun(e) <=> Begun(d)
      /\ e.stroke.layer = d.stroke.layer /\ e.stroke.before = d.stroke.before
      /\ e.stroke.rect = d.stroke.rect /\ e.stroke.buffer = d.stroke.buffer
      /\ e.stroke.dirty \subseteq d.stroke.dirty \cup Cells(d.width) /\ e.width = d.width
  BY DEF Keeps, KeepsStroke, Begun
<1>3. \A id \in Live(e) : id < d.next => id \in Live(d) /\ Picture(e)[id] = Picture(d)[id]
  <2> TAKE id \in Live(e)
  <2> HAVE id < d.next
  <2>1. HasLayer(d, id) /\ Pixels(e, id) = Pixels(d, id) /\ id \in Live(d)
    BY <1>1 DEF Live
  <2> QED
    BY <1>2, <2>1, PictureIs
<1>4. Fit(e)
  BY <1>3, FitAgain DEF Keeps
<1>5. ASSUME Begun(e) PROVE e.stroke.layer < e.next /\ e.stroke.layer < d.next
  <2>1. d.stroke.layer \in Nat
    BY DEF Sound, Documents, Strokes
  <2> QED
    BY <1>0, <1>2, <1>5, <2>1 DEF StrokeFits
<1>6. StrokeFits(e)
  <2> SUFFICES ASSUME Begun(e) PROVE StrokeFits(e)
    BY DEF StrokeFits
  <2>1. HasLayer(e, e.stroke.layer) =>
          HasLayer(d, e.stroke.layer) /\ Pixels(e, e.stroke.layer) = Pixels(d, e.stroke.layer)
    BY <1>1, <1>5
  <2> QED
    BY <1>2, <1>5, <2>1 DEF StrokeFits
<1> QED
  BY <1>4, <1>6

\* A dab changes no layer the history is about: none at all, or that of its
\* stroke, of which the history has what it was.
Held(d, e) ==
    \/ \A k \in DOMAIN d.layers : e.layers[k].bits = d.layers[k].bits
    \/ Begun(d) /\ d.active = d.stroke.layer

LEMMA NotStray ==
  ASSUME NEW d, NEW e, ~Stray(d, e)
  PROVE  Held(d, e)
  BY DEF Stray, Held, Begun

LEMMA BrushedFits ==
  ASSUME NEW d, Sound(d), NEW e, Sound(e), Brushed(d, e), Held(d, e), Fit(d), StrokeFits(d)
  PROVE  Fit(e) /\ StrokeFits(e)
<1>1. /\ Begun(e) <=> Begun(d)
      /\ e.stroke.layer = d.stroke.layer /\ e.stroke.before = d.stroke.before
      /\ d.stroke.rect \subseteq e.stroke.rect /\ e.width = d.width /\ e.next = d.next
      /\ e.undo = d.undo /\ e.redo = d.redo
      /\ e.stroke.rect \subseteq d.stroke.rect \cup d.stroke.dirty \cup Cells(d.width)
      /\ e.stroke.dirty \subseteq d.stroke.dirty \cup Cells(d.width)
      /\ \A b \in e.stroke.buffer : b \in d.stroke.buffer \/ b.cell \in e.stroke.rect
      /\ DOMAIN e.layers = DOMAIN d.layers /\ \A k \in DOMAIN d.layers : PaintStays(d, e, k)
  BY DEF Brushed, StrokeGrows, Begun
<1>2. ASSUME NEW id, HasLayer(e, id)
      PROVE  /\ HasLayer(d, id)
             /\ \E k \in DOMAIN d.layers :
                  /\ d.layers[k].id = id /\ Pixels(d, id) = d.layers[k].bits
                  /\ Pixels(e, id) = e.layers[k].bits
  <2>1. PICK k \in DOMAIN e.layers : e.layers[k].id = id
    BY <1>2 DEF HasLayer, IndexesOf
  <2>2. d.layers[k].id = id /\ k \in DOMAIN d.layers
    BY <1>1, <2>1 DEF PaintStays
  <2> QED
    BY <2>1, <2>2, FoundAt
<1>3. ASSUME NEW id, HasLayer(e, id), ~(Begun(d) /\ id = d.stroke.layer)
      PROVE  Pixels(e, id) = Pixels(d, id)
  <2>1. PICK k \in DOMAIN d.layers : d.layers[k].id = id /\ Pixels(d, id) = d.layers[k].bits
                                     /\ Pixels(e, id) = e.layers[k].bits
    BY <1>2, <1>3
  <2>2. e.layers[k].bits = d.layers[k].bits
    BY <1>1, <1>3, <2>1 DEF Held, PaintStays
  <2> QED
    BY <2>1, <2>2
<1>4. \A id \in Live(e) : id < d.next => id \in Live(d) /\ Picture(e)[id] = Picture(d)[id]
  <2> TAKE id \in Live(e)
  <2> HAVE id < d.next
  <2>1. HasLayer(d, id) /\ id \in Live(d) /\ HasLayer(e, id)
    BY <1>2 DEF Live
  <2> QED
    BY <1>1, <1>3, <2>1, PictureIs
<1>5. Fit(e)
  BY <1>1, <1>4, FitAgain
<1>6. StrokeFits(e)
  <2> SUFFICES ASSUME Begun(e) PROVE StrokeFits(e)
    BY DEF StrokeFits
  <2>1. ASSUME HasLayer(e, e.stroke.layer), NEW c \in Cells(e.width) \ e.stroke.rect
        PROVE  Pixels(e, e.stroke.layer)[c] = e.stroke.before[c]
    <3>1. HasLayer(d, d.stroke.layer)
      BY <1>1, <1>2, <2>1
    <3>2. Pixels(d, d.stroke.layer)[c] = d.stroke.before[c]
      BY <1>1, <2>1, <3>1 DEF StrokeFits
    <3>3. PICK k \in DOMAIN d.layers :
             /\ d.layers[k].id = d.stroke.layer /\ Pixels(d, d.stroke.layer) = d.layers[k].bits
             /\ Pixels(e, d.stroke.layer) = e.layers[k].bits
      BY <1>1, <1>2, <2>1
    <3>4. e.layers[k].bits[c] = d.layers[k].bits[c]
      BY <1>1, <2>1 DEF PaintStays, Begun
    <3> QED
      BY <1>1, <3>2, <3>3, <3>4
  <2> QED
    BY <1>1, <2>1 DEF StrokeFits
<1> QED
  BY <1>5, <1>6

\* A stroke begins on a painting that has all the paint of the last one in
\* its history.
Settled(d) ==
    d.stroke.on /\ HasLayer(d, d.stroke.layer) => Pixels(d, d.stroke.layer) = d.stroke.before

LEMMA BegunFits ==
  ASSUME NEW d, Sound(d), Fit(d), Settled(d)
  PROVE  LET e == StrokeBegin(d)
         IN  /\ Fit(e) /\ StrokeFits(e)
             /\ \A f : Brushed(e, f) => Held(e, f)
<1> DEFINE e == StrokeBegin(d)
           before == IF HasLayer(d, d.active) THEN Pixels(d, d.active) ELSE <<>>
<1>1. /\ Sound(e) /\ SameButStroke(d, e)
      /\ e.stroke.on = TRUE /\ e.stroke.layer = d.active /\ e.stroke.rect = {}
      /\ e.stroke.buffer = {} /\ e.stroke.dirty = {}
  BY StrokeBeginIs
<1>2. e.stroke.before = before
  BY DEF StrokeBegin, Sound, Documents, NoStroke
<1> HIDE DEF e
<1>3. /\ e.width = d.width /\ e.layers = d.layers /\ e.next = d.next /\ e.active = d.active
      /\ e.undo = d.undo /\ e.redo = d.redo
  BY <1>1 DEF SameButStroke, SameLayers
<1>4. \A id : /\ HasLayer(e, id) <=> HasLayer(d, id)
              /\ Pixels(e, id) = Pixels(d, id)
  BY <1>3, SameLayersHave DEF Pixels, LayerIx, IndexesOf
<1>5. \A id \in Live(e) : id \in Live(d) /\ Picture(e)[id] = Pixels(d, id)
  <2> SUFFICES ASSUME NEW id \in Live(e)
               PROVE  id \in Live(d) /\ Picture(e)[id] = Pixels(d, id)
    OBVIOUS
  <2>1. id \in Live(d) /\ HasLayer(d, id) /\ Pixels(e, id) = Pixels(d, id)
    BY <1>4 DEF Live
  <2>2. Picture(e)[id] = IF Begun(e) /\ id = d.active THEN before ELSE Pixels(d, id)
    BY <1>1, <1>2, <2>1, PictureIs
  <2>3. id = d.active => before = Pixels(d, id)
    BY <2>1
  <2> QED
    BY <2>1, <2>2, <2>3
<1>6. \A id \in Live(d) : Picture(d)[id] = Pixels(d, id)
  BY PictureIs DEF Settled, Begun, Live
<1>7. Fit(e)
  BY <1>3, <1>5, <1>6, FitAgain
<1>8. HasLayer(d, d.active) =>
         /\ before \in [Cells(d.width) -> Paint] /\ d.active < d.next /\ before # <<>>
  <2> SUFFICES ASSUME HasLayer(d, d.active)
               PROVE  before \in [Cells(d.width) -> Paint] /\ d.active < d.next /\ before # <<>>
    OBVIOUS
  <2>1. /\ Pixels(d, d.active) \in [Cells(d.width) -> Paint] /\ d.active \in 1 .. d.next - 1
        /\ d.next \in Nat /\ d.width \in Cells(MaxWidth)
    BY PixelsAre DEF Sound, Documents
  <2>2. Cells(d.width) # {}
    BY <2>1, WidthIsRect
  <2> QED
    BY <2>1, <2>2
<1>9. StrokeFits(e)
  <2> SUFFICES ASSUME Begun(e) PROVE StrokeFits(e)
    BY DEF StrokeFits
  <2>1. HasLayer(d, d.active)
    BY <1>2 DEF Begun
  <2>2. /\ e.stroke.before \in [Cells(d.width) -> Paint] /\ e.stroke.layer < e.next
        /\ Pixels(e, e.stroke.layer) = e.stroke.before
    BY <1>1, <1>2, <1>3, <1>4, <1>8, <2>1
  <2> QED
    BY <1>1, <1>3, <2>2 DEF StrokeFits
<1>10. ASSUME NEW f, Brushed(e, f) PROVE Held(e, f)
  <2>1. CASE HasLayer(d, d.active)
    BY <1>1, <1>2, <1>3, <1>8, <2>1 DEF Held, Begun
  <2>2. CASE ~HasLayer(d, d.active)
    <3>1. ASSUME NEW k \in DOMAIN e.layers PROVE f.layers[k].bits = e.layers[k].bits
      <4>1. e.layers[k].id # e.active
        BY <1>3, <2>2, FoundAt
      <4> QED
        BY <1>10, <4>1 DEF Brushed, PaintStays
    <3> QED
      BY <3>1 DEF Held
  <2> QED
    BY <2>1, <2>2
<1> QED
  BY <1>7, <1>9, <1>10 DEF e

LEMMA EndFits ==
  ASSUME NEW d, Sound(d), Fit(d), StrokeFits(d)
  PROVE  Fit(StrokeEnd(d)) /\ StrokeFits(StrokeEnd(d))
<1> DEFINE e == StrokeEnd(d)
           id0 == d.stroke.layer
           land == Landed(Pixels(d, id0), d.stroke)
           step == StepOf(d.stroke, land)
           more == Append(d.undo, step)
<1>1. Sound(e) /\ e.stroke.on = FALSE /\ Ends(d, e)
  BY StrokeEndIs
<1> HIDE DEF e
<1>2. /\ d.stroke \in Strokes /\ d.undo \in Seq(Undoables) /\ d.width \in Cells(MaxWidth)
      /\ d.layers \in Seq(Layers) /\ Stacked(d.layers, d.width, d.next)
  BY DEF Sound, Documents
<1>3. StrokeFits(e) /\ \A id \in Live(e) : Picture(e)[id] = Pixels(e, id)
  BY <1>1, PictureIs DEF StrokeFits, Begun
<1>4. CASE Unheld(d)
  <2>1. e.width = d.width /\ e.layers = d.layers /\ e.undo = d.undo /\ e.redo = d.redo
    BY <1>1, <1>4 DEF Ends, SameLayers
  <2>2. \A id : (HasLayer(e, id) <=> HasLayer(d, id)) /\ Pixels(e, id) = Pixels(d, id)
    BY <2>1, SameLayersHave DEF Pixels, LayerIx, IndexesOf
  <2>3. ASSUME NEW id \in Live(d) PROVE Picture(d)[id] = Pixels(d, id)
    <3>1. CASE Begun(d) /\ id = id0
      <4>1. d.stroke.rect = {} /\ HasLayer(d, id)
        BY <1>4, <3>1 DEF Unheld, Begun, Live
      <4>2. \A c \in Cells(d.width) : Pixels(d, id)[c] = d.stroke.before[c]
        BY <3>1, <4>1 DEF StrokeFits
      <4>3. Pixels(d, id) \in [Cells(d.width) -> Paint]
        BY <4>1, PixelsAre
      <4>4. d.stroke.before = [c \in Cells(d.width) |-> d.stroke.before[c]]
        <5>1. DOMAIN d.stroke.before = Cells(d.width) /\ d.stroke.before \in Pieces
          BY <1>2, <3>1 DEF StrokeFits, Strokes
        <5> QED
          BY <5>1 DEF Pieces
      <4>5. d.stroke.before = Pixels(d, id)
        BY <4>2, <4>3, <4>4
      <4> QED
        BY <3>1, <4>5, PictureIs
    <3>2. CASE ~(Begun(d) /\ id = id0)
      BY <3>2, PictureIs
    <3> QED
      BY <3>1, <3>2
  <2>4. \A id \in Live(e) : id < d.next => id \in Live(d) /\ Picture(e)[id] = Picture(d)[id]
    BY <1>3, <2>2, <2>3 DEF Live
  <2>5. Fit(e)
    BY <2>1, <2>4, FitAgain
  <2> QED
    BY <1>3, <2>5 DEF e
<1>5. CASE ~Unheld(d)
  <2>1. /\ e.width = d.width /\ e.redo = <<>> /\ step \in Undoables /\ e.undo = Pushed(more)
        /\ e.layers = Repainted(d.layers, LayerIx(d, id0), land)
    BY <1>1, <1>5 DEF Ends, Laid
  <2>2. Begun(d) /\ HasLayer(d, id0)
    BY <1>5 DEF Unheld, Begun
  <2> DEFINE k0 == LayerIx(d, id0)
             bits == Pixels(d, id0)
             before == d.stroke.before
             rect == d.stroke.rect
  <2>3. k0 \in DOMAIN d.layers /\ bits = d.layers[k0].bits /\ d.layers[k0].id = id0
        /\ bits \in [Cells(d.width) -> Paint]
    BY <2>2, PixelsAre, LayerIsThere
  <2>4. /\ DOMAIN before = Cells(d.width) /\ rect \subseteq Cells(d.width)
        /\ \A b \in d.stroke.buffer : b.cell \in rect
        /\ \A c \in Cells(d.width) \ rect : bits[c] = before[c]
    BY <2>2 DEF StrokeFits
  <2>5. /\ land \in [Cells(d.width) -> Paint]
        /\ \A c \in Cells(d.width) \ rect : land[c] = before[c]
    <3>1. \A c \in Cells(d.width) : (\A b \in d.stroke.buffer : b.cell # c) => land[c] = bits[c]
      BY <1>2, <2>3, LandedIs
    <3>2. land \in [Cells(d.width) -> Paint]
      BY <1>2, <2>3, LandedIs
    <3> HIDE DEF land, bits, before, rect
    <3> QED
      BY <2>4, <3>1, <3>2
  <2> HIDE DEF land
  <2>6. /\ step.layer = id0 /\ step.rect = rect /\ DOMAIN step.before = rect /\ DOMAIN step.after = rect
        /\ \A c \in rect : step.before[c] = before[c] /\ step.after[c] = land[c]
    BY <2>4, <2>5 DEF StepOf
  <2> HIDE DEF step, bits, before, rect, k0, id0
  <2>7. /\ DOMAIN e.layers = DOMAIN d.layers
        /\ \A j \in DOMAIN d.layers :
             e.layers[j].id = d.layers[j].id /\ e.layers[j].bits = IF j = k0 THEN land ELSE d.layers[j].bits
    BY <1>2, <2>1, <2>3, <2>5, RepaintedIs DEF k0
  <2>8. \A id : HasLayer(e, id) <=> HasLayer(d, id)
    BY <2>7, SameIdsHave
  <2>9. Live(e) = Live(d)
    BY <2>8 DEF Live
  <2>10. \A id \in Live(d) : Pixels(e, id) = IF id = id0 THEN land ELSE Pixels(d, id)
    <3> TAKE id \in Live(d)
    <3>1. PICK k \in DOMAIN d.layers : d.layers[k].id = id
      BY DEF Live, HasLayer, IndexesOf
    <3>2. Pixels(d, id) = d.layers[k].bits /\ Pixels(e, id) = e.layers[k].bits
      BY <1>1, <2>7, <3>1, FoundAt
    <3>3. k = k0 <=> id = id0
      BY <1>2, <2>3, <3>1 DEF Stacked
    <3> QED
      BY <2>7, <3>1, <3>2, <3>3
  <2>11. \A id \in Live(d) : Picture(d)[id] = IF id = id0 THEN before ELSE Pixels(d, id)
    BY <2>2, PictureIs DEF id0, before
  <2>12. \A id \in Live(d) : Picture(e)[id] = IF id = id0 THEN land ELSE Pixels(d, id)
    BY <1>3, <2>9, <2>10
  <2>13. Trail(more, TRUE, Picture(e))
    <3>1. Trail(d.undo, TRUE, Picture(d)) /\ Full(d.undo, d.width)
      BY DEF Fit
    <3>2. DOMAIN Picture(e) = DOMAIN Picture(d) /\ DOMAIN Picture(d) = Live(d)
      BY <2>9, PictureIs
    <3>3. \A id \in Live(d) : \A c \in step.rect :
             step.layer = id => /\ Picture(e)[id][c] = Sees(step, TRUE)[c]
                                /\ Picture(d)[id][c] = Leaves(step, TRUE)[c]
      BY <2>6, <2>11, <2>12 DEF Sees, Leaves
    <3>4. \A id \in Live(d) : \A k \in DOMAIN d.undo : \A c \in d.undo[k].rect :
             d.undo[k].layer = id /\ ~Covers(step, id, c) => Picture(e)[id][c] = Picture(d)[id][c]
      <4> TAKE id \in Live(d)
      <4> TAKE k \in DOMAIN d.undo
      <4> TAKE c \in d.undo[k].rect
      <4> HAVE d.undo[k].layer = id /\ ~Covers(step, id, c)
      <4>1. c \in Cells(d.width)
        BY <3>1 DEF Full
      <4>2. id = id0 => c \notin rect
        BY <2>6 DEF Covers
      <4> QED
        BY <2>5, <2>11, <2>12, <4>1, <4>2
    <3> HIDE DEF more
    <3>5. Trail(Append(d.undo, step), TRUE, Picture(e))
      <4>1. Tops(d.undo, step, TRUE, Picture(d), Picture(e))
        BY <3>2, <3>3, <3>4 DEF Tops
      <4> QED
        BY <1>2, <2>1, <3>1, <4>1, TrailGrows
    <3> QED
      BY <3>5 DEF more
  <2>14. Full(more, d.width)
    <3>1. \A k \in DOMAIN more : IF k = Len(d.undo) + 1 THEN more[k] = step
                                 ELSE k \in DOMAIN d.undo /\ more[k] = d.undo[k]
      BY <1>2, <2>1
    <3>2. Full(d.undo, d.width)
      BY DEF Fit
    <3> QED
      BY <2>4, <2>6, <3>1, <3>2 DEF Full
  <2>15. more \in Seq(Undoables) /\ more # <<>>
    BY <1>2, <2>1
  <2> HIDE DEF more
  <2>16. Full(e.undo, d.width) /\ Trail(e.undo, TRUE, Picture(e))
    <3>1. Trail(Tail(more), TRUE, Picture(e))
      BY <2>13, <2>15, TrailForgets
    <3>2. Full(Tail(more), d.width)
      <4>1. \A k \in DOMAIN Tail(more) : k + 1 \in DOMAIN more /\ Tail(more)[k] = more[k + 1]
        BY <2>15
      <4> QED
        BY <2>14, <4>1 DEF Full
    <3> QED
      BY <2>1, <2>13, <2>14, <3>1, <3>2 DEF Pushed
  <2>17. Full(e.redo, d.width) /\ Trail(e.redo, FALSE, Picture(e))
    BY <2>1 DEF Full, Trail
  <2>18. Fit(e)
    BY <2>1, <2>16, <2>17 DEF Fit
  <2> QED
    BY <1>3, <2>18 DEF e
<1> QED
  BY <1>4, <1>5

\* Undo and redo between strokes: a step goes from one trail to the other.
LEMMA WalkFits ==
  ASSUME NEW d, Sound(d), Fit(d), ~d.stroke.on, NEW e, Sound(e), ~e.stroke.on,
         NEW back \in BOOLEAN, NEW from, NEW to, NEW from2, NEW to2,
         from = (IF back THEN d.undo ELSE d.redo), to = (IF back THEN d.redo ELSE d.undo),
         from2 = (IF back THEN e.undo ELSE e.redo), to2 = (IF back THEN e.redo ELSE e.undo),
         from # <<>>, Patched(d, e, Last(from), Leaves(Last(from), back)),
         from2 = Front(from), to2 = Append(to, Last(from))
  PROVE  Fit(e)
<1> DEFINE step == Last(from)
           n == Len(from)
<1>1. /\ from \in Seq(Undoables) /\ to \in Seq(Undoables)
      /\ Full(from, d.width) /\ Full(to, d.width)
      /\ Trail(from, back, Picture(d)) /\ Trail(to, ~back, Picture(d))
  BY DEF Sound, Documents, Fit
<1>2. /\ step \in Undoables /\ n \in DOMAIN from /\ step = from[n]
      /\ Front(from) \in Seq(Undoables) /\ Len(Front(from)) = n - 1
      /\ \A k \in 1 .. n - 1 : Front(from)[k] = from[k]
  BY <1>1, FrontIs
<1> HIDE DEF step
<1>3. /\ step.rect \subseteq Cells(d.width) /\ DOMAIN step.before = step.rect
      /\ DOMAIN step.after = step.rect
  BY <1>1, <1>2 DEF Full
<1>4. DOMAIN Leaves(step, back) = step.rect /\ Sees(step, ~back) = Leaves(step, back)
      /\ Leaves(step, ~back) = Sees(step, back)
  BY <1>3 DEF Leaves, Sees
<1>5. /\ e.width = d.width /\ DOMAIN e.layers = DOMAIN d.layers
      /\ \A k \in DOMAIN d.layers :
           /\ e.layers[k].id = d.layers[k].id
           /\ \A c \in Cells(d.width) :
                e.layers[k].bits[c] = IF d.layers[k].id = step.layer /\ c \in step.rect
                                      THEN Leaves(step, back)[c] ELSE d.layers[k].bits[c]
  BY <1>4 DEF Patched, step
<1>6. Live(e) = Live(d)
  BY <1>5, SameIdsHave DEF Live
<1>7. ASSUME NEW id \in Live(d), NEW c \in Cells(d.width)
      PROVE  Picture(e)[id][c] = IF Covers(step, id, c) THEN Leaves(step, back)[c] ELSE Picture(d)[id][c]
  <2>1. PICK k \in DOMAIN d.layers : d.layers[k].id = id
    BY DEF Live, HasLayer, IndexesOf
  <2>2. Pixels(d, id) = d.layers[k].bits /\ Pixels(e, id) = e.layers[k].bits
    BY <1>5, <2>1, FoundAt
  <2>3. Picture(d)[id] = Pixels(d, id) /\ Picture(e)[id] = Pixels(e, id)
    BY <1>6, PictureIs DEF Begun
  <2> QED
    BY <1>5, <2>1, <2>2, <2>3 DEF Covers
<1>8. DOMAIN Picture(d) = Live(d) /\ DOMAIN Picture(e) = Live(d)
  BY <1>6, PictureIs
<1>9. Trail(Front(from), back, Picture(e))
  <2>1. \A id \in Live(d) : \A k \in DOMAIN from : \A c \in from[k].rect :
           from[k].layer = id =>
           Picture(e)[id][c] = IF Covers(step, id, c) THEN Leaves(step, back)[c] ELSE Picture(d)[id][c]
    BY <1>1, <1>7 DEF Full
  <2> QED
    BY <1>1, <1>8, <2>1, TrailShortens DEF step
<1>10. Trail(Append(to, step), ~back, Picture(e))
  <2>1. ASSUME NEW id \in Live(d), NEW c \in step.rect, step.layer = id
        PROVE  /\ Picture(e)[id][c] = Sees(step, ~back)[c]
               /\ Picture(d)[id][c] = Leaves(step, ~back)[c]
    <3>1. Picture(e)[id][c] = Leaves(step, back)[c]
      BY <1>3, <1>7, <2>1 DEF Covers
    <3>2. Clear(from, n + 1, Len(from), id, c)
      <4>1. n \in Nat
        BY <1>1
      <4>2. n + 1 .. n = {}
        BY <4>1
      <4> QED
        BY <4>2 DEF Clear
    <3>3. Picture(d)[id][c] = Sees(step, back)[c]
      <4> HIDE DEF n
      <4>1. c \in from[n].rect /\ from[n].layer = id /\ id \in DOMAIN Picture(d)
        BY <1>2, <1>8, <2>1
      <4>2. Picture(d)[id][c] = Sees(from[n], back)[c]
        BY <1>1, <1>2, <3>2, <4>1 DEF Trail
      <4> QED
        BY <1>2, <4>2
    <3> QED
      BY <1>4, <3>1, <3>3
  <2>2. \A id \in Live(d) : \A k \in DOMAIN to : \A c \in to[k].rect :
           to[k].layer = id /\ ~Covers(step, id, c) => Picture(e)[id][c] = Picture(d)[id][c]
    BY <1>1, <1>7 DEF Full
  <2> HIDE DEF n
  <2>3. \A id \in Live(d) : \A c \in step.rect :
           step.layer = id => /\ Picture(e)[id][c] = Sees(step, ~back)[c]
                              /\ Picture(d)[id][c] = Leaves(step, ~back)[c]
    BY <2>1
  <2>4. Tops(to, step, ~back, Picture(d), Picture(e))
    BY <1>8, <2>2, <2>3 DEF Tops
  <2> QED
    BY <1>1, <1>2, <2>4, TrailGrows
<1>11. Full(Front(from), e.width)
  <2>1. \A k \in DOMAIN Front(from) : k \in DOMAIN from /\ Front(from)[k] = from[k]
    BY SMTT(60), <1>1, <1>2
  <2> QED
    BY <1>1, <1>5, <2>1 DEF Full
<1>12. Full(Append(to, step), e.width)
  <2>1. \A k \in DOMAIN Append(to, step) : IF k = Len(to) + 1 THEN Append(to, step)[k] = step
                                           ELSE k \in DOMAIN to /\ Append(to, step)[k] = to[k]
    BY <1>1, <1>2
  <2> QED
    BY <1>1, <1>3, <1>5, <2>1 DEF Full
<1>13. /\ Full(from2, e.width) /\ Full(to2, e.width)
       /\ Trail(from2, back, Picture(e)) /\ Trail(to2, ~back, Picture(e))
  BY <1>9, <1>10, <1>11, <1>12 DEF step
<1>14. CASE back
  BY <1>13, <1>14 DEF Fit
<1>15. CASE ~back
  BY <1>13, <1>15 DEF Fit
<1> QED
  BY <1>14, <1>15

LEMMA UndoFits ==
  ASSUME NEW d, Sound(d), Fit(d), ~d.stroke.on, d.undo # <<>>
  PROVE  LET e == Undo(d)
         IN  Sound(e) /\ Fit(e) /\ ~e.stroke.on /\ e.undo = Front(d.undo)
<1> DEFINE e == Undo(d)
<1>1. /\ Fine(d, e) /\ Patched(d, e, Last(d.undo), Last(d.undo).before)
      /\ e.undo = Front(d.undo) /\ e.redo = Append(d.redo, Last(d.undo))
  BY UndoIs
<1> HIDE DEF e
<1>2. Patched(d, e, Last(d.undo), Leaves(Last(d.undo), TRUE))
  BY <1>1 DEF Leaves
<1>3. Sound(e) /\ ~e.stroke.on
  BY <1>1 DEF Fine
<1>4. Fit(e)
  BY <1>1, <1>2, <1>3, WalkFits
<1> QED
  BY <1>1, <1>3, <1>4 DEF e

LEMMA RedoFits ==
  ASSUME NEW d, Sound(d), Fit(d), ~d.stroke.on, d.redo # <<>>
  PROVE  LET e == Redo(d)
         IN  Sound(e) /\ Fit(e) /\ ~e.stroke.on /\ e.redo = Front(d.redo)
<1> DEFINE e == Redo(d)
<1>1. /\ Fine(d, e) /\ Patched(d, e, Last(d.redo), Last(d.redo).after)
      /\ e.redo = Front(d.redo) /\ e.undo = Append(d.undo, Last(d.redo))
  BY RedoIs
<1> HIDE DEF e
<1>2. Patched(d, e, Last(d.redo), Leaves(Last(d.redo), FALSE))
  BY <1>1 DEF Leaves
<1>3. Sound(e) /\ ~e.stroke.on
  BY <1>1 DEF Fine
<1>4. Fit(e)
  BY <1>1, <1>2, <1>3, WalkFits
<1> QED
  BY <1>1, <1>3, <1>4 DEF e

-----------------------------------------------------------------------------
(* The steps.                                                              *)

LEMMA EmptyFits ==
  ASSUME NEW e, e.undo = <<>>, e.redo = <<>>, e.stroke.on = FALSE
  PROVE  Fit(e) /\ StrokeFits(e)
  BY DEF Fit, Full, Trail, StrokeFits, Begun

\* A stroke from its beginning to its end.
LEMMA StrokeFitsIn ==
  ASSUME NEW d, Sound(d), Fit(d), Settled(d), NEW t, Sound(t), Brushed(StrokeBegin(d), t)
  PROVE  Fit(t) /\ StrokeFits(t) /\ Fit(StrokeEnd(t)) /\ StrokeFits(StrokeEnd(t))
<1> DEFINE b == StrokeBegin(d)
<1>1. Sound(b) /\ Fit(b) /\ StrokeFits(b) /\ Held(b, t)
  BY StrokeBeginIs, BegunFits
<1> HIDE DEF b
<1>2. Fit(t) /\ StrokeFits(t)
  BY <1>1, BrushedFits DEF b
<1> QED
  BY <1>2, EndFits

LEMMA FillFits ==
  ASSUME NEW d, Sound(d), Fit(d), Settled(d), NEW seed, NEW ink \in Inks
  PROVE  Fit(Filled(d, seed, ink)) /\ StrokeFits(Filled(d, seed, ink))
<1> DEFINE b == StrokeBegin(d)
           t == FillAt(b, seed, ink)
<1>1. ink \in Paint /\ Filled(d, seed, ink) = StrokeEnd(t) /\ Sound(b)
  BY StrokeBeginIs DEF Paint, Filled
<1>2. Sound(t) /\ Brushed(b, t)
  BY <1>1, FillAtIs
<1> HIDE DEF t
<1> QED
  BY <1>1, <1>2, StrokeFitsIn

LEMMA CanvasFits ==
  ASSUME IInv, IInv', Fitting, Canvas
  PROVE  Fitting'
<1> SUFFICES ASSUME ~tangled' PROVE Fit(doc') /\ StrokeFits(doc')
  BY DEF Fitting
<1>1. /\ Sound(doc) /\ Sound(doc') /\ tangled \in BOOLEAN /\ canvas.tool \in Tools /\ Inks \subseteq Paint
      /\ \A d : d = doc' => Sound(d)
  BY DEF IInv, Typed, Paint
<1>2. ASSUME tangled' = (tangled \/ Drops)
      PROVE  ~tangled /\ Fit(doc) /\ StrokeFits(doc) /\ Settled(doc)
  BY <1>1, <1>2 DEF Fitting, Drops, Settled
<1>3. ASSUME tangled' = tangled PROVE Fit(doc) /\ StrokeFits(doc)
  BY <1>1, <1>3 DEF Fitting
<1>4. CASE PressBrush
  <2>1. PICK c \in Spots : \E e \in PaintDabs(StrokeBegin(doc), canvas.tool, c) : Tangle(e, Drops)
    BY <1>4 DEF PressBrush
  <2>2. PICK e \in PaintDabs(StrokeBegin(doc), canvas.tool, c) : Tangle(e, Drops)
    BY <2>1
  <2>3. doc' = e /\ tangled' = (tangled \/ Drops)
    BY <2>2 DEF Tangle, Do
  <2>4. Brushed(StrokeBegin(doc), e)
    BY <1>1, StrokeBeginIs, PaintDabsAre DEF Touch
  <2> QED
    BY <1>1, <1>2, <2>3, <2>4, StrokeFitsIn
<1>5. CASE \E c \in Spots, ink \in Inks : Tangle(Filled(doc, c, ink), Drops)
  <2>1. PICK c \in Spots, ink \in Inks : Tangle(Filled(doc, c, ink), Drops)
    BY <1>5
  <2>2. doc' = Filled(doc, c, ink) /\ tangled' = (tangled \/ Drops)
    BY <2>1 DEF Tangle, Do
  <2> QED
    BY <1>1, <1>2, <2>2, FillFits
<1>6. CASE PressShape
  <2>1. doc' = doc /\ tangled' = tangled
    BY <1>6 DEF PressShape, Calm, Do
  <2> QED
    BY <1>3, <2>1
<1>7. CASE Moved
  <2>1. PICK c \in Spots : \E e \in PaintDabs(doc, canvas.tool, c) : Tangle(e, Stray(doc, e))
    BY <1>7 DEF Moved
  <2>2. PICK e \in PaintDabs(doc, canvas.tool, c) : Tangle(e, Stray(doc, e))
    BY <2>1
  <2>3. doc' = e /\ tangled' = (tangled \/ Stray(doc, e))
    BY <2>2 DEF Tangle, Do
  <2>4. Brushed(doc, e)
    BY <1>1, PaintDabsAre DEF Touch
  <2>5. ~tangled /\ ~Stray(doc, e)
    BY <1>1, <2>3
  <2>6. Held(doc, e) /\ Fit(doc) /\ StrokeFits(doc)
    BY <2>5, NotStray DEF Fitting
  <2> QED
    BY <1>1, <2>3, <2>4, <2>6, BrushedFits
<1>8. CASE Release
  <2>1. CASE canvas.shaping
    <3>1. PICK a \in Spots, b \in Spots, ink \in Inks : Tangle(Stamped(doc, canvas.tool, a .. b, ink), Drops)
      BY <1>8, <2>1 DEF Release
    <3> DEFINE t == IF canvas.tool = "shape" THEN Dab(StrokeBegin(doc), a .. b, ink) ELSE StrokeBegin(doc)
    <3>2. doc' = StrokeEnd(t) /\ tangled' = (tangled \/ Drops)
      BY <3>1 DEF Tangle, Do, Stamped
    <3>3. Sound(StrokeBegin(doc)) /\ ink \in Paint
      BY <1>1, StrokeBeginIs
    <3>4. Touch(StrokeBegin(doc), t)
      <4>1. Touch(StrokeBegin(doc), Dab(StrokeBegin(doc), a .. b, ink))
        BY <3>3, DabIs
      <4>2. Touch(StrokeBegin(doc), StrokeBegin(doc))
        BY <3>3, TouchNone
      <4> QED
        BY <4>1, <4>2
    <3> HIDE DEF t
    <3>5. Sound(t) /\ Brushed(StrokeBegin(doc), t)
      BY <3>4 DEF Touch
    <3> QED
      BY <1>1, <1>2, <3>2, <3>5, StrokeFitsIn
  <2>2. CASE ~canvas.shaping
    <3>1. doc' = StrokeEnd(doc) /\ tangled' = tangled
      BY <1>8, <2>2 DEF Release
    <3> QED
      BY <1>1, <1>3, <3>1, EndFits
  <2> QED
    BY <2>1, <2>2
<1>9. CASE \E c \in Spots : \E d \in PaintDabs(StrokeBegin(doc), canvas.tool, c) : Tangle(StrokeEnd(d), Drops)
  <2>1. PICK c \in Spots : \E d \in PaintDabs(StrokeBegin(doc), canvas.tool, c) : Tangle(StrokeEnd(d), Drops)
    BY <1>9
  <2>2. PICK t \in PaintDabs(StrokeBegin(doc), canvas.tool, c) : Tangle(StrokeEnd(t), Drops)
    BY <2>1
  <2>3. doc' = StrokeEnd(t) /\ tangled' = (tangled \/ Drops)
    BY <2>2 DEF Tangle, Do
  <2>4. Sound(t) /\ Brushed(StrokeBegin(doc), t)
    BY <1>1, StrokeBeginIs, PaintDabsAre DEF Touch
  <2> QED
    BY <1>1, <1>2, <2>3, <2>4, StrokeFitsIn
<1>10. CASE Draw
  <2>1. doc' = [doc EXCEPT !.composite = Flat(doc), !.stale = FALSE] /\ tangled' = tangled
    BY <1>10 DEF Draw, Composite
  <2>2. /\ SameLayers(doc, doc') /\ doc'.next = doc.next /\ doc'.undo = doc.undo
        /\ doc'.redo = doc.redo /\ doc'.stroke = doc.stroke /\ doc.next \in Nat
    BY <1>1, <2>1 DEF Sound, Documents, SameLayers
  <2> QED
    BY ZenonT(60), <1>1, <1>3, <2>1, <2>2, KeepsSame, KeptFits
<1> QED
  BY <1>4, <1>5, <1>6, <1>7, <1>8, <1>9, <1>10 DEF Canvas, PressFill, ScriptStroke

LEMMA EditFits ==
  ASSUME IInv, IInv', Fitting, LayerOps \/ History \/ ChangeCanvas \/ OpenFile
  PROVE  Fitting'
<1> SUFFICES ASSUME ~tangled' PROVE Fit(doc') /\ StrokeFits(doc')
  BY DEF Fitting
<1>1. /\ Sound(doc) /\ Sound(doc') /\ tangled \in BOOLEAN /\ doc.stroke.on \in BOOLEAN
      /\ doc.next \in Nat /\ \A f \in Files : Readable(disk[f])
  BY DEF IInv, Typed, Sound, Documents, Strokes
<1>2. ASSUME NEW e, Keeps(doc, e), Calm(e) PROVE Fit(doc') /\ StrokeFits(doc')
  <2>1. doc' = e /\ tangled' = tangled
    BY <1>2 DEF Calm, Do
  <2> QED
    BY <1>1, <1>2, <2>1, KeptFits DEF Fitting
<1>3. CASE LayerOps
  <2>1. \A id \in 1 .. doc.next - 1 : Keeps(doc, SetActiveLayer(doc, id))
    <3>1. \A id \in 1 .. doc.next - 1 : id \in Nat
      BY <1>1
    <3> QED
      BY <1>1, <3>1, SetActiveIsSound
  <2>2. Keeps(doc, AddLayer(doc)) /\ Keeps(doc, DeleteLayer(doc, doc.active))
        /\ Keeps(doc, RenameLayer(doc, doc.active))
    BY <1>1, AddLayerIs, DeleteLayerIs, RenameIsSound
  <2>3. \A on \in BOOLEAN : /\ Keeps(doc, MoveLayer(doc, doc.active, on))
                            /\ Keeps(doc, SetLayerShown(doc, doc.active, on))
    BY <1>1, MoveLayerIs, SetLayerShownIs
  <2> QED
    BY <1>2, <1>3, <2>1, <2>2, <2>3 DEF LayerOps
<1>4. CASE History
  <2>1. ~tangled /\ ~doc.stroke.on
    BY <1>1, <1>4 DEF History, Tangle
  <2>2. Fit(doc)
    BY <2>1 DEF Fitting
  <2>3. CASE doc.undo # <<>> /\ doc' = Undo(doc)
    BY <1>1, <2>1, <2>2, <2>3, UndoFits DEF StrokeFits, Begun
  <2>4. CASE doc.redo # <<>> /\ doc' = Redo(doc)
    BY <1>1, <2>1, <2>2, <2>4, RedoFits DEF StrokeFits, Begun
  <2> QED
    BY <1>4, <2>3, <2>4 DEF History, Tangle, Do
<1>5. CASE ChangeCanvas
  <2>1. PICK w \in Cells(MaxWidth) :
          (w # doc.width /\ Cleared(Resize(doc, w))) \/ Cleared(SetCanvas(doc, w))
    BY <1>5 DEF ChangeCanvas
  <2>2. doc.stroke.on = FALSE /\ doc \in Documents
    BY <1>1, <2>1 DEF Cleared, Sound
  <2>3. CASE w # doc.width /\ doc' = Resize(doc, w)
    BY <1>1, <2>2, <2>3, ResizeIs, EmptyFits DEF Fine
  <2>4. CASE doc' = SetCanvas(doc, w)
    BY <1>1, <2>2, <2>4, SetCanvasIs, EmptyFits
  <2> QED
    BY <2>1, <2>3, <2>4 DEF Cleared, Do
<1>6. CASE OpenFile
  <2>1. PICK f \in Files : Cleared(Load(doc, disk[f]))
    BY <1>6 DEF OpenFile
  <2>2. doc' = Load(doc, disk[f]) /\ doc.stroke.on = FALSE
    BY <1>1, <2>1 DEF Cleared, Do
  <2> QED
    BY ZenonT(60), <1>1, <2>2, LoadIs, EmptyFits
<1> QED
  BY <1>3, <1>4, <1>5, <1>6

LEMMA InitFits == Init => Fitting
<1> SUFFICES ASSUME Init PROVE Fitting
  OBVIOUS
<1>1. MaxWidth \in Cells(MaxWidth) /\ doc = NewDocument(MaxWidth)
  BY WidthAssumption DEF Cells, Init
<1> QED
  BY <1>1, NewDocumentIs, EmptyFits DEF Fitting

LEMMA StepFits == IInv /\ Fitting /\ [Next]_vars => Fitting'
<1> SUFFICES ASSUME IInv, Fitting, [Next]_vars PROVE Fitting'
  OBVIOUS
<1>1. IInv'
  BY StepIsSound
<1>2. CASE Canvas
  BY <1>1, <1>2, CanvasFits
<1>3. CASE LayerOps \/ History \/ ChangeCanvas \/ OpenFile
  BY <1>1, <1>3, EditFits
<1>4. CASE Save \/ SaveFails \/ ScriptSaves \/ ScriptNotes \/ PixelComposes \/ PixelKeeps
           \/ PickTool \/ AdoptPath \/ UNCHANGED vars
  <2>1. /\ tangled' = tangled
        /\ \/ doc' = doc \/ doc' = [doc EXCEPT !.modified = FALSE]
           \/ \E image \in pick : doc' = [doc EXCEPT !.composite = image, !.stale = FALSE]
    BY Zenon, <1>4 DEF Save, SaveFails, ScriptSaves, ScriptNotes, PixelComposes, PixelKeeps, PickTool,
                AdoptPath, vars, Calm, Do
  <2>2. Sound(doc) /\ Sound(doc') /\ doc \in Documents /\ doc.next \in Nat
    BY <1>1 DEF IInv, Sound, Documents
  <2>3. /\ SameLayers(doc, doc') /\ doc'.next = doc.next /\ doc'.undo = doc.undo
        /\ doc'.redo = doc.redo /\ doc'.stroke = doc.stroke
    BY Zenon, <2>1, <2>2 DEF Documents, SameLayers
  <2> QED
    BY Zenon, <2>1, <2>2, <2>3, KeepsSame, KeptFits DEF Fitting
<1> QED
  BY <1>2, <1>3, <1>4 DEF Next, Messages, Scripting

-----------------------------------------------------------------------------
(* Walks.                                                                  *)

\* A walk of n steps from d exists, and stays where its steps keep it.
Onward(n, D, g) == \A k \in 1 .. n : \A e \in D[k - 1] : g[k][e] \in D[k]
Trodden(f, n, D, d, g) ==
    /\ f[0] = d /\ \A k \in 1 .. n : f[k] = g[k][f[k - 1]]
    /\ \A k \in 0 .. n : f[k] \in D[k]

LEMMA WalkIs ==
  ASSUME NEW n \in Nat, NEW X, NEW D \in [0 .. n -> SUBSET X], NEW d \in D[0], NEW g,
         Onward(n, D, g)
  PROVE  \E f \in [0 .. n -> X] : Trodden(f, n, D, d, g)
<1> DEFINE Walk(f, m) == f[0] = d /\ \A k \in 1 .. m : f[k - 1] \in D[k - 1] /\ f[k] = g[k][f[k - 1]]
           Bad == {m \in 0 .. n : ~\E f \in [0 .. m -> X] : Walk(f, m) /\ f[m] \in D[m]}
<1>0. \A k \in 1 .. n : \A e \in D[k - 1] : g[k][e] \in D[k]
  BY DEF Onward
<1>1. Bad = {}
  <2> SUFFICES ASSUME Bad # {} PROVE FALSE
    OBVIOUS
  <2>1. PICK m \in Bad : \A k \in Bad : m <= k
    <3>1. Bad \in SUBSET Nat
      OBVIOUS
    <3> QED
      BY <3>1, LeastIs
  <2>2. CASE m = 0
    <3> DEFINE f == [k \in 0 .. 0 |-> d]
    <3>1. f \in [0 .. 0 -> X] /\ f[0] = d
      OBVIOUS
    <3> HIDE DEF f
    <3>2. Walk(f, 0) /\ f[0] \in D[0]
      BY <3>1
    <3> QED
      BY <2>1, <2>2, <3>1, <3>2
  <2>3. CASE m # 0
    <3>1. m \in 1 .. n /\ m - 1 \in 0 .. n /\ m - 1 \notin Bad
      <4>1. m \in 0 .. n
        BY <2>1
      <4> HIDE DEF Bad
      <4>2. m \in 1 .. n /\ m - 1 \in 0 .. n
        BY <2>3, <4>1
      <4>3. ~(m <= m - 1)
        BY <4>1
      <4> QED
        BY <2>1, <4>2, <4>3
    <3>2. PICK f \in [0 .. m - 1 -> X] : Walk(f, m - 1) /\ f[m - 1] \in D[m - 1]
      BY <3>1
    <3>3. g[m][f[m - 1]] \in D[m] /\ D[m] \subseteq X
      BY <1>0, <3>1, <3>2
    <3> DEFINE more == [k \in 0 .. m |-> IF k = m THEN g[m][f[m - 1]] ELSE f[k]]
    <3>4. /\ more \in [0 .. m -> X] /\ more[m] = g[m][f[m - 1]] /\ \A k \in 0 .. m - 1 : more[k] = f[k]
      BY <3>1, <3>3
    <3> HIDE DEF more
    <3>5. \A k \in 1 .. m : more[k - 1] \in D[k - 1] /\ more[k] = g[k][more[k - 1]]
      <4> SUFFICES ASSUME NEW k \in 1 .. m
                   PROVE  more[k - 1] \in D[k - 1] /\ more[k] = g[k][more[k - 1]]
        OBVIOUS
      <4>1. CASE k = m
        <5>1. m - 1 \in 0 .. m - 1
          BY <3>1
        <5> QED
          BY <3>1, <3>2, <3>4, <4>1, <5>1
      <4>2. CASE k # m
        <5>1. k \in 1 .. m - 1 /\ k - 1 \in 0 .. m - 1 /\ k \in 0 .. m - 1
          BY <3>1, <4>2
        <5> QED
          BY <3>2, <3>4, <5>1
      <4> QED
        BY <4>1, <4>2
    <3>6. more[0] = d
      BY <3>1, <3>2, <3>4
    <3>7. Walk(more, m) /\ more[m] \in D[m]
      BY <3>3, <3>4, <3>5, <3>6
    <3> QED
      BY <2>1, <3>4, <3>7
  <2> QED
    BY <2>2, <2>3
<1>2. PICK f \in [0 .. n -> X] : Walk(f, n) /\ f[n] \in D[n]
  BY <1>1
<1>3. \A k \in 0 .. n : f[k] \in D[k]
  <2> SUFFICES ASSUME NEW k \in 0 .. n PROVE f[k] \in D[k]
    OBVIOUS
  <2>1. CASE k = n
    BY <1>2, <2>1
  <2>2. CASE k # n
    <3>1. k + 1 \in 1 .. n /\ (k + 1) - 1 = k
      BY <2>2
    <3> QED
      BY <1>2, <3>1
  <2> QED
    BY <2>1, <2>2
<1> QED
  BY <1>2, <1>3 DEF Trodden

LEMMA WalkStays ==
  ASSUME NEW n \in Nat, NEW w, NEW D, w[0] \in D[0],
         \A k \in 1 .. n : w[k - 1] \in D[k - 1] => w[k] \in D[k]
  PROVE  \A k \in 0 .. n : w[k] \in D[k]
<1> DEFINE Bad == {m \in 0 .. n : w[m] \notin D[m]}
<1> SUFFICES ASSUME Bad # {} PROVE FALSE
  OBVIOUS
<1>1. PICK m \in Bad : \A k \in Bad : m <= k
  <2>1. Bad \in SUBSET Nat
    OBVIOUS
  <2> QED
    BY <2>1, LeastIs
<1>2. m \in 1 .. n /\ m - 1 \in 0 .. n /\ ~(m <= m - 1) /\ w[m] \notin D[m]
  <2>1. m \in 0 .. n /\ m # 0
    BY <1>1
  <2> HIDE DEF Bad
  <2>2. m \in 1 .. n /\ m - 1 \in 0 .. n /\ ~(m <= m - 1)
    BY <2>1
  <2> QED
    BY <1>1, <2>2 DEF Bad
<1>3. m - 1 \notin Bad
  BY <1>1, <1>2
<1> QED
  BY <1>2, <1>3


-----------------------------------------------------------------------------
(* Down the stacks.                                                        *)

Left(d, back) == IF back THEN d.undo ELSE d.redo
Walk(d, back) == IF back THEN Undo(d) ELSE Redo(d)
Rested(d)     == Sound(d) /\ Fit(d) /\ d.stroke.on = FALSE

\* The step on top finds what it left.
LEMMA TopFinds ==
  ASSUME NEW d, Rested(d), NEW back \in BOOLEAN, Left(d, back) # <<>>
  PROVE  Finds(d, Last(Left(d, back)), Sees(Last(Left(d, back)), back))
<1> DEFINE from == Left(d, back)
           n == Len(from)
           step == from[n]
<1>1. /\ from \in Seq(Undoables) /\ Full(from, d.width) /\ Trail(from, back, Picture(d)) /\ d.next \in Nat
      /\ \A k \in DOMAIN from : from[k].layer \in Nat
  BY StepsAre DEF Rested, Sound, Documents, Fit, Left
<1>2. n \in DOMAIN from /\ n \in Nat /\ Last(from) = step
  <2>1. from # <<>>
    OBVIOUS
  <2> HIDE DEF from
  <2>2. from \in Seq(Undoables)
    BY <1>1
  <2>3. n \in DOMAIN from /\ n \in Nat
    BY <2>1, <2>2
  <2> QED
    BY <2>1, <2>2, <2>3, FrontIs
<1> HIDE DEF from, n
<1>3. /\ step.rect = DOMAIN Sees(step, back) /\ step.layer \in Nat
  BY <1>1, <1>2 DEF Full, Sees
<1> SUFFICES ASSUME HasLayer(d, step.layer), NEW c \in step.rect
             PROVE  c \in DOMAIN Sees(step, back) /\ Pixels(d, step.layer)[c] = Sees(step, back)[c]
  BY <1>2 DEF Finds, from
<1>4. step.layer \in DOMAIN Picture(d) /\ Picture(d)[step.layer] = Pixels(d, step.layer)
  BY <1>3, PictureIs DEF Live, Rested, Begun
<1>5. Clear(from, n + 1, Len(from), step.layer, c)
  <2>1. n + 1 .. n = {}
    BY <1>2
  <2> QED
    BY <2>1 DEF Clear, n
<1>6. Picture(d)[step.layer][c] = Sees(step, back)[c]
  BY <1>1, <1>2, <1>4, <1>5 DEF Trail
<1> QED
  BY <1>3, <1>4, <1>6

LEMMA WalkRests ==
  ASSUME NEW d, Rested(d), NEW back \in BOOLEAN, Left(d, back) # <<>>
  PROVE  LET e == Walk(d, back)
         IN  Rested(e) /\ Left(e, back) \in Seq(Undoables) /\ Len(Left(e, back)) = Len(Left(d, back)) - 1
<1>1. Left(d, back) \in Seq(Undoables)
  BY DEF Rested, Sound, Documents, Left
<1>2. Front(Left(d, back)) \in Seq(Undoables) /\ Len(Front(Left(d, back))) = Len(Left(d, back)) - 1
  BY <1>1, FrontIs
<1>3. \A e : Sound(e) => e.stroke.on \in BOOLEAN
  BY DEF Sound, Documents, Strokes
<1>4. CASE back
  <2>1. Sound(Undo(d)) /\ Fit(Undo(d)) /\ ~Undo(d).stroke.on /\ Undo(d).undo = Front(d.undo)
    BY <1>4, UndoFits DEF Rested, Left
  <2> QED
    BY <1>2, <1>3, <1>4, <2>1 DEF Rested, Left, Walk
<1>5. CASE ~back
  <2>1. Sound(Redo(d)) /\ Fit(Redo(d)) /\ ~Redo(d).stroke.on /\ Redo(d).redo = Front(d.redo)
    BY <1>5, RedoFits DEF Rested, Left
  <2> QED
    BY <1>2, <1>3, <1>5, <2>1 DEF Rested, Left, Walk
<1> QED
  BY <1>4, <1>5

\* To the bottom of a stack, every step finds what it left.
Far(d, back, k) ==
    {e \in Documents : Rested(e) /\ Len(Left(e, back)) = Len(Left(d, back)) - k}

LEMMA OneFurther ==
  ASSUME NEW d, Rested(d), NEW back \in BOOLEAN, NEW k \in 1 .. Len(Left(d, back)),
         NEW e \in Far(d, back, k - 1)
  PROVE  /\ Walk(e, back) \in Far(d, back, k)
         /\ Finds(e, Last(Left(e, back)), Sees(Last(Left(e, back)), back))
<1> DEFINE n == Len(Left(d, back))
           m == Len(Left(e, back))
<1>1. Left(d, back) \in Seq(Undoables) /\ Left(e, back) \in Seq(Undoables)
  BY DEF Far, Rested, Sound, Documents, Left
<1>2. Rested(e) /\ m = n - (k - 1)
  BY DEF Far
<1>3. n \in Nat /\ m \in Nat
  BY <1>1
<1>4. Left(e, back) # <<>>
  BY <1>2, <1>3
<1>5. /\ Rested(Walk(e, back)) /\ Len(Left(Walk(e, back), back)) = m - 1
      /\ Finds(e, Last(Left(e, back)), Sees(Last(Left(e, back)), back))
  BY <1>2, <1>4, WalkRests, TopFinds
<1> HIDE DEF m, n
<1>6. m - 1 = n - k
  BY <1>2, <1>3
<1>7. Walk(e, back) \in Documents
  BY <1>5 DEF Rested, Sound
<1> QED
  BY <1>5, <1>6, <1>7 DEF Far, n

LEMMA WalkExists ==
  ASSUME NEW d, Rested(d), NEW back \in BOOLEAN
  PROVE  \E f : f = [k \in 0 .. Len(Left(d, back)) |-> IF k = 0 THEN d ELSE Walk(f[k - 1], back)]
<1> DEFINE n == Len(Left(d, back))
           D == [k \in 0 .. n |-> Far(d, back, k)]
           g == [k \in 1 .. n |-> [e \in Documents |-> Walk(e, back)]]
<1>1. Left(d, back) \in Seq(Undoables) /\ n \in Nat /\ d \in Documents
  BY DEF Rested, Sound, Documents, Left
<1>2. ASSUME NEW k \in 1 .. n, NEW e \in Far(d, back, k - 1)
      PROVE  Walk(e, back) \in Far(d, back, k) /\ e \in Documents
  BY OneFurther DEF Far
<1>3. d \in Far(d, back, 0)
  <2>1. Len(Left(d, back)) = Len(Left(d, back)) - 0
    BY <1>1
  <2> QED
    BY <1>1, <2>1 DEF Far
<1> HIDE DEF n
<1>4. D \in [0 .. n -> SUBSET Documents] /\ d \in D[0]
  <2>1. \A k \in 0 .. n : Far(d, back, k) \subseteq Documents
    BY DEF Far
  <2>2. 0 \in 0 .. n
    BY <1>1
  <2> QED
    BY <1>3, <2>1, <2>2
<1>5. Onward(n, D, g)
  <2> SUFFICES ASSUME NEW k \in 1 .. n, NEW e \in D[k - 1] PROVE g[k][e] \in D[k]
    BY DEF Onward
  <2>1. k - 1 \in 0 .. n /\ k \in 0 .. n
    BY <1>1
  <2>2. e \in Far(d, back, k - 1)
    BY <2>1
  <2>3. g[k][e] = Walk(e, back)
    BY <1>2, <2>2
  <2> QED
    BY <1>2, <2>1, <2>2, <2>3
<1> HIDE DEF D, g
<1>6. PICK f \in [0 .. n -> Documents] : Trodden(f, n, D, d, g)
  BY <1>1, <1>4, <1>5, WalkIs
<1>7. /\ f[0] = d /\ \A k \in 1 .. n : f[k] = g[k][f[k - 1]]
      /\ \A k \in 1 .. n : f[k - 1] \in Documents
  BY <1>1, <1>6 DEF Trodden
<1>8. \A k \in 1 .. n : f[k] = Walk(f[k - 1], back)
  BY <1>7 DEF g
<1>9. f = [k \in 0 .. n |-> IF k = 0 THEN d ELSE Walk(f[k - 1], back)]
  <2>1. f = [k \in 0 .. n |-> f[k]]
    OBVIOUS
  <2>2. \A k \in 0 .. n : k # 0 => k \in 1 .. n
    BY <1>1
  <2> QED
    BY <1>7, <1>8, <2>1, <2>2
<1> QED
  BY <1>9 DEF n

LEMMA WalkFinds ==
  ASSUME NEW d, Rested(d), NEW back \in BOOLEAN, NEW w,
         w = [k \in 0 .. Len(Left(d, back)) |-> IF k = 0 THEN d ELSE Walk(w[k - 1], back)],
         NEW k \in 1 .. Len(Left(d, back))
  PROVE  Finds(w[k - 1], Last(Left(w[k - 1], back)), Sees(Last(Left(w[k - 1], back)), back))
<1> DEFINE n == Len(Left(d, back))
           D == [j \in 0 .. n |-> Far(d, back, j)]
<1>1. Left(d, back) \in Seq(Undoables) /\ n \in Nat /\ d \in Documents
  BY DEF Rested, Sound, Documents, Left
<1>2. \A j \in 1 .. n : \A e \in Far(d, back, j - 1) : Walk(e, back) \in Far(d, back, j)
  BY OneFurther
<1>3. d \in Far(d, back, 0)
  <2>1. Len(Left(d, back)) = Len(Left(d, back)) - 0
    BY <1>1
  <2> QED
    BY <1>1, <2>1 DEF Far
<1>4. k \in 1 .. n /\ w = [j \in 0 .. n |-> IF j = 0 THEN d ELSE Walk(w[j - 1], back)]
  OBVIOUS
<1> HIDE DEF n
<1>5. w[0] = d /\ \A j \in 1 .. n : w[j] = Walk(w[j - 1], back)
  <2>1. 0 \in 0 .. n /\ \A j \in 1 .. n : j \in 0 .. n /\ j # 0
    BY <1>1
  <2> QED
    BY <1>4, <2>1, Zenon
<1>6. \A j \in 0 .. n : w[j] \in D[j]
  <2>1. w[0] \in D[0] /\ \A j \in 1 .. n : w[j - 1] \in D[j - 1] => w[j] \in D[j]
    <3>1. 0 \in 0 .. n /\ \A j \in 1 .. n : j \in 0 .. n /\ j - 1 \in 0 .. n
      BY <1>1
    <3>2. w[0] \in D[0]
      BY <1>3, <1>5, <3>1
    <3>3. ASSUME NEW j \in 1 .. n, w[j - 1] \in D[j - 1] PROVE w[j] \in D[j]
      <4>1. w[j - 1] \in Far(d, back, j - 1)
        BY <3>1, <3>3
      <4>2. w[j] \in Far(d, back, j)
        BY <1>2, <1>5, <4>1
      <4> QED
        BY <3>1, <4>2
    <3> QED
      BY <3>2, <3>3
  <2> HIDE DEF D
  <2> QED
    BY <1>1, <2>1, WalkStays
<1>7. k - 1 \in 0 .. n
  BY <1>1, <1>4
<1>8. w[k - 1] \in Far(d, back, k - 1)
  BY <1>6, <1>7
<1> QED
  BY <1>8, OneFurther

LEMMA TypesAre == IInv => TypeOK
<1> SUFFICES ASSUME IInv PROVE TypeOK
  OBVIOUS
<1>1. /\ doc \in Documents /\ Stacked(doc.layers, doc.width, doc.next)
      /\ doc.layers # <<>> => HasLayer(doc, doc.active)
      /\ Undoes(doc.undo, doc.next) /\ Undoes(doc.redo, doc.next)
      /\ Len(doc.undo) + Len(doc.redo) <= UndoCap
  BY DEF IInv, Sound
<1>2. /\ doc.layers \in Seq(Layers) /\ doc.undo \in Seq(Undoables) /\ doc.redo \in Seq(Undoables)
      /\ doc.next \in Nat \ {0} /\ doc.width \in Cells(MaxWidth)
  BY <1>1 DEF Documents
<1>3. ASSUME NEW k \in DOMAIN doc.layers
      PROVE  /\ doc.layers[k].id \in 1 .. doc.next - 1
             /\ doc.layers[k].bits \in [Cells(doc.width) -> Paint]
             /\ \A j \in DOMAIN doc.layers : doc.layers[j].id = doc.layers[k].id => j = k
  <2>1. doc.layers[k].id \in Nat \ {0}
    <3>1. doc.layers[k] \in Layers
      BY <1>2
    <3> QED
      BY <3>1 DEF Layers
  <2>2. doc.layers[k].id < doc.next
    BY <1>1 DEF Stacked
  <2>3. doc.layers[k].id \in 1 .. doc.next - 1
    BY <1>2, <2>1, <2>2
  <2> QED
    BY <1>1, <2>3 DEF Stacked
<1>4. Len(doc.undo) <= UndoCap
  <2> DEFINE a == Len(doc.undo)
             b == Len(doc.redo)
  <2>1. a \in Nat /\ b \in Nat
    BY <1>2
  <2>2. a + b <= UndoCap /\ UndoCap \in Nat
    BY <1>1, PaintAssumption
  <2> HIDE DEF a, b
  <2>3. a <= UndoCap
    BY <2>1, <2>2
  <2> QED
    BY <2>3 DEF a
<1>5. \A step \in Steps : step.layer \in 1 .. doc.next - 1
  BY <1>1 DEF Steps, Undoes
<1>6. canvas \in [tool : Tools, painting : BOOLEAN, shaping : BOOLEAN]
  BY DEF IInv, Typed
<1> QED
  BY <1>1, <1>2, <1>3, <1>4, <1>5, <1>6 DEF TypeOK

LEMMA HistoryIsFit == IInv /\ Fitting => HistoryFits
<1> SUFFICES ASSUME IInv, Fitting PROVE HistoryFits
  OBVIOUS
<1> DEFINE Back(f)  == f = [k \in 0 .. Len(doc.undo) |-> IF k = 0 THEN doc ELSE Undo(f[k - 1])]
           Ahead(f) == f = [k \in 0 .. Len(doc.redo) |-> IF k = 0 THEN doc ELSE Redo(f[k - 1])]
           b == CHOOSE f : Back(f)
           a == CHOOSE f : Ahead(f)
           Fits ==
             /\ \A k \in DOMAIN doc.undo : Finds(b[k - 1], Last(b[k - 1].undo), Last(b[k - 1].undo).after)
             /\ \A k \in DOMAIN doc.redo : Finds(a[k - 1], Last(a[k - 1].redo), Last(a[k - 1].redo).before)
<1>1. TypeOK
  BY TypesAre
<1>2. ASSUME ~doc.stroke.on, ~tangled PROVE Fits
  <2>1. Rested(doc) /\ doc.undo \in Seq(Undoables) /\ doc.redo \in Seq(Undoables)
    BY <1>2 DEF IInv, Fitting, Rested, Sound, Documents, Strokes
  <2>2. Back(b)
    <3>1. PICK f : f = [k \in 0 .. Len(Left(doc, TRUE)) |-> IF k = 0 THEN doc ELSE Walk(f[k - 1], TRUE)]
      BY <2>1, WalkExists
    <3>2. Back(f)
      BY <3>1 DEF Left, Walk
    <3> QED
      BY <3>2
  <2>3. Ahead(a)
    <3>1. PICK f : f = [k \in 0 .. Len(Left(doc, FALSE)) |-> IF k = 0 THEN doc ELSE Walk(f[k - 1], FALSE)]
      BY <2>1, WalkExists
    <3>2. Ahead(f)
      BY <3>1 DEF Left, Walk
    <3> QED
      BY <3>2
  <2> HIDE DEF b, a
  <2>4. \A k \in DOMAIN doc.undo : Finds(b[k - 1], Last(b[k - 1].undo), Last(b[k - 1].undo).after)
    <3>1. b = [k \in 0 .. Len(Left(doc, TRUE)) |-> IF k = 0 THEN doc ELSE Walk(b[k - 1], TRUE)]
      BY <2>2 DEF Left, Walk
    <3>2. \A k \in 1 .. Len(Left(doc, TRUE)) :
             Finds(b[k - 1], Last(Left(b[k - 1], TRUE)), Sees(Last(Left(b[k - 1], TRUE)), TRUE))
      BY <2>1, <3>1, WalkFinds
    <3>3. \A k \in DOMAIN doc.undo : k \in 1 .. Len(Left(doc, TRUE))
      BY <2>1 DEF Left
    <3> QED
      BY <3>2, <3>3 DEF Left, Sees
  <2>5. \A k \in DOMAIN doc.redo : Finds(a[k - 1], Last(a[k - 1].redo), Last(a[k - 1].redo).before)
    <3>1. a = [k \in 0 .. Len(Left(doc, FALSE)) |-> IF k = 0 THEN doc ELSE Walk(a[k - 1], FALSE)]
      BY <2>3 DEF Left, Walk
    <3>2. \A k \in 1 .. Len(Left(doc, FALSE)) :
             Finds(a[k - 1], Last(Left(a[k - 1], FALSE)), Sees(Last(Left(a[k - 1], FALSE)), FALSE))
      BY <2>1, <3>1, WalkFinds
    <3>3. \A k \in DOMAIN doc.redo : k \in 1 .. Len(Left(doc, FALSE))
      BY <2>1 DEF Left
    <3> QED
      BY <3>2, <3>3 DEF Left, Sees
  <2> QED
    BY <2>4, <2>5
<1> HIDE DEF Fits
<1>3. TypeOK /\ (~doc.stroke.on /\ ~tangled => Fits)
  BY <1>1, <1>2
<1> USE DEF Fits
<1> QED
  BY <1>3, Zenon DEF HistoryFits

-----------------------------------------------------------------------------
(* The theorems.                                                           *)

(* The invariant: the document is whole, a stroke goes on only while the   *)
(* mouse paints (PPApp.cpp, MouseDown and MouseUp), the composite is that  *)
(* of the layers, and what counts as saved is (PPDocument.cpp, fModified). *)
THEOREM AlwaysSound == Spec => []IInv
  BY InitIsSound, StepIsSound, PTL DEF Spec

(* What the variables hold: in particular no two layers have a number, a   *)
(* painting with layers has an active one, and no step is of a layer that  *)
(* was never there (PPDocument.cpp, fNextId and fActive).                  *)
THEOREM TypesHold == Spec => []TypeOK
  BY TypesAre, AlwaysSound, PTL

(* The view draws what the layers are, or is going to compose them again:  *)
(* fCompositeDirty is set by whatever changes a pixel, the stack or the    *)
(* size, in every order of strokes, layer operations, undo, files and      *)
(* scripts (PPDocument.cpp, MarkDirty and its callers).                    *)
THEOREM WindowShowsLayers == Spec => []CompositeIsCurrent
<1>1. IInv => CompositeIsCurrent
  BY DEF IInv
<1> QED
  BY <1>1, AlwaysSound, PTL

(* A window that may be closed without a word shows a painting that is in  *)
(* a file, or one nobody painted on (PPApp.cpp, QuitRequested and          *)
(* IsModified).                                                            *)
THEOREM CleanIsSaved == Spec => []CleanMeansSaved
<1>1. IInv => CleanMeansSaved
  <2> SUFFICES ASSUME IInv, ~doc.modified, ~canvas.painting, ~tangled, ~late.saved, doc.layers # <<>>
               PROVE  \/ Saved(doc) \in {disk[f] : f \in Files}
                      \/ doc.layers = NewDocument(doc.width).layers
    BY DEF CleanMeansSaved
  <2>1. ~Mixed(doc)
    BY DEF IInv, Mixed
  <2> QED
    BY <2>1 DEF IInv, Kept
<1> QED
  BY <1>1, AlwaysSound, PTL

(* Undo takes back what was painted and nothing else, however long the     *)
(* history: going down either stack, every step finds on its layer the     *)
(* pixels it left there (PPDocument.cpp, Undo(), Redo() and ApplyStep()).  *)
THEOREM HistoryIsExact == Spec => []HistoryFits
<1>1. Init => IInv /\ Fitting
  BY InitIsSound, InitFits
<1>2. IInv /\ Fitting /\ [Next]_vars => (IInv /\ Fitting)'
  BY StepIsSound, StepFits
<1>3. IInv /\ Fitting => HistoryFits
  BY HistoryIsFit
<1> QED
  BY <1>1, <1>2, <1>3, PTL DEF Spec
=============================================================================
