-------------------------- MODULE DrawApp_proofs ---------------------------
(* What is proved of DrawApp for every page, every number of shapes and     *)
(* operations and whatever the files hold: that the drawing and all that    *)
(* undo and redo can bring back are sound; that a drawing which counts as   *)
(* saved is in its file, unless a second press cut a gesture short; and     *)
(* that a change can be taken back, unless it is a gesture's and the        *)
(* drawing the gesture began with was pushed out or taken off the stack.    *)
EXTENDS DrawApp, FiniteSetTheorems, SequenceTheorems, WellFoundedInduction, TLAPS

(* The ids there can be; drawings that are sound; the images of a document *)
(* are those a script added and those of the files.                        *)
Handed  == 1 .. MaxShapes
Things  == UNION {[ids -> Shape] : ids \in SUBSET Handed}
Drafts  == {draft \in [shapes : Things, next : 1 .. MaxShapes + 1] : Sound(draft)}
Entries ==
    [id : Nat, pic : Pictures]
      \cup UNION {{InitialDisk[f].images[k] : k \in DOMAIN InitialDisk[f].images} : f \in Files}
Documents ==
    [shapes : Things, next : 1 .. MaxShapes + 1, undo : Seq(Drafts), redo : Seq(Drafts),
     images : Seq(Entries), nextImage : Nat \ {0}, modified : BOOLEAN]
Whole(d) == d \in Documents /\ Now(d) \in Drafts /\ Len(d.undo) + Len(d.redo) <= UndoCap

(* An edit does nothing, or begins with a snapshot.  After n of them at    *)
(* most the first drawing is not far down the undo stack, if it holds n;   *)
(* and what was on it is there still, or it is full.                       *)
Edit1(d, e) ==
    Whole(e) /\ (e = d \/ (e.modified /\ e.undo = Snapshot(d).undo /\ e.redo = <<>>))
Recalls(d, e, n) ==
    \E j \in DOMAIN e.undo : e.undo[j] = Now(d) /\ Len(e.undo) - j < n
Entered(d) == {d.undo[k] : k \in DOMAIN d.undo}
Grows(d, e) ==
    /\ Len(d.undo) <= Len(e.undo)
    /\ Len(e.undo) >= UndoCap \/ Entered(d) \subseteq Entered(e)
Edits(d, e, n) ==
    Whole(e) /\ Grows(d, e) /\ (e = d \/ (e.modified /\ (n <= UndoCap => Recalls(d, e, n))))
-----------------------------------------------------------------------------
(* The least, the highest, the order, and walks along a selection.         *)

\* The least of some natural numbers.
LEMMA LeastIs ==
  ASSUME NEW S \in SUBSET Nat, S # {}
  PROVE  \E n \in S : \A m \in S : n <= m
<1>1. OpToRel(<, Nat) = {p \in Nat \X Nat : p[1] < p[2]}
  BY Zenon DEF OpToRel
<1>2. PICK n \in S : \A m \in S : ~(<<m, n>> \in OpToRel(<, Nat))
  BY NatLessThanWellFounded, WFMin, Zenon
<1>3. ASSUME NEW m \in S, m < n PROVE FALSE
  <2>1. <<m, n>> \in {p \in Nat \X Nat : p[1] < p[2]}
    BY <1>3
  <2> QED
    BY <1>1, <1>2, <2>1
<1> QED
  BY <1>3

\* Of finitely many, one is highest: of the sets without, one is smallest.
LEMMA HighestIs ==
  ASSUME NEW I, IsFiniteSet(I), I # {}, NEW r \in [I -> Int]
  PROVE  \E i \in I : \A j \in I : r[j] <= r[i]
<1> DEFINE Top1(J) == \E i \in J : \A j \in J : r[j] <= r[i]
           Bad == {n \in Nat : \E J \in SUBSET I : J # {} /\ Cardinality(J) = n /\ ~Top1(J)}
<1>1. Bad = {}
  <2> SUFFICES ASSUME Bad # {} PROVE FALSE
    OBVIOUS
  <2>1. PICK n \in Bad : \A m \in Bad : n <= m
    <3>1. Bad \in SUBSET Nat
      OBVIOUS
    <3> QED
      BY <3>1, LeastIs
  <2>2. PICK J \in SUBSET I : J # {} /\ Cardinality(J) = n /\ ~Top1(J)
    BY <2>1
  <2>3. PICK x \in J : TRUE
    BY <2>2
  <2>4. IsFiniteSet(J) /\ n \in Nat /\ Cardinality(J \ {x}) = n - 1 /\ IsFiniteSet(J \ {x})
    BY <2>1, <2>2, <2>3, FS_Subset, FS_RemoveElement
  <2>5. J \ {x} # {}
    <3> SUFFICES ASSUME J = {x} PROVE FALSE
      BY <2>3
    <3> QED
      BY <2>2
  <2>6. Top1(J \ {x})
    <3>1. n - 1 \in Nat
      BY <2>4, FS_CardinalityType
    <3>2. n - 1 \notin Bad
      BY <2>1, <2>4
    <3> QED
      BY <2>4, <2>5, <3>1, <3>2
  <2>7. PICK y \in J \ {x} : \A j \in J \ {x} : r[j] <= r[y]
    BY <2>6
  <2>8. x \in I /\ y \in I /\ r[x] \in Int /\ r[y] \in Int /\ \A j \in J : r[j] \in Int
    BY <2>2, <2>3
  <2>9. Top1(J)
    <3>1. CASE r[x] <= r[y]
      BY <2>7, <3>1
    <3>2. CASE ~(r[x] <= r[y])
      <4>1. \A j \in J : r[j] <= r[x]
        BY <2>7, <2>8, <3>2
      <4> QED
        BY <4>1, <2>3
    <3> QED
      BY <3>1, <3>2
  <2> QED
    BY <2>2, <2>9
<1>2. Cardinality(I) \in Nat
  BY FS_CardinalityType
<1> QED
  BY <1>1, <1>2

\* The greatest and the least of finitely many integers.
LEMMA BoundsAre ==
  ASSUME NEW S \in SUBSET Int, IsFiniteSet(S), S # {}
  PROVE  /\ Max(S) \in S /\ \A s \in S : s <= Max(S)
         /\ Min(S) \in S /\ \A s \in S : Min(S) <= s
<1>1. \E i \in S : \A j \in S : j <= i
  <2> DEFINE r == [i \in S |-> i]
  <2>1. r \in [S -> Int] /\ \A i \in S : r[i] = i
    OBVIOUS
  <2> HIDE DEF r
  <2>2. PICK i \in S : \A j \in S : r[j] <= r[i]
    BY <2>1, HighestIs
  <2> QED
    BY <2>1, <2>2
<1>2. \E i \in S : \A j \in S : i <= j
  <2> DEFINE r == [i \in S |-> -i]
  <2>1. r \in [S -> Int] /\ \A i \in S : r[i] = -i
    OBVIOUS
  <2> HIDE DEF r
  <2>2. PICK i \in S : \A j \in S : r[j] <= r[i]
    BY <2>1, HighestIs
  <2>3. \A j \in S : i <= j
    <3> SUFFICES ASSUME NEW j \in S PROVE i <= j
      OBVIOUS
    <3>1. -j <= -i /\ i \in Int /\ j \in Int
      BY <2>1, <2>2
    <3> QED
      BY <3>1
  <2> QED
    BY <2>3
<1>3. Max(S) \in S /\ \A s \in S : s <= Max(S)
  BY <1>1 DEF Max
<1>4. Min(S) \in S /\ \A s \in S : Min(S) <= s
  BY <1>2 DEF Min
<1> QED
  BY <1>3, <1>4

\* A walk of n steps from d exists, and stays where its steps keep it.
Keeps(n, D, g) == \A k \in 1 .. n : \A e \in D[k - 1] : g[k][e] \in D[k]
Walked(f, n, D, d, g) ==
    /\ f[0] = d /\ \A k \in 1 .. n : f[k] = g[k][f[k - 1]]
    /\ \A k \in 0 .. n : f[k] \in D[k]

LEMMA WalkIs ==
  ASSUME NEW n \in Nat, NEW X, NEW D \in [0 .. n -> SUBSET X], NEW d \in D[0], NEW g,
         Keeps(n, D, g)
  PROVE  \E f \in [0 .. n -> X] : Walked(f, n, D, d, g)
<1> DEFINE Walk(f, m) == f[0] = d /\ \A k \in 1 .. m : f[k - 1] \in D[k - 1] /\ f[k] = g[k][f[k - 1]]
           Bad == {m \in 0 .. n : ~\E f \in [0 .. m -> X] : Walk(f, m) /\ f[m] \in D[m]}
<1>0. \A k \in 1 .. n : \A e \in D[k - 1] : g[k][e] \in D[k]
  BY DEF Keeps
<1>1. Bad = {}
  <2> SUFFICES ASSUME Bad # {} PROVE FALSE
    OBVIOUS
  <2>1. PICK m \in Bad : \A k \in Bad : m <= k
    <3>1. Bad \in SUBSET Nat
      OBVIOUS
    <3> QED
      BY <3>1, LeastIs
  <2>2. CASE m = 0
    <3> DEFINE f == [k \in 0 .. 0 |-> d]
    <3>1. f \in [0 .. 0 -> X] /\ f[0] = d
      OBVIOUS
    <3> HIDE DEF f
    <3>2. Walk(f, 0) /\ f[0] \in D[0]
      BY <3>1
    <3> QED
      BY <2>1, <2>2, <3>1, <3>2
  <2>3. CASE m # 0
    <3>1. m \in 1 .. n /\ m - 1 \in 0 .. n /\ m - 1 \notin Bad
      <4>1. m \in 0 .. n
        BY <2>1
      <4> HIDE DEF Bad
      <4>2. m \in 1 .. n /\ m - 1 \in 0 .. n
        BY <2>3, <4>1
      <4>3. ~(m <= m - 1)
        BY <4>1
      <4> QED
        BY <2>1, <4>2, <4>3
    <3>2. PICK f \in [0 .. m - 1 -> X] : Walk(f, m - 1) /\ f[m - 1] \in D[m - 1]
      BY <3>1
    <3>3. g[m][f[m - 1]] \in D[m] /\ D[m] \subseteq X
      BY <1>0, <3>1, <3>2
    <3> DEFINE more == [k \in 0 .. m |-> IF k = m THEN g[m][f[m - 1]] ELSE f[k]]
    <3>4. /\ more \in [0 .. m -> X] /\ more[m] = g[m][f[m - 1]] /\ \A k \in 0 .. m - 1 : more[k] = f[k]
      BY <3>1, <3>3
    <3> HIDE DEF more
    <3>5. \A k \in 1 .. m : more[k - 1] \in D[k - 1] /\ more[k] = g[k][more[k - 1]]
      <4> SUFFICES ASSUME NEW k \in 1 .. m
                   PROVE  more[k - 1] \in D[k - 1] /\ more[k] = g[k][more[k - 1]]
        OBVIOUS
      <4>1. CASE k = m
        <5>1. m - 1 \in 0 .. m - 1
          BY <3>1
        <5> QED
          BY <3>1, <3>2, <3>4, <4>1, <5>1
      <4>2. CASE k # m
        <5>1. k \in 1 .. m - 1 /\ k - 1 \in 0 .. m - 1 /\ k \in 0 .. m - 1
          BY <3>1, <4>2
        <5> QED
          BY <3>2, <3>4, <5>1
      <4> QED
        BY <4>1, <4>2
    <3>6. more[0] = d
      BY <3>1, <3>2, <3>4
    <3>7. Walk(more, m) /\ more[m] \in D[m]
      BY <3>3, <3>4, <3>5, <3>6
    <3> QED
      BY <2>1, <3>4, <3>7
  <2> QED
    BY <2>2, <2>3
<1>2. PICK f \in [0 .. n -> X] : Walk(f, n) /\ f[n] \in D[n]
  BY <1>1
<1>3. \A k \in 0 .. n : f[k] \in D[k]
  <2> SUFFICES ASSUME NEW k \in 0 .. n PROVE f[k] \in D[k]
    OBVIOUS
  <2>1. CASE k = n
    BY <1>2, <2>1
  <2>2. CASE k # n
    <3>1. k + 1 \in 1 .. n /\ (k + 1) - 1 = k
      BY <2>2
    <3> QED
      BY <1>2, <3>1
  <2> QED
    BY <2>1, <2>2
<1> QED
  BY <1>2, <1>3 DEF Walked
-----------------------------------------------------------------------------
(* Shapes, drawings and the stacks.                                        *)

LEMMA ThingsAre ==
  /\ \A S \in Things : DOMAIN S \subseteq Handed /\ S \in [DOMAIN S -> Shape]
  /\ \A S, I : I \subseteq Handed /\ S \in [I -> Shape] => S \in Things /\ DOMAIN S = I
  BY DEF Things

LEMMA IdsAreFew ==
  ASSUME NEW I \in SUBSET Handed
  PROVE  IsFiniteSet(I)
<1>1. IsFiniteSet(1 .. MaxShapes)
  <2>1. 1 \in Int /\ MaxShapes \in Int
    BY BoundAssumption
  <2> QED
    BY <2>1, FS_Interval
<1> QED
  BY <1>1, FS_Subset DEF Handed

\* A shape may be put anywhere, look otherwise or lie higher.
LEMMA ShapesAre ==
  ASSUME NEW s \in Shape
  PROVE  /\ s.pos \in Positions /\ s.look \in Looks /\ s.rank \in Int /\ s.kind \in Kinds
         /\ s.from \in Nat /\ s.to \in Nat /\ s.img \in Nat /\ s.clean \in BOOLEAN
         /\ \A p \in Positions : [s EXCEPT !.pos = p] \in Shape
         /\ \A l \in Looks : [s EXCEPT !.look = l] \in Shape
         /\ \A r \in Int : [s EXCEPT !.rank = r] \in Shape
  BY DEF Shape

\* There is always a place above all shapes, and one below.
LEMMA RanksAre ==
  ASSUME NEW S \in Things
  PROVE  AboveAll(S) \in Int /\ BelowAll(S) \in Int
<1> DEFINE ranks == {S[i].rank : i \in DOMAIN S}
           all == {0} \cup ranks
<1>1. DOMAIN S \subseteq Handed /\ S \in [DOMAIN S -> Shape]
  BY ThingsAre
<1>2. \A i \in DOMAIN S : S[i].rank \in Int
  BY <1>1, ShapesAre
<1>3. IsFiniteSet(DOMAIN S)
  BY <1>1, IdsAreFew
<1>4. IsFiniteSet(ranks)
  <2> DEFINE r == [i \in DOMAIN S |-> S[i].rank]
  <2>1. r \in Surjection(DOMAIN S, ranks)
    BY DEF Surjection
  <2> QED
    BY <1>3, <2>1, FS_Surjection
<1>5. IsFiniteSet(all) /\ all # {} /\ all \in SUBSET Int
  <2>1. IsFiniteSet({0})
    BY FS_Singleton
  <2>2. IsFiniteSet({0} \cup ranks)
    BY <1>4, <2>1, FS_Union
  <2> QED
    BY <1>2, <2>2
<1>6. Max(all) \in Int /\ Min(all) \in Int
  BY <1>5, BoundsAre
<1> HIDE DEF all
<1>7. 1 + Max(all) \in Int /\ Min(all) - 1 \in Int
  BY <1>6
<1> QED
  BY <1>7 DEF AboveAll, BelowAll, all

\* Connectors stay joined when nothing happens to what they join.
SameTies(S, T) ==
    /\ DOMAIN T = DOMAIN S
    /\ \A i \in DOMAIN S : /\ T[i].kind = S[i].kind /\ T[i].clean = S[i].clean
                           /\ T[i].from = S[i].from /\ T[i].to = S[i].to

LEMMA TiesKept ==
  ASSUME NEW S, NEW T, SameTies(S, T)
  PROVE  /\ Boxes(T) = Boxes(S) /\ Connectors(T) = Connectors(S)
         /\ Joined(S) => Joined(T)
<1>1. Boxes(T) = Boxes(S) /\ Connectors(T) = Connectors(S)
  BY DEF SameTies, Boxes, Connectors
<1>2. \A c \in Connectors(S) : Ends(T[c]) = Ends(S[c]) /\ T[c].clean = S[c].clean
  BY DEF SameTies, Connectors, Ends
<1> QED
  BY <1>1, <1>2 DEF Joined

\* The drawing there is, put on the undo stack.
LEMMA SnapshotIs ==
  ASSUME NEW d, Whole(d)
  PROVE  LET e == Snapshot(d)
         IN  /\ e \in Documents /\ e.shapes = d.shapes /\ e.next = d.next
             /\ e.images = d.images /\ e.nextImage = d.nextImage
             /\ e.modified /\ e.redo = <<>> /\ Len(e.undo) <= UndoCap
             /\ Recalls(d, e, 1)
             /\ \A j \in DOMAIN d.undo : Len(d.undo) - j < UndoCap - 1 =>
                  \E k \in DOMAIN e.undo : e.undo[k] = d.undo[j] /\ Len(e.undo) - k <= Len(d.undo) - j + 1
<1> DEFINE n == Len(d.undo)
           stack == Append(d.undo, Now(d))
           undo == IF Len(stack) > UndoCap THEN Tail(stack) ELSE stack
           e == Snapshot(d)
<1>1. /\ d \in Documents /\ d.undo \in Seq(Drafts) /\ d.redo \in Seq(Drafts) /\ Now(d) \in Drafts
      /\ Len(d.undo) + Len(d.redo) <= UndoCap /\ UndoCap \in Nat \ {0}
  BY DrawAssumption DEF Whole, Documents
<1>2. /\ n \in Nat /\ stack \in Seq(Drafts) /\ Len(stack) = n + 1 /\ DOMAIN stack = 1 .. n + 1
      /\ DOMAIN d.undo = 1 .. n
      /\ stack[n + 1] = Now(d) /\ \A k \in 1 .. n : stack[k] = d.undo[k]
  BY <1>1
<1>3. n <= UndoCap
  <2>1. Len(d.redo) \in Nat
    BY <1>1
  <2> HIDE DEF n
  <2>2. n + Len(d.redo) <= UndoCap
    BY <1>1 DEF n
  <2> QED
    BY <1>1, <1>2, <2>1, <2>2
<1> HIDE DEF stack, n
<1>4. /\ undo \in Seq(Drafts) /\ Len(undo) <= UndoCap /\ Len(undo) \in Nat
      /\ \E k \in DOMAIN undo : undo[k] = Now(d) /\ Len(undo) - k < 1
      /\ \A j \in 1 .. n : n - j < UndoCap - 1 =>
           \E k \in DOMAIN undo : undo[k] = d.undo[j] /\ Len(undo) - k <= n - j + 1
  <2>1. CASE ~(Len(stack) > UndoCap)
    <3>1. undo = stack /\ n + 1 <= UndoCap
      BY <1>1, <1>2, <2>1
    <3>2. n + 1 \in DOMAIN stack /\ \A j \in 1 .. n : j \in DOMAIN stack
      BY <1>2
    <3>3. \A j \in 1 .. n : Len(stack) - j <= n - j + 1
      BY <1>2
    <3>4. stack[n + 1] = Now(d) /\ Len(stack) - (n + 1) < 1 /\ \A k \in 1 .. n : stack[k] = d.undo[k]
      BY <1>2
    <3>5. stack \in Seq(Drafts) /\ Len(stack) <= UndoCap /\ Len(stack) \in Nat
      BY <1>2, <3>1
    <3> HIDE DEF undo
    <3> QED
      BY <3>1, <3>2, <3>3, <3>4, <3>5
  <2>2. CASE Len(stack) > UndoCap
    <3>1. undo = Tail(stack) /\ n = UndoCap
      BY <1>1, <1>2, <1>3, <2>2
    <3> HIDE DEF undo
    <3>2. undo \in Seq(Drafts) /\ Len(undo) = n /\ DOMAIN undo = 1 .. n /\ \A k \in 1 .. n : undo[k] = stack[k + 1]
      <4>1. stack # <<>>
        BY <1>2
      <4>2. Tail(stack) \in Seq(Drafts) /\ Len(Tail(stack)) = n /\ \A k \in 1 .. n : Tail(stack)[k] = stack[k + 1]
        BY <1>2, <4>1, HeadTailProperties
      <4> QED
        BY <3>1, <4>2
    <3>3. n \in 1 .. n /\ undo[n] = Now(d)
      BY <1>1, <1>2, <3>1, <3>2
    <3>4. ASSUME NEW j \in 1 .. n, n - j < UndoCap - 1
          PROVE  \E k \in DOMAIN undo : undo[k] = d.undo[j] /\ Len(undo) - k <= n - j + 1
      <4>1. j - 1 \in 1 .. n /\ (j - 1) + 1 = j /\ n - (j - 1) <= n - j + 1
        BY <1>2, <3>1, <3>4
      <4>2. undo[j - 1] = stack[j]
        BY <3>2, <4>1
      <4> QED
        BY <1>2, <3>2, <4>1, <4>2
    <3>5. n \in Nat /\ Len(undo) - n < 1 /\ n <= UndoCap
      BY <1>1, <1>2, <3>1, <3>2
    <3> QED
      BY <3>2, <3>3, <3>4, <3>5
  <2> QED
    BY <2>1, <2>2
<1> HIDE DEF undo
<1>5. e = [[[d EXCEPT !.undo = undo] EXCEPT !.redo = <<>>] EXCEPT !.modified = TRUE]
  BY Zenon DEF Snapshot, undo, stack
<1>6. /\ e \in Documents /\ e.shapes = d.shapes /\ e.next = d.next /\ e.images = d.images
      /\ e.nextImage = d.nextImage /\ e.modified /\ e.redo = <<>> /\ e.undo = undo
  <2>1. <<>> \in Seq(Drafts)
    OBVIOUS
  <2> HIDE DEF e
  <2> QED
    BY <1>1, <1>4, <1>5, <2>1 DEF Documents
<1> HIDE DEF e
<1> QED
  BY <1>2, <1>4, <1>6 DEF Recalls, n, e

\* A drawing that is put in place of the one of the snapshot.
Redrawn(d, S, n) == [Snapshot(d) EXCEPT !.shapes = S, !.next = n]
Reshaped(d, S)   == [Snapshot(d) EXCEPT !.shapes = S]

LEMMA EditIs ==
  ASSUME NEW d, Whole(d), NEW S \in Things, NEW n, [shapes |-> S, next |-> n] \in Drafts
  PROVE  LET e == Redrawn(d, S, n)
         IN  /\ Edit1(d, e) /\ e.shapes = S /\ e.next = n /\ e.modified
             /\ e.images = d.images /\ e.nextImage = d.nextImage
<1> DEFINE b == Snapshot(d)
           e == Redrawn(d, S, n)
<1>1. /\ b \in Documents /\ b.images = d.images /\ b.nextImage = d.nextImage
      /\ b.modified /\ b.redo = <<>> /\ Len(b.undo) <= UndoCap
  BY SnapshotIs
<1>2. n \in 1 .. MaxShapes + 1
  BY DEF Drafts
<1>3. e = [[b EXCEPT !.shapes = S] EXCEPT !.next = n]
  BY Zenon DEF Redrawn
<1> HIDE DEF b, e
<1>4. /\ e \in Documents /\ e.shapes = S /\ e.next = n /\ e.modified /\ e.undo = b.undo
      /\ e.redo = <<>> /\ e.images = d.images /\ e.nextImage = d.nextImage
  BY <1>1, <1>2, <1>3 DEF Documents
<1>5. Whole(e)
  <2>1. Len(e.redo) = 0 /\ Len(e.undo) \in Nat /\ UndoCap \in Nat
    BY <1>1, <1>4, DrawAssumption DEF Documents
  <2>2. Now(e) \in Drafts
    BY <1>4 DEF Now
  <2> QED
    BY <1>1, <1>4, <2>1, <2>2 DEF Whole
<1> QED
  BY <1>4, <1>5 DEF Edit1, b, e

LEMMA EditInPlace ==
  ASSUME NEW d, Whole(d), NEW S \in Things, [shapes |-> S, next |-> d.next] \in Drafts
  PROVE  LET e == Reshaped(d, S)
         IN  /\ Edit1(d, e) /\ e.shapes = S /\ e.next = d.next /\ e.modified
             /\ e.images = d.images /\ e.nextImage = d.nextImage
<1> DEFINE b == Snapshot(d)
<1>1. b \in Documents /\ b.next = d.next
  BY SnapshotIs
<1>2. [b EXCEPT !.shapes = S] = [b EXCEPT !.shapes = S, !.next = d.next]
  <2> HIDE DEF b
  <2> QED
    BY <1>1 DEF Documents
<1>3. Reshaped(d, S) = Redrawn(d, S, d.next)
  BY <1>2, Zenon DEF Reshaped, Redrawn
<1> QED
  BY <1>3, EditIs

\* A snapshot pushes out the first drawing of a full stack, and no other.
LEMMA SnapshotGrows ==
  ASSUME NEW d, Whole(d)
  PROVE  Grows(d, Snapshot(d)) /\ Now(d) \in Entered(Snapshot(d))
<1> DEFINE n == Len(d.undo)
           stack == Append(d.undo, Now(d))
           u == Snapshot(d).undo
<1>1. d \in Documents /\ d.undo \in Seq(Drafts) /\ Now(d) \in Drafts /\ UndoCap \in Nat
  BY DrawAssumption DEF Whole, Documents
<1>2. /\ n \in Nat /\ stack \in Seq(Drafts) /\ Len(stack) = n + 1 /\ DOMAIN d.undo = 1 .. n
      /\ DOMAIN stack = 1 .. n + 1 /\ \A k \in 1 .. n : stack[k] = d.undo[k]
  BY <1>1
<1>3. u = IF Len(stack) > UndoCap THEN Tail(stack) ELSE stack
  BY <1>1 DEF Snapshot, Documents
<1>4. Now(d) \in Entered(Snapshot(d))
  <2>1. Recalls(d, Snapshot(d), 1)
    BY SnapshotIs
  <2> QED
    BY <2>1 DEF Recalls, Entered
<1>5. CASE Len(stack) > UndoCap
  <2>1. stack # <<>>
    BY <1>2
  <2>2. Len(Tail(stack)) = n
    BY <1>2, <2>1, HeadTailProperties
  <2> HIDE DEF stack, n, u
  <2>3. Len(u) = n /\ n >= UndoCap
    BY <1>1, <1>2, <1>3, <1>5, <2>2
  <2> QED
    BY <1>2, <1>4, <2>3 DEF Grows, u, n
<1>6. CASE ~(Len(stack) > UndoCap)
  <2>1. u = stack
    BY <1>3, <1>6
  <2>2. n <= Len(stack) /\ \A k \in 1 .. n : k \in DOMAIN stack
    BY <1>2
  <2> HIDE DEF stack, n, u
  <2>3. \A k \in 1 .. n : k \in DOMAIN u /\ u[k] = d.undo[k]
    BY <1>2, <2>1, <2>2
  <2>4. Entered(d) \subseteq Entered(Snapshot(d))
    BY <1>2, <2>3 DEF Entered, u
  <2> QED
    BY <1>4, <2>1, <2>2, <2>4 DEF Grows, u, n
<1> QED
  BY <1>5, <1>6

LEMMA GrowsOnce ==
  ASSUME NEW d, Whole(d), NEW e, Edit1(d, e)
  PROVE  Grows(d, e)
<1>1. CASE e = d
  <2>1. Len(d.undo) \in Nat
    BY DEF Whole, Documents
  <2> QED
    BY <1>1, <2>1 DEF Grows
<1>2. CASE e # d
  <2>1. e.undo = Snapshot(d).undo
    BY <1>2 DEF Edit1
  <2>2. Grows(d, Snapshot(d))
    BY SnapshotGrows
  <2> QED
    BY <2>1, <2>2, Zenon DEF Grows, Entered
<1> QED
  BY <1>1, <1>2

LEMMA GrowsOn ==
  ASSUME NEW d, Whole(d), NEW e, Whole(e), Grows(d, e), NEW f, Whole(f), Grows(e, f)
  PROVE  Grows(d, f)
<1> DEFINE l == Len(d.undo)
           m == Len(e.undo)
           n == Len(f.undo)
<1>1. l \in Nat /\ m \in Nat /\ n \in Nat /\ UndoCap \in Nat
  BY DrawAssumption DEF Whole, Documents
<1>2. /\ l <= m /\ m <= n
      /\ m >= UndoCap \/ Entered(d) \subseteq Entered(e)
      /\ n >= UndoCap \/ Entered(e) \subseteq Entered(f)
  BY DEF Grows
<1> HIDE DEF l, m, n
<1>3. l <= n /\ (m >= UndoCap => n >= UndoCap)
  BY <1>1, <1>2
<1>4. n >= UndoCap \/ Entered(d) \subseteq Entered(f)
  BY <1>2, <1>3
<1> QED
  BY <1>3, <1>4 DEF Grows, l, n

LEMMA NoEdit ==
  ASSUME NEW d, Whole(d)
  PROVE  Edit1(d, d) /\ Edits(d, d, 0)
<1>1. Edit1(d, d)
  BY DEF Edit1
<1> QED
  BY <1>1, GrowsOnce DEF Edits

\* One edit after others.
LEMMA EditsGoOn ==
  ASSUME NEW d, Whole(d), NEW n \in Nat, NEW e, Edits(d, e, n), NEW f, Edit1(e, f)
  PROVE  Edits(d, f, n + 1)
<1>0. Grows(d, f)
  BY GrowsOnce, GrowsOn DEF Edits, Edit1
<1>1. CASE f = e
  <2>1. CASE e = d
    BY <1>0, <1>1, <2>1 DEF Edits
  <2>2. CASE e # d
    <3>1. e.undo \in Seq(Drafts) /\ UndoCap \in Nat
      BY DrawAssumption DEF Edits, Whole, Documents
    <3>2. n + 1 <= UndoCap => n <= UndoCap
      BY <3>1
    <3>3. ASSUME NEW j \in DOMAIN e.undo, Len(e.undo) - j < n
          PROVE  Len(e.undo) - j < n + 1
      <4>1. Len(e.undo) \in Nat /\ j \in Nat
        BY <3>1
      <4> QED
        BY <3>3, <4>1
    <3> QED
      BY <1>0, <1>1, <2>2, <3>2, <3>3 DEF Edits, Recalls
  <2> QED
    BY <2>1, <2>2
<1>2. CASE f # e
  <2> DEFINE u == f.undo
             m == Len(e.undo)
  <2>1. /\ Whole(e) /\ Whole(f) /\ f.modified /\ u = Snapshot(e).undo /\ e.undo \in Seq(Drafts)
        /\ UndoCap \in Nat \ {0} /\ u \in Seq(Drafts)
    BY <1>2, DrawAssumption DEF Edits, Edit1, Whole, Documents
  <2>2. /\ \E k \in DOMAIN u : u[k] = Now(e) /\ Len(u) - k < 1
        /\ \A j \in DOMAIN e.undo : m - j < UndoCap - 1 =>
             \E k \in DOMAIN u : u[k] = e.undo[j] /\ Len(u) - k <= m - j + 1
    BY <2>1, SnapshotIs DEF Recalls
  <2>3. Len(u) \in Nat /\ m \in Nat /\ (\A k \in DOMAIN u : k \in Nat) /\ \A k \in DOMAIN e.undo : k \in Nat
    BY <2>1
  <2> HIDE DEF u, m
  <2>4. ASSUME n + 1 <= UndoCap
        PROVE  \E k \in DOMAIN u : u[k] = Now(d) /\ Len(u) - k < n + 1
    <3>1. CASE e = d
      <4>1. PICK k \in DOMAIN u : u[k] = Now(d) /\ Len(u) - k < 1
        BY <2>2, <3>1
      <4>2. Len(u) - k < n + 1
        BY <2>3, <4>1
      <4> QED
        BY <4>1, <4>2
    <3>2. CASE e # d
      <4>1. PICK j \in DOMAIN e.undo : e.undo[j] = Now(d) /\ m - j < n
        <5>1. n <= UndoCap
          BY <2>1, <2>4
        <5> QED
          BY <3>2, <5>1 DEF Edits, Recalls, m
      <4>2. m - j < UndoCap - 1
        BY <2>1, <2>3, <2>4, <4>1
      <4>3. PICK k \in DOMAIN u : u[k] = e.undo[j] /\ Len(u) - k <= m - j + 1
        BY <2>2, <4>2
      <4>4. Len(u) - k < n + 1
        BY <2>3, <4>1, <4>3
      <4> QED
        BY <4>1, <4>3, <4>4
    <3> QED
      BY <3>1, <3>2
  <2> QED
    BY <1>0, <2>1, <2>4 DEF Edits, Recalls, u
<1> QED
  BY <1>1, <1>2

LEMMA EditsOnce ==
  ASSUME NEW d, Whole(d), NEW e, Edit1(d, e)
  PROVE  Edits(d, e, 1)
<1>1. Edits(d, e, 0 + 1)
  BY NoEdit, EditsGoOn
<1> QED
  BY <1>1
-----------------------------------------------------------------------------
(* The operations of the document.                                         *)

LEMMA WholeIs ==
  ASSUME NEW d, Whole(d)
  PROVE  /\ d.shapes \in Things /\ d.next \in 1 .. MaxShapes + 1 /\ d.modified \in BOOLEAN
         /\ DOMAIN d.shapes \subseteq 1 .. d.next - 1 /\ DOMAIN d.shapes \subseteq Handed
         /\ \A i \in DOMAIN d.shapes : d.shapes[i] \in Shape
         /\ Joined(d.shapes) /\ d.next \notin DOMAIN d.shapes
         /\ d.undo \in Seq(Drafts) /\ d.redo \in Seq(Drafts)
<1>1. d \in Documents /\ Sound(Now(d))
  BY DEF Whole, Drafts
<1>2. DOMAIN d.shapes \subseteq 1 .. d.next - 1 /\ Joined(d.shapes)
  BY <1>1 DEF Sound, Now
<1>3. d.shapes \in Things /\ d.next \in 1 .. MaxShapes + 1
  BY <1>1 DEF Documents
<1>4. d.next \notin 1 .. d.next - 1
  BY <1>3
<1> QED
  BY <1>1, <1>2, <1>3, <1>4, ThingsAre DEF Documents

LEMMA DraftIs ==
  ASSUME NEW S \in Things, NEW n \in 1 .. MaxShapes + 1, DOMAIN S \subseteq 1 .. n - 1, Joined(S)
  PROVE  [shapes |-> S, next |-> n] \in Drafts
  BY DEF Drafts, Sound

\* Shapes that are changed in their places.
LEMMA ChangesTies ==
  ASSUME NEW d, Whole(d), NEW S \in Things, SameTies(d.shapes, S)
  PROVE  /\ Edit1(d, Reshaped(d, S)) /\ Reshaped(d, S).shapes = S /\ Reshaped(d, S).next = d.next
         /\ Boxes(S) = Boxes(d.shapes)
<1>1. Joined(S) /\ DOMAIN S = DOMAIN d.shapes /\ Boxes(S) = Boxes(d.shapes)
  BY WholeIs, TiesKept DEF SameTies
<1>2. [shapes |-> S, next |-> d.next] \in Drafts
  BY <1>1, WholeIs, DraftIs
<1> QED
  BY <1>1, <1>2, EditInPlace

\* A connector that is new joins boxes, or does not count.
LEMMA AddShapeIs ==
  ASSUME NEW d, Whole(d), d.next \in Handed, NEW s \in Shape,
         s.kind = "connector" /\ s.clean => Ends(s) \subseteq Boxes(d.shapes)
  PROVE  LET e == AddShape(d, s)
         IN  /\ Edit1(d, e) /\ e # d /\ e.next = d.next + 1
             /\ DOMAIN e.shapes = DOMAIN d.shapes \cup {d.next}
             /\ \A i \in DOMAIN d.shapes : e.shapes[i] = d.shapes[i]
             /\ e.images = d.images /\ e.nextImage = d.nextImage
<1> DEFINE n == d.next
           t == [s EXCEPT !.rank = AboveAll(d.shapes)]
           S == With(d.shapes, n, t)
           e == AddShape(d, s)
<1>1. /\ d.shapes \in Things /\ n \in 1 .. MaxShapes + 1 /\ n \notin DOMAIN d.shapes
      /\ DOMAIN d.shapes \subseteq 1 .. n - 1 /\ DOMAIN d.shapes \subseteq Handed
      /\ Joined(d.shapes) /\ \A i \in DOMAIN d.shapes : d.shapes[i] \in Shape
  BY WholeIs
<1>2. t \in Shape
  BY <1>1, RanksAre, ShapesAre
<1>3. t.kind = s.kind /\ t.clean = s.clean /\ t.from = s.from /\ t.to = s.to
  BY DEF Shape
<1> HIDE DEF t
<1>4. /\ DOMAIN S = DOMAIN d.shapes \cup {n} /\ S[n] = t
      /\ \A i \in DOMAIN d.shapes : S[i] = d.shapes[i]
  BY <1>1 DEF With
<1>5. S \in Things
  <2>1. DOMAIN S \subseteq Handed
    BY <1>1, <1>4
  <2>2. \A i \in DOMAIN S : S[i] \in Shape
    BY <1>1, <1>2, <1>4
  <2>3. S = [i \in DOMAIN S |-> S[i]]
    BY <1>4 DEF With
  <2> HIDE DEF S
  <2>4. S \in [DOMAIN S -> Shape]
    BY <2>2, <2>3
  <2> QED
    BY <2>1, <2>4, ThingsAre
<1> HIDE DEF S
<1>6. Boxes(d.shapes) \subseteq Boxes(S)
  BY <1>4 DEF Boxes
<1>7. Joined(S)
  <2> SUFFICES ASSUME NEW c \in Connectors(S), S[c].clean PROVE Ends(S[c]) \subseteq Boxes(S)
    BY DEF Joined
  <2>1. CASE c = n
    <3>1. s.kind = "connector" /\ Ends(t) = Ends(s) /\ t.clean
      BY <1>3, <1>4, <2>1 DEF Connectors, Boxes, Ends
    <3> QED
      BY <1>3, <1>4, <1>6, <2>1, <3>1
  <2>2. CASE c # n
    <3>1. c \in Connectors(d.shapes) /\ S[c] = d.shapes[c]
      BY <1>4, <2>2 DEF Connectors, Boxes
    <3> QED
      BY <1>1, <1>6, <3>1 DEF Joined
  <2> QED
    BY <2>1, <2>2
<1>8. n + 1 \in 1 .. MaxShapes + 1 /\ DOMAIN S \subseteq 1 .. (n + 1) - 1
  <2>1. n \in 1 .. MaxShapes
    BY DEF Handed
  <2> QED
    BY <1>1, <1>4, <2>1, BoundAssumption
<1>9. [shapes |-> S, next |-> n + 1] \in Drafts
  BY <1>5, <1>7, <1>8, DraftIs
<1>10. e = Redrawn(d, S, n + 1)
  BY Zenon DEF AddShape, Redrawn, S, t
<1> HIDE DEF e
<1>11. /\ Edit1(d, e) /\ e.shapes = S /\ e.next = n + 1
       /\ e.images = d.images /\ e.nextImage = d.nextImage
  BY <1>5, <1>9, <1>10, EditIs
<1>12. e # d
  BY <1>1, <1>11
<1> QED
  BY <1>4, <1>11, <1>12 DEF e

LEMMA NewShapesAre ==
  ASSUME NEW p \in Positions, NEW l \in Looks
  PROVE  /\ NewBox(p, l) \in Shape /\ NewBox(p, l).kind = "box"
         /\ \A m \in Nat : NewImage(p, l, m) \in Shape /\ NewImage(p, l, m).kind = "image"
         /\ \A S : \A a, b \in Nat :
              /\ NewConnector(S, a, b, p, l) \in Shape
              /\ NewConnector(S, a, b, p, l).clean => Ends(NewConnector(S, a, b, p, l)) \subseteq Boxes(S)
<1>1. NewBox(p, l) \in Shape /\ NewBox(p, l).kind = "box"
  BY DEF NewBox, Shape, Kinds, Nobody
<1>2. ASSUME NEW m \in Nat
      PROVE  NewImage(p, l, m) \in Shape /\ NewImage(p, l, m).kind = "image"
  <2> DEFINE s == NewBox(p, l)
             t == [s EXCEPT !.kind = "image"]
  <2>1. NewImage(p, l, m) = [t EXCEPT !.img = m]
    BY Zenon DEF NewImage
  <2>2. s \in Shape
    BY <1>1
  <2> HIDE DEF s
  <2>3. t \in Shape /\ t.kind = "image"
    BY <2>2 DEF Shape, Kinds
  <2> HIDE DEF t
  <2>4. [t EXCEPT !.img = m] \in Shape /\ [t EXCEPT !.img = m].kind = "image"
    BY <2>3 DEF Shape
  <2> QED
    BY <2>1, <2>4
<1>3. ASSUME NEW S, NEW a \in Nat, NEW b \in Nat
      PROVE  /\ NewConnector(S, a, b, p, l) \in Shape
             /\ NewConnector(S, a, b, p, l).clean => Ends(NewConnector(S, a, b, p, l)) \subseteq Boxes(S)
  <2> DEFINE clean == {a, b} \subseteq Boxes(S)
             s == NewConnector(S, a, b, p, l)
  <2>1. clean \in BOOLEAN
    OBVIOUS
  <2>2. s = [kind |-> "connector", pos |-> p, look |-> l, from |-> a, to |-> b, img |-> 0,
             rank |-> 0, clean |-> clean]
    <3> DEFINE x == NewBox(p, l)
    <3>2. s = [[[[x EXCEPT !.kind = "connector"] EXCEPT !.from = a] EXCEPT !.to = b] EXCEPT !.clean = clean]
      BY Zenon DEF NewConnector
    <3> QED
      BY <3>2 DEF NewBox, Nobody
  <2> HIDE DEF clean, s
  <2>3. s \in Shape /\ s.clean = clean /\ Ends(s) = {a, b}
    BY <2>1, <2>2 DEF Shape, Kinds, Ends
  <2> QED
    BY <2>3 DEF clean, s
<1> QED
  BY <1>1, <1>2, <1>3

\* One shape that is changed in its place.
LEMMA OneChanged ==
  ASSUME NEW S \in Things, NEW i \in DOMAIN S, NEW s \in Shape,
         s.kind = S[i].kind, s.clean = S[i].clean, s.from = S[i].from, s.to = S[i].to
  PROVE  /\ [S EXCEPT ![i] = s] \in Things /\ SameTies(S, [S EXCEPT ![i] = s])
<1> DEFINE T == [S EXCEPT ![i] = s]
<1>1. DOMAIN S \subseteq Handed /\ S \in [DOMAIN S -> Shape]
  BY ThingsAre
<1>2. T \in [DOMAIN S -> Shape] /\ DOMAIN T = DOMAIN S /\ \A j \in DOMAIN S : T[j] = IF j = i THEN s ELSE S[j]
  BY <1>1
<1> HIDE DEF T
<1>3. SameTies(S, T)
  BY <1>2 DEF SameTies
<1> QED
  BY <1>1, <1>2, <1>3, ThingsAre DEF T

LEMMA PutIs ==
  ASSUME NEW S \in Things, NEW i \in DOMAIN S, NEW p \in Positions
  PROVE  LET T == [S EXCEPT ![i].pos = p]
         IN  /\ T \in Things /\ SameTies(S, T) /\ T[i].pos = p
             /\ \A j \in DOMAIN S : j # i => T[j] = S[j]
<1> DEFINE s == [S[i] EXCEPT !.pos = p]
<1>1. DOMAIN S \subseteq Handed /\ S \in [DOMAIN S -> Shape] /\ S[i] \in Shape
  BY ThingsAre
<1>2. /\ s \in Shape /\ s.kind = S[i].kind /\ s.clean = S[i].clean
      /\ s.from = S[i].from /\ s.to = S[i].to /\ s.pos = p
  BY <1>1 DEF Shape
<1>3. [S EXCEPT ![i].pos = p] = [S EXCEPT ![i] = s]
  BY Zenon
<1> HIDE DEF s
<1>4. [S EXCEPT ![i] = s][i] = s /\ \A j \in DOMAIN S : j # i => [S EXCEPT ![i] = s][j] = S[j]
  BY <1>1
<1> QED
  BY <1>2, <1>3, <1>4, OneChanged

LEMMA SetShapeRectIs ==
  ASSUME NEW d, Whole(d), NEW i, NEW p \in Positions
  PROVE  LET e == SetShapeRect(d, i, p)
         IN  /\ Edit1(d, e) /\ e.next = d.next /\ DOMAIN e.shapes = DOMAIN d.shapes
             /\ Boxes(e.shapes) = Boxes(d.shapes)
             /\ \A j \in DOMAIN d.shapes : j # i => e.shapes[j] = d.shapes[j]
<1>1. CASE i \notin DOMAIN d.shapes \/ d.shapes[i].pos = p
  <2>1. SetShapeRect(d, i, p) = d
    BY <1>1 DEF SetShapeRect
  <2> QED
    BY <2>1, NoEdit
<1>2. CASE ~(i \notin DOMAIN d.shapes \/ d.shapes[i].pos = p)
  <2> DEFINE S == [d.shapes EXCEPT ![i].pos = p]
  <2>1. SetShapeRect(d, i, p) = Reshaped(d, S)
    BY <1>2, Zenon DEF SetShapeRect, Reshaped
  <2>2. /\ S \in Things /\ SameTies(d.shapes, S)
        /\ \A j \in DOMAIN d.shapes : j # i => S[j] = d.shapes[j]
    BY <1>2, WholeIs, PutIs
  <2> HIDE DEF S
  <2> QED
    BY <2>1, <2>2, ChangesTies DEF SameTies
<1> QED
  BY <1>1, <1>2

LEMMA SetLookIs ==
  ASSUME NEW d, Whole(d), NEW i, NEW l \in Looks, NEW flags \in BOOLEAN
  PROVE  Edit1(d, SetLook(d, i, l, flags))
<1> DEFINE same == i \notin DOMAIN d.shapes \/ (flags /\ i \notin Connectors(d.shapes)) \/ d.shapes[i].look = l
<1>1. CASE same
  <2>1. SetLook(d, i, l, flags) = d
    BY <1>1 DEF SetLook
  <2> QED
    BY <2>1, NoEdit
<1>2. CASE ~same
  <2> DEFINE s == [d.shapes[i] EXCEPT !.look = l]
             S == [d.shapes EXCEPT ![i] = s]
  <2>1. SetLook(d, i, l, flags) = Reshaped(d, S)
    BY <1>2, Zenon DEF SetLook, Reshaped
  <2>2. i \in DOMAIN d.shapes /\ d.shapes \in Things /\ d.shapes[i] \in Shape
    BY <1>2, WholeIs
  <2>3. /\ s \in Shape /\ s.kind = d.shapes[i].kind /\ s.clean = d.shapes[i].clean
        /\ s.from = d.shapes[i].from /\ s.to = d.shapes[i].to
    BY <2>2 DEF Shape
  <2> HIDE DEF s
  <2>4. S \in Things /\ SameTies(d.shapes, S)
    BY <2>2, <2>3, OneChanged
  <2> HIDE DEF S
  <2> QED
    BY <2>1, <2>4, ChangesTies
<1> QED
  BY <1>1, <1>2

LEMMA MoveZIs ==
  ASSUME NEW d, Whole(d), NEW i, NEW toFront \in BOOLEAN
  PROVE  Edit1(d, MoveZ(d, i, toFront))
<1> DEFINE there == \A j \in DOMAIN d.shapes : IF toFront THEN d.shapes[j].rank <= d.shapes[i].rank
                                                        ELSE d.shapes[i].rank <= d.shapes[j].rank
<1>1. CASE i \notin DOMAIN d.shapes \/ there
  <2>1. MoveZ(d, i, toFront) = d
    BY <1>1, Zenon DEF MoveZ
  <2> QED
    BY <2>1, NoEdit
<1>2. CASE ~(i \notin DOMAIN d.shapes \/ there)
  <2> DEFINE r == IF toFront THEN AboveAll(d.shapes) ELSE BelowAll(d.shapes)
             s == [d.shapes[i] EXCEPT !.rank = r]
             S == [d.shapes EXCEPT ![i] = s]
  <2>1. MoveZ(d, i, toFront) = Reshaped(d, S)
    BY <1>2, Zenon DEF MoveZ, Reshaped
  <2>2. i \in DOMAIN d.shapes /\ d.shapes \in Things /\ d.shapes[i] \in Shape
    BY <1>2, WholeIs
  <2>3. r \in Int
    BY <2>2, RanksAre
  <2> HIDE DEF r
  <2>4. /\ s \in Shape /\ s.kind = d.shapes[i].kind /\ s.clean = d.shapes[i].clean
        /\ s.from = d.shapes[i].from /\ s.to = d.shapes[i].to
    BY <2>2, <2>3 DEF Shape
  <2> HIDE DEF s
  <2>5. S \in Things /\ SameTies(d.shapes, S)
    BY <2>2, <2>4, OneChanged
  <2> HIDE DEF S
  <2> QED
    BY <2>1, <2>5, ChangesTies
<1> QED
  BY <1>1, <1>2

\* Connectors go with what they join; what is left is joined still.
LEMMA RemoveShapesIs ==
  ASSUME NEW d, Whole(d), NEW ids
  PROVE  Edit1(d, RemoveShapes(d, ids))
<1> DEFINE S == d.shapes
           gone == ids \cup {c \in Connectors(S) : Ends(S[c]) \cap ids # {}}
           above == {c \in Connectors(S) :
                       \E g \in gone \cap Ends(S[c]) \cap DOMAIN S : S[g].rank < S[c].rank}
           T == Without(S, gone \cup above)
<1>1. RemoveShapes(d, ids) = Reshaped(d, T)
  BY Zenon DEF RemoveShapes, Reshaped
<1>2. /\ S \in Things /\ DOMAIN S \subseteq 1 .. d.next - 1 /\ DOMAIN S \subseteq Handed /\ Joined(S)
      /\ d.next \in 1 .. MaxShapes + 1 /\ \A i \in DOMAIN S : S[i] \in Shape
  BY WholeIs
<1>3. /\ \A c \in Connectors(S) : c \notin gone => Ends(S[c]) \cap ids = {}
      /\ \A b \in Boxes(S) : b \notin ids => b \notin gone \cup above
  BY DEF Boxes, Connectors
<1>31. ids \subseteq gone \cup above
  OBVIOUS
<1> HIDE DEF gone, above, S
<1>4. DOMAIN T = DOMAIN S \ (gone \cup above) /\ \A i \in DOMAIN T : T[i] = S[i]
  BY DEF Without
<1>5. T \in [DOMAIN T -> Shape] /\ DOMAIN T \subseteq Handed
  BY <1>2, <1>4 DEF Without
<1> HIDE DEF T
<1>6. T \in Things
  BY <1>5, ThingsAre
<1>7. Joined(T)
  <2> SUFFICES ASSUME NEW c \in Connectors(T), T[c].clean PROVE Ends(T[c]) \subseteq Boxes(T)
    BY DEF Joined
  <2>1. c \in Connectors(S) /\ c \notin gone /\ T[c] = S[c]
    BY <1>4 DEF Connectors, Boxes
  <2>2. Ends(S[c]) \subseteq Boxes(S) /\ Ends(S[c]) \cap ids = {}
    BY <1>2, <1>3, <2>1 DEF Joined
  <2>3. \A b \in Ends(S[c]) : b \in Boxes(S) /\ b \notin gone \cup above
    BY <1>3, <2>2
  <2>4. \A b \in Ends(S[c]) : b \in Boxes(T)
    BY <1>4, <2>3 DEF Boxes
  <2> QED
    BY <2>1, <2>4
<1>8. [shapes |-> T, next |-> d.next] \in Drafts
  BY <1>2, <1>4, <1>6, <1>7, DraftIs
<1> QED
  BY <1>1, <1>6, <1>8, EditInPlace

\* Between two places of the page every place is one of it.
LEMMA FrameIs ==
  ASSUME NEW d, Whole(d), NEW ids, Alignable(d, ids)
  PROVE  Frame(d, ids) \subseteq Positions
<1> DEFINE P == {d.shapes[i].pos : i \in ids}
<1>1. ids \subseteq DOMAIN d.shapes /\ ids \subseteq Handed /\ IsFiniteSet(ids)
  BY WholeIs, IdsAreFew DEF Alignable, Boxes
<1>2. ids # {}
  <2> SUFFICES ASSUME ids = {} PROVE FALSE
    OBVIOUS
  <2>1. Cardinality(ids) = 0
    BY FS_EmptySet
  <2> QED
    BY <2>1 DEF Alignable
<1>3. P \in SUBSET Positions /\ P # {}
  BY <1>1, <1>2, WholeIs, ShapesAre
<1>4. IsFiniteSet(P)
  <2> DEFINE f == [i \in ids |-> d.shapes[i].pos]
  <2>1. f \in Surjection(ids, P)
    BY DEF Surjection
  <2> QED
    BY <1>1, <2>1, FS_Surjection
<1>5. Positions \subseteq Int /\ \A p, q \in Positions : p .. q \subseteq Positions
  BY DrawAssumption
<1>6. Min(P) \in Positions /\ Max(P) \in Positions
  <2>1. P \in SUBSET Int
    BY <1>3, <1>5
  <2>2. Min(P) \in P /\ Max(P) \in P
    BY <1>3, <1>4, <2>1, BoundsAre
  <2> QED
    BY <1>3, <2>2
<1>7. Frame(d, ids) = Min(P) .. Max(P)
  BY Zenon DEF Frame
<1> HIDE DEF P
<1> QED
  BY <1>5, <1>6, <1>7

LEMMA AlignIs ==
  ASSUME NEW d, Whole(d), NEW ids, Alignable(d, ids), NEW put \in [ids -> Frame(d, ids)]
  PROVE  Edit1(d, Align(d, ids, put))
<1> DEFINE S == d.shapes
           T == [i \in DOMAIN S |-> IF i \in ids THEN [S[i] EXCEPT !.pos = put[i]] ELSE S[i]]
<1>1. Align(d, ids, put) = Reshaped(d, T)
  BY Zenon DEF Align, Reshaped
<1>2. S \in Things /\ DOMAIN S \subseteq Handed /\ \A i \in DOMAIN S : S[i] \in Shape
  BY WholeIs
<1>3. \A i \in ids : put[i] \in Positions
  BY FrameIs
<1>4. ASSUME NEW i \in DOMAIN S
      PROVE  /\ T[i] \in Shape /\ T[i].kind = S[i].kind /\ T[i].clean = S[i].clean
             /\ T[i].from = S[i].from /\ T[i].to = S[i].to
  <2>1. CASE i \in ids
    <3>1. put[i] \in Positions /\ S[i] \in Shape /\ T[i] = [S[i] EXCEPT !.pos = put[i]]
      BY <1>2, <1>3, <2>1
    <3> HIDE DEF T, S
    <3> QED
      BY <3>1 DEF Shape
  <2>2. CASE i \notin ids
    BY <1>2, <2>2
  <2> QED
    BY <2>1, <2>2
<1>5. T \in [DOMAIN S -> Shape] /\ DOMAIN T = DOMAIN S
  BY <1>4
<1> HIDE DEF T, S
<1>6. T \in Things /\ SameTies(S, T)
  BY <1>2, <1>4, <1>5, ThingsAre DEF SameTies
<1> QED
  BY <1>1, <1>6, ChangesTies DEF S

\* An image that is loaded: the drawing is what it was.
LEMMA AddImageIs ==
  ASSUME NEW d, Whole(d), NEW pic \in Pictures
  PROVE  LET e == AddImage(d, pic)
         IN  /\ Whole(e) /\ e.shapes = d.shapes /\ e.next = d.next /\ Now(e) = Now(d)
             /\ e.undo = d.undo /\ e.redo = d.redo /\ d.nextImage \in Nat
<1> DEFINE entry == [id |-> d.nextImage, pic |-> pic]
           images == Append(d.images, entry)
           more == d.nextImage + 1
           e == AddImage(d, pic)
<1>1. d \in Documents /\ d.images \in Seq(Entries) /\ d.nextImage \in Nat \ {0}
  BY DEF Whole, Documents
<1>2. entry \in Entries
  BY <1>1 DEF Entries
<1>3. images \in Seq(Entries) /\ more \in Nat \ {0}
  BY <1>1, <1>2
<1>4. e = [[[d EXCEPT !.images = images] EXCEPT !.nextImage = more] EXCEPT !.modified = TRUE]
  BY Zenon DEF AddImage
<1> HIDE DEF entry, images, more, e
<1>5. /\ e \in Documents /\ e.shapes = d.shapes /\ e.next = d.next /\ e.undo = d.undo /\ e.redo = d.redo
  BY <1>1, <1>3, <1>4 DEF Documents
<1>6. Now(e) = Now(d)
  BY <1>5 DEF Now
<1> QED
  BY <1>1, <1>5, <1>6 DEF Whole, e

\* What a change of the document may be: it marks it, and it can be taken
\* back as long as the stack holds as many drawings as there can be shapes.
Marks(d, e) == e.modified \/ (e.shapes = d.shapes /\ ~d.modified)
Backs(d, e) ==
    e.shapes # d.shapes =>
      Now(d) \in {e.undo[k] : k \in DOMAIN e.undo} \cup {e.redo[k] : k \in DOMAIN e.redo}
Sane(d, e) == Whole(e) /\ Marks(d, e) /\ (MaxShapes <= UndoCap => Backs(d, e))
Fine(d, e) == Sane(d, e) /\ Grows(d, e)

LEMMA EditsAreFine ==
  ASSUME NEW d, Whole(d), NEW n \in Nat, n <= MaxShapes, NEW e, Edits(d, e, n)
  PROVE  Fine(d, e)
<1>1. Whole(e) /\ Grows(d, e)
  BY DEF Edits
<1>2. CASE e = d
  BY <1>1, <1>2 DEF Fine, Sane, Marks, Backs, Whole, Documents
<1>3. CASE e # d
  <2>1. e.modified /\ (n <= UndoCap => Recalls(d, e, n))
    BY <1>3 DEF Edits
  <2>2. MaxShapes <= UndoCap => n <= UndoCap
    BY BoundAssumption, DrawAssumption
  <2> QED
    BY <1>1, <2>1, <2>2 DEF Fine, Sane, Marks, Backs, Recalls
<1> QED
  BY <1>2, <1>3

LEMMA FineSame ==
  ASSUME NEW d, Whole(d)
  PROVE  Fine(d, d)
<1>1. Edits(d, d, 0)
  BY NoEdit
<1> QED
  BY <1>1 DEF Edits, Fine, Sane, Marks, Backs, Whole, Documents

LEMMA FineOnce ==
  ASSUME NEW d, Whole(d), NEW e, Edit1(d, e)
  PROVE  Fine(d, e)
<1>1. CASE e = d
  BY <1>1, FineSame
<1>2. CASE e # d
  <2>1. Edits(d, e, 1) /\ UndoCap \in Nat \ {0}
    BY EditsOnce, DrawAssumption
  <2>2. e.modified /\ Whole(e) /\ Recalls(d, e, 1) /\ Grows(d, e)
    BY <1>2, <2>1 DEF Edits
  <2> QED
    BY <2>2 DEF Fine, Sane, Marks, Backs, Recalls
<1> QED
  BY <1>1, <1>2

\* The top of a stack and what is under it.
LEMMA PopIs ==
  ASSUME NEW T, NEW s \in Seq(T), s # <<>>
  PROVE  Top(s) \in T /\ Pop(s) \in Seq(T) /\ Len(Pop(s)) = Len(s) - 1
<1>1. Len(s) \in Nat \ {0}
  BY EmptySeq
<1>2. Len(s) \in DOMAIN s /\ s[Len(s)] \in T
  BY <1>1
<1> DEFINE m == Len(s) - 1
<1>3. m \in 0 .. Len(s) /\ m <= Len(s) /\ m \in Nat
  BY <1>1
<1> HIDE DEF m
<1>4. SubSeq(s, 1, m) \in Seq(T) /\ Len(SubSeq(s, 1, m)) = m
  BY <1>3, SubSeqProperties
<1> QED
  BY <1>2, <1>4 DEF Top, Pop, m

\* A drawing comes from one stack, and that there was goes on the other.
LEMMA TravelIs ==
  ASSUME NEW d, Whole(d), NEW e \in Documents, NEW from \in Seq(Drafts), from # <<>>,
         NEW to \in Seq(Drafts), Len(from) + Len(to) = Len(d.undo) + Len(d.redo),
         e.shapes = Top(from).shapes, e.next = Top(from).next, e.modified,
         \/ e.undo = Pop(from) /\ e.redo = Append(to, Now(d))
         \/ e.redo = Pop(from) /\ e.undo = Append(to, Now(d))
  PROVE  Sane(d, e)
<1> DEFINE pop == Pop(from)
           more == Append(to, Now(d))
           total == Len(d.undo) + Len(d.redo)
<1>1. total <= UndoCap /\ Now(d) \in Drafts
  BY DEF Whole
<1>2. Top(from) \in Drafts /\ pop \in Seq(Drafts) /\ Len(pop) = Len(from) - 1
  BY PopIs
<1>3. /\ more \in Seq(Drafts) /\ Len(more) = Len(to) + 1 /\ Len(more) \in DOMAIN more
      /\ more[Len(more)] = Now(d)
  BY <1>1
<1>4. Len(from) \in Nat /\ Len(to) \in Nat /\ Len(from) + Len(to) = total
  <2>1. Len(from) \in Nat
    OBVIOUS
  <2>2. Len(to) \in Nat
    OBVIOUS
  <2> QED
    BY <2>1, <2>2
<1> HIDE DEF pop, more, total
<1>5. Len(pop) + Len(more) <= UndoCap /\ Len(more) + Len(pop) <= UndoCap
  <2>1. Len(pop) + Len(more) = total /\ Len(more) + Len(pop) = total
    BY <1>2, <1>3, <1>4
  <2> QED
    BY <1>1, <2>1
<1>6. Now(e) \in Drafts
  <2>1. Top(from) \in [shapes : Things, next : 1 .. MaxShapes + 1]
    BY <1>2 DEF Drafts
  <2>2. Now(e) = Top(from)
    BY <2>1 DEF Now
  <2> QED
    BY <1>2, <2>2
<1>7. (e.undo = pop /\ e.redo = more) \/ (e.redo = pop /\ e.undo = more)
  BY DEF pop, more
<1>8. Whole(e)
  BY <1>5, <1>6, <1>7 DEF Whole
<1>9. Backs(d, e)
  BY <1>3, <1>7 DEF Backs
<1> QED
  BY <1>8, <1>9 DEF Sane, Marks

LEMMA UndoIs ==
  ASSUME NEW d, Whole(d)
  PROVE  Sane(d, Undo(d))
<1>1. CASE d.undo = <<>>
  BY <1>1, FineSame DEF Undo, Fine
<1>2. CASE d.undo # <<>>
  <2> DEFINE w == Top(d.undo)
             u == Pop(d.undo)
             r == Append(d.redo, Now(d))
             e == Undo(d)
  <2>1. /\ d \in Documents /\ d.undo \in Seq(Drafts) /\ d.redo \in Seq(Drafts) /\ Now(d) \in Drafts
    BY DEF Whole, Documents
  <2>2. w \in Drafts /\ u \in Seq(Drafts) /\ r \in Seq(Drafts)
    BY <1>2, <2>1, PopIs
  <2>3. w.shapes \in Things /\ w.next \in 1 .. MaxShapes + 1
    BY <2>2 DEF Drafts
  <2>4. e = [[[[[d EXCEPT !.shapes = w.shapes] EXCEPT !.next = w.next] EXCEPT !.undo = u]
               EXCEPT !.redo = r] EXCEPT !.modified = TRUE]
    BY <1>2, Zenon DEF Undo
  <2> HIDE DEF w, u, r, e
  <2>5. /\ e \in Documents /\ e.shapes = w.shapes /\ e.next = w.next /\ e.undo = u /\ e.redo = r
        /\ e.modified
    BY <2>1, <2>2, <2>3, <2>4 DEF Documents
  <2> QED
    BY <1>2, <2>1, <2>5, TravelIs DEF w, u, r, e
<1> QED
  BY <1>1, <1>2

LEMMA RedoIs ==
  ASSUME NEW d, Whole(d)
  PROVE  Fine(d, Redo(d))
<1>1. CASE d.redo = <<>>
  BY <1>1, FineSame DEF Redo
<1>2. CASE d.redo # <<>>
  <2> DEFINE w == Top(d.redo)
             u == Append(d.undo, Now(d))
             r == Pop(d.redo)
             e == Redo(d)
  <2>1. /\ d \in Documents /\ d.undo \in Seq(Drafts) /\ d.redo \in Seq(Drafts) /\ Now(d) \in Drafts
    BY DEF Whole, Documents
  <2>2. w \in Drafts /\ u \in Seq(Drafts) /\ r \in Seq(Drafts)
    BY <1>2, <2>1, PopIs
  <2>3. w.shapes \in Things /\ w.next \in 1 .. MaxShapes + 1
    BY <2>2 DEF Drafts
  <2>4. e = [[[[[d EXCEPT !.shapes = w.shapes] EXCEPT !.next = w.next] EXCEPT !.redo = r]
               EXCEPT !.undo = u] EXCEPT !.modified = TRUE]
    BY <1>2, Zenon DEF Redo
  <2> HIDE DEF w, u, r, e
  <2>5. /\ e \in Documents /\ e.shapes = w.shapes /\ e.next = w.next /\ e.undo = u /\ e.redo = r
        /\ e.modified
    BY <2>1, <2>2, <2>3, <2>4 DEF Documents
  <2>6. Len(d.redo) + Len(d.undo) = Len(d.undo) + Len(d.redo)
    <3>1. Len(d.redo) \in Nat
      BY <2>1
    <3>2. Len(d.undo) \in Nat
      BY <2>1
    <3>3. \A x, y \in Nat : x + y = y + x
      OBVIOUS
    <3> QED
      BY <3>1, <3>2, <3>3, Zenon
  <2>7. Sane(d, e)
    BY <1>2, <2>1, <2>5, <2>6, TravelIs DEF w, u, r, e
  <2>8. Grows(d, e)
    <3> DEFINE n == Len(d.undo)
    <3>1. /\ n \in Nat /\ DOMAIN d.undo = 1 .. n /\ DOMAIN u = 1 .. n + 1 /\ Len(u) = n + 1
          /\ \A k \in 1 .. n : u[k] = d.undo[k]
      BY <2>1 DEF u
    <3> HIDE DEF n
    <3>2. n <= Len(u) /\ \A k \in 1 .. n : k \in DOMAIN u
      BY <3>1
    <3>3. Entered(d) \subseteq Entered(e)
      BY <2>5, <3>1, <3>2 DEF Entered
    <3> QED
      BY <2>5, <3>2, <3>3 DEF Grows, n
  <2> QED
    BY <2>7, <2>8 DEF Fine, e
<1> QED
  BY <1>1, <1>2

\* What a file holds that was written by somebody.
File(file) ==
    /\ file.shapes \in Things /\ Joined(file.shapes)
    /\ file.images \in Seq(Entries)

LEMMA EntriesAre ==
  ASSUME NEW entry \in Entries
  PROVE  entry.id \in Nat
<1>1. CASE entry \in [id : Nat, pic : Pictures]
  BY <1>1
<1>2. CASE \E f \in Files : \E k \in DOMAIN InitialDisk[f].images : entry = InitialDisk[f].images[k]
  <2>1. PICK f \in Files : \E k \in DOMAIN InitialDisk[f].images : entry = InitialDisk[f].images[k]
    BY <1>2
  <2>2. PICK k \in DOMAIN InitialDisk[f].images : entry = InitialDisk[f].images[k]
    BY <2>1
  <2>3. Readable(InitialDisk[f])
    BY DiskAssumption
  <2> QED
    BY <2>2, <2>3 DEF Readable
<1> QED
  BY <1>1, <1>2 DEF Entries

LEMMA FirstFiles ==
  ASSUME NEW f \in Files
  PROVE  File(InitialDisk[f])
<1> DEFINE file == InitialDisk[f]
           n == Len(file.images)
<1>1. Readable(file)
  BY DiskAssumption
<1>2. \A k \in DOMAIN file.images : file.images[k] \in Entries
  BY DEF Entries
<1> HIDE DEF file
<1>3. file.shapes \in Things /\ Joined(file.shapes)
  BY <1>1, ThingsAre DEF Readable, Handed
<1>4. n \in Nat /\ file.images = [k \in 1 .. n |-> file.images[k]]
  BY <1>1 DEF Readable
<1> HIDE DEF n
<1>5. DOMAIN file.images = 1 .. n
  BY <1>4
<1>6. file.images \in [1 .. n -> Entries]
  BY <1>2, <1>4, <1>5
<1>7. file.images \in Seq(Entries)
  BY <1>4, <1>6
<1> QED
  BY <1>3, <1>7 DEF File, file

LEMMA SavedIs ==
  ASSUME NEW d, Whole(d)
  PROVE  File(Saved(d)) /\ Saved(d).shapes = d.shapes
<1>1. d.images \in Seq(Entries)
  BY DEF Whole, Documents
<1> QED
  BY <1>1, WholeIs DEF File, Saved

LEMMA EmptyIs ==
  Whole(EmptyDocument) /\ ~EmptyDocument.modified
<1> DEFINE none == [i \in {} |-> 0]
<1>1. none \in Things /\ Joined(none) /\ DOMAIN none = {}
  <2>1. none \in [{} -> Shape] /\ {} \subseteq Handed /\ DOMAIN none = {}
    OBVIOUS
  <2> HIDE DEF none
  <2>2. none \in Things
    BY <2>1, ThingsAre
  <2> QED
    BY <2>1, <2>2 DEF Joined, Connectors
<1> HIDE DEF none
<1>2. 1 \in 1 .. MaxShapes + 1
  BY BoundAssumption
<1>3. [shapes |-> none, next |-> 1] \in Drafts
  BY <1>1, <1>2, DraftIs
<1>4. EmptyDocument =
        [shapes |-> none, next |-> 1, undo |-> <<>>, redo |-> <<>>,
         images |-> <<>>, nextImage |-> 1, modified |-> FALSE]
  BY Zenon DEF EmptyDocument, none
<1>5. <<>> \in Seq(Drafts) /\ <<>> \in Seq(Entries)
  OBVIOUS
<1>6. EmptyDocument \in Documents
  BY <1>1, <1>2, <1>4, <1>5 DEF Documents
<1>7. Now(EmptyDocument) \in Drafts
  BY <1>3, <1>4 DEF Now
<1>8. Len(EmptyDocument.undo) + Len(EmptyDocument.redo) <= UndoCap
  BY <1>4, DrawAssumption
<1> QED
  BY <1>4, <1>6, <1>7, <1>8 DEF Whole

LEMMA LoadIs ==
  ASSUME NEW d, Whole(d), NEW file, File(file)
  PROVE  LET e == Load(d, file)
         IN  /\ Whole(e) /\ e.shapes = file.shapes /\ ~e.modified
             /\ e.undo = <<>> /\ e.redo = <<>>
<1> DEFINE S == file.shapes
           ids == {0} \cup DOMAIN S
           next == 1 + Max(ids)
           images == d.images \o file.images
           marks == {file.images[k].id + 1 : k \in DOMAIN file.images}
           numbers == {d.nextImage} \cup marks
           nextImage == Max(numbers)
           e == Load(d, file)
<1>1. /\ d \in Documents /\ d.images \in Seq(Entries) /\ d.nextImage \in Nat \ {0}
  BY DEF Whole, Documents
<1>2. S \in Things /\ DOMAIN S \subseteq Handed /\ Joined(S) /\ file.images \in Seq(Entries)
  BY ThingsAre DEF File
<1>3. Max(ids) \in ids /\ \A i \in ids : i <= Max(ids)
  <2>1. IsFiniteSet(DOMAIN S) /\ IsFiniteSet({0})
    BY <1>2, IdsAreFew, FS_Singleton
  <2>2. IsFiniteSet(ids)
    BY <2>1, FS_Union
  <2>3. ids \in SUBSET Int /\ ids # {}
    BY <1>2 DEF Handed
  <2> HIDE DEF ids
  <2> QED
    BY <2>2, <2>3, BoundsAre
<1>4. next \in 1 .. MaxShapes + 1 /\ DOMAIN S \subseteq 1 .. next - 1
  <2> DEFINE top == Max(ids)
  <2>1. top \in 0 .. MaxShapes /\ \A i \in DOMAIN S : i \in Nat \ {0} /\ i <= top
    <3>1. \A i \in Handed : i \in 0 .. MaxShapes /\ i \in Nat \ {0}
      BY BoundAssumption DEF Handed
    <3>2. 0 \in 0 .. MaxShapes
      BY BoundAssumption
    <3>3. top \in ids /\ \A i \in ids : i <= top
      BY <1>3
    <3> HIDE DEF top
    <3>4. top = 0 \/ top \in DOMAIN S
      BY <3>3
    <3>5. \A i \in DOMAIN S : i \in Handed /\ i \in ids
      BY <1>2
    <3> HIDE DEF S, ids
    <3> QED
      BY <3>1, <3>2, <3>3, <3>4, <3>5
  <2> HIDE DEF top
  <2>2. 1 + top \in 1 .. MaxShapes + 1 /\ (1 + top) - 1 = top
    BY <2>1, BoundAssumption
  <2>3. \A i \in DOMAIN S : i \in 1 .. top
    BY <2>1
  <2> QED
    BY <2>2, <2>3 DEF top
<1>5. [shapes |-> S, next |-> next] \in Drafts
  BY <1>2, <1>4, DraftIs
<1>6. images \in Seq(Entries)
  BY <1>1, <1>2
<1>7. nextImage \in Nat \ {0}
  <2>1. Len(file.images) \in Nat /\ DOMAIN file.images = 1 .. Len(file.images)
    BY <1>2
  <2>2. IsFiniteSet(DOMAIN file.images)
    <3>1. 1 \in Int /\ Len(file.images) \in Int
      BY <2>1
    <3>2. IsFiniteSet(1 .. Len(file.images))
      BY <3>1, FS_Interval
    <3> QED
      BY <2>1, <3>2
  <2>3. IsFiniteSet(marks)
    <3> DEFINE f == [k \in DOMAIN file.images |-> file.images[k].id + 1]
    <3>1. f \in Surjection(DOMAIN file.images, marks)
      BY DEF Surjection
    <3> QED
      BY <2>2, <3>1, FS_Surjection
  <2>4. \A k \in DOMAIN file.images : file.images[k].id \in Nat
    <3>1. \A k \in DOMAIN file.images : file.images[k] \in Entries
      BY <1>2
    <3> QED
      BY <3>1, EntriesAre
  <2>5. marks \subseteq Nat \ {0}
    BY <2>4
  <2> HIDE DEF marks, numbers
  <2>6. IsFiniteSet({d.nextImage})
    BY FS_Singleton
  <2>7. IsFiniteSet(numbers)
    BY <2>3, <2>6, FS_Union DEF numbers
  <2>8. numbers \in SUBSET Int /\ numbers # {} /\ numbers \subseteq Nat \ {0}
    <3>1. numbers = {d.nextImage} \cup marks
      BY DEF numbers
    <3>2. \A n \in Nat \ {0} : n \in Int
      OBVIOUS
    <3>3. numbers \subseteq Nat \ {0}
      BY <1>1, <2>5, <3>1, Zenon
    <3> QED
      BY <3>1, <3>2, <3>3, Zenon
  <2> HIDE DEF numbers
  <2>9. Max(numbers) \in numbers
    BY <2>7, <2>8, BoundsAre
  <2> QED
    BY <2>8, <2>9
<1>8. e = [[[[[[[d EXCEPT !.shapes = S] EXCEPT !.undo = <<>>] EXCEPT !.redo = <<>>] EXCEPT !.next = next]
             EXCEPT !.images = images] EXCEPT !.nextImage = nextImage] EXCEPT !.modified = FALSE]
  BY Zenon DEF Load
<1> HIDE DEF S, next, images, nextImage, e, marks, numbers, ids
<1>9. <<>> \in Seq(Drafts)
  OBVIOUS
<1>10. /\ e \in Documents /\ e.shapes = S /\ e.next = next /\ e.undo = <<>> /\ e.redo = <<>>
       /\ ~e.modified
  BY <1>1, <1>2, <1>4, <1>6, <1>7, <1>8, <1>9 DEF Documents
<1>11. Now(e) \in Drafts /\ Len(e.undo) + Len(e.redo) <= UndoCap
  BY <1>5, <1>10, DrawAssumption DEF Now
<1> QED
  BY <1>10, <1>11 DEF Whole, S, e
-----------------------------------------------------------------------------
(* The selection, and walks along it.                                      *)

LEMMA WalkStays ==
  ASSUME NEW n \in Nat, NEW w, NEW D, w[0] \in D[0],
         \A k \in 1 .. n : w[k - 1] \in D[k - 1] => w[k] \in D[k]
  PROVE  \A k \in 0 .. n : w[k] \in D[k]
<1> DEFINE Bad == {m \in 0 .. n : w[m] \notin D[m]}
<1> SUFFICES ASSUME Bad # {} PROVE FALSE
  OBVIOUS
<1>1. PICK m \in Bad : \A k \in Bad : m <= k
  <2>1. Bad \in SUBSET Nat
    OBVIOUS
  <2> QED
    BY <2>1, LeastIs
<1>2. m \in 1 .. n /\ m - 1 \in 0 .. n /\ ~(m <= m - 1) /\ w[m] \notin D[m]
  <2>1. m \in 0 .. n /\ m # 0
    BY <1>1
  <2> HIDE DEF Bad
  <2>2. m \in 1 .. n /\ m - 1 \in 0 .. n /\ ~(m <= m - 1)
    BY <2>1
  <2> QED
    BY <1>1, <2>2 DEF Bad
<1>3. m - 1 \notin Bad
  BY <1>1, <1>2
<1> QED
  BY <1>2, <1>3

\* What is chosen of a selection is part of it, in its order.
Distinct(s) == \A j, k \in DOMAIN s : s[j] = s[k] => j = k

LEMMA ChosenIs ==
  ASSUME NEW T, NEW s \in Seq(T), NEW I
  PROVE  LET c == Chosen(s, I)
         IN  /\ c \in Seq(T) /\ Len(c) <= Len(s)
             /\ \A j \in DOMAIN c : c[j] \in I /\ \E i \in DOMAIN s : c[j] = s[i]
             /\ Distinct(s) => Distinct(c)
<1> DEFINE n == Len(s)
           Part(e, k) == /\ Len(e) <= k
                         /\ \A j \in DOMAIN e : e[j] \in I /\ \E i \in 1 .. k : e[j] = s[i]
                         /\ Distinct(s) => Distinct(e)
           D == [k \in 0 .. n |-> {e \in Seq(T) : Part(e, k)}]
           g == [k \in 1 .. n |-> [e \in Seq(T) |-> IF s[k] \in I THEN Append(e, s[k]) ELSE e]]
           Walks(f) == f = [k \in 0 .. n |-> IF k = 0 THEN <<>>
                                             ELSE IF s[k] \in I THEN Append(f[k - 1], s[k]) ELSE f[k - 1]]
           w == CHOOSE f : Walks(f)
<1>1. n \in Nat /\ DOMAIN s = 1 .. n
  OBVIOUS
<1> HIDE DEF n
<1>2. <<>> \in D[0]
  <2>1. <<>> \in Seq(T) /\ Part(<<>>, 0) /\ 0 \in 0 .. n
    BY <1>1 DEF Distinct
  <2> HIDE DEF Part
  <2> QED
    BY <2>1
<1>3. ASSUME NEW k \in 1 .. n, NEW e \in D[k - 1]
      PROVE  (IF s[k] \in I THEN Append(e, s[k]) ELSE e) \in D[k] /\ e \in Seq(T)
  <2>1. k - 1 \in 0 .. n /\ k \in 0 .. n /\ k \in Nat
    BY <1>1
  <2>2. e \in Seq(T) /\ Part(e, k - 1)
    BY <2>1
  <2>3. /\ Len(e) <= k /\ \A j \in DOMAIN e : e[j] \in I /\ \E i \in 1 .. k : e[j] = s[i]
    <3>1. Len(e) \in Nat /\ Len(e) <= k - 1 /\ \A i \in 1 .. k - 1 : i \in 1 .. k
      BY <2>1, <2>2
    <3>2. Len(e) <= k
      BY <2>1, <3>1
    <3> QED
      BY <2>2, <3>1, <3>2
  <2>4. CASE s[k] \notin I
    <3>1. Part(e, k)
      BY <2>2, <2>3
    <3> HIDE DEF Part
    <3> QED
      BY <2>1, <2>2, <2>4, <3>1
  <2>5. CASE s[k] \in I
    <3> DEFINE a == Append(e, s[k])
    <3>1. s[k] \in T /\ Len(e) \in Nat /\ DOMAIN e = 1 .. Len(e) /\ Len(e) <= k - 1
      BY <1>1, <2>2
    <3>2. /\ a \in Seq(T) /\ Len(a) = Len(e) + 1 /\ DOMAIN a = 1 .. Len(e) + 1
          /\ a[Len(e) + 1] = s[k] /\ \A j \in 1 .. Len(e) : a[j] = e[j]
      BY <2>2, <3>1
    <3> HIDE DEF a
    <3>3. Len(a) <= k
      BY <2>1, <3>1, <3>2
    <3>4. \A j \in DOMAIN a : j \in 1 .. Len(e) \/ j = Len(e) + 1
      BY <3>1, <3>2
    <3>5. k \in 1 .. k /\ k \in DOMAIN s /\ \A i \in 1 .. k - 1 : i # k /\ i \in DOMAIN s
      BY <1>1, <2>1
    <3>6. \A j \in DOMAIN a : a[j] \in I /\ \E i \in 1 .. k : a[j] = s[i]
      BY <2>3, <2>5, <3>1, <3>2, <3>4, <3>5
    <3>7. ASSUME Distinct(s) PROVE Distinct(a)
      <4>1. \A j \in 1 .. Len(e) : a[j] # s[k]
        <5> SUFFICES ASSUME NEW j \in 1 .. Len(e), a[j] = s[k] PROVE FALSE
          OBVIOUS
        <5>1. PICK i \in 1 .. k - 1 : e[j] = s[i]
          BY <2>2, <3>1
        <5>2. i # k /\ i \in DOMAIN s /\ s[i] = s[k]
          BY <3>2, <3>5, <5>1
        <5> QED
          BY <3>5, <3>7, <5>2 DEF Distinct
      <4>2. \A i, j \in 1 .. Len(e) : a[i] = a[j] => i = j
        BY <2>2, <3>1, <3>2, <3>7 DEF Distinct
      <4> QED
        BY <3>2, <3>4, <4>1, <4>2 DEF Distinct
    <3>8. Part(a, k)
      BY <3>3, <3>6, <3>7
    <3> HIDE DEF Part
    <3> QED
      BY <2>1, <2>2, <2>5, <3>2, <3>8 DEF a
  <2> QED
    BY <2>4, <2>5
<1>4. \E f : Walks(f)
  <2>1. D \in [0 .. n -> SUBSET Seq(T)]
    <3> HIDE DEF Part
    <3> QED
      OBVIOUS
  <2>2. ASSUME NEW k \in 1 .. n, NEW e \in D[k - 1] PROVE g[k][e] \in D[k]
    <3>1. g[k][e] = IF s[k] \in I THEN Append(e, s[k]) ELSE e
      BY <1>3
    <3>2. (IF s[k] \in I THEN Append(e, s[k]) ELSE e) \in D[k]
      BY <1>3
    <3> HIDE DEF g, D
    <3> QED
      BY <3>1, <3>2, Zenon
  <2> HIDE DEF D, g
  <2>3. Keeps(n, D, g)
    BY <2>2 DEF Keeps
  <2>4. PICK f \in [0 .. n -> Seq(T)] : Walked(f, n, D, <<>>, g)
    BY <1>1, <1>2, <2>1, <2>3, WalkIs
  <2>5. /\ f[0] = <<>> /\ \A k \in 1 .. n : f[k] = g[k][f[k - 1]]
        /\ \A k \in 0 .. n : f[k] \in D[k]
    BY <2>4 DEF Walked
  <2>6. \A k \in 1 .. n : g[k][f[k - 1]] = IF s[k] \in I THEN Append(f[k - 1], s[k]) ELSE f[k - 1]
    <3>1. \A k \in 1 .. n : f[k - 1] \in Seq(T)
      BY <1>1
    <3> QED
      BY <3>1 DEF g
  <2>7. \A k \in 0 .. n : k # 0 => k \in 1 .. n
    BY <1>1
  <2>8. Walks(f)
    <3>1. f = [k \in 0 .. n |-> f[k]]
      BY <2>5
    <3> QED
      BY <2>5, <2>6, <2>7, <3>1
  <2> QED
    BY <2>8
<1>5. Walks(w)
  BY Zenon, <1>4
<1>6. Chosen(s, I) = w[n]
  BY Zenon DEF Chosen, n
<1> HIDE DEF w
<1>7. w[0] = <<>> /\ \A k \in 1 .. n : w[k] = IF s[k] \in I THEN Append(w[k - 1], s[k]) ELSE w[k - 1]
  <2>1. 0 \in 0 .. n /\ \A k \in 1 .. n : k \in 0 .. n /\ k # 0
    BY <1>1
  <2> QED
    BY <1>5, <2>1, Zenon
<1> HIDE DEF D
<1>8. \A k \in 0 .. n : w[k] \in D[k]
  <2>1. w[0] \in D[0] /\ \A k \in 1 .. n : w[k - 1] \in D[k - 1] => w[k] \in D[k]
    BY <1>2, <1>3, <1>7
  <2> QED
    BY <1>1, <2>1, WalkStays
<1>9. w[n] \in Seq(T) /\ Part(w[n], n)
  <2>1. n \in 0 .. n /\ w[n] \in D[n]
    BY <1>1, <1>8
  <2> QED
    BY <2>1 DEF D
<1> QED
  BY <1>1, <1>6, <1>9 DEF n

\* A sequence without repetitions is no longer than there are things.
LEMMA DistinctIsShort ==
  ASSUME NEW s \in Seq(Handed), Distinct(s)
  PROVE  Len(s) <= MaxShapes
<1> DEFINE n == Len(s)
<1>1. n \in Nat /\ s \in [1 .. n -> Handed] /\ DOMAIN s = 1 .. n
  OBVIOUS
<1> HIDE DEF n
<1>2. s \in Injection(1 .. n, Handed)
  BY <1>1 DEF Injection, IsInjective, Distinct
<1>3. IsFiniteSet(Handed) /\ Cardinality(Handed) = MaxShapes
  <2>1. 1 \in Int /\ MaxShapes \in Int /\ MaxShapes \in Nat
    BY BoundAssumption
  <2>2. Cardinality(1 .. MaxShapes) = IF 1 > MaxShapes THEN 0 ELSE MaxShapes - 1 + 1
    BY <2>1, FS_Interval
  <2> QED
    BY <2>1, <2>2, IdsAreFew DEF Handed
<1>4. Cardinality(1 .. n) <= Cardinality(Handed)
  BY <1>2, <1>3, FS_Injection
<1>5. Cardinality(1 .. n) = IF 1 > n THEN 0 ELSE n - 1 + 1
  <2>1. 1 \in Int /\ n \in Int
    BY <1>1
  <2> QED
    BY <2>1, FS_Interval
<1>6. n <= MaxShapes
  BY <1>1, <1>3, <1>4, <1>5, BoundAssumption
<1> QED
  BY <1>6 DEF n

\* The shapes of a set, in their order: all of them, each once.
LEMMA InOrderIs ==
  ASSUME NEW S \in Things, NEW I \in SUBSET DOMAIN S
  PROVE  LET s == InOrder(I, S)
         IN  s \in Seq(I) /\ Ids(s) = I /\ Distinct(s) /\ Len(s) = Cardinality(I)
<1> DEFINE r == [i \in DOMAIN S |-> S[i].rank]
           Orders(J, s) == /\ s \in [1 .. Cardinality(J) -> J] /\ Ids(s) = J
                           /\ \A j, k \in DOMAIN s : j < k => S[s[j]].rank <= S[s[k]].rank
           Bad == {n \in Nat : \E J \in SUBSET I : Cardinality(J) = n /\ ~\E s : Orders(J, s)}
<1>1. /\ IsFiniteSet(DOMAIN S) /\ IsFiniteSet(I) /\ \A J \in SUBSET I : IsFiniteSet(J) /\ Cardinality(J) \in Nat
      /\ \A i \in DOMAIN S : S[i].rank \in Int
  <2>1. DOMAIN S \subseteq Handed /\ \A i \in DOMAIN S : S[i] \in Shape
    BY ThingsAre
  <2>2. \A J \in SUBSET Handed : IsFiniteSet(J) /\ Cardinality(J) \in Nat
    BY IdsAreFew, FS_CardinalityType
  <2> QED
    BY <2>1, <2>2, ShapesAre
<1>2. Bad = {}
  <2> SUFFICES ASSUME Bad # {} PROVE FALSE
    OBVIOUS
  <2>1. PICK n \in Bad : \A m \in Bad : n <= m
    <3>1. Bad \in SUBSET Nat
      OBVIOUS
    <3> QED
      BY <3>1, LeastIs
  <2>2. PICK J \in SUBSET I : Cardinality(J) = n /\ ~\E s : Orders(J, s)
    BY <2>1
  <2>3. IsFiniteSet(J) /\ n \in Nat
    BY <1>1, <2>1, <2>2
  <2>4. J # {}
    <3> SUFFICES ASSUME J = {} PROVE FALSE
      OBVIOUS
    <3>1. Cardinality(J) = 0 /\ <<>> \in [1 .. 0 -> J] /\ DOMAIN <<>> = 1 .. 0
      BY FS_EmptySet
    <3>2. Orders(J, <<>>)
      BY <3>1 DEF Ids
    <3> QED
      BY <2>2, <3>2
  <2>5. PICK x \in J : \A j \in J : S[j].rank <= S[x].rank
    <3> DEFINE h == [j \in J |-> S[j].rank]
    <3>1. h \in [J -> Int] /\ \A j \in J : h[j] = S[j].rank
      BY <1>1
    <3> HIDE DEF h
    <3>2. PICK i \in J : \A j \in J : h[j] <= h[i]
      BY <2>3, <2>4, <3>1, HighestIs
    <3> QED
      BY <3>1, <3>2
  <2> DEFINE K == J \ {x}
             m == n - 1
  <2>6. Cardinality(K) = m /\ n \in Nat \ {0} /\ m \in Nat
    <3>1. Cardinality(K) = m /\ Cardinality(K) \in Nat
      BY <1>1, <2>2, <2>3, <2>5, FS_RemoveElement
    <3> HIDE DEF K
    <3> QED
      BY <2>3, <3>1
  <2>7. PICK s : Orders(K, s)
    <3>1. m \notin Bad
      <4>1. ~(n <= m)
        BY <2>6
      <4> HIDE DEF Bad
      <4> QED
        BY <2>1, <4>1
    <3> QED
      BY <2>6, <3>1
  <2> DEFINE t == [k \in 1 .. n |-> IF k = n THEN x ELSE s[k]]
  <2>8. s \in [1 .. m -> K] /\ DOMAIN s = 1 .. m /\ K = {s[k] : k \in 1 .. m}
    BY <2>6, <2>7 DEF Ids
  <2>9. /\ t \in [1 .. n -> J] /\ DOMAIN t = 1 .. n /\ t[n] = x /\ n \in 1 .. n
        /\ \A k \in 1 .. m : k \in 1 .. n /\ k # n /\ t[k] = s[k]
        /\ \A k \in 1 .. n : k = n \/ k \in 1 .. m
    <3>1. /\ n \in 1 .. n /\ \A k \in 1 .. m : k \in 1 .. n /\ k # n
          /\ \A k \in 1 .. n : k = n \/ k \in 1 .. m
      BY <2>6
    <3> HIDE DEF m
    <3> QED
      BY <2>8, <3>1
  <2> HIDE DEF t, K, m
  <2>10. Ids(t) = J
    <3>1. \A j \in J : j = x \/ j \in K
      BY DEF K
    <3>2. \A j \in J : \E k \in 1 .. n : t[k] = j
      BY <2>8, <2>9, <3>1
    <3> QED
      BY SMTT(60), <2>9, <3>2 DEF Ids
  <2>11. \A j, k \in DOMAIN t : j < k => S[t[j]].rank <= S[t[k]].rank
    <3> SUFFICES ASSUME NEW j \in 1 .. n, NEW k \in 1 .. n, j < k
                 PROVE  S[t[j]].rank <= S[t[k]].rank
      BY <2>9
    <3>1. CASE k = n
      BY <2>5, <2>9, <3>1
    <3>2. CASE k # n
      <4>1. j # n
        BY <2>6
      <4> QED
        BY Zenon, <2>7, <2>8, <2>9, <3>2, <4>1
    <3> QED
      BY <3>1, <3>2
  <2>12. Orders(J, t)
    BY <2>2, <2>9, <2>10, <2>11
  <2> QED
    BY <2>2, <2>12
<1> DEFINE s == InOrder(I, S)
           n == Cardinality(I)
<1>3. \E q : Orders(I, q)
  BY <1>1, <1>2
<1>4. s \in [1 .. n -> I] /\ Ids(s) = I
  BY <1>3 DEF InOrder
<1>5. n \in Nat
  BY <1>1
<1> HIDE DEF s
<1>6. s \in Surjection(1 .. n, I)
  BY <1>4 DEF Surjection, Ids
<1>7. s \in Injection(1 .. n, I)
  <2>1. 1 \in Int /\ n \in Int
    BY <1>5
  <2>2. IsFiniteSet(1 .. n) /\ Cardinality(1 .. n) = IF 1 > n THEN 0 ELSE n - 1 + 1
    BY <2>1, FS_Interval
  <2> HIDE DEF n
  <2>3. Cardinality(1 .. n) = n
    BY <1>5, <2>2
  <2>4. Cardinality(1 .. n) = Cardinality(I)
    BY <2>3 DEF n
  <2> QED
    BY <1>6, <2>2, <2>4, FS_SurjSameCardinalityImpliesInj
<1> HIDE DEF n
<1>8. s \in Seq(I) /\ Len(s) = n /\ DOMAIN s = 1 .. n
  BY <1>4, <1>5
<1>9. Distinct(s)
  BY <1>7, <1>8 DEF Distinct, Injection, IsInjective
<1> QED
  BY <1>4, <1>8, <1>9 DEF s, n
-----------------------------------------------------------------------------
(* What the window does to one shape of the selection after the other.      *)

\* One edit at most for each of them.
LEMMA ApplyLookIs ==
  ASSUME Whole(doc), canvas.sel \in Seq(Handed), NEW look \in Looks, NEW flags \in BOOLEAN
  PROVE  Edits(doc, ApplyLook(look, flags), Len(canvas.sel))
<1> DEFINE d == doc
           s == canvas.sel
           n == Len(s)
           D == [k \in 0 .. n |-> {e \in Documents : Edits(d, e, k)}]
           g == [k \in 1 .. n |-> [e \in Documents |-> SetLook(e, s[k], look, flags)]]
           Walks(f) == f = [k \in 0 .. n |-> IF k = 0 THEN d ELSE SetLook(f[k - 1], s[k], look, flags)]
           w == CHOOSE f : Walks(f)
<1>1. n \in Nat /\ Whole(d)
  OBVIOUS
<1> HIDE DEF n, s, d
<1>2. d \in D[0]
  <2>1. d \in Documents /\ Edits(d, d, 0) /\ 0 \in 0 .. n
    <3>1. Edits(d, d, 0)
      BY <1>1, NoEdit
    <3>2. d \in Documents
      BY <1>1 DEF Whole
    <3>3. 0 \in 0 .. n
      BY <1>1
    <3> QED
      BY <3>1, <3>2, <3>3
  <2> QED
    BY <2>1
<1>3. ASSUME NEW k \in 1 .. n, NEW e \in D[k - 1]
      PROVE  SetLook(e, s[k], look, flags) \in D[k] /\ e \in Documents
  <2> DEFINE f == SetLook(e, s[k], look, flags)
             m == k - 1
  <2>1. m \in 0 .. n /\ k \in 0 .. n /\ m + 1 = k /\ m \in Nat
    BY <1>1
  <2>2. e \in Documents /\ Edits(d, e, m)
    BY <2>1
  <2>3. Edit1(e, f)
    BY <2>2, SetLookIs DEF Edits
  <2> HIDE DEF f, m
  <2>4. Edits(d, f, m + 1)
    BY <1>1, <2>1, <2>2, <2>3, EditsGoOn
  <2>5. f \in Documents /\ Edits(d, f, k)
    BY <2>1, <2>4 DEF Edits, Whole
  <2> QED
    BY <2>1, <2>2, <2>5 DEF f
<1>4. \E f : Walks(f)
  <2>1. D \in [0 .. n -> SUBSET Documents]
    OBVIOUS
  <2>2. ASSUME NEW k \in 1 .. n, NEW e \in D[k - 1] PROVE g[k][e] \in D[k]
    <3>1. g[k][e] = SetLook(e, s[k], look, flags)
      BY <1>3
    <3> HIDE DEF g, D
    <3> QED
      BY <1>3, <3>1
  <2> HIDE DEF D, g
  <2>3. Keeps(n, D, g)
    BY <2>2 DEF Keeps
  <2>4. PICK f \in [0 .. n -> Documents] : Walked(f, n, D, d, g)
    BY <1>1, <1>2, <2>1, <2>3, WalkIs
  <2>5. /\ f[0] = d /\ \A k \in 1 .. n : f[k] = g[k][f[k - 1]]
        /\ \A k \in 0 .. n : f[k] \in D[k]
    BY <2>4 DEF Walked
  <2>6. \A k \in 1 .. n : g[k][f[k - 1]] = SetLook(f[k - 1], s[k], look, flags)
    <3>1. \A k \in 1 .. n : f[k - 1] \in Documents
      BY <1>1
    <3> QED
      BY <3>1 DEF g
  <2>7. \A k \in 0 .. n : k # 0 => k \in 1 .. n
    BY <1>1
  <2>8. Walks(f)
    <3>1. f = [k \in 0 .. n |-> f[k]]
      BY <2>5
    <3> QED
      BY <2>5, <2>6, <2>7, <3>1
  <2> QED
    BY <2>8
<1>5. Walks(w)
  BY <1>4
<1>6. ApplyLook(look, flags) = w[n]
  BY Zenon DEF ApplyLook, s, d, n
<1> HIDE DEF w
<1>7. w[0] = d /\ \A k \in 1 .. n : w[k] = SetLook(w[k - 1], s[k], look, flags)
  <2>1. 0 \in 0 .. n /\ \A k \in 1 .. n : k \in 0 .. n /\ k # 0
    BY <1>1
  <2> QED
    BY <1>5, <2>1, Zenon
<1> HIDE DEF D
<1>8. \A k \in 0 .. n : w[k] \in D[k]
  <2>1. w[0] \in D[0] /\ \A k \in 1 .. n : w[k - 1] \in D[k - 1] => w[k] \in D[k]
    BY <1>2, <1>3, <1>7
  <2> QED
    BY <1>1, <2>1, WalkStays
<1>9. w[n] \in D[n]
  <2>1. n \in 0 .. n
    BY <1>1
  <2> QED
    BY <1>8, <2>1
<1> QED
  BY <1>1, <1>6, <1>9 DEF D, d, n, s

\* Likewise.
LEMMA RestackIs ==
  ASSUME Whole(doc), canvas.sel \in Seq(Handed), NEW toFront \in BOOLEAN
  PROVE  Edits(doc, Restack(toFront), Len(canvas.sel))
<1> DEFINE d == doc
           s == canvas.sel
           n == Len(s)
           D == [k \in 0 .. n |-> {e \in Documents : Edits(d, e, k)}]
           g == [k \in 1 .. n |-> [e \in Documents |-> MoveZ(e, s[k], toFront)]]
           Walks(f) == f = [k \in 0 .. n |-> IF k = 0 THEN d ELSE MoveZ(f[k - 1], s[k], toFront)]
           w == CHOOSE f : Walks(f)
<1>1. n \in Nat /\ Whole(d)
  OBVIOUS
<1> HIDE DEF n, s, d
<1>2. d \in D[0]
  <2>1. d \in Documents /\ Edits(d, d, 0) /\ 0 \in 0 .. n
    <3>1. Edits(d, d, 0)
      BY <1>1, NoEdit
    <3>2. d \in Documents
      BY <1>1 DEF Whole
    <3>3. 0 \in 0 .. n
      BY <1>1
    <3> QED
      BY <3>1, <3>2, <3>3
  <2> QED
    BY <2>1
<1>3. ASSUME NEW k \in 1 .. n, NEW e \in D[k - 1]
      PROVE  MoveZ(e, s[k], toFront) \in D[k] /\ e \in Documents
  <2> DEFINE f == MoveZ(e, s[k], toFront)
             m == k - 1
  <2>1. m \in 0 .. n /\ k \in 0 .. n /\ m + 1 = k /\ m \in Nat
    BY <1>1
  <2>2. e \in Documents /\ Edits(d, e, m)
    BY <2>1
  <2>3. Edit1(e, f)
    BY <2>2, MoveZIs DEF Edits
  <2> HIDE DEF f, m
  <2>4. Edits(d, f, m + 1)
    BY <1>1, <2>1, <2>2, <2>3, EditsGoOn
  <2>5. f \in Documents /\ Edits(d, f, k)
    BY <2>1, <2>4 DEF Edits, Whole
  <2> QED
    BY <2>1, <2>2, <2>5 DEF f
<1>4. \E f : Walks(f)
  <2>1. D \in [0 .. n -> SUBSET Documents]
    OBVIOUS
  <2>2. ASSUME NEW k \in 1 .. n, NEW e \in D[k - 1] PROVE g[k][e] \in D[k]
    <3>1. g[k][e] = MoveZ(e, s[k], toFront)
      BY <1>3
    <3> HIDE DEF g, D
    <3> QED
      BY <1>3, <3>1
  <2> HIDE DEF D, g
  <2>3. Keeps(n, D, g)
    BY <2>2 DEF Keeps
  <2>4. PICK f \in [0 .. n -> Documents] : Walked(f, n, D, d, g)
    BY <1>1, <1>2, <2>1, <2>3, WalkIs
  <2>5. /\ f[0] = d /\ \A k \in 1 .. n : f[k] = g[k][f[k - 1]]
        /\ \A k \in 0 .. n : f[k] \in D[k]
    BY <2>4 DEF Walked
  <2>6. \A k \in 1 .. n : g[k][f[k - 1]] = MoveZ(f[k - 1], s[k], toFront)
    <3>1. \A k \in 1 .. n : f[k - 1] \in Documents
      BY <1>1
    <3> QED
      BY <3>1 DEF g
  <2>7. \A k \in 0 .. n : k # 0 => k \in 1 .. n
    BY <1>1
  <2>8. Walks(f)
    <3>1. f = [k \in 0 .. n |-> f[k]]
      BY <2>5
    <3> QED
      BY <2>5, <2>6, <2>7, <3>1
  <2> QED
    BY <2>8
<1>5. Walks(w)
  BY <1>4
<1>6. Restack(toFront) = w[n]
  BY Zenon DEF Restack, s, d, n
<1> HIDE DEF w
<1>7. w[0] = d /\ \A k \in 1 .. n : w[k] = MoveZ(w[k - 1], s[k], toFront)
  <2>1. 0 \in 0 .. n /\ \A k \in 1 .. n : k \in 0 .. n /\ k # 0
    BY <1>1
  <2> QED
    BY <1>5, <2>1, Zenon
<1> HIDE DEF D
<1>8. \A k \in 0 .. n : w[k] \in D[k]
  <2>1. w[0] \in D[0] /\ \A k \in 1 .. n : w[k - 1] \in D[k - 1] => w[k] \in D[k]
    BY <1>2, <1>3, <1>7
  <2> QED
    BY <1>1, <2>1, WalkStays
<1>9. w[n] \in D[n]
  <2>1. n \in 0 .. n
    BY <1>1
  <2> QED
    BY <1>8, <2>1
<1> QED
  BY <1>1, <1>6, <1>9 DEF D, d, n, s

\* A nudge of the boxes, a box at a time: none is met twice, so each is put
\* where its place on the page was asked for.
LEMMA NudgeIs ==
  ASSUME NEW d, Whole(d), NEW s \in Seq(Handed), Distinct(s), NEW dx \in Int,
         \A i \in Ids(s) \cap Boxes(d.shapes) : d.shapes[i].pos + dx \in Positions
  PROVE  Edits(d, Nudge(d, s, dx), Len(s))
<1> DEFINE n == Len(s)
           Rest(e, k) == /\ DOMAIN e.shapes = DOMAIN d.shapes /\ Boxes(e.shapes) = Boxes(d.shapes)
                         /\ \A j \in k + 1 .. n : s[j] \in DOMAIN d.shapes => e.shapes[s[j]] = d.shapes[s[j]]
           D == [k \in 0 .. n |-> {e \in Documents : Edits(d, e, k) /\ Rest(e, k)}]
           g == [k \in 1 .. n |-> [e \in Documents |-> (IF s[k] \in Boxes(e.shapes) THEN SetShapeRect(e, s[k], e.shapes[s[k]].pos + dx) ELSE e)]]
           Walks(f) == f = [k \in 0 .. n |-> IF k = 0 THEN d ELSE (IF s[k] \in Boxes(f[k - 1].shapes) THEN SetShapeRect(f[k - 1], s[k], f[k - 1].shapes[s[k]].pos + dx) ELSE f[k - 1])]
           w == CHOOSE f : Walks(f)
<1>1. n \in Nat /\ DOMAIN s = 1 .. n
  OBVIOUS
<1> HIDE DEF n
<1>2. d \in D[0]
  <2>1. Edits(d, d, 0)
    BY NoEdit
  <2>2. d \in Documents
    BY DEF Whole
  <2>3. 0 \in 0 .. n
    BY <1>1
  <2>4. Rest(d, 0)
    OBVIOUS
  <2> HIDE DEF Rest
  <2> QED
    BY <2>1, <2>2, <2>3, <2>4
<1>3. ASSUME NEW k \in 1 .. n, NEW e \in D[k - 1]
      PROVE  (IF s[k] \in Boxes(e.shapes) THEN SetShapeRect(e, s[k], e.shapes[s[k]].pos + dx) ELSE e) \in D[k] /\ e \in Documents
  <2> DEFINE f == (IF s[k] \in Boxes(e.shapes) THEN SetShapeRect(e, s[k], e.shapes[s[k]].pos + dx) ELSE e)
             m == k - 1
             i == s[k]
  <2>1. m \in 0 .. n /\ k \in 0 .. n /\ m + 1 = k /\ m \in Nat /\ k \in DOMAIN s
    BY <1>1
  <2>2. e \in Documents /\ Edits(d, e, m) /\ Rest(e, m)
    <3> HIDE DEF Rest
    <3> QED
      BY <2>1
  <2>3. \A j \in k + 1 .. n : j \in m + 1 .. n /\ j \in DOMAIN s /\ s[j] # i
    <3>1. \A j \in k + 1 .. n : j \in m + 1 .. n /\ j \in DOMAIN s /\ j # k
      BY <1>1, <2>1
    <3> QED
      BY <2>1, <3>1 DEF Distinct
  <2>4. Edit1(e, f) /\ Rest(f, k)
    <3>1. CASE i \notin Boxes(e.shapes)
      <4>1. f = e
        BY <3>1
      <4>2. Edit1(e, e)
        BY <2>2, NoEdit DEF Edits
      <4> QED
        BY <2>2, <2>3, <4>1, <4>2
    <3>2. CASE i \in Boxes(e.shapes)
      <4> DEFINE p == e.shapes[i].pos + dx
      <4>1. i \in Boxes(d.shapes) /\ i \in DOMAIN d.shapes /\ i \in Ids(s)
        BY <2>1, <2>2, <3>2 DEF Boxes, Ids
      <4>2. k \in m + 1 .. n
        BY <2>1
      <4>3. e.shapes[i] = d.shapes[i]
        BY <2>2, <4>1, <4>2
      <4>4. p \in Positions
        BY <4>1, <4>3
      <4>5. f = SetShapeRect(e, i, p)
        BY <3>2
      <4>6. Whole(e)
        BY <2>2 DEF Edits
      <4> HIDE DEF f, p, i
      <4>7. /\ Edit1(e, f) /\ DOMAIN f.shapes = DOMAIN e.shapes
            /\ Boxes(f.shapes) = Boxes(e.shapes)
            /\ \A j \in DOMAIN e.shapes : j # i => f.shapes[j] = e.shapes[j]
        BY <4>4, <4>5, <4>6, SetShapeRectIs
      <4> QED
        BY <2>2, <2>3, <4>7
    <3> QED
      BY <3>1, <3>2
  <2> HIDE DEF f, m, Rest
  <2>5. Edits(d, f, m + 1)
    BY <2>1, <2>2, <2>4, EditsGoOn
  <2>6. f \in Documents /\ Edits(d, f, k)
    BY <2>1, <2>5 DEF Edits, Whole
  <2> QED
    BY <2>1, <2>2, <2>4, <2>6 DEF f
<1> HIDE DEF Rest
<1>4. \E f : Walks(f)
  <2>1. D \in [0 .. n -> SUBSET Documents]
    OBVIOUS
  <2>2. ASSUME NEW k \in 1 .. n, NEW e \in D[k - 1] PROVE g[k][e] \in D[k]
    <3>1. g[k][e] = (IF s[k] \in Boxes(e.shapes) THEN SetShapeRect(e, s[k], e.shapes[s[k]].pos + dx) ELSE e)
      BY <1>3
    <3> HIDE DEF g, D
    <3> QED
      BY <1>3, <3>1
  <2> HIDE DEF D, g
  <2>3. Keeps(n, D, g)
    BY <2>2 DEF Keeps
  <2>4. PICK f \in [0 .. n -> Documents] : Walked(f, n, D, d, g)
    BY <1>1, <1>2, <2>1, <2>3, WalkIs
  <2>5. /\ f[0] = d /\ \A k \in 1 .. n : f[k] = g[k][f[k - 1]]
        /\ \A k \in 0 .. n : f[k] \in D[k]
    BY <2>4 DEF Walked
  <2>6. \A k \in 1 .. n : g[k][f[k - 1]] = (IF s[k] \in Boxes(f[k - 1].shapes) THEN SetShapeRect(f[k - 1], s[k], f[k - 1].shapes[s[k]].pos + dx) ELSE f[k - 1])
    <3>1. \A k \in 1 .. n : f[k - 1] \in Documents
      BY <1>1
    <3> QED
      BY <3>1 DEF g
  <2>7. \A k \in 0 .. n : k # 0 => k \in 1 .. n
    BY <1>1
  <2>8. Walks(f)
    <3>1. f = [k \in 0 .. n |-> f[k]]
      BY <2>5
    <3> QED
      BY <2>5, <2>6, <2>7, <3>1
  <2> QED
    BY <2>8
<1>5. Walks(w)
  BY Zenon, <1>4
<1>6. Nudge(d, s, dx) = w[n]
  BY Zenon DEF Nudge, n
<1> HIDE DEF w
<1>7. w[0] = d /\ \A k \in 1 .. n : w[k] = (IF s[k] \in Boxes(w[k - 1].shapes) THEN SetShapeRect(w[k - 1], s[k], w[k - 1].shapes[s[k]].pos + dx) ELSE w[k - 1])
  <2>1. 0 \in 0 .. n /\ \A k \in 1 .. n : k \in 0 .. n /\ k # 0
    BY <1>1
  <2> QED
    BY <1>5, <2>1, Zenon
<1> HIDE DEF D
<1>8. \A k \in 0 .. n : w[k] \in D[k]
  <2>1. w[0] \in D[0] /\ \A k \in 1 .. n : w[k - 1] \in D[k - 1] => w[k] \in D[k]
    BY <1>2, <1>3, <1>7
  <2> QED
    BY <1>1, <2>1, WalkStays
<1>9. w[n] \in D[n]
  <2>1. n \in 0 .. n
    BY <1>1
  <2> QED
    BY <1>8, <2>1
<1> QED
  BY <1>1, <1>6, <1>9 DEF D, n

\* Copies of boxes: their ids follow each other, and what there was stays.
LEMMA CopiesIs ==
  ASSUME NEW d, Whole(d), NEW s \in Seq(Handed), d.next + Len(s) <= MaxShapes + 1,
         \A k \in DOMAIN s : s[k] \in Boxes(d.shapes) /\ d.shapes[s[k]].pos + 1 \in Positions
  PROVE  LET e == Copies(d, s) IN Edits(d, e, Len(s)) /\ e.next = d.next + Len(s)
<1> DEFINE n == Len(s)
           More(e, k) == /\ e.next = d.next + k
                         /\ \A i \in DOMAIN d.shapes : i \in DOMAIN e.shapes /\ e.shapes[i] = d.shapes[i]
           D == [k \in 0 .. n |-> {e \in Documents : Edits(d, e, k) /\ More(e, k)}]
           g == [k \in 1 .. n |-> [e \in Documents |-> AddShape(e, [e.shapes[s[k]] EXCEPT !.pos = @ + 1, !.img = 0])]]
           Walks(f) == f = [k \in 0 .. n |-> IF k = 0 THEN d ELSE AddShape(f[k - 1], [f[k - 1].shapes[s[k]] EXCEPT !.pos = @ + 1, !.img = 0])]
           w == CHOOSE f : Walks(f)
<1>1. n \in Nat /\ DOMAIN s = 1 .. n /\ d.next \in 1 .. MaxShapes + 1 /\ d.next + n <= MaxShapes + 1
  BY WholeIs
<1> HIDE DEF n
<1>2. d \in D[0]
  <2>1. Edits(d, d, 0)
    BY NoEdit
  <2>2. d \in Documents
    BY DEF Whole
  <2>3. 0 \in 0 .. n
    BY <1>1
  <2>4. More(d, 0)
    BY <1>1
  <2> HIDE DEF More
  <2> QED
    BY <2>1, <2>2, <2>3, <2>4
<1>3. ASSUME NEW k \in 1 .. n, NEW e \in D[k - 1]
      PROVE  AddShape(e, [e.shapes[s[k]] EXCEPT !.pos = @ + 1, !.img = 0]) \in D[k] /\ e \in Documents
  <2> DEFINE i == s[k]
             t == [e.shapes[i] EXCEPT !.pos = @ + 1, !.img = 0]
             f == AddShape(e, t)
             m == k - 1
  <2>1. m \in 0 .. n /\ k \in 0 .. n /\ m + 1 = k /\ m \in Nat /\ k \in DOMAIN s
    BY <1>1
  <2>2. e \in Documents /\ Edits(d, e, m) /\ More(e, m) /\ Whole(e)
    <3> HIDE DEF More
    <3> QED
      BY <2>1 DEF Edits
  <2>3. i \in Boxes(d.shapes) /\ i \in DOMAIN d.shapes /\ d.shapes[i].pos + 1 \in Positions
    BY <2>1 DEF Boxes
  <2>4. e.shapes[i] = d.shapes[i] /\ i \in DOMAIN e.shapes /\ e.shapes[i] \in Shape
    BY <2>2, <2>3, WholeIs
  <2>5. t \in Shape /\ t.kind # "connector"
    <3> DEFINE q == e.shapes[i].pos + 1
               x == [e.shapes[i] EXCEPT !.pos = q]
    <3>1. t = [x EXCEPT !.img = 0]
      BY Zenon
    <3>2. q \in Positions /\ e.shapes[i].kind # "connector"
      BY <2>3, <2>4 DEF Boxes
    <3> HIDE DEF q, t
    <3>3. x \in Shape /\ x.kind = e.shapes[i].kind
      BY <2>4, <3>2 DEF Shape
    <3> HIDE DEF x
    <3> QED
      BY <3>1, <3>2, <3>3 DEF Shape
  <2>6. e.next = d.next + m /\ e.next \in Handed
    <3>1. e.next = d.next + m
      BY <2>2
    <3>2. d.next + m \in 1 .. MaxShapes
      BY <1>1, <2>1, BoundAssumption
    <3> QED
      BY <3>1, <3>2 DEF Handed
  <2> HIDE DEF t, f, i
  <2>7. /\ Edit1(e, f) /\ f.next = e.next + 1 /\ DOMAIN f.shapes = DOMAIN e.shapes \cup {e.next}
        /\ \A j \in DOMAIN e.shapes : f.shapes[j] = e.shapes[j]
    BY <2>2, <2>5, <2>6, AddShapeIs DEF f
  <2>8. More(f, k)
    <3>1. f.next = d.next + k
      BY <1>1, <2>1, <2>6, <2>7
    <3> QED
      BY <2>2, <2>7, <3>1
  <2> HIDE DEF m, More
  <2>9. Edits(d, f, m + 1)
    BY <2>1, <2>2, <2>7, EditsGoOn
  <2>10. f \in Documents /\ Edits(d, f, k)
    BY <2>1, <2>9 DEF Edits, Whole
  <2>11. f \in D[k]
    BY <2>1, <2>8, <2>10
  <2> HIDE DEF D
  <2> QED
    BY <2>2, <2>11 DEF f, t, i
<1> HIDE DEF More
<1>4. \E f : Walks(f)
  <2>1. D \in [0 .. n -> SUBSET Documents]
    OBVIOUS
  <2>2. ASSUME NEW k \in 1 .. n, NEW e \in D[k - 1] PROVE g[k][e] \in D[k]
    <3>1. g[k][e] = AddShape(e, [e.shapes[s[k]] EXCEPT !.pos = @ + 1, !.img = 0])
      BY <1>3
    <3> HIDE DEF g, D
    <3> QED
      BY Zenon, <1>3, <3>1
  <2> HIDE DEF D, g
  <2>3. Keeps(n, D, g)
    BY <2>2 DEF Keeps
  <2>4. PICK f \in [0 .. n -> Documents] : Walked(f, n, D, d, g)
    BY <1>1, <1>2, <2>1, <2>3, WalkIs
  <2>5. /\ f[0] = d /\ \A k \in 1 .. n : f[k] = g[k][f[k - 1]]
        /\ \A k \in 0 .. n : f[k] \in D[k]
    BY <2>4 DEF Walked
  <2>6. \A k \in 1 .. n : g[k][f[k - 1]] = AddShape(f[k - 1], [f[k - 1].shapes[s[k]] EXCEPT !.pos = @ + 1, !.img = 0])
    <3>1. \A k \in 1 .. n : f[k - 1] \in Documents
      BY <1>1
    <3> QED
      BY <3>1 DEF g
  <2>7. \A k \in 0 .. n : k # 0 => k \in 1 .. n
    BY <1>1
  <2>8. Walks(f)
    <3>1. f = [k \in 0 .. n |-> f[k]]
      BY <2>5
    <3> QED
      BY Zenon, <2>5, <2>6, <2>7, <3>1
  <2> QED
    BY Zenon, <2>8
<1>5. Walks(w)
  BY Zenon, <1>4
<1>6. Copies(d, s) = w[n]
  BY Zenon DEF Copies, n
<1> HIDE DEF w
<1>7. w[0] = d /\ \A k \in 1 .. n : w[k] = AddShape(w[k - 1], [w[k - 1].shapes[s[k]] EXCEPT !.pos = @ + 1, !.img = 0])
  <2>1. 0 \in 0 .. n /\ \A k \in 1 .. n : k \in 0 .. n /\ k # 0
    BY <1>1
  <2> QED
    BY <1>5, <2>1, Zenon
<1> HIDE DEF D
<1>8. \A k \in 0 .. n : w[k] \in D[k]
  <2>1. w[0] \in D[0] /\ \A k \in 1 .. n : w[k - 1] \in D[k - 1] => w[k] \in D[k]
    BY Zenon, <1>2, <1>3, <1>7
  <2> QED
    BY <1>1, <2>1, WalkStays
<1>9. w[n] \in D[n]
  <2>1. n \in 0 .. n
    BY <1>1
  <2> QED
    BY <1>8, <2>1
<1> QED
  BY <1>1, <1>6, <1>9 DEF D, n, More
-----------------------------------------------------------------------------
(* The canvas.                                                             *)

Canvases ==
    [tool : Tools, sel : Seq(Handed), drag : Drags, base : Seq(Positions),
     grip : 0 .. MaxShapes, from : 0 .. MaxShapes, editor : 0 .. MaxShapes,
     began : SUBSET Drafts, cut : BOOLEAN]
Steady(c) == c \in Canvases /\ Distinct(c.sel)

LEMMA HandedIs ==
  /\ 0 \in 0 .. MaxShapes /\ 0 \notin Handed
  /\ \A i \in Handed : i \in 0 .. MaxShapes /\ i \in Nat /\ i # 0
  /\ \A i \in 0 .. MaxShapes : i \in Nat /\ (i # 0 => i \in Handed)
  BY BoundAssumption DEF Handed

\* A click finds the topmost shape, or nothing.
LEMMA ShapeAtPointIs ==
  ASSUME NEW S \in Things, NEW p \in Positions
  PROVE  ShapeAtPoint(S, p) = Nobody \/ ShapeAtPoint(S, p) \in Boxes(S)
<1> DEFINE under == {i \in Boxes(S) : S[i].pos = p}
<1>1. CASE under = {}
  BY <1>1 DEF ShapeAtPoint
<1>2. CASE under # {}
  <2>1. under \subseteq DOMAIN S /\ DOMAIN S \subseteq Handed /\ \A i \in DOMAIN S : S[i].rank \in Int
    BY ThingsAre, ShapesAre DEF Boxes
  <2>2. IsFiniteSet(under)
    BY <2>1, IdsAreFew
  <2> DEFINE r == [i \in under |-> S[i].rank]
  <2>3. r \in [under -> Int] /\ \A i \in under : r[i] = S[i].rank
    BY <2>1
  <2> HIDE DEF r
  <2>4. \E i \in under : \A j \in under : r[j] <= r[i]
    <3> HIDE DEF under
    <3> QED
      BY <1>2, <2>2, <2>3, HighestIs
  <2>5. \E i \in under : \A j \in under : S[j].rank <= S[i].rank
    BY <2>3, <2>4
  <2>6. (CHOOSE i \in under : \A j \in under : S[j].rank <= S[i].rank) \in under
    <3> HIDE DEF under
    <3> QED
      BY <2>5
  <2>7. ShapeAtPoint(S, p) = CHOOSE i \in under : \A j \in under : S[j].rank <= S[i].rank
    BY <1>2, Zenon DEF ShapeAtPoint
  <2>8. ShapeAtPoint(S, p) \in under
    BY <2>6, <2>7, Zenon
  <2> QED
    BY <2>8
<1> QED
  BY <1>1, <1>2

LEMMA HitsAre ==
  ASSUME NEW S \in Things
  PROVE  Hits(S) \ {Nobody} \subseteq Handed
<1>1. DOMAIN S \subseteq Handed
  BY ThingsAre
<1>2. Drawn(S) \subseteq Handed /\ Boxes(S) \subseteq Handed
  BY <1>1 DEF Drawn, Connectors, Boxes
<1> QED
  BY <1>2, ShapeAtPointIs DEF Hits

LEMMA OneIs ==
  ASSUME NEW i \in Handed
  PROVE  <<i>> \in Seq(Handed) /\ Distinct(<<i>>)
  BY DEF Distinct

LEMMA NoneIs ==
  <<>> \in Seq(Handed) /\ Distinct(<<>>)
  BY DEF Distinct

\* Two selections with nothing in common, one after the other.
LEMMA BothAre ==
  ASSUME NEW s \in Seq(Handed), Distinct(s), NEW t \in Seq(Handed), Distinct(t), Ids(t) \cap Ids(s) = {}
  PROVE  s \o t \in Seq(Handed) /\ Distinct(s \o t)
<1> DEFINE u == s \o t
           m == Len(s)
           n == Len(t)
<1>1. /\ u \in Seq(Handed) /\ m \in Nat /\ n \in Nat /\ DOMAIN s = 1 .. m /\ DOMAIN t = 1 .. n
      /\ DOMAIN u = 1 .. m + n
  OBVIOUS
<1>2. /\ \A k \in 1 .. m : u[k] = s[k]
      /\ \A k \in m + 1 .. m + n : u[k] = t[k - m]
  OBVIOUS
<1> HIDE DEF u, m, n
<1>3. \A k \in 1 .. m + n : (k \in 1 .. m \/ k \in m + 1 .. m + n)
  BY <1>1
<1>4. \A k \in m + 1 .. m + n : k - m \in 1 .. n
  BY <1>1
<1>5. \A j \in 1 .. m, k \in m + 1 .. m + n : u[j] # u[k]
  BY <1>1, <1>2, <1>4 DEF Ids
<1>6. ASSUME NEW j \in m + 1 .. m + n, NEW k \in m + 1 .. m + n, u[j] = u[k] PROVE j = k
  <2>1. j - m \in DOMAIN t /\ k - m \in DOMAIN t /\ t[j - m] = t[k - m]
    BY <1>1, <1>2, <1>4, <1>6
  <2>2. j - m = k - m
    BY <2>1 DEF Distinct
  <2> QED
    BY <1>1, <2>2
<1>7. \A j, k \in 1 .. m : u[j] = u[k] => j = k
  BY <1>1, <1>2 DEF Distinct
<1>8. Distinct(u)
  <2> SUFFICES ASSUME NEW j \in 1 .. m + n, NEW k \in 1 .. m + n, u[j] = u[k] PROVE j = k
    BY <1>1 DEF Distinct
  <2> QED
    BY <1>3, <1>5, <1>6, <1>7
<1> QED
  BY <1>1, <1>8 DEF u

\* A click adds a shape to the selection, takes it out or takes its place.
LEMMA ClickedIs ==
  ASSUME Steady(canvas), NEW hit \in Handed, NEW additive \in BOOLEAN
  PROVE  Clicked(hit, additive) \in Seq(Handed) /\ Distinct(Clicked(hit, additive))
<1> DEFINE s == canvas.sel
<1>1. s \in Seq(Handed) /\ Distinct(s)
  BY DEF Steady, Canvases
<1> HIDE DEF s
<1>2. CASE hit \in Ids(s)
  <2>1. CASE additive
    <3>1. Clicked(hit, additive) = Chosen(s, Ids(s) \ {hit})
      BY <1>2, <2>1, Zenon DEF Clicked, LeftOut, s
    <3> QED
      BY <1>1, <3>1, ChosenIs
  <2>2. CASE ~additive
    <3>1. Clicked(hit, additive) = s
      BY <1>2, <2>2, Zenon DEF Clicked, s
    <3> QED
      BY <1>1, <3>1
  <2> QED
    BY <2>1, <2>2
<1>3. CASE hit \notin Ids(s)
  <2>1. CASE additive
    <3>1. Clicked(hit, additive) = Append(s, hit)
      BY <1>3, <2>1 DEF Clicked, s
    <3> DEFINE a == Append(s, hit)
               n == Len(s)
    <3>2. /\ a \in Seq(Handed) /\ n \in Nat /\ DOMAIN s = 1 .. n /\ DOMAIN a = 1 .. n + 1
          /\ a[n + 1] = hit /\ \A k \in 1 .. n : a[k] = s[k]
      BY <1>1
    <3> HIDE DEF a, n
    <3>3. \A k \in 1 .. n + 1 : k = n + 1 \/ k \in 1 .. n
      BY <3>2
    <3>4. \A k \in 1 .. n : a[k] # hit
      BY <1>3, <3>2 DEF Ids
    <3>5. Distinct(a)
      BY <1>1, <3>2, <3>3, <3>4 DEF Distinct
    <3> QED
      BY <3>1, <3>2, <3>5 DEF a
  <2>2. CASE ~additive
    <3>1. Clicked(hit, additive) = <<hit>>
      BY <1>3, <2>2 DEF Clicked, s
    <3> QED
      BY <3>1, OneIs
  <2> QED
    BY <2>1, <2>2
<1> QED
  BY <1>2, <1>3
-----------------------------------------------------------------------------
(* The invariant: a whole document, a canvas that holds ids, files that can *)
(* be read, and the drawing a gesture began with on the undo stack until it *)
(* is full; and every step keeps it and can be taken back.                  *)
Begun == \A b \in canvas.began : b \in Entered(doc) \/ Len(doc.undo) >= UndoCap
IInv ==
    /\ Whole(doc) /\ Steady(canvas)
    /\ DOMAIN disk = Files /\ \A f \in Files : File(disk[f])
    /\ path \subseteq Files /\ open \in BOOLEAN
    /\ CleanMeansSaved /\ Begun

Good == IInv' /\ (MaxShapes <= UndoCap => CanBeTakenBack)

LEMMA InitIInv ==
  Init => IInv
<1> SUFFICES ASSUME Init PROVE IInv
  OBVIOUS
<1>0. Begun
  BY DEF Begun, Init, IdleCanvas
<1>1. Steady(canvas)
  <2>1. <<>> \in Seq(Positions) /\ <<>> \in Seq(Handed) /\ Distinct(<<>>)
    BY NoneIs
  <2>2. 0 \in 0 .. MaxShapes
    BY HandedIs
  <2>3. canvas = [tool |-> "select", sel |-> <<>>, drag |-> "none", base |-> <<>>, grip |-> 0,
                  from |-> 0, editor |-> 0, began |-> {}, cut |-> FALSE]
    BY DEF Init, IdleCanvas, Nobody
  <2>4. canvas \in Canvases
    BY <2>1, <2>2, <2>3 DEF Canvases, Tools, Drags
  <2> QED
    BY <2>1, <2>3, <2>4 DEF Steady
<1>2. disk = InitialDisk /\ DOMAIN disk = Files /\ open \in BOOLEAN /\ \A f \in Files : File(disk[f])
  BY FirstFiles, DiskAssumption DEF Init
<1>3. CASE doc = EmptyDocument /\ path = {}
  <2>1. Whole(doc) /\ doc.shapes = EmptyDocument.shapes
    BY <1>3, EmptyIs
  <2> QED
    BY <1>0, <1>1, <1>2, <1>3, <2>1 DEF IInv, CleanMeansSaved, OnDisk
<1>4. CASE \E f \in Files : doc = Load(EmptyDocument, disk[f]) /\ path = {f}
  <2>1. PICK f \in Files : doc = Load(EmptyDocument, disk[f]) /\ path = {f}
    BY <1>4
  <2>2. Whole(doc) /\ doc.shapes = disk[f].shapes
    BY <1>2, <2>1, EmptyIs, LoadIs
  <2> QED
    BY <1>0, <1>1, <1>2, <2>1, <2>2 DEF IInv, CleanMeansSaved, OnDisk
<1> QED
  BY <1>3, <1>4 DEF Init

\* What a step does with the gesture: it goes on, or none went on, or what
\* takes its place says whether it cut it short.
Left(c) ==
    \/ c.drag = canvas.drag /\ c.cut = canvas.cut
    \/ AtRest /\ c.cut = canvas.cut
    \/ c.cut = (canvas.cut \/ (Reshaping /\ ~doc.modified))
Follows(c) == c.began \subseteq canvas.began /\ Left(c)

\* A step that leaves the files alone.
LEMMA SaneStep ==
  ASSUME IInv, Sane(doc, doc'), Steady(canvas'), Left(canvas'), Begun', UNCHANGED Window
  PROVE  Good
<1>1. /\ Whole(doc') /\ Marks(doc, doc') /\ (MaxShapes <= UndoCap => Backs(doc, doc'))
      /\ disk' = disk /\ path' = path /\ open' = open
  BY DEF Sane, Window
<1>2. CleanMeansSaved'
  <2> SUFFICES ASSUME ~doc'.modified, AtRest', ~canvas'.cut PROVE OnDisk'
    BY DEF CleanMeansSaved
  <2>1. doc'.shapes = doc.shapes /\ ~doc.modified
    BY <1>1 DEF Marks
  <2>2. AtRest /\ ~canvas.cut
    BY <2>1, Zenon DEF Left, AtRest, Reshaping
  <2> QED
    BY <1>1, <2>1, <2>2 DEF IInv, CleanMeansSaved, OnDisk
<1>3. MaxShapes <= UndoCap => CanBeTakenBack
  BY <1>1 DEF Backs, CanBeTakenBack
<1>4. IInv'
  BY <1>1, <1>2 DEF IInv
<1> QED
  BY <1>3, <1>4 DEF Good

LEMMA FineStep ==
  ASSUME IInv, Fine(doc, doc'), Steady(canvas'), Follows(canvas'), UNCHANGED Window
  PROVE  Good
<1> DEFINE m == Len(doc.undo)
           n == Len(doc'.undo)
<1>1. m \in Nat /\ n \in Nat /\ UndoCap \in Nat
  BY DrawAssumption DEF IInv, Fine, Sane, Whole, Documents
<1>2. m <= n /\ (n >= UndoCap \/ Entered(doc) \subseteq Entered(doc'))
  BY DEF Fine, Grows
<1>3. \A b \in canvas'.began : b \in Entered(doc) \/ m >= UndoCap
  BY DEF Follows, IInv, Begun
<1> HIDE DEF m, n
<1>4. m >= UndoCap => n >= UndoCap
  BY <1>1, <1>2
<1>5. Begun'
  BY <1>2, <1>3, <1>4 DEF Begun, Entered, n
<1> QED
  BY <1>5, SaneStep DEF Fine, Follows

LEMMA SameStep ==
  ASSUME IInv, doc' = doc, Steady(canvas'), Follows(canvas'), UNCHANGED Window
  PROVE  Good
<1>1. Fine(doc, doc')
  BY FineSame DEF IInv
<1> QED
  BY <1>1, FineStep

LEMMA SnapshotEdit ==
  ASSUME NEW d, Whole(d)
  PROVE  Edit1(d, Snapshot(d)) /\ Snapshot(d).shapes = d.shapes
<1> DEFINE e == Snapshot(d)
<1>1. /\ e \in Documents /\ e.shapes = d.shapes /\ e.next = d.next
      /\ e.modified /\ e.redo = <<>> /\ Len(e.undo) <= UndoCap
  BY SnapshotIs
<1> HIDE DEF e
<1>2. Now(e) \in Drafts
  BY <1>1 DEF Now, Whole
<1>3. Len(e.undo) + Len(e.redo) <= UndoCap
  <2>1. Len(e.redo) = 0 /\ Len(e.undo) \in Nat /\ UndoCap \in Nat
    BY <1>1, DrawAssumption DEF Documents
  <2> QED
    BY <1>1, <2>1
<1>4. Whole(e)
  BY <1>1, <1>2, <1>3 DEF Whole
<1> QED
  BY <1>1, <1>4 DEF Edit1, e

\* The press that a move or a resize begins with.
LEMMA OpensStep ==
  ASSUME IInv, doc' = Snapshot(doc), Steady(canvas'), canvas'.began = {Now(doc)}, UNCHANGED Window
  PROVE  Good
<1>1. Whole(doc)
  BY DEF IInv
<1>2. Fine(doc, doc') /\ doc'.modified /\ Now(doc) \in Entered(doc')
  BY <1>1, SnapshotEdit, SnapshotIs, FineOnce, SnapshotGrows
<1>3. Begun'
  BY <1>2 DEF Begun, Entered
<1>4. CleanMeansSaved'
  BY <1>2 DEF CleanMeansSaved
<1>5. MaxShapes <= UndoCap => CanBeTakenBack
  BY <1>2 DEF Fine, Sane, Backs, CanBeTakenBack
<1>6. IInv'
  BY <1>2, <1>3, <1>4 DEF IInv, Fine, Sane, Window
<1> QED
  BY <1>5, <1>6 DEF Good

LEMMA CanvasIs ==
  ASSUME IInv
  PROVE  /\ canvas \in Canvases /\ canvas.sel \in Seq(Handed) /\ Distinct(canvas.sel)
         /\ Boxes(doc.shapes) \subseteq Handed /\ \A k \in DOMAIN canvas.sel : canvas.sel[k] \in Handed
         /\ Ids(canvas.sel) \subseteq Handed
<1>1. canvas \in Canvases /\ canvas.sel \in Seq(Handed) /\ Distinct(canvas.sel)
  BY DEF IInv, Steady, Canvases
<1>2. Boxes(doc.shapes) \subseteq Handed
  BY WholeIs DEF IInv, Boxes
<1>3. \A k \in DOMAIN canvas.sel : canvas.sel[k] \in Handed
  BY <1>1
<1> QED
  BY <1>1, <1>2, <1>3 DEF Ids

\* What a press does with the gesture that went on.
LEMMA TakesIs ==
  ASSUME IInv, NEW drag \in Drags
  PROVE  LET c == Takes(canvas, drag)
         IN  Steady(c) /\ c.began = {} /\ Left(c) /\ c.sel = canvas.sel
<1> DEFINE cut == canvas.cut \/ (Reshaping /\ ~doc.modified)
           c == Takes(canvas, drag)
<1>1. canvas \in Canvases /\ Distinct(canvas.sel)
  BY CanvasIs
<1>2. cut \in BOOLEAN
  BY Zenon
<1>3. c = [canvas EXCEPT !.drag = drag, !.began = {}, !.cut = cut]
  BY Zenon DEF Takes
<1> HIDE DEF cut, c
<1>4. c \in Canvases /\ c.began = {} /\ c.cut = cut /\ c.sel = canvas.sel
  <2> SUFFICES ASSUME NEW yes \in BOOLEAN, c = [canvas EXCEPT !.drag = drag, !.began = {}, !.cut = yes]
               PROVE  c \in Canvases /\ c.began = {} /\ c.cut = yes /\ c.sel = canvas.sel
    BY <1>2, <1>3, Zenon
  <2> QED
    BY <1>1 DEF Canvases
<1>5. Left(c)
  BY <1>4, Zenon DEF Left, cut
<1> QED
  BY <1>1, <1>4, <1>5 DEF Steady, c

\* What the press of a move or a resize makes of a canvas.
LEMMA OpensIs ==
  ASSUME IInv, NEW c, Steady(c), NEW drag \in Drags
  PROVE  LET e == Opens(c, drag) IN Steady(e) /\ e.began = {Now(doc)} /\ e.sel = c.sel
<1>1. Now(doc) \in Drafts
  BY DEF IInv, Whole
<1>2. {Now(doc)} \in SUBSET Drafts
  BY <1>1
<1> QED
  BY <1>2 DEF Opens, Steady, Canvases

LEMMA ResizeBeginsKeeps ==
  ASSUME IInv, InCanvas(ResizeBegins)
  PROVE  Good
<1> DEFINE c == Opens(canvas, "resize")
<1>1. /\ doc' = Snapshot(doc) /\ canvas.sel[1] \in Boxes(doc.shapes)
      /\ canvas' = [c EXCEPT !.grip = canvas.sel[1]] /\ UNCHANGED Window
  BY DEF InCanvas, ResizeBegins, Do, OneBoxSelected
<1>2. Steady(c) /\ c.began = {Now(doc)}
  <2>1. Steady(canvas) /\ "resize" \in Drags
    BY DEF IInv, Drags
  <2> QED
    BY <2>1, OpensIs
<1> HIDE DEF c
<1>3. Steady(canvas') /\ canvas'.began = {Now(doc)}
  <2>1. canvas.sel[1] \in 0 .. MaxShapes
    BY <1>1, CanvasIs, HandedIs
  <2> QED
    BY <1>1, <1>2, <2>1 DEF Steady, Canvases
<1> QED
  BY <1>1, <1>3, OpensStep

\* The editor opens on a box that there is.
LEMMA EditorIs ==
  ASSUME IInv, NEW c, Steady(c)
  PROVE  LET e == OpenLabelEditor(c)
         IN  Steady(e) /\ e.drag = c.drag /\ e.cut = c.cut /\ e.began = c.began
<1>1. CASE c.editor = Nobody /\ Len(c.sel) = 1 /\ c.sel[1] \in Boxes(doc.shapes)
  <2>1. OpenLabelEditor(c) = [c EXCEPT !.editor = c.sel[1]]
    BY <1>1 DEF OpenLabelEditor
  <2>2. c.sel[1] \in 0 .. MaxShapes
    BY <1>1, CanvasIs, HandedIs
  <2> QED
    BY <2>1, <2>2 DEF Steady, Canvases
<1>2. CASE ~(c.editor = Nobody /\ Len(c.sel) = 1 /\ c.sel[1] \in Boxes(doc.shapes))
  BY <1>2 DEF OpenLabelEditor
<1> QED
  BY <1>1, <1>2

LEMMA ClickShapeKeeps ==
  ASSUME IInv, InCanvas(ClickShape)
  PROVE  Good
<1>1. PICK hit \in Hits(doc.shapes) \ {Nobody}, additive, double \in BOOLEAN :
        LET s == Clicked(hit, additive)
            c == Select(canvas, s)
        IN  IF double /\ Len(s) = 1
            THEN Do(doc, OpenLabelEditor(c))
            ELSE LET moved == BoxesIn(s, doc.shapes)
                 IN  Do(Snapshot(doc),
                        [Opens(c, "move") EXCEPT
                            !.base = [k \in DOMAIN moved |-> doc.shapes[moved[k]].pos]])
  BY DEF InCanvas, ClickShape
<1>2. UNCHANGED Window /\ Whole(doc) /\ Steady(canvas)
  BY DEF InCanvas, ClickShape, IInv
<1> DEFINE s == Clicked(hit, additive)
           c == Select(canvas, s)
           moved == BoxesIn(s, doc.shapes)
           base == [k \in DOMAIN moved |-> doc.shapes[moved[k]].pos]
<1>3. s \in Seq(Handed) /\ Distinct(s)
  <2>1. hit \in Handed
    BY <1>2, WholeIs, HitsAre
  <2> QED
    BY <1>2, <2>1, ClickedIs
<1>4. Steady(c) /\ c.drag = canvas.drag /\ c.cut = canvas.cut /\ c.began = canvas.began
  <2> HIDE DEF s
  <2> QED
    BY <1>2, <1>3 DEF Select, Steady, Canvases
<1>5. base \in Seq(Positions)
  <2> DEFINE n == Len(moved)
  <2>1. moved \in Seq(Handed) /\ \A k \in DOMAIN moved : moved[k] \in Boxes(doc.shapes)
    BY <1>3, ChosenIs DEF BoxesIn
  <2>2. n \in Nat /\ DOMAIN moved = 1 .. n
    BY <2>1
  <2>3. \A k \in DOMAIN moved : doc.shapes[moved[k]].pos \in Positions
    BY <1>2, <2>1, WholeIs, ShapesAre DEF Boxes
  <2> HIDE DEF moved, n
  <2>4. base \in [1 .. n -> Positions]
    BY <2>2, <2>3
  <2> QED
    BY <2>2, <2>4
<1>6. CASE double /\ Len(s) = 1
  <2>1. doc' = doc /\ canvas' = OpenLabelEditor(c)
    BY <1>1, <1>6 DEF Do
  <2> HIDE DEF c
  <2>2. Steady(canvas') /\ Follows(canvas')
    BY <1>4, <2>1, EditorIs DEF Follows, Left
  <2> QED
    BY <1>2, <2>1, <2>2, SameStep
<1>7. CASE ~(double /\ Len(s) = 1)
  <2> DEFINE e == Opens(c, "move")
  <2>1. doc' = Snapshot(doc) /\ canvas' = [e EXCEPT !.base = base]
    BY <1>1, <1>7, Zenon DEF Do
  <2> HIDE DEF c, base
  <2>2. Steady(e) /\ e.began = {Now(doc)}
    <3>1. "move" \in Drags
      BY DEF Drags
    <3> QED
      BY <1>4, <3>1, OpensIs
  <2> HIDE DEF e
  <2>3. Steady(canvas') /\ canvas'.began = {Now(doc)}
    BY <1>5, <2>1, <2>2 DEF Steady, Canvases
  <2> QED
    BY <1>2, <2>1, <2>3, OpensStep
<1> QED
  BY <1>6, <1>7

LEMMA RoomIs ==
  ASSUME IInv, NEW n \in Nat \ {0}, Room(n)
  PROVE  doc.next \in Handed /\ n <= MaxShapes
<1>1. doc.next \in 1 .. MaxShapes + 1
  BY WholeIs DEF IInv
<1>2. doc.next + n <= MaxShapes + 1
  BY DEF Room
<1> QED
  BY <1>1, <1>2, BoundAssumption DEF Handed

\* A box that is added.
LEMMA BoxAdded ==
  ASSUME IInv, Room(1), NEW p \in Positions, NEW l \in Looks
  PROVE  Fine(doc, AddShape(doc, NewBox(p, l)))
<1>1. doc.next \in Handed /\ Whole(doc)
  BY RoomIs DEF IInv
<1>2. NewBox(p, l) \in Shape /\ NewBox(p, l).kind = "box"
  BY NewShapesAre
<1>3. Edit1(doc, AddShape(doc, NewBox(p, l)))
  BY <1>1, <1>2, AddShapeIs
<1> QED
  BY <1>1, <1>3, FineOnce

\* A connector that is added, between whatever there is.
LEMMA LineAdded ==
  ASSUME IInv, Room(1), NEW a \in Nat, NEW b \in Nat, NEW p \in Positions, NEW l \in Looks
  PROVE  Fine(doc, AddShape(doc, NewConnector(doc.shapes, a, b, p, l)))
<1> DEFINE s == NewConnector(doc.shapes, a, b, p, l)
<1>1. doc.next \in Handed /\ Whole(doc)
  BY RoomIs DEF IInv
<1>2. s \in Shape /\ (s.clean => Ends(s) \subseteq Boxes(doc.shapes))
  BY NewShapesAre
<1> HIDE DEF s
<1>3. Edit1(doc, AddShape(doc, s))
  BY <1>1, <1>2, AddShapeIs
<1> QED
  BY <1>1, <1>3, FineOnce DEF s

\* What is added is what is selected.
LEMMA NewSelected ==
  ASSUME IInv, Room(1), NEW c, Steady(c)
  PROVE  LET e == Select(c, <<doc.next>>)
         IN  Steady(e) /\ e.drag = c.drag /\ e.cut = c.cut /\ e.began = c.began
<1> DEFINE s == <<doc.next>>
<1>1. s \in Seq(Handed) /\ Distinct(s)
  BY RoomIs, OneIs
<1> HIDE DEF s
<1>2. LET e == [c EXCEPT !.sel = s]
      IN  Steady(e) /\ e.drag = c.drag /\ e.cut = c.cut /\ e.began = c.began
  BY <1>1 DEF Steady, Canvases
<1> QED
  BY <1>2 DEF Select, s

LEMMA ClickNothingKeeps ==
  ASSUME IInv, InCanvas(ClickNothing)
  PROVE  Good
<1> DEFINE c == Takes(canvas, "band")
<1>1. PICK shift \in BOOLEAN :
        /\ doc' = doc /\ UNCHANGED Window
        /\ canvas' = [c EXCEPT !.sel = IF shift THEN canvas.sel ELSE <<>>]
  BY DEF InCanvas, ClickNothing, Do, Select
<1> DEFINE s == IF shift THEN canvas.sel ELSE <<>>
<1>2. s \in Seq(Handed) /\ Distinct(s)
  BY CanvasIs, NoneIs
<1>3. canvas' = [c EXCEPT !.sel = s]
  BY <1>1, Zenon
<1>4. Steady(c) /\ c.began = {} /\ Left(c)
  BY TakesIs DEF Drags
<1> HIDE DEF s, c
<1>5. /\ Steady(canvas') /\ canvas'.began = {} /\ canvas'.cut = c.cut /\ canvas'.drag = c.drag
  BY <1>2, <1>3, <1>4 DEF Steady, Canvases
<1>6. Follows(canvas')
  BY <1>4, <1>5, Zenon DEF Follows, Left
<1> QED
  BY <1>1, <1>5, <1>6, SameStep

LEMMA ClickConnectorKeeps ==
  ASSUME IInv, InCanvas(ClickConnector)
  PROVE  Good
<1> DEFINE c(drag) == Takes(canvas, drag)
<1>1. PICK p \in Positions, look \in Looks :
        LET hit == ShapeAtPoint(doc.shapes, p)
            d   == AddShape(doc, NewConnector(doc.shapes, canvas.from, hit, p, look))
        IN  \/ /\ hit # Nobody /\ canvas.from = Nobody
               /\ Do(doc, [c("connect") EXCEPT !.from = hit])
            \/ /\ hit # Nobody /\ canvas.from \notin {Nobody, hit}
               /\ Do(d, [c("none") EXCEPT !.from = Nobody, !.sel = <<doc.next>>])
            \/ /\ hit \in {Nobody, canvas.from} /\ canvas.from # Nobody
               /\ Do(doc, [c("none") EXCEPT !.from = Nobody])
  BY DEF InCanvas, ClickConnector
<1>2. Room(1) /\ UNCHANGED Window /\ Whole(doc) /\ Steady(canvas)
  BY DEF InCanvas, ClickConnector, IInv
<1> DEFINE hit == ShapeAtPoint(doc.shapes, p)
           d   == AddShape(doc, NewConnector(doc.shapes, canvas.from, hit, p, look))
<1>3. hit \in 0 .. MaxShapes /\ hit \in Nat /\ canvas.from \in Nat
  <2>1. hit = Nobody \/ hit \in Boxes(doc.shapes)
    BY <1>2, WholeIs, ShapeAtPointIs
  <2>2. hit \in 0 .. MaxShapes
    BY <2>1, CanvasIs, HandedIs DEF Nobody
  <2>3. canvas.from \in 0 .. MaxShapes
    BY CanvasIs DEF Canvases
  <2> QED
    BY <2>2, <2>3, HandedIs
<1>4. \A drag \in Drags : Steady(c(drag)) /\ c(drag).began = {} /\ Left(c(drag))
  BY TakesIs
<1>5. "connect" \in Drags /\ "none" \in Drags
  BY DEF Drags
<1> HIDE DEF c
<1>6. ASSUME NEW drag \in Drags, NEW i \in 0 .. MaxShapes
      PROVE  LET e == [c(drag) EXCEPT !.from = i] IN Steady(e) /\ Follows(e) /\ e.began = {}
  <2> DEFINE e == [c(drag) EXCEPT !.from = i]
  <2>1. Steady(e) /\ e.began = {} /\ e.cut = c(drag).cut /\ e.drag = c(drag).drag
    BY <1>4 DEF Steady, Canvases
  <2> HIDE DEF e
  <2>2. Follows(e)
    BY <1>4, <2>1, Zenon DEF Follows, Left
  <2> QED
    BY <2>1, <2>2 DEF e
<1>7. Nobody \in 0 .. MaxShapes
  BY HandedIs DEF Nobody
<1>8. CASE Do(doc, [c("connect") EXCEPT !.from = hit])
  <2> HIDE DEF hit
  <2>1. doc' = doc /\ canvas' = [c("connect") EXCEPT !.from = hit]
    BY <1>8 DEF Do
  <2>2. Steady(canvas') /\ Follows(canvas')
    BY <1>3, <1>5, <1>6, <2>1
  <2> QED
    BY <1>2, <2>1, <2>2, SameStep
<1>9. CASE Do(d, [c("none") EXCEPT !.from = Nobody, !.sel = <<doc.next>>])
  <2> DEFINE e == [c("none") EXCEPT !.from = Nobody]
  <2>1. doc' = d /\ canvas' = Select(e, <<doc.next>>)
    BY <1>9 DEF Do, Select
  <2>2. Fine(doc, doc')
    <3>1. Fine(doc, d)
      <4> HIDE DEF hit
      <4> QED
        BY <1>2, <1>3, LineAdded
    <3> QED
      BY <2>1, <3>1, Zenon
  <2>3. Steady(e) /\ Follows(e) /\ e.began = {}
    BY <1>5, <1>6, <1>7
  <2> HIDE DEF e
  <2>4. Steady(canvas') /\ canvas'.drag = e.drag /\ canvas'.cut = e.cut /\ canvas'.began = e.began
    BY <1>2, <2>1, <2>3, NewSelected
  <2>5. Follows(canvas')
    BY <2>3, <2>4, Zenon DEF Follows, Left
  <2> QED
    BY <1>2, <2>2, <2>4, <2>5, FineStep
<1>10. CASE Do(doc, [c("none") EXCEPT !.from = Nobody])
  <2>1. doc' = doc /\ canvas' = [c("none") EXCEPT !.from = Nobody]
    BY <1>10 DEF Do
  <2>2. Steady(canvas') /\ Follows(canvas')
    BY <1>5, <1>6, <1>7, <2>1
  <2> QED
    BY <1>2, <2>1, <2>2, SameStep
<1> QED
  BY <1>1, <1>8, <1>9, <1>10, Zenon

LEMMA NewBoxKeeps ==
  ASSUME IInv, InCanvas(ClickText) \/ InCanvas(CreateEnds) \/ InCanvas(DropCreateAt)
  PROVE  Good
<1>1. PICK p \in Positions, look \in Looks :
        /\ doc' = AddShape(doc, NewBox(p, look))
        /\ \/ canvas' = Select(canvas, <<doc.next>>)
           \/ canvas' = [canvas EXCEPT !.drag = "none", !.sel = <<doc.next>>] /\ canvas.drag = "create"
  BY DEF InCanvas, ClickText, CreateEnds, DropCreateAt, Do
<1>2. Room(1) /\ UNCHANGED Window /\ Steady(canvas)
  BY DEF InCanvas, ClickText, CreateEnds, DropCreateAt, IInv
<1>3. Fine(doc, doc')
  BY <1>1, <1>2, BoxAdded
<1>4. Steady(canvas') /\ Follows(canvas')
  <2>1. CASE canvas' = Select(canvas, <<doc.next>>)
    BY <1>2, <2>1, NewSelected DEF Follows, Left
  <2>2. CASE canvas' = [canvas EXCEPT !.drag = "none", !.sel = <<doc.next>>] /\ canvas.drag = "create"
    <3> DEFINE c == [canvas EXCEPT !.drag = "none"]
    <3>1. Steady(c) /\ c.cut = canvas.cut /\ c.began = canvas.began
      BY <1>2 DEF Steady, Canvases, Drags
    <3>2. canvas' = Select(c, <<doc.next>>) /\ AtRest
      BY <2>2 DEF Select, AtRest, Reshaping
    <3> HIDE DEF c
    <3> QED
      BY <1>2, <3>1, <3>2, NewSelected DEF Follows, Left
  <2> QED
    BY <1>1, <2>1, <2>2
<1> QED
  BY <1>2, <1>3, <1>4, FineStep

LEMMA CreateBeginsKeeps ==
  ASSUME IInv, InCanvas(CreateBegins)
  PROVE  Good
<1>1. doc' = doc /\ canvas' = Takes(canvas, "create") /\ UNCHANGED Window
  BY DEF InCanvas, CreateBegins, Do
<1>2. Steady(canvas') /\ canvas'.began = {} /\ Left(canvas')
  BY <1>1, TakesIs DEF Drags
<1> QED
  BY <1>1, <1>2, SameStep DEF Follows

LEMMA ConnectReleasedKeeps ==
  ASSUME IInv, InCanvas(ConnectReleased)
  PROVE  Good
<1>1. /\ doc' = doc /\ canvas' = [canvas EXCEPT !.drag = "none"] /\ UNCHANGED Window
      /\ AtRest /\ Steady(canvas)
  BY DEF InCanvas, ConnectReleased, Tool, AtRest, Reshaping, IInv
<1>2. Steady(canvas') /\ canvas'.began = canvas.began /\ canvas'.cut = canvas.cut
  BY <1>1 DEF Steady, Canvases, Drags
<1> QED
  BY <1>1, <1>2, SameStep DEF Follows, Left

LEMMA BandEndsKeeps ==
  ASSUME IInv, InCanvas(BandEnds)
  PROVE  Good
<1>1. PICK a, b \in Positions, shift \in BOOLEAN :
        LET S    == doc.shapes
            kept == IF shift THEN canvas.sel ELSE <<>>
            new  == {i \in Boxes(S) : S[i].pos \in a .. b} \ Ids(kept)
        IN  Do(doc, [canvas EXCEPT !.drag = "none", !.sel = kept \o InOrder(new, S)])
  BY Zenon DEF InCanvas, BandEnds
<1> DEFINE S    == doc.shapes
           kept == IF shift THEN canvas.sel ELSE <<>>
           new  == {i \in Boxes(S) : S[i].pos \in a .. b} \ Ids(kept)
           more == InOrder(new, S)
           s    == kept \o more
<1>2. /\ doc' = doc /\ UNCHANGED Window /\ AtRest /\ Steady(canvas)
      /\ canvas' = [canvas EXCEPT !.drag = "none", !.sel = s]
  BY <1>1 DEF InCanvas, BandEnds, Do, AtRest, Reshaping, IInv
<1>3. kept \in Seq(Handed) /\ Distinct(kept)
  BY CanvasIs, NoneIs
<1>4. new \subseteq DOMAIN S /\ new \subseteq Handed /\ new \cap Ids(kept) = {} /\ S \in Things
  BY CanvasIs, WholeIs DEF Boxes, IInv
<1>5. more \in Seq(Handed) /\ Distinct(more) /\ Ids(more) = new
  <2> HIDE DEF S, new
  <2>1. more \in Seq(new) /\ Distinct(more) /\ Ids(more) = new
    BY <1>4, InOrderIs
  <2> QED
    BY <1>4, <2>1
<1> HIDE DEF more, kept, new
<1>6. s \in Seq(Handed) /\ Distinct(s)
  BY <1>3, <1>4, <1>5, BothAre
<1> HIDE DEF s
<1>7. Steady(canvas') /\ Follows(canvas')
  BY <1>2, <1>6 DEF Steady, Canvases, Drags, Follows, Left
<1> QED
  BY <1>2, <1>7, SameStep

\* Shapes that are changed in place, under the snapshot of the gesture.
LEMMA InPlaceIs ==
  ASSUME NEW d, Whole(d), NEW T \in Things, SameTies(d.shapes, T)
  PROVE  LET e == [d EXCEPT !.shapes = T]
         IN  Whole(e) /\ e.shapes = T /\ e.undo = d.undo /\ e.redo = d.redo
<1> DEFINE e == [d EXCEPT !.shapes = T]
<1>1. d \in Documents /\ d.next \in 1 .. MaxShapes + 1
  BY DEF Whole, Documents
<1>2. Joined(T) /\ DOMAIN T = DOMAIN d.shapes
  BY WholeIs, TiesKept DEF SameTies
<1>3. [shapes |-> T, next |-> d.next] \in Drafts
  BY <1>2, WholeIs, DraftIs
<1>4. /\ e \in Documents /\ e.shapes = T /\ e.next = d.next /\ e.undo = d.undo /\ e.redo = d.redo
  BY <1>1 DEF Documents
<1> HIDE DEF e
<1>5. Now(e) \in Drafts /\ Len(e.undo) + Len(e.redo) <= UndoCap
  BY <1>3, <1>4 DEF Now, Whole
<1> QED
  BY <1>4, <1>5 DEF Whole, e

LEMMA GestureStep ==
  ASSUME IInv, canvas.drag \in {"move", "resize"}, canvas' = canvas, UNCHANGED Window,
         Whole(doc'), doc'.undo = doc.undo, doc'.redo = doc.redo
  PROVE  Good
<1>1. /\ disk' = disk /\ path' = path /\ open' = open /\ Steady(canvas') /\ Begun'
  BY DEF Window, IInv, Begun, Entered
<1>2. CleanMeansSaved'
  BY DEF CleanMeansSaved, AtRest, Reshaping
<1>3. CanBeTakenBack
  <2>1. InPlace
    BY DEF InPlace, Reshaping
  <2>2. CASE canvas.began = {}
    BY <2>1, <2>2 DEF CanBeTakenBack, Taken
  <2>3. CASE canvas.began # {}
    <3>1. Covered \/ Pushed
      BY <2>3 DEF IInv, Begun, Entered, Covered, OnUndo, Pushed
    <3> QED
      BY <2>1, <3>1 DEF CanBeTakenBack
  <2> QED
    BY <2>2, <2>3
<1>4. IInv'
  BY <1>1, <1>2 DEF IInv
<1> QED
  BY <1>3, <1>4 DEF Good

LEMMA DraggedKeeps ==
  ASSUME IInv, InCanvas(Dragged)
  PROVE  Good
<1>1. PICK delta \in -1 .. 1 :
        /\ \A i \in DOMAIN doc.shapes : MoveTo(delta)[i].pos \in Positions
        /\ Do([doc EXCEPT !.shapes = MoveTo(delta)], canvas)
  BY DEF InCanvas, Dragged
<1> DEFINE S == doc.shapes
           T == MoveTo(delta)
           at(i) == {k \in DOMAIN canvas.sel \cap DOMAIN canvas.base : canvas.sel[k] = i /\ i \in Boxes(S)}
           to(i) == canvas.base[Max(at(i))] + delta
<1>2. /\ canvas.drag \in {"move", "resize"} /\ UNCHANGED Window /\ Whole(doc)
      /\ doc' = [doc EXCEPT !.shapes = T] /\ canvas' = canvas
  BY <1>1, Zenon DEF InCanvas, Dragged, Do, IInv
<1>3. S \in Things /\ DOMAIN S \subseteq Handed /\ \A i \in DOMAIN S : S[i] \in Shape
  BY <1>2, WholeIs
<1>4. T = [i \in DOMAIN S |-> IF at(i) = {} THEN S[i] ELSE [S[i] EXCEPT !.pos = to(i)]]
  BY Zenon DEF MoveTo
<1> HIDE DEF T, S, at, to
<1>5. DOMAIN T = DOMAIN S /\ T = [i \in DOMAIN S |-> T[i]]
  BY <1>4
<1>6. ASSUME NEW i \in DOMAIN S
      PROVE  /\ T[i] \in Shape /\ T[i].kind = S[i].kind /\ T[i].clean = S[i].clean
             /\ T[i].from = S[i].from /\ T[i].to = S[i].to
  <2>1. T[i] = S[i] \/ T[i] = [S[i] EXCEPT !.pos = to(i)]
    BY <1>4
  <2>2. S[i] \in Shape /\ T[i].pos \in Positions
    BY <1>1, <1>3 DEF S, T
  <2> DEFINE x == to(i)
  <2> HIDE DEF x
  <2>3. CASE T[i] = [S[i] EXCEPT !.pos = x]
    <3>1. T[i].pos = x
      BY <2>2, <2>3 DEF Shape
    <3> QED
      BY <2>2, <2>3, <3>1 DEF Shape
  <2> QED
    BY <2>1, <2>2, <2>3 DEF x
<1>7. T \in Things /\ SameTies(S, T)
  <2>1. T \in [DOMAIN S -> Shape]
    BY <1>5, <1>6
  <2> QED
    BY <1>3, <1>5, <1>6, <2>1, ThingsAre DEF SameTies
<1>8. Whole(doc') /\ doc'.undo = doc.undo /\ doc'.redo = doc.redo
  BY <1>2, <1>7, InPlaceIs DEF S
<1> QED
  BY <1>2, <1>8, GestureStep

LEMMA ResizedKeeps ==
  ASSUME IInv, InCanvas(Resized)
  PROVE  Good
<1>0. PICK i \in (IF canvas.sel # <<>> THEN {canvas.sel[1]} ELSE {canvas.grip, Nobody}), p \in Positions :
        Do(IF i \in DOMAIN doc.shapes
           THEN [doc EXCEPT !.shapes = [doc.shapes EXCEPT ![i].pos = p]] ELSE doc, canvas)
  BY Zenon DEF InCanvas, Resized
<1>1. doc' = IF i \in DOMAIN doc.shapes
             THEN [doc EXCEPT !.shapes = [doc.shapes EXCEPT ![i].pos = p]] ELSE doc
  BY <1>0, Zenon DEF Do
<1>2. canvas.drag \in {"move", "resize"} /\ UNCHANGED Window /\ Whole(doc) /\ canvas' = canvas
  BY DEF InCanvas, Resized, Do, IInv
<1>3. Whole(doc') /\ doc'.undo = doc.undo /\ doc'.redo = doc.redo
  <2>1. CASE i \notin DOMAIN doc.shapes
    BY <1>1, <1>2, <2>1
  <2>2. CASE i \in DOMAIN doc.shapes
    <3> DEFINE T == [doc.shapes EXCEPT ![i].pos = p]
    <3>1. T \in Things /\ SameTies(doc.shapes, T)
      BY <1>2, <2>2, WholeIs, PutIs
    <3>2. doc' = [doc EXCEPT !.shapes = T]
      BY <1>1, <2>2, Zenon
    <3> HIDE DEF T
    <3> QED
      BY <1>2, <3>1, <3>2, InPlaceIs
  <2> QED
    BY <2>1, <2>2
<1> QED
  BY <1>2, <1>3, GestureStep

\* The end of a gesture marks the document.
LEMMA GestureEndsKeeps ==
  ASSUME IInv, InCanvas(GestureEnds)
  PROVE  Good
<1>1. /\ doc' = [doc EXCEPT !.modified = TRUE]
      /\ canvas' = [canvas EXCEPT !.drag = "none", !.began = {}]
      /\ disk' = disk /\ path' = path /\ open' = open /\ Whole(doc) /\ Steady(canvas)
  BY DEF InCanvas, GestureEnds, Window, IInv
<1>2. Steady(canvas') /\ canvas'.began = {}
  BY <1>1 DEF Steady, Canvases, Drags
<1>3. /\ doc' \in Documents /\ doc'.modified /\ doc'.shapes = doc.shapes /\ doc'.next = doc.next
      /\ doc'.undo = doc.undo /\ doc'.redo = doc.redo
  BY <1>1 DEF Whole, Documents
<1>4. Whole(doc')
  BY <1>1, <1>3 DEF Whole, Now
<1>5. CleanMeansSaved' /\ CanBeTakenBack /\ Begun'
  BY <1>2, <1>3 DEF CleanMeansSaved, CanBeTakenBack, Begun
<1>6. IInv'
  BY <1>1, <1>2, <1>4, <1>5 DEF IInv
<1> QED
  BY <1>5, <1>6 DEF Good

\* A look for one shape.
LEMMA LookStep ==
  ASSUME IInv, NEW i, NEW l \in Looks, doc' = SetLook(doc, i, l, FALSE), Steady(canvas'),
         Follows(canvas'), UNCHANGED Window
  PROVE  Good
<1>1. Edit1(doc, doc')
  BY SetLookIs DEF IInv
<1>2. Fine(doc, doc')
  BY <1>1, FineOnce DEF IInv
<1> QED
  BY <1>2, FineStep

LEMMA DropColourAtKeeps ==
  ASSUME IInv, InCanvas(DropColourAt)
  PROVE  Good
<1>1. PICK look \in Looks, hit \in Hits(doc.shapes) \ {Nobody} :
        Do(SetLook(doc, hit, look, FALSE), canvas)
  BY DEF InCanvas, DropColourAt
<1>2. doc' = SetLook(doc, hit, look, FALSE) /\ canvas' = canvas /\ UNCHANGED Window
  BY <1>1 DEF InCanvas, Do
<1>3. Steady(canvas') /\ Follows(canvas')
  BY <1>2 DEF IInv, Follows, Left
<1> QED
  BY <1>2, <1>3, LookStep
-----------------------------------------------------------------------------
(* Keys and messages.                                                      *)

LEMMA DeleteSelectionKeeps ==
  ASSUME IInv, InCanvas(DeleteSelection)
  PROVE  Good
<1>1. /\ doc' = RemoveShapes(doc, Ids(canvas.sel)) /\ canvas' = [canvas EXCEPT !.sel = <<>>]
      /\ UNCHANGED Window /\ Whole(doc) /\ Steady(canvas)
  BY DEF InCanvas, DeleteSelection, Do, Select, IInv
<1>2. Fine(doc, doc')
  BY <1>1, RemoveShapesIs, FineOnce
<1>3. Steady(canvas') /\ Follows(canvas')
  BY <1>1, NoneIs DEF Steady, Canvases, Follows, Left
<1> QED
  BY <1>1, <1>2, <1>3, FineStep

LEMMA NudgeSelectionKeeps ==
  ASSUME IInv, InCanvas(NudgeSelection)
  PROVE  Good
<1>1. PICK dx \in {-1, 1} :
        /\ \A i \in Ids(canvas.sel) \cap Boxes(doc.shapes) : doc.shapes[i].pos + dx \in Positions
        /\ Do(Nudge(doc, canvas.sel, dx), canvas)
  BY DEF InCanvas, NudgeSelection
<1> DEFINE s == canvas.sel
           n == Len(s)
<1>2. /\ doc' = Nudge(doc, s, dx) /\ canvas' = canvas /\ UNCHANGED Window
      /\ Whole(doc) /\ Steady(canvas) /\ s \in Seq(Handed) /\ Distinct(s) /\ dx \in Int
  BY <1>1, CanvasIs DEF InCanvas, NudgeSelection, Do, IInv
<1>3. n \in Nat /\ n <= MaxShapes
  BY <1>2, DistinctIsShort
<1>4. Edits(doc, doc', n)
  BY <1>1, <1>2, NudgeIs
<1>5. Fine(doc, doc')
  BY <1>2, <1>3, <1>4, EditsAreFine
<1> QED
  BY <1>2, <1>5, FineStep DEF Follows, Left

LEMMA EscapeKeeps ==
  ASSUME IInv, InCanvas(Escape)
  PROVE  Good
<1>1. /\ doc' = doc /\ canvas' = [canvas EXCEPT !.sel = <<>>] /\ UNCHANGED Window /\ Steady(canvas)
  BY DEF InCanvas, Escape, Do, Select, IInv
<1>2. Steady(canvas') /\ Follows(canvas')
  BY <1>1, NoneIs DEF Steady, Canvases, Follows, Left
<1> QED
  BY <1>1, <1>2, SameStep

LEMMA EnterKeyKeeps ==
  ASSUME IInv, InCanvas(EnterKey)
  PROVE  Good
<1>1. /\ doc' = doc /\ canvas' = OpenLabelEditor(canvas) /\ UNCHANGED Window /\ Steady(canvas)
  BY DEF InCanvas, EnterKey, Do, IInv
<1>2. Steady(canvas') /\ Follows(canvas')
  BY <1>1, EditorIs DEF Follows, Left
<1> QED
  BY <1>1, <1>2, SameStep

LEMMA LabelEditKeeps ==
  ASSUME IInv, InCanvas(CommitLabelEdit) \/ InCanvas(CancelLabelEdit)
  PROVE  Good
<1>1. canvas' = [canvas EXCEPT !.editor = Nobody] /\ UNCHANGED Window /\ Steady(canvas)
  BY DEF InCanvas, CommitLabelEdit, CancelLabelEdit, Do, IInv
<1>2. Steady(canvas') /\ Follows(canvas')
  BY <1>1, HandedIs DEF Steady, Canvases, Nobody, Follows, Left
<1>3. CASE InCanvas(CommitLabelEdit)
  <2>1. PICK look \in Looks : doc' = SetLook(doc, canvas.editor, look, FALSE)
    BY <1>3 DEF InCanvas, CommitLabelEdit, Do
  <2> QED
    BY <1>1, <1>2, <2>1, LookStep
<1>4. CASE InCanvas(CancelLabelEdit)
  <2>1. doc' = doc
    BY <1>4 DEF InCanvas, CancelLabelEdit, Do
  <2> QED
    BY <1>1, <1>2, <2>1, SameStep
<1> QED
  BY <1>3, <1>4

LEMMA PickToolKeeps ==
  ASSUME IInv, PickTool
  PROVE  Good
<1>1. PICK t \in Tools : canvas' = [canvas EXCEPT !.tool = t] /\ doc' = doc
  BY DEF PickTool, Tool
<1>2. Steady(canvas') /\ Follows(canvas')
  BY <1>1 DEF Steady, Canvases, IInv, Follows, Left
<1>3. UNCHANGED Window
  BY DEF PickTool
<1> QED
  BY <1>1, <1>2, <1>3, SameStep

\* What a menu or the inspector does to the document alone.
LEMMA EditStep ==
  ASSUME IInv, NEW d, Edit(d), Fine(doc, d)
  PROVE  Good
<1>1. doc' = d /\ canvas' = canvas /\ UNCHANGED Window
  BY DEF Edit, Do
<1>2. Steady(canvas') /\ Follows(canvas') /\ Fine(doc, doc')
  BY <1>1 DEF IInv, Follows, Left
<1> QED
  BY <1>1, <1>2, FineStep

LEMMA MenuTravelKeeps ==
  ASSUME IInv, MenuUndo \/ MenuRedo
  PROVE  Good
<1>1. Whole(doc)
  BY DEF IInv
<1>2. CASE MenuUndo
  <2> DEFINE stack == Undo(doc).undo
             held == {b \in canvas.began : \E k \in DOMAIN stack : stack[k] = b}
  <2>1. doc' = Undo(doc) /\ canvas' = [canvas EXCEPT !.began = held] /\ UNCHANGED Window
    BY <1>2 DEF MenuUndo, Do
  <2>2. Sane(doc, doc')
    BY <1>1, <2>1, UndoIs
  <2>3. held \subseteq canvas.began /\ held \subseteq Entered(doc')
    BY <2>1 DEF Entered
  <2> HIDE DEF held, stack
  <2>4. /\ Steady(canvas') /\ canvas'.began = held
        /\ canvas'.drag = canvas.drag /\ canvas'.cut = canvas.cut
    BY <2>1, <2>3 DEF IInv, Steady, Canvases
  <2>5. Begun'
    BY <2>3, <2>4 DEF Begun, Entered
  <2> QED
    BY <2>1, <2>2, <2>4, <2>5, SaneStep DEF Left
<1>3. CASE MenuRedo
  <2> DEFINE d == Redo(doc)
  <2>1. Edit(d) /\ Fine(doc, d)
    BY <1>1, <1>3, RedoIs DEF MenuRedo
  <2> HIDE DEF d
  <2> QED
    BY <2>1, EditStep
<1> QED
  BY <1>2, <1>3

LEMMA MenuAlignKeeps ==
  ASSUME IInv, MenuAlign
  PROVE  Good
<1> DEFINE ids == Ids(canvas.sel)
<1>1. Alignable(doc, ids) /\ \E put \in [ids -> Frame(doc, ids)] : Edit(Align(doc, ids, put))
  BY Zenon DEF MenuAlign
<1> HIDE DEF ids
<1>2. PICK put \in [ids -> Frame(doc, ids)] : Edit(Align(doc, ids, put))
  BY <1>1
<1> DEFINE d == Align(doc, ids, put)
<1>3. Fine(doc, d)
  BY <1>1, AlignIs, FineOnce DEF IInv
<1>4. Edit(d)
  BY <1>2
<1> HIDE DEF d
<1> QED
  BY <1>3, <1>4, EditStep

LEMMA WalkStep ==
  ASSUME IInv, NEW d, Edit(d), Edits(doc, d, Len(canvas.sel))
  PROVE  Good
<1> DEFINE n == Len(canvas.sel)
<1>1. n \in Nat /\ n <= MaxShapes
  BY CanvasIs, DistinctIsShort
<1>2. Fine(doc, d)
  <2> HIDE DEF n
  <2>1. Edits(doc, d, n)
    BY DEF n
  <2> QED
    BY <1>1, <2>1, EditsAreFine DEF IInv
<1> QED
  BY <1>2, EditStep

LEMMA MenuZOrderKeeps ==
  ASSUME IInv, MenuZOrder
  PROVE  Good
<1>1. PICK toFront \in BOOLEAN : Edit(Restack(toFront))
  BY DEF MenuZOrder
<1> DEFINE d == Restack(toFront)
<1>2. Edit(d) /\ Edits(doc, d, Len(canvas.sel))
  BY <1>1, CanvasIs, RestackIs DEF IInv
<1> HIDE DEF d
<1> QED
  BY <1>2, WalkStep

LEMMA ApplyInspectorKeeps ==
  ASSUME IInv, ApplyInspector
  PROVE  Good
<1>1. CASE \E look \in Looks, flags \in BOOLEAN : Edit(ApplyLook(look, flags))
  <2>1. PICK look \in Looks, flags \in BOOLEAN : Edit(ApplyLook(look, flags))
    BY <1>1
  <2> DEFINE d == ApplyLook(look, flags)
  <2>2. Edit(d) /\ Edits(doc, d, Len(canvas.sel))
    BY <2>1, CanvasIs, ApplyLookIs DEF IInv
  <2> HIDE DEF d
  <2> QED
    BY <2>2, WalkStep
<1>2. CASE OneBoxSelected /\ \E p \in Positions : Edit(SetShapeRect(doc, canvas.sel[1], p))
  <2>1. PICK p \in Positions : Edit(SetShapeRect(doc, canvas.sel[1], p))
    BY <1>2
  <2> DEFINE d == SetShapeRect(doc, canvas.sel[1], p)
  <2>2. Edit(d) /\ Fine(doc, d)
    BY <2>1, SetShapeRectIs, FineOnce DEF IInv
  <2> HIDE DEF d
  <2> QED
    BY <2>2, EditStep
<1> QED
  BY <1>1, <1>2 DEF ApplyInspector

\* The image is loaded without a snapshot; the shape that follows takes one,
\* of a drawing that is what it was.
LEMMA ScriptAddShapeKeeps ==
  ASSUME IInv, ScriptAddShape
  PROVE  Good
<1>1. PICK p \in Positions, look \in Looks :
        \/ Edit(AddShape(doc, NewBox(p, look)))
        \/ \E pic \in Pictures :
             Edit(AddShape(AddImage(doc, pic), NewImage(p, look, doc.nextImage)))
  BY DEF ScriptAddShape
<1>2. Room(1) /\ Whole(doc) /\ doc.next \in Handed
  BY RoomIs DEF ScriptAddShape, IInv
<1>3. CASE Edit(AddShape(doc, NewBox(p, look)))
  <2> DEFINE d == AddShape(doc, NewBox(p, look))
  <2>1. Edit(d) /\ Fine(doc, d)
    BY <1>2, <1>3, BoxAdded
  <2> HIDE DEF d
  <2> QED
    BY <2>1, EditStep
<1>4. CASE \E pic \in Pictures : Edit(AddShape(AddImage(doc, pic), NewImage(p, look, doc.nextImage)))
  <2>1. PICK pic \in Pictures : Edit(AddShape(AddImage(doc, pic), NewImage(p, look, doc.nextImage)))
    BY <1>4
  <2> DEFINE b == AddImage(doc, pic)
             s == NewImage(p, look, doc.nextImage)
             d == AddShape(b, s)
  <2>2. /\ Whole(b) /\ b.shapes = doc.shapes /\ b.next = doc.next /\ Now(b) = Now(doc)
        /\ b.undo = doc.undo /\ b.redo = doc.redo /\ doc.nextImage \in Nat
    BY <1>2, AddImageIs
  <2>3. s \in Shape /\ s.kind = "image"
    BY <2>2, NewShapesAre
  <2>4. Edit(d)
    BY <2>1
  <2> HIDE DEF b, s
  <2>5. Edit1(b, d) /\ d # b
    BY <1>2, <2>2, <2>3, AddShapeIs
  <2> HIDE DEF d
  <2>6. Edits(b, d, 1)
    BY <2>2, <2>5, EditsOnce
  <2>7. Whole(d) /\ d.modified /\ Recalls(b, d, 1)
    BY <2>5, <2>6, DrawAssumption DEF Edits
  <2>8. Fine(doc, d)
    <3>1. Grows(doc, d)
      <4>1. Grows(b, d)
        BY <2>2, <2>5, GrowsOnce
      <4> QED
        BY <2>2, <4>1, Zenon DEF Grows, Entered
    <3> QED
      BY <2>2, <2>7, <3>1 DEF Fine, Sane, Marks, Backs, Recalls
  <2> QED
    BY <2>4, <2>8, EditStep
<1> QED
  BY <1>1, <1>3, <1>4

\* Ids that were given one after the other.
LEMMA RunIs ==
  ASSUME NEW first \in Nat \ {0}, NEW n \in Nat, first + n <= MaxShapes + 1
  PROVE  LET s == [k \in 1 .. n |-> first - 1 + k] IN s \in Seq(Handed) /\ Distinct(s)
<1> DEFINE s == [k \in 1 .. n |-> first - 1 + k]
<1>1. \A k \in 1 .. n : first - 1 + k \in Handed
  BY BoundAssumption DEF Handed
<1>2. s \in [1 .. n -> Handed]
  BY <1>1
<1>3. s \in Seq(Handed) /\ DOMAIN s = 1 .. n
  BY <1>2
<1>4. \A j, k \in 1 .. n : s[j] = s[k] => j = k
  OBVIOUS
<1> HIDE DEF s
<1>5. Distinct(s)
  BY <1>3, <1>4 DEF Distinct
<1> QED
  BY <1>3, <1>5 DEF s

\* Connectors that are added one after the other, between whatever there is,
\* after other edits.
LEMMA JoinsIs ==
  ASSUME NEW o, Whole(o), NEW b \in Nat, NEW d, Edits(o, d, b), NEW lines \in Seq(Handed), d.next + Len(lines) <= MaxShapes + 1,
         NEW S \in Things, \A k \in DOMAIN lines : lines[k] \in DOMAIN S,
         NEW from \in [DOMAIN lines -> Nat], NEW to \in [DOMAIN lines -> Nat]
  PROVE  Edits(o, Joins(d, lines, from, to, S), b + Len(lines))
<1> DEFINE n == Len(lines)
           line(e, k) == NewConnector(e.shapes, from[k], to[k], S[lines[k]].pos, S[lines[k]].look)
           More(e, k) == e.next = d.next + k
           D == [k \in 0 .. n |-> {e \in Documents : Edits(o, e, b + k) /\ More(e, k)}]
           g == [k \in 1 .. n |-> [e \in Documents |-> AddShape(e, line(e, k))]]
           Walks(f) == f = [k \in 0 .. n |-> IF k = 0 THEN d ELSE AddShape(f[k - 1], line(f[k - 1], k))]
           w == CHOOSE f : Walks(f)
<1>1. n \in Nat /\ DOMAIN lines = 1 .. n /\ d.next \in 1 .. MaxShapes + 1 /\ d.next + n <= MaxShapes + 1
  BY WholeIs DEF Edits
<1> HIDE DEF n
<1>2. d \in D[0]
  <2>1. Edits(o, d, b + 0)
    OBVIOUS
  <2>2. d \in Documents
    BY DEF Edits, Whole
  <2>3. 0 \in 0 .. n /\ More(d, 0)
    BY <1>1
  <2> HIDE DEF More
  <2> QED
    BY <2>1, <2>2, <2>3
<1>3. ASSUME NEW k \in 1 .. n, NEW e \in D[k - 1]
      PROVE  AddShape(e, line(e, k)) \in D[k] /\ e \in Documents
  <2> DEFINE t == line(e, k)
             f == AddShape(e, t)
             m == k - 1
  <2>1. m \in 0 .. n /\ k \in 0 .. n /\ m + 1 = k /\ m \in Nat /\ k \in DOMAIN lines
    BY <1>1
  <2>2. e \in Documents /\ Edits(o, e, b + m) /\ More(e, m) /\ Whole(e)
    <3> HIDE DEF More
    <3> QED
      BY <2>1 DEF Edits
  <2>3. t \in Shape /\ (t.clean => Ends(t) \subseteq Boxes(e.shapes))
    <3> DEFINE p == S[lines[k]].pos
               l == S[lines[k]].look
               a == from[k]
               c == to[k]
    <3>1. S[lines[k]] \in Shape
      BY <2>1, ThingsAre
    <3>2. p \in Positions /\ l \in Looks
      BY <3>1, ShapesAre
    <3>3. a \in Nat /\ c \in Nat
      BY <2>1
    <3> HIDE DEF p, l, a, c
    <3>4. LET x == NewConnector(e.shapes, a, c, p, l)
          IN  x \in Shape /\ (x.clean => Ends(x) \subseteq Boxes(e.shapes))
      BY <3>2, <3>3, NewShapesAre
    <3> QED
      BY <3>4 DEF p, l, a, c
  <2>4. e.next = d.next + m /\ e.next \in Handed
    <3>1. e.next = d.next + m
      BY <2>2
    <3>2. d.next + m \in 1 .. MaxShapes
      BY <1>1, <2>1, BoundAssumption
    <3> QED
      BY <3>1, <3>2 DEF Handed
  <2> HIDE DEF t, f
  <2>5. Edit1(e, f) /\ f.next = e.next + 1
    BY <2>2, <2>3, <2>4, AddShapeIs DEF f
  <2>6. More(f, k)
    BY <1>1, <2>1, <2>4, <2>5
  <2> HIDE DEF m, More
  <2>7. Edits(o, f, b + m + 1)
    <3>1. b + m \in Nat
      BY <2>1
    <3> QED
      BY <2>2, <2>5, <3>1, EditsGoOn
  <2>8. f \in Documents /\ Edits(o, f, b + k)
    <3>1. b + m + 1 = b + k
      BY <2>1
    <3>2. f \in Documents
      BY <2>7 DEF Edits, Whole
    <3> QED
      BY <2>7, <3>1, <3>2
  <2>9. f \in D[k]
    BY <2>1, <2>6, <2>8
  <2> HIDE DEF D
  <2> QED
    BY <2>2, <2>9 DEF f, t
<1> HIDE DEF More, line
<1>4. \E f : Walks(f)
  <2>1. D \in [0 .. n -> SUBSET Documents]
    OBVIOUS
  <2>2. ASSUME NEW k \in 1 .. n, NEW e \in D[k - 1] PROVE g[k][e] \in D[k]
    <3>1. g[k][e] = AddShape(e, line(e, k))
      BY <1>3
    <3> HIDE DEF g, D
    <3> QED
      BY Zenon, <1>3, <3>1
  <2> HIDE DEF D, g
  <2>3. Keeps(n, D, g)
    BY <2>2 DEF Keeps
  <2>4. PICK f \in [0 .. n -> Documents] : Walked(f, n, D, d, g)
    BY <1>1, <1>2, <2>1, <2>3, WalkIs
  <2>5. /\ f[0] = d /\ \A k \in 1 .. n : f[k] = g[k][f[k - 1]]
        /\ \A k \in 0 .. n : f[k] \in D[k]
    BY <2>4 DEF Walked
  <2>6. \A k \in 1 .. n : g[k][f[k - 1]] = AddShape(f[k - 1], line(f[k - 1], k))
    <3>1. \A k \in 1 .. n : f[k - 1] \in Documents
      BY <1>1
    <3> QED
      BY <3>1 DEF g
  <2>7. \A k \in 0 .. n : k # 0 => k \in 1 .. n
    BY <1>1
  <2>8. Walks(f)
    <3>1. f = [k \in 0 .. n |-> f[k]]
      BY <2>5
    <3> QED
      BY Zenon, <2>5, <2>6, <2>7, <3>1
  <2> QED
    BY Zenon, <2>8
<1>5. Walks(w)
  BY Zenon, <1>4
<1>6. Joins(d, lines, from, to, S) = w[n]
  BY Zenon DEF Joins, n, line
<1> HIDE DEF w
<1>7. w[0] = d /\ \A k \in 1 .. n : w[k] = AddShape(w[k - 1], line(w[k - 1], k))
  <2>1. 0 \in 0 .. n /\ \A k \in 1 .. n : k \in 0 .. n /\ k # 0
    BY <1>1
  <2> QED
    BY <1>5, <2>1, Zenon
<1> HIDE DEF D
<1>8. \A k \in 0 .. n : w[k] \in D[k]
  <2>1. w[0] \in D[0] /\ \A k \in 1 .. n : w[k - 1] \in D[k - 1] => w[k] \in D[k]
    BY Zenon, <1>2, <1>3, <1>7
  <2> QED
    BY <1>1, <2>1, WalkStays
<1>9. w[n] \in D[n]
  <2>1. n \in 0 .. n
    BY <1>1
  <2> QED
    BY <1>8, <2>1
<1> QED
  BY <1>1, <1>6, <1>9 DEF D, n

LEMMA DuplicateSelectionKeeps ==
  ASSUME IInv, InCanvas(DuplicateSelection)
  PROVE  Good
<1> DEFINE S     == doc.shapes
           boxes == BoxesIn(canvas.sel, S)
           lines == Within(canvas.sel, S)
           m     == Len(boxes)
           n     == Len(lines)
           twins == {doc.next - 1 + k : k \in DOMAIN boxes} \cup {Nobody}
           s     == [k \in 1 .. m + n |-> doc.next - 1 + k]
           d     == Copies(doc, boxes)
<1>1. /\ Room(m + n) /\ \A k \in DOMAIN boxes : S[boxes[k]].pos + 1 \in Positions
      /\ \E from, to \in [DOMAIN lines -> twins] :
           Do(Joins(d, lines, from, to, S), Select(canvas, s))
  BY Zenon DEF InCanvas, DuplicateSelection
<1>2. PICK from, to \in [DOMAIN lines -> twins] : Do(Joins(d, lines, from, to, S), Select(canvas, s))
  <2> HIDE DEF lines, twins, d, s, S
  <2> QED
    BY <1>1
<1>3. /\ UNCHANGED Window /\ Whole(doc) /\ Steady(canvas) /\ canvas.sel \in Seq(Handed)
      /\ doc.next \in 1 .. MaxShapes + 1 /\ doc.next \in Nat \ {0} /\ MaxShapes \in Nat
      /\ S \in Things
  BY CanvasIs, WholeIs, BoundAssumption DEF InCanvas, IInv
<1>4. boxes \in Seq(Handed) /\ \A k \in DOMAIN boxes : boxes[k] \in Boxes(S)
  BY <1>3, ChosenIs DEF BoxesIn
<1>5. lines \in Seq(Handed) /\ \A k \in DOMAIN lines : lines[k] \in DOMAIN S
  <2>1. lines = Chosen(canvas.sel, {c \in Connectors(S) : Ends(S[c]) \subseteq Ids(boxes)})
    BY Zenon DEF Within
  <2> HIDE DEF lines, boxes
  <2>2. /\ lines \in Seq(Handed)
        /\ \A k \in DOMAIN lines : lines[k] \in {c \in Connectors(S) : Ends(S[c]) \subseteq Ids(boxes)}
    BY <1>3, <2>1, ChosenIs
  <2> QED
    BY <2>2 DEF Connectors
<1>6. m \in Nat /\ DOMAIN boxes = 1 .. m /\ n \in Nat
  BY <1>4, <1>5
<1>7. twins \subseteq Nat
  <2> HIDE DEF boxes, m
  <2>1. \A k \in 1 .. m : doc.next - 1 + k \in Nat
    BY <1>3, <1>6
  <2> QED
    BY <1>6, <2>1 DEF Nobody
<1> HIDE DEF twins
<1>8. from \in [DOMAIN lines -> Nat] /\ to \in [DOMAIN lines -> Nat]
  <2> HIDE DEF lines
  <2> QED
    BY <1>2, <1>7
<1> HIDE DEF m, n
<1>9. doc.next + m <= MaxShapes + 1 /\ doc.next + m + n <= MaxShapes + 1 /\ m + n <= MaxShapes
  <2> DEFINE first == doc.next
  <2>1. first + (m + n) <= MaxShapes + 1 /\ first \in Nat \ {0}
    BY <1>1, <1>3 DEF Room
  <2> HIDE DEF first
  <2>2. first + m <= MaxShapes + 1 /\ first + m + n <= MaxShapes + 1 /\ m + n <= MaxShapes
    BY <1>3, <1>6, <2>1
  <2> QED
    BY <2>2 DEF first
<1>10. Edits(doc, d, m) /\ d.next = doc.next + m
  <2>1. doc.next + Len(boxes) <= MaxShapes + 1
    BY <1>9 DEF m
  <2> HIDE DEF boxes
  <2> QED
    BY <1>1, <1>3, <1>4, <2>1, CopiesIs DEF m
<1> DEFINE e == Joins(d, lines, from, to, S)
<1>11. doc' = e /\ canvas' = Select(canvas, s)
  BY <1>2, Zenon DEF Do
<1>12. Edits(doc, e, m + n)
  <2> HIDE DEF d, S, lines
  <2>1. d.next + Len(lines) <= MaxShapes + 1
    BY <1>9, <1>10 DEF n
  <2> QED
    BY <1>3, <1>5, <1>6, <1>8, <1>10, <2>1, JoinsIs DEF n
<1>13. s \in Seq(Handed) /\ Distinct(s)
  <2>1. m + n \in Nat /\ doc.next + (m + n) <= MaxShapes + 1
    BY <1>1, <1>6 DEF Room
  <2> QED
    BY <1>3, <2>1, RunIs
<1> HIDE DEF s, e
<1>14. Steady(canvas') /\ Follows(canvas')
  BY <1>3, <1>11, <1>13 DEF Steady, Canvases, Select, Follows, Left
<1>15. Fine(doc, doc')
  <2>1. m + n \in Nat
    BY <1>6
  <2> QED
    BY <1>3, <1>9, <1>11, <1>12, <2>1, EditsAreFine
<1> QED
  BY <1>3, <1>14, <1>15, FineStep

LEMMA SelectAllKeeps ==
  ASSUME IInv, InCanvas(SelectAll)
  PROVE  Good
<1> DEFINE I == Boxes(doc.shapes)
           s == InOrder(I, doc.shapes)
<1>1. /\ doc' = doc /\ canvas' = [canvas EXCEPT !.sel = s] /\ UNCHANGED Window /\ Steady(canvas)
  BY DEF InCanvas, SelectAll, Do, Select, IInv
<1>2. doc.shapes \in Things /\ I \subseteq DOMAIN doc.shapes /\ I \subseteq Handed
  BY WholeIs, CanvasIs DEF IInv, Boxes
<1>3. s \in Seq(Handed) /\ Distinct(s)
  <2> HIDE DEF I
  <2>1. s \in Seq(I) /\ Distinct(s)
    BY <1>2, InOrderIs
  <2> QED
    BY <1>2, <2>1
<1> HIDE DEF s
<1>4. Steady(canvas') /\ Follows(canvas')
  BY <1>1, <1>3 DEF Steady, Canvases, Follows, Left
<1> QED
  BY <1>1, <1>4, SameStep

LEMMA QueueConnectorKeeps ==
  ASSUME IInv, InCanvas(QueueConnector)
  PROVE  Good
<1> DEFINE S == doc.shapes
           order == InOrder(Boxes(S), S)
           n == Len(order)
<1>1. n >= 2 /\ Room(1) /\ UNCHANGED Window /\ Steady(canvas)
  BY DEF InCanvas, QueueConnector, IInv
<1>2. PICK p \in Positions, look \in Looks :
        Do(AddShape(doc, NewConnector(S, order[n - 1], order[n], p, look)),
           Select(canvas, <<doc.next>>))
  BY Zenon DEF InCanvas, QueueConnector
<1>3. S \in Things /\ Boxes(S) \subseteq DOMAIN S /\ Boxes(S) \subseteq Handed
  BY WholeIs, CanvasIs DEF IInv, Boxes
<1>4. order \in Seq(Boxes(S))
  <2> HIDE DEF S
  <2> QED
    BY <1>3, InOrderIs
<1>5. order[n - 1] \in Nat /\ order[n] \in Nat
  <2> HIDE DEF order
  <2>1. n \in Nat /\ DOMAIN order = 1 .. n
    BY <1>4
  <2> HIDE DEF n
  <2>2. n - 1 \in 1 .. n /\ n \in 1 .. n
    BY <1>1, <2>1
  <2>3. order[n - 1] \in Boxes(S) /\ order[n] \in Boxes(S)
    BY <1>4, <2>1, <2>2
  <2> QED
    BY <1>3, <2>3, HandedIs
<1> DEFINE a == order[n - 1]
           b == order[n]
           d == AddShape(doc, NewConnector(S, a, b, p, look))
<1>6. doc' = d /\ canvas' = Select(canvas, <<doc.next>>)
  BY <1>2, Zenon DEF Do
<1> HIDE DEF n, order
<1>7. Fine(doc, d)
  <2> HIDE DEF a, b
  <2>1. a \in Nat /\ b \in Nat
    BY <1>5 DEF a, b
  <2> QED
    BY <1>1, <2>1, LineAdded
<1> HIDE DEF d
<1>8. Steady(canvas') /\ Follows(canvas')
  BY <1>1, <1>6, NewSelected DEF Follows, Left
<1> QED
  BY <1>1, <1>6, <1>7, <1>8, FineStep
-----------------------------------------------------------------------------
(* Files.                                                                  *)

LEMMA CleanedIs ==
  ASSUME NEW d, Whole(d)
  PROVE  LET e == [d EXCEPT !.modified = FALSE]
         IN  Whole(e) /\ e.shapes = d.shapes /\ e.undo = d.undo
<1> DEFINE e == [d EXCEPT !.modified = FALSE]
<1>1. /\ e \in Documents /\ e.shapes = d.shapes /\ e.next = d.next
      /\ e.undo = d.undo /\ e.redo = d.redo
  BY DEF Whole, Documents
<1> HIDE DEF e
<1>2. Whole(e)
  BY <1>1 DEF Whole, Now
<1> QED
  BY <1>1, <1>2 DEF e

LEMMA SaveKeeps ==
  ASSUME IInv, Save
  PROVE  Good
<1>1. PICK f \in Files :
        \/ Write(f) /\ path' = {f} /\ Do([doc EXCEPT !.modified = FALSE], Uncut(canvas))
        \/ Do(doc, canvas) /\ UNCHANGED <<disk, path>>
  BY DEF Save
<1>2. open' = open /\ Whole(doc) /\ Steady(canvas)
  BY <1>1 DEF Save, IInv
<1>3. CASE Write(f) /\ path' = {f} /\ Do([doc EXCEPT !.modified = FALSE], Uncut(canvas))
  <2>1. /\ disk' = [disk EXCEPT ![f] = Saved(doc)] /\ path' = {f}
        /\ doc' = [doc EXCEPT !.modified = FALSE] /\ canvas' = [canvas EXCEPT !.cut = FALSE]
    BY <1>3 DEF Write, Do, Uncut
  <2>0. Steady(canvas') /\ canvas'.began = canvas.began
    BY <1>2, <2>1 DEF Steady, Canvases
  <2>2. Whole(doc') /\ doc'.shapes = doc.shapes /\ doc'.undo = doc.undo
    BY <1>2, <2>1, CleanedIs
  <2>3. /\ DOMAIN disk' = Files /\ disk'[f] = Saved(doc)
        /\ \A g \in Files : g # f => disk'[g] = disk[g]
    BY <2>1 DEF IInv
  <2>4. File(Saved(doc)) /\ Saved(doc).shapes = doc.shapes
    BY <1>2, SavedIs
  <2>5. \A g \in Files : File(disk'[g])
    BY <2>3, <2>4 DEF IInv
  <2>6. CleanMeansSaved' /\ CanBeTakenBack /\ Begun'
    <3>1. CleanMeansSaved' /\ CanBeTakenBack
      BY <2>1, <2>2, <2>3, <2>4 DEF CleanMeansSaved, OnDisk, CanBeTakenBack
    <3>2. Begun'
      BY <2>0, <2>2 DEF IInv, Begun, Entered
    <3> QED
      BY <3>1, <3>2
  <2>7. path' \subseteq Files /\ open' \in BOOLEAN
    BY <1>2, <2>1 DEF IInv
  <2>8. IInv'
    BY <2>0, <2>2, <2>3, <2>5, <2>6, <2>7 DEF IInv
  <2> QED
    BY <2>6, <2>8 DEF Good
<1>4. CASE Do(doc, canvas) /\ UNCHANGED <<disk, path>>
  <2>1. doc' = doc /\ canvas' = canvas /\ UNCHANGED Window
    BY <1>2, <1>4 DEF Do, Window
  <2>2. Steady(canvas') /\ Follows(canvas')
    BY <1>2, <2>1 DEF Follows, Left
  <2> QED
    BY <2>1, <2>2, SameStep
<1> QED
  BY <1>1, <1>3, <1>4

\* What there is on disk when a document is saved before it goes.
LEMMA KeptIs ==
  ASSUME IInv, NEW files, files = [g \in Files |-> IF g \in path THEN Saved(doc) ELSE disk[g]]
  PROVE  /\ DOMAIN files = Files /\ \A g \in Files : File(files[g])
         /\ \A g \in path : files[g].shapes = doc.shapes
<1>1. File(Saved(doc)) /\ Saved(doc).shapes = doc.shapes
  BY SavedIs DEF IInv
<1> QED
  BY <1>1 DEF IInv

LEMMA OpenFileKeeps ==
  ASSUME IInv, OpenFile
  PROVE  Good
<1> DEFINE saved == [g \in Files |-> IF g \in path THEN Saved(doc) ELSE disk[g]]
           c == [Uncut(Select(canvas, <<>>)) EXCEPT !.began = {}]
<1>1. PICK f \in Files : \E files \in {disk, saved} :
        disk' = files /\ Do(Load(doc, files[f]), c) /\ path' = {f}
  <2>1. PICK f \in Files :
          LET kept == IF doc.modified /\ path # {} THEN {disk, saved} ELSE {disk}
          IN  \E files \in kept :
                disk' = files /\ Do(Load(doc, files[f]), c) /\ path' = {f}
    BY Zenon DEF OpenFile
  <2> HIDE DEF saved, c
  <2> QED
    BY <2>1
<1>2. PICK files \in {disk, saved} :
        disk' = files /\ Do(Load(doc, files[f]), c) /\ path' = {f}
  BY <1>1
<1>3. DOMAIN files = Files /\ \A g \in Files : File(files[g])
  <2>1. CASE files = disk
    BY <2>1 DEF IInv
  <2>2. CASE files = saved
    BY <2>2, KeptIs
  <2> QED
    BY <1>2, <2>1, <2>2
<1>4. doc' = Load(doc, files[f]) /\ canvas' = c /\ disk' = files /\ path' = {f} /\ open' = open
  BY <1>2 DEF OpenFile, Do
<1>5. /\ Whole(doc') /\ doc'.shapes = files[f].shapes /\ ~doc'.modified
      /\ doc'.undo = <<>> /\ doc'.redo = <<>>
  BY <1>3, <1>4, LoadIs DEF IInv
<1>6. Steady(canvas') /\ canvas'.began = {}
  <2>1. c = [canvas EXCEPT !.sel = <<>>, !.cut = FALSE, !.began = {}]
    BY Zenon DEF Uncut, Select
  <2> HIDE DEF c
  <2> QED
    BY <1>4, <2>1, NoneIs DEF Steady, Canvases, IInv
<1>7. CleanMeansSaved' /\ CanBeTakenBack /\ Begun'
  BY <1>4, <1>5, <1>6 DEF CleanMeansSaved, OnDisk, CanBeTakenBack, Opened, Begun
<1>8. IInv'
  BY <1>3, <1>4, <1>5, <1>6, <1>7 DEF IInv
<1> QED
  BY <1>7, <1>8 DEF Good

LEMMA CloseKeeps ==
  ASSUME IInv, Close
  PROVE  Good
<1>1. canvas' = canvas /\ path' = path /\ open' = FALSE /\ Steady(canvas')
  BY DEF Close, IInv
<1>2. CASE UNCHANGED <<doc, disk>>
  <2>1. CleanMeansSaved' /\ Begun'
    BY <1>1, <1>2 DEF IInv, CleanMeansSaved, OnDisk, AtRest, Reshaping, Begun, Entered
  <2>2. IInv' /\ CanBeTakenBack
    BY <1>1, <1>2, <2>1 DEF IInv, CanBeTakenBack
  <2> QED
    BY <2>2 DEF Good
<1>3. CASE /\ doc.modified /\ path # {}
           /\ disk' = [g \in Files |-> IF g \in path THEN Saved(doc) ELSE disk[g]]
           /\ doc' = [doc EXCEPT !.modified = FALSE]
  <2>1. /\ DOMAIN disk' = Files /\ \A g \in Files : File(disk'[g])
        /\ \A g \in path : disk'[g].shapes = doc.shapes
    BY <1>3, KeptIs
  <2>2. Whole(doc') /\ doc'.shapes = doc.shapes /\ doc'.undo = doc.undo
    BY <1>3, CleanedIs DEF IInv
  <2>3. CleanMeansSaved' /\ CanBeTakenBack /\ Begun'
    <3>1. CleanMeansSaved' /\ CanBeTakenBack
      BY <1>1, <1>3, <2>1, <2>2 DEF CleanMeansSaved, OnDisk, CanBeTakenBack
    <3>2. Begun'
      BY <1>1, <2>2 DEF IInv, Begun, Entered
    <3> QED
      BY <3>1, <3>2
  <2>4. IInv'
    BY <1>1, <2>1, <2>2, <2>3 DEF IInv
  <2> QED
    BY <2>3, <2>4 DEF Good
<1> QED
  BY <1>2, <1>3 DEF Close
-----------------------------------------------------------------------------
(* The theorems.                                                           *)

LEMMA StepIInv ==
  IInv /\ [Next]_vars => Good
<1> SUFFICES ASSUME IInv, [Next]_vars PROVE Good
  OBVIOUS
<1>1. CASE UNCHANGED vars
  <2>1. doc' = doc /\ canvas' = canvas /\ UNCHANGED Window
    BY <1>1 DEF vars, Window
  <2>2. Steady(canvas') /\ Follows(canvas')
    BY <2>1 DEF IInv, Follows, Left
  <2> QED
    BY <2>1, <2>2, SameStep
<1>2. CASE Mouse
  BY <1>2, ResizeBeginsKeeps, ClickShapeKeeps, ClickNothingKeeps, ClickConnectorKeeps, NewBoxKeeps,
     CreateBeginsKeeps, DraggedKeeps, ResizedKeeps, BandEndsKeeps, GestureEndsKeeps,
     ConnectReleasedKeeps, DropColourAtKeeps DEF Mouse
<1>3. CASE Keys
  BY <1>3, DeleteSelectionKeeps, NudgeSelectionKeeps, EscapeKeeps, EnterKeyKeeps, LabelEditKeeps
     DEF Keys
<1>4. CASE Messages
  BY <1>4, PickToolKeeps, MenuTravelKeeps, MenuAlignKeeps, MenuZOrderKeeps, ApplyInspectorKeeps,
     SaveKeeps, OpenFileKeeps, DuplicateSelectionKeeps, SelectAllKeeps DEF Messages
<1>5. CASE Scripting
  BY <1>5, ScriptAddShapeKeeps, SaveKeeps, QueueConnectorKeeps DEF Scripting
<1>6. CASE Close
  BY <1>6, CloseKeeps
<1> QED
  BY <1>1, <1>2, <1>3, <1>4, <1>5, <1>6 DEF Next

LEMMA Invariance == Spec => []IInv
<1>1. IInv /\ [Next]_vars => IInv'
  BY StepIInv DEF Good
<1> QED
  BY <1>1, InitIInv, PTL DEF Spec

\* Whatever is clicked, dragged, undone, duplicated, scripted or opened, in
\* whatever order, the drawing and every drawing that undo and redo can
\* bring back are sound: no id is given twice, and no connector outlives a
\* box it joins (RemoveShapes(), AddShape(), Restore() of PDDocument.cpp).
THEOREM Soundness == Spec => []DrawingsSound
<1>1. IInv => DrawingsSound
  <2> SUFFICES ASSUME IInv PROVE DrawingsSound
    OBVIOUS
  <2>1. /\ doc \in Documents /\ Whole(doc) /\ canvas \in Canvases /\ 0 \notin Handed
    BY HandedIs DEF IInv, Whole, Steady
  <2>2. TypeOK
    <3>1. doc.shapes \in [DOMAIN doc.shapes -> Shape] /\ Nobody \notin DOMAIN doc.shapes
      BY <2>1, WholeIs, ThingsAre DEF Nobody
    <3>2. doc.next \in Nat \ {0} /\ doc.nextImage \in Nat \ {0} /\ doc.modified \in BOOLEAN
      BY <2>1, BoundAssumption DEF Documents
    <3>3. canvas.tool \in Tools /\ canvas.drag \in Drags
      BY <2>1 DEF Canvases
    <3>4. \A i \in Ids(canvas.sel) \cup {canvas.grip, canvas.from, canvas.editor} : i \in Nat
      <4>1. canvas.grip \in 0 .. MaxShapes /\ canvas.from \in 0 .. MaxShapes /\ canvas.editor \in 0 .. MaxShapes
        BY <2>1 DEF Canvases
      <4>2. \A i \in Ids(canvas.sel) : i \in Nat
        BY CanvasIs, HandedIs
      <4> QED
        BY <4>1, <4>2, HandedIs
    <3> QED
      BY <3>1, <3>2, <3>3, <3>4 DEF TypeOK, IInv
  <2>3. Sound(Now(doc))
    BY <2>1 DEF Whole, Drafts
  <2>4. \A s \in Seq(Drafts) : \A k \in DOMAIN s : Sound(s[k])
    BY DEF Drafts
  <2> QED
    BY <2>1, <2>2, <2>3, <2>4, WholeIs DEF DrawingsSound
<1> QED
  BY <1>1, Invariance, PTL

\* A document that closes without a question has its shapes on disk: after
\* every edit fModified is set, and only a save or an open clears it.  Not so
\* while a move or a resize goes on, nor, after a save in the middle of one,
\* once a second press has cut it short without the Touch() of MouseUp
\* (canvas.cut); the next save or open ends that exception.
THEOREM CleanIsSaved == Spec => []CleanMeansSaved
<1>1. IInv => CleanMeansSaved
  BY DEF IInv
<1> QED
  BY <1>1, Invariance, PTL

\* Every change of the shapes can be taken back, as long as the undo stack
\* (200 drawings) holds one drawing for each shape there can be: a nudge, a
\* style and a move in the order push one drawing a shape, and more of them
\* than the stack holds push out the one before the command.  What a gesture
\* changes in place is taken back by the drawing its MouseDown put on the
\* stack: it is there still, unless an undo or an opening in mid-gesture took
\* it (Taken), or edits in mid-gesture filled the stack and pushed it out
\* (Pushed).
THEOREM TakenBack == MaxShapes <= UndoCap /\ Spec => NothingIsLost
<1>1. ASSUME MaxShapes <= UndoCap PROVE IInv /\ [Next]_vars => [CanBeTakenBack]_vars
  BY <1>1, StepIInv DEF Good
<1>2. ASSUME MaxShapes <= UndoCap PROVE Spec => NothingIsLost
  BY <1>1, <1>2, Invariance, PTL DEF Spec, NothingIsLost
<1> QED
  BY <1>2
=============================================================================
