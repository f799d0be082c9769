------------------------- MODULE OthelloGame_proofs -------------------------
(* What is proved of OthelloGame for every board and every set of openings: *)
(* what its variables hold, that undo is exact, and that the history never  *)
(* runs out of room.  The invariant is that the past can be told: there is  *)
(* a board for every ply of the history, each made from the one before it   *)
(* by that ply, from the board of a new game to the one that is played.     *)
EXTENDS OthelloGame, FiniteSetTheorems, SequenceTheorems, WellFoundedInduction, TLAPS

Sides     == {Black, White}
Boards    == [Squares -> {Empty, Black, White}]
Plies     == [move : Squares \cup {NoSquare}, flips : SUBSET Squares, side : Sides, pass : BOOLEAN]
Positions == [cells : Boards, turn : Sides, plies : Seq(Plies), last : Squares \cup {NoSquare}]
Moments   == [cells : Boards, turn : Sides]
-----------------------------------------------------------------------------
\* The column and the row of a square.
LEMMA SquareHasPlace ==
  ASSUME NEW square \in Squares
  PROVE  square % Size \in 0 .. Size - 1 /\ square \div Size \in 0 .. Size - 1
<1>1. Size \in Nat /\ Size > 0 /\ square \in Nat /\ square < Size * Size
  BY SizeAssumption DEF Squares
<1>2. /\ square % Size \in 0 .. Size - 1 /\ square \div Size \in Int
      /\ square = Size * (square \div Size) + (square % Size)
  BY <1>1
<1>3. square \div Size >= 0
  <2> SUFFICES ASSUME square \div Size <= -1 PROVE FALSE
    BY <1>2
  <2>1. \A a \in Int : a <= -1 => Size * a <= -Size
    BY <1>1
  <2> QED
    BY <1>1, <1>2, <2>1
<1>4. square \div Size < Size
  <2> SUFFICES ASSUME square \div Size >= Size PROVE FALSE
    BY <1>1, <1>2
  <2>1. \A a, b \in Nat : a <= b => Size * a <= Size * b
    BY <1>1
  <2> QED
    BY <1>1, <1>2, <1>3, <2>1
<1> QED
  BY <1>1, <1>2, <1>3, <1>4

\* A place on the board is a square.
LEMMA PlaceIsSquare ==
  ASSUME NEW x \in Int, NEW y \in Int, OnBoard(x, y)
  PROVE  y * Size + x \in Squares
<1>1. /\ Size \in Nat /\ x \in 0 .. Size - 1 /\ y \in 0 .. Size - 1
      /\ y \in Nat /\ x \in Nat
  BY SizeAssumption DEF OnBoard
<1>2. y * Size >= 0 /\ y * Size \in Int
  BY <1>1
<1>3. y * Size <= (Size - 1) * Size
  BY <1>1
<1>4. (Size - 1) * Size = Size * Size - Size
  BY <1>1
<1> QED
  BY <1>1, <1>2, <1>3, <1>4 DEF Squares

\* A ray is a sequence of squares: those on the board come first.
LEMMA RayIsASeq ==
  ASSUME NEW square \in Squares, NEW dir \in Directions
  PROVE  Ray(square, dir) \in Seq(Squares)
<1> DEFINE X(k) == (square % Size) + k * dir[1]
           Y(k) == (square \div Size) + k * dir[2]
           on == {k \in 1 .. Size : OnBoard(X(k), Y(k))}
           reach == Cardinality(on)
<1>1. square % Size \in 0 .. Size - 1 /\ square \div Size \in 0 .. Size - 1
  BY SquareHasPlace
<1>2. dir[1] \in {-1, 0, 1} /\ dir[2] \in {-1, 0, 1} /\ Size \in Nat
  BY SizeAssumption DEF Directions
<1>3. \A k \in Nat : X(k) \in Int /\ Y(k) \in Int
  BY <1>1, <1>2
<1>4. ASSUME NEW k \in on, NEW j \in 1 .. k PROVE j \in on
  <2>1. j \in Nat /\ k \in Nat /\ j <= k /\ 1 <= j /\ k <= Size /\ OnBoard(X(k), Y(k))
    OBVIOUS
  <2>2. X(j) \in 0 .. Size - 1
    <3>1. CASE dir[1] = 0  BY <1>1, <1>2, <2>1, <3>1 DEF OnBoard
    <3>2. CASE dir[1] = 1  BY <1>1, <1>2, <2>1, <3>2 DEF OnBoard
    <3>3. CASE dir[1] = -1 BY <1>1, <1>2, <2>1, <3>3 DEF OnBoard
    <3> QED BY <1>2, <3>1, <3>2, <3>3
  <2>3. Y(j) \in 0 .. Size - 1
    <3>1. CASE dir[2] = 0  BY <1>1, <1>2, <2>1, <3>1 DEF OnBoard
    <3>2. CASE dir[2] = 1  BY <1>1, <1>2, <2>1, <3>2 DEF OnBoard
    <3>3. CASE dir[2] = -1 BY <1>1, <1>2, <2>1, <3>3 DEF OnBoard
    <3> QED BY <1>2, <3>1, <3>2, <3>3
  <2> HIDE DEF X, Y
  <2> QED
    BY <1>2, <2>1, <2>2, <2>3 DEF OnBoard
<1> HIDE DEF X, Y
<1>5. IsFiniteSet(on) /\ reach \in Nat
  <2>1. IsFiniteSet(1 .. Size) /\ on \subseteq 1 .. Size
    BY <1>2, FS_Interval
  <2> QED
    BY <2>1, FS_Subset, FS_CardinalityType
<1>6. ASSUME NEW k \in 1 .. reach PROVE k \in on
  <2> SUFFICES ASSUME k \notin on PROVE FALSE
    OBVIOUS
  <2> HIDE DEF reach
  <2>1. k \in Nat /\ k >= 1
    BY <1>5
  <2>2. on \subseteq 1 .. k - 1
    <3> SUFFICES ASSUME NEW i \in on, i >= k PROVE FALSE
      BY <1>2, <2>1
    <3>1. k \in 1 .. i
      BY <1>2, <2>1
    <3> QED
      BY <1>4, <3>1
  <2>3. IsFiniteSet(1 .. k - 1) /\ Cardinality(1 .. k - 1) = k - 1
    BY <2>1, FS_Interval
  <2>4. Cardinality(on) <= k - 1
    BY <2>2, <2>3, FS_Subset
  <2> QED
    BY <1>5, <2>1, <2>4 DEF reach
<1>7. ASSUME NEW k \in 1 .. reach PROVE Y(k) * Size + X(k) \in Squares
  BY <1>3, <1>6, PlaceIsSquare
<1>8. Ray(square, dir) = [k \in 1 .. reach |-> Y(k) * Size + X(k)]
  BY DEF Ray, X, Y
<1> HIDE DEF reach
<1> QED
  BY <1>5, <1>7, <1>8

\* What a move turns lies on the board and is the other side's.
LEMMA FlipsAreTheOthers ==
  ASSUME NEW cells \in Boards, NEW side \in Sides, NEW square \in Squares
  PROVE  \A s \in FlipsFor(cells, side, square) : s \in Squares /\ cells[s] = Opponent(side)
<1> SUFFICES ASSUME NEW s \in FlipsFor(cells, side, square) PROVE s \in Squares /\ cells[s] = Opponent(side)
  OBVIOUS
<1>1. PICK ray \in Rays[square] : s \in Turned(cells, side, ray)
  BY DEF FlipsFor
<1>2. ray \in Seq(Squares)
  BY <1>1, RayIsASeq DEF Rays
<1>3. PICK k \in DOMAIN ray : Closes(cells, side, ray, k) /\ \E j \in 1 .. k - 1 : s = ray[j]
  BY <1>1 DEF Turned
<1> QED
  BY <1>2, <1>3 DEF Closes

\* The test that is quick and the discs that are turned are of one mind.
LEMMA FlipsWhenItTurns ==
  ASSUME NEW cells \in Boards, NEW side \in Sides, NEW square \in Squares
  PROVE  Flips(cells, side, square) <=> FlipsFor(cells, side, square) # {}
<1>1. \A ray \in Rays[square] : ray \in Seq(Squares)
  BY RayIsASeq DEF Rays
<1>2. ASSUME Flips(cells, side, square) PROVE FlipsFor(cells, side, square) # {}
  <2>1. PICK ray \in Rays[square] : \E k \in 2 .. Len(ray) : Closes(cells, side, ray, k)
    BY <1>2 DEF Flips
  <2>2. PICK k \in 2 .. Len(ray) : Closes(cells, side, ray, k)
    BY <2>1
  <2>3. ray \in Seq(Squares) /\ k \in DOMAIN ray /\ 1 \in 1 .. k - 1
    BY <1>1, <2>1
  <2>4. ray[1] \in Turned(cells, side, ray)
    BY <2>2, <2>3 DEF Turned
  <2> QED
    BY <1>2, <2>1, <2>4 DEF FlipsFor, Flips
<1>3. ASSUME FlipsFor(cells, side, square) # {} PROVE Flips(cells, side, square)
  <2>1. cells[square] = Empty
    BY <1>3 DEF FlipsFor
  <2>2. PICK ray \in Rays[square] : Turned(cells, side, ray) # {}
    BY <1>3, <2>1 DEF FlipsFor
  <2>3. PICK k \in DOMAIN ray : Closes(cells, side, ray, k) /\ 1 .. k - 1 # {}
    BY <2>2 DEF Turned
  <2>4. ray \in Seq(Squares) /\ k \in 2 .. Len(ray) /\ Len(ray) > 1
    BY <1>1, <2>2, <2>3
  <2>5. cells[ray[1]] = Opponent(side)
    BY <2>3, <2>4 DEF Closes
  <2> QED
    BY <2>1, <2>2, <2>3, <2>4, <2>5 DEF Flips
<1> QED
  BY <1>2, <1>3

-----------------------------------------------------------------------------
(* A moment has to pass when its side cannot move and the other can.       *)
MustPass(b) == ~CanMove(b.cells, b.turn) /\ CanMove(b.cells, Opponent(b.turn))

(* The ply leads from one moment to another.                               *)
Covered(b, square, flips) ==
    [s \in Squares |-> IF s = square \/ s \in flips THEN b.turn ELSE b.cells[s]]
Makes(b, ply, c) ==
    /\ ply.side = b.turn /\ c.turn = Opponent(b.turn)
    /\ ply.pass  => MustPass(b) /\ ply.move = NoSquare /\ ply.flips = {} /\ c.cells = b.cells
    /\ ~ply.pass => /\ Flips(b.cells, b.turn, ply.move) /\ ply.move \in Squares
                    /\ ply.flips = FlipsFor(b.cells, b.turn, ply.move)
                    /\ c.cells = Covered(b, ply.move, ply.flips)

(* Two plies at most for a square that is taken.                           *)
Spare(plies, k) == IF k > 0 /\ plies[k].pass THEN 0 ELSE 1
Roomy(plies, past) ==
    \A k \in 0 .. Len(plies) :
      k + 2 * Discs(past[k].cells, Empty) + Spare(plies, k) < HistoryRoom

(* The past of a history: no ply is missing in it, a pass no more than a   *)
(* move.                                                                   *)
Story(plies, past) ==
    /\ past \in [0 .. Len(plies) -> Moments]
    /\ past[0] = [cells |-> Reset.cells, turn |-> Black]
    /\ \A k \in 1 .. Len(plies) : Makes(past[k - 1], plies[k], past[k])
    /\ \A k \in 1 .. Len(plies) : plies[k].pass => k > 1
    /\ \A k \in 1 .. Len(plies) - 1 : MustPass(past[k]) => plies[k + 1].pass
    /\ Roomy(plies, past)

Told(p, past) ==
    /\ Story(p.plies, past)
    /\ past[Len(p.plies)] = [cells |-> p.cells, turn |-> p.turn]
    /\ Len(p.plies) > 0 => ~MustPass(past[Len(p.plies)])

Sound(p) ==
    /\ p \in Positions
    /\ p.plies = <<>> => p.last = NoSquare
    /\ \E past \in [0 .. Len(p.plies) -> Moments] : Told(p, past)
-----------------------------------------------------------------------------
LEMMA Opponents ==
  ASSUME NEW side \in Sides
  PROVE  /\ Opponent(side) \in Sides /\ Opponent(side) # side
         /\ Opponent(Opponent(side)) = side /\ Sides = {side, Opponent(side)}
         /\ side # Empty
  BY DEF Sides, Opponent, Black, White, Empty

LEMMA DiscsAreCounted ==
  ASSUME NEW cells \in Boards, NEW side
  PROVE  /\ IsFiniteSet({s \in Squares : cells[s] = side})
         /\ Discs(cells, side) \in Nat /\ Discs(cells, side) <= Size * Size
<1>1. Size \in Nat /\ Size * Size \in Nat
  BY SizeAssumption
<1>2. IsFiniteSet(Squares) /\ Cardinality(Squares) <= Size * Size
  BY <1>1, FS_Interval DEF Squares
<1>3. {s \in Squares : cells[s] = side} \in SUBSET Squares
  OBVIOUS
<1> QED
  BY <1>1, <1>2, <1>3, FS_Subset, FS_CardinalityType DEF Discs

\* A ply leads from moments to moments; a move takes one empty square.
LEMMA MoveTakesOne ==
  ASSUME NEW b \in Moments, NEW square \in Squares, Flips(b.cells, b.turn, square)
  PROVE  LET flips == FlipsFor(b.cells, b.turn, square)
             cells == Covered(b, square, flips)
         IN  /\ flips \subseteq Squares /\ square \notin flips /\ cells \in Boards
             /\ Discs(cells, Empty) = Discs(b.cells, Empty) - 1
<1> DEFINE flips == FlipsFor(b.cells, b.turn, square)
           cells == Covered(b, square, flips)
<1>1. b.cells \in Boards /\ b.turn \in Sides /\ Opponent(b.turn) \in Sides
  BY Opponents DEF Moments
<1>2. \A s \in flips : s \in Squares /\ b.cells[s] = Opponent(b.turn)
  BY <1>1, FlipsAreTheOthers
<1>3. b.cells[square] = Empty /\ b.turn # Empty /\ Opponent(b.turn) # Empty
  BY <1>1, Opponents DEF Flips
<1>4. cells \in Boards
  BY <1>1 DEF Covered, Boards, Sides
<1>5. {s \in Squares : cells[s] = Empty} = {s \in Squares : b.cells[s] = Empty} \ {square}
  BY <1>2, <1>3 DEF Covered
<1> HIDE DEF flips, cells
<1>6. Discs(cells, Empty) = Discs(b.cells, Empty) - 1
  <2> DEFINE before == {s \in Squares : b.cells[s] = Empty}
  <2>1. IsFiniteSet(before)
    BY <1>1, DiscsAreCounted
  <2>2. square \in before
    BY <1>3
  <2> HIDE DEF before
  <2>3. Cardinality(before \ {square}) = Cardinality(before) - 1
    BY <2>1, <2>2, FS_RemoveElement
  <2> QED
    BY <1>5, <2>3 DEF Discs, before
<1>7. flips \subseteq Squares /\ square \notin flips
  BY <1>2, <1>3
<1> QED
  BY <1>4, <1>6, <1>7 DEF flips, cells

\* A story goes on by a ply that the moment it ends in allows.
LEMMA StoryGrows ==
  ASSUME NEW plies \in Seq(Plies), NEW past, Story(plies, past),
         NEW ply \in Plies, NEW c \in Moments,
         Makes(past[Len(plies)], ply, c),
         ply.pass => Len(plies) > 0,
         Len(plies) > 0 /\ MustPass(past[Len(plies)]) => ply.pass
  PROVE  Story(Append(plies, ply), [k \in 0 .. Len(plies) + 1 |-> IF k > Len(plies) THEN c ELSE past[k]])
<1> DEFINE n == Len(plies)
           more == Append(plies, ply)
           then == [k \in 0 .. n + 1 |-> IF k > n THEN c ELSE past[k]]
<1>1. /\ n \in Nat /\ more \in Seq(Plies) /\ Len(more) = n + 1 /\ more[n + 1] = ply
      /\ \A k \in 1 .. n : more[k] = plies[k]
  OBVIOUS
<1>2. /\ then \in [0 .. n + 1 -> Moments] /\ then[n + 1] = c
      /\ \A k \in 0 .. n : then[k] = past[k] /\ past[k] \in Moments
  BY <1>1 DEF Story
<1> HIDE DEF more, then, n
<1>3. \A k \in 1 .. n + 1 : Makes(then[k - 1], more[k], then[k])
  <2> SUFFICES ASSUME NEW k \in 1 .. n + 1 PROVE Makes(then[k - 1], more[k], then[k])
    OBVIOUS
  <2>1. CASE k = n + 1
    BY <1>1, <1>2, <2>1 DEF n
  <2>2. CASE k # n + 1
    <3>1. k \in 1 .. n /\ k - 1 \in 0 .. n /\ k \in 0 .. n
      BY <1>1, <2>2
    <3>2. Makes(past[k - 1], plies[k], past[k])
      BY <3>1 DEF Story, n
    <3> QED
      BY <1>1, <1>2, <3>1, <3>2
  <2> QED
    BY <2>1, <2>2
<1>4. \A k \in 1 .. n + 1 : more[k].pass => k > 1
  <2> SUFFICES ASSUME NEW k \in 1 .. n + 1, more[k].pass PROVE k > 1
    OBVIOUS
  <2>1. CASE k = n + 1
    BY <1>1, <2>1 DEF n
  <2>2. CASE k # n + 1
    BY <1>1, <2>2 DEF Story, n
  <2> QED
    BY <2>1, <2>2
<1>5. \A k \in 1 .. n : MustPass(then[k]) => more[k + 1].pass
  <2> SUFFICES ASSUME NEW k \in 1 .. n, MustPass(then[k]) PROVE more[k + 1].pass
    OBVIOUS
  <2>1. CASE k = n
    BY <1>1, <1>2, <2>1 DEF n
  <2>2. CASE k # n
    <3>1. k \in 1 .. n - 1 /\ k \in 0 .. n /\ k + 1 \in 1 .. n
      BY <1>1, <2>2
    <3>2. MustPass(past[k])
      BY <1>2, <3>1
    <3> QED
      BY <1>1, <3>1, <3>2 DEF Story, n
  <2> QED
    BY <2>1, <2>2
<1>6. Roomy(more, then)
  <2> SUFFICES ASSUME NEW k \in 0 .. n + 1
               PROVE  k + 2 * Discs(then[k].cells, Empty) + Spare(more, k) < HistoryRoom
    BY <1>1 DEF Roomy
  <2>1. CASE k # n + 1
    <3>1. k \in 0 .. n
      BY <1>1, <2>1
    <3>2. Spare(more, k) = Spare(plies, k)
      BY <1>1, <3>1 DEF Spare
    <3> QED
      BY <1>2, <3>1, <3>2 DEF Story, Roomy, n
  <2>2. CASE k = n + 1
    <3>0. n \in 0 .. n /\ past[n] \in Moments
      BY <1>1, <1>2
    <3>1. n + 2 * Discs(past[n].cells, Empty) + Spare(plies, n) < HistoryRoom
      BY <3>0 DEF Story, Roomy, n
    <3>2. HistoryRoom \in Nat
      BY SizeAssumption DEF HistoryRoom
    <3>3. past[n].cells \in Boards /\ c.cells \in Boards
      BY <3>0 DEF Moments
    <3>4. Discs(past[n].cells, Empty) \in Nat /\ Discs(c.cells, Empty) \in Nat
      BY <3>3, DiscsAreCounted
    <3>5. Spare(plies, n) \in {0, 1}
      BY DEF Spare
    <3>6. CASE ply.pass
      <4>1. Spare(more, k) = 0 /\ c.cells = past[n].cells /\ MustPass(past[n]) /\ n > 0
        BY <1>1, <2>2, <3>6 DEF Spare, Makes, n
      <4>2. ~plies[n].pass
        <5> SUFFICES ASSUME plies[n].pass PROVE FALSE
          OBVIOUS
        <5>0. n \in 1 .. n /\ n - 1 \in 0 .. n
          BY <1>1, <4>1
        <5>1. Makes(past[n - 1], plies[n], past[n])
          BY <5>0 DEF Story, n
        <5>2. /\ MustPass(past[n - 1]) /\ past[n].cells = past[n - 1].cells
              /\ past[n].turn = Opponent(past[n - 1].turn)
          BY <5>1 DEF Makes
        <5> QED
          BY <4>1, <5>2 DEF MustPass
      <4>3. Spare(plies, n) = 1
        BY <4>2 DEF Spare
      <4> QED
        BY <1>1, <1>2, <2>2, <3>1, <3>2, <3>4, <4>1, <4>3
    <3>7. CASE ~ply.pass
      <4>1. Spare(more, k) = 1
        BY <1>1, <2>2, <3>7 DEF Spare
      <4>2. Discs(c.cells, Empty) = Discs(past[n].cells, Empty) - 1
        BY <3>0, <3>7, MoveTakesOne DEF Makes, n
      <4>3. then[k] = c
        BY <1>2, <2>2
      <4>4. ASSUME NEW x \in Nat, NEW y \in Nat, NEW z \in {0, 1}, n + 2 * x + z < HistoryRoom, y = x - 1
            PROVE  n + 1 + 2 * y + 1 < HistoryRoom
        BY <1>1, <3>2, <4>4
      <4> QED
        BY <2>2, <3>1, <3>4, <3>5, <4>1, <4>2, <4>3, <4>4
    <3> QED
      BY <3>6, <3>7
  <2> QED
    BY <2>1, <2>2
<1>7. then[0] = [cells |-> Reset.cells, turn |-> Black]
  BY <1>1, <1>2 DEF Story
<1> QED
  BY <1>1, <1>2, <1>3, <1>4, <1>5, <1>6, <1>7 DEF Story, more, then, n

\* What came before a ply is a story too.
LEMMA StoryBegins ==
  ASSUME NEW plies \in Seq(Plies), NEW past, Story(plies, past), NEW n \in 0 .. Len(plies)
  PROVE  Story(SubSeq(plies, 1, n), [k \in 0 .. n |-> past[k]])
<1> DEFINE fewer == SubSeq(plies, 1, n)
           then == [k \in 0 .. n |-> past[k]]
<1>1. /\ n \in Nat /\ Len(plies) \in Nat /\ n <= Len(plies) /\ fewer \in Seq(Plies)
      /\ Len(fewer) = n /\ \A k \in 1 .. n : fewer[k] = plies[k]
  BY SubSeqProperties
<1>2. then \in [0 .. n -> Moments] /\ \A k \in 0 .. n : then[k] = past[k]
  BY <1>1 DEF Story
<1> HIDE DEF fewer, then
<1>3. ASSUME NEW k \in 1 .. n PROVE Makes(then[k - 1], fewer[k], then[k]) /\ (fewer[k].pass => k > 1)
  <2>1. k \in 1 .. Len(plies) /\ k - 1 \in 0 .. n /\ k \in 0 .. n
    BY <1>1
  <2> QED
    BY <1>1, <1>2, <2>1 DEF Story
<1>4. ASSUME NEW k \in 1 .. n - 1, MustPass(then[k]) PROVE fewer[k + 1].pass
  <2>1. k \in 1 .. Len(plies) - 1 /\ k \in 0 .. n /\ k + 1 \in 1 .. n
    BY <1>1
  <2> QED
    BY <1>1, <1>2, <1>4, <2>1 DEF Story
<1>5. Roomy(fewer, then)
  <2> SUFFICES ASSUME NEW k \in 0 .. n
               PROVE  k + 2 * Discs(then[k].cells, Empty) + Spare(fewer, k) < HistoryRoom
    BY <1>1 DEF Roomy
  <2>1. Spare(fewer, k) = Spare(plies, k) /\ k \in 0 .. Len(plies)
    BY <1>1 DEF Spare
  <2> QED
    BY <1>2, <2>1 DEF Story, Roomy
<1>6. then[0] = [cells |-> Reset.cells, turn |-> Black]
  BY <1>1, <1>2 DEF Story
<1> QED
  BY <1>1, <1>2, <1>3, <1>4, <1>5, <1>6 DEF Story, fewer, then

-----------------------------------------------------------------------------
\* The past of a new game is the game.
LEMMA ResetIsSound == Sound(Reset)
<1> DEFINE past == [k \in 0 .. 0 |-> [cells |-> Reset.cells, turn |-> Black]]
<1>1. /\ Reset \in Positions /\ Reset.plies = <<>> /\ Len(Reset.plies) = 0
      /\ Reset.turn = Black /\ Reset.last = NoSquare /\ Reset.cells \in Boards
  BY DEF Reset, Positions, Boards, Sides, Black, White, Empty
<1>2. Discs(Reset.cells, Empty) \in Nat /\ Discs(Reset.cells, Empty) <= Size * Size
  BY <1>1, DiscsAreCounted
<1>3. HistoryRoom = 2 * (Size * Size) + 2
  BY SizeAssumption DEF HistoryRoom
<1> DEFINE fresh == Reset
<1> HIDE DEF fresh
<1>4. Spare(<<>>, 0) = 1
  BY DEF Spare
<1>5. /\ past \in [0 .. 0 -> Moments] /\ past[0] = [cells |-> Reset.cells, turn |-> Black]
      /\ past[0].cells = Reset.cells
  BY <1>1 DEF Moments, Sides
<1> HIDE DEF past
<1>6. Roomy(<<>>, past)
  <2>1. Size * Size \in Nat
    BY SizeAssumption
  <2>2. 2 * Discs(Reset.cells, Empty) + 1 < HistoryRoom
    BY <1>2, <1>3, <2>1
  <2> QED
    BY <1>4, <1>5, <2>2 DEF Roomy
<1>7. Story(<<>>, past)
  BY <1>5, <1>6 DEF Story
<1> QED
  BY <1>1, <1>5, <1>7 DEF Sound, Told

\* What a move leaves: the board, whose turn it is, and one ply or two.
LEMMA PlayIs ==
  ASSUME NEW p \in Positions, NEW square \in Squares, Flips(p.cells, p.turn, square)
  PROVE  LET flips == FlipsFor(p.cells, p.turn, square)
             ply   == [move |-> square, flips |-> flips, side |-> p.turn, pass |-> FALSE]
             cells == Covered(p, square, flips)
             next  == Opponent(p.turn)
             pass  == [move |-> NoSquare, flips |-> {}, side |-> next, pass |-> TRUE]
         IN  /\ cells \in Boards /\ ply \in Plies /\ pass \in Plies
             /\ Play(p, square) =
                  IF MustPass([cells |-> cells, turn |-> next])
                  THEN [cells |-> cells, turn |-> p.turn, last |-> square,
                        plies |-> Append(Append(p.plies, ply), pass)]
                  ELSE [cells |-> cells, turn |-> next, last |-> square,
                        plies |-> Append(p.plies, ply)]
<1> DEFINE flips == FlipsFor(p.cells, p.turn, square)
           ply   == [move |-> square, flips |-> flips, side |-> p.turn, pass |-> FALSE]
           cells == Covered(p, square, flips)
           next  == Opponent(p.turn)
           pass  == [move |-> NoSquare, flips |-> {}, side |-> next, pass |-> TRUE]
           b     == [cells |-> p.cells, turn |-> p.turn]
<1>1. /\ p.cells \in Boards /\ p.turn \in Sides /\ p.plies \in Seq(Plies)
      /\ p = [cells |-> p.cells, turn |-> p.turn, plies |-> p.plies, last |-> p.last]
  BY DEF Positions
<1>2. b \in Moments /\ Covered(b, square, flips) = cells
  BY <1>1 DEF Moments, Covered
<1>3. flips \subseteq Squares /\ cells \in Boards
  BY <1>2, MoveTakesOne
<1>4. next \in Sides /\ {Black, White} = {p.turn, next} /\ Opponent(next) = p.turn
  BY <1>1, Opponents DEF Sides
<1>5. ply \in Plies /\ pass \in Plies
  BY <1>1, <1>3, <1>4 DEF Plies
<1>6. Placed(p, square, flips)
        = [cells |-> cells, turn |-> p.turn, plies |-> Append(p.plies, ply), last |-> square]
  <2> DEFINE r == [cells |-> p.cells, turn |-> p.turn, plies |-> p.plies, last |-> p.last]
  <2>1. Placed(p, square, flips)
          = [p EXCEPT !.cells = cells, !.plies = Append(p.plies, ply), !.last = square]
    BY DEF Placed, Covered
  <2> DEFINE longer == Append(p.plies, ply)
  <2> HIDE DEF cells, ply, longer
  <2>2. [r EXCEPT !.cells = cells, !.plies = longer, !.last = square]
          = [[[r EXCEPT !.cells = cells] EXCEPT !.plies = longer] EXCEPT !.last = square]
    BY Zenon
  <2>3. [r EXCEPT !.cells = cells]
          = [cells |-> cells, turn |-> p.turn, plies |-> p.plies, last |-> p.last]
    OBVIOUS
  <2>4. [[cells |-> cells, turn |-> p.turn, plies |-> p.plies, last |-> p.last] EXCEPT !.plies = longer]
          = [cells |-> cells, turn |-> p.turn, plies |-> longer, last |-> p.last]
    OBVIOUS
  <2>5. [[cells |-> cells, turn |-> p.turn, plies |-> longer, last |-> p.last] EXCEPT !.last = square]
          = [cells |-> cells, turn |-> p.turn, plies |-> longer, last |-> square]
    OBVIOUS
  <2> HIDE DEF r
  <2> QED
    BY <1>1, <2>1, <2>2, <2>3, <2>4, <2>5, Zenon DEF longer, r
<1> DEFINE q == [cells |-> cells, turn |-> p.turn, plies |-> Append(p.plies, ply), last |-> square]
<1>7. ~CanMove(q.cells, next) /\ ~Over(q) <=> MustPass([cells |-> cells, turn |-> next])
  BY <1>4 DEF Over, MustPass
<1>8. AdvanceTurn(q) =
        IF MustPass([cells |-> cells, turn |-> next])
        THEN [cells |-> cells, turn |-> p.turn, last |-> square, plies |-> Append(Append(p.plies, ply), pass)]
        ELSE [cells |-> cells, turn |-> next, last |-> square, plies |-> Append(p.plies, ply)]
  <2>1. AdvanceTurn(q) = IF ~CanMove(q.cells, next) /\ ~Over(q)
                         THEN [q EXCEPT !.plies = Append(@, pass)] ELSE [q EXCEPT !.turn = next]
    BY DEF AdvanceTurn
  <2> DEFINE longer == Append(p.plies, ply)
             longest == Append(longer, pass)
  <2> HIDE DEF cells, ply, pass, next, longer, longest
  <2> DEFINE r == [cells |-> cells, turn |-> p.turn, plies |-> longer, last |-> square]
  <2>2. /\ [r EXCEPT !.turn = next]
             = [cells |-> cells, turn |-> next, plies |-> longer, last |-> square]
        /\ [r EXCEPT !.plies = longest]
             = [cells |-> cells, turn |-> p.turn, plies |-> longest, last |-> square]
    OBVIOUS
  <2>3. q = r /\ Append(q.plies, pass) = longest
    BY DEF longer, longest
  <2> QED
    BY <1>7, <2>1, <2>2, <2>3 DEF longer, longest
<1> QED
  BY <1>3, <1>5, <1>6, <1>8 DEF Play

\* The move a history ends with, but for its pass: none is left when there is none.
Top(plies) == IF plies[Len(plies)].pass THEN Len(plies) - 1 ELSE Len(plies)

LEMMA TopIsTheLastMove ==
  ASSUME NEW plies \in Seq(Plies), NEW past, Story(plies, past)
  PROVE  LET moves == {k \in DOMAIN plies : ~plies[k].pass}
         IN  /\ moves = {} <=> plies = <<>>
             /\ plies # <<>> => /\ Max(moves) = Top(plies) /\ Top(plies) \in 1 .. Len(plies)
                                /\ ~plies[Top(plies)].pass
<1> DEFINE moves == {k \in DOMAIN plies : ~plies[k].pass}
           n == Len(plies)
<1>1. n \in Nat /\ DOMAIN plies = 1 .. n
  OBVIOUS
<1>2. plies = <<>> => moves = {}
  OBVIOUS
<1>3. ASSUME plies # <<>>
      PROVE  /\ Max(moves) = Top(plies) /\ Top(plies) \in 1 .. n
             /\ ~plies[Top(plies)].pass /\ Top(plies) \in moves
  <2>1. n \in 1 .. n
    BY <1>1, <1>3
  <2>2. Top(plies) \in 1 .. n /\ ~plies[Top(plies)].pass
    <3>1. CASE ~plies[n].pass
      BY <2>1, <3>1 DEF Top
    <3>2. CASE plies[n].pass
      <4>1. n > 1 /\ n - 1 \in 1 .. n /\ n - 1 \in 1 .. n - 1
        BY <1>1, <2>1, <3>2 DEF Story
      <4>2. Makes(past[n - 1], plies[n], past[n]) /\ Makes(past[n - 1 - 1], plies[n - 1], past[n - 1])
        BY <2>1, <4>1 DEF Story
      <4>3. MustPass(past[n - 1])
        BY <3>2, <4>2 DEF Makes
      <4>4. ~plies[n - 1].pass
        BY <4>2, <4>3 DEF Makes, MustPass
      <4> QED
        BY <3>2, <4>1, <4>4 DEF Top
    <3> QED
      BY <3>1, <3>2
  <2>3. Top(plies) \in moves
    BY <1>1, <2>2
  <2>4. \A k \in moves : Top(plies) >= k
    BY <1>1, <2>1 DEF Top
  <2>5. \A x \in moves : (\A k \in moves : x >= k) => x = Top(plies)
    BY <1>1, <2>2, <2>3, <2>4
  <2> HIDE DEF moves
  <2>6. Max(moves) = Top(plies)
    BY <2>3, <2>4, <2>5 DEF Max
  <2> QED
    BY <2>2, <2>3, <2>6
<1> QED
  BY <1>2, <1>3

-----------------------------------------------------------------------------
\* A move made on a board whose past can be told leaves such a board.
LEMMA PlayIsSound ==
  ASSUME NEW p, Sound(p), NEW square \in Squares, Flips(p.cells, p.turn, square)
  PROVE  Sound(Play(p, square))
<1> DEFINE flips == FlipsFor(p.cells, p.turn, square)
           ply   == [move |-> square, flips |-> flips, side |-> p.turn, pass |-> FALSE]
           cells == Covered(p, square, flips)
           next  == Opponent(p.turn)
           pass  == [move |-> NoSquare, flips |-> {}, side |-> next, pass |-> TRUE]
           b     == [cells |-> p.cells, turn |-> p.turn]
           c     == [cells |-> cells, turn |-> next]
           d     == [cells |-> cells, turn |-> p.turn]
           n     == Len(p.plies)
           once  == Append(p.plies, ply)
           twice == Append(once, pass)
<1>1. /\ p \in Positions /\ p.cells \in Boards /\ p.turn \in Sides /\ p.plies \in Seq(Plies)
      /\ n \in Nat /\ b \in Moments
  BY DEF Sound, Positions, Moments
<1>2. PICK past : Told(p, past)
  BY DEF Sound
<1>3. /\ cells \in Boards /\ ply \in Plies /\ pass \in Plies
      /\ Play(p, square) = IF MustPass(c)
                           THEN [cells |-> cells, turn |-> p.turn, last |-> square, plies |-> twice]
                           ELSE [cells |-> cells, turn |-> next, last |-> square, plies |-> once]
  BY <1>1, PlayIs
<1>4. next \in Sides /\ Opponent(next) = p.turn
  BY <1>1, Opponents
<1>5. c \in Moments /\ d \in Moments
  BY <1>1, <1>3, <1>4 DEF Moments
<1>6. Makes(b, ply, c)
  BY DEF Makes, Covered
<1> DEFINE then == [k \in 0 .. n + 1 |-> IF k > n THEN c ELSE past[k]]
<1>7. /\ Story(p.plies, past) /\ past[n] = b
      /\ n > 0 => ~MustPass(b)
  BY <1>2 DEF Told
<1>8. Story(once, then) /\ once \in Seq(Plies) /\ Len(once) = n + 1 /\ then[n + 1] = c
  <2>1. /\ Makes(past[n], ply, c) /\ ~ply.pass /\ (n > 0 /\ MustPass(past[n]) => ply.pass)
    BY <1>6, <1>7
  <2> HIDE DEF ply, c
  <2>2. Story(once, then)
    BY <1>1, <1>3, <1>5, <1>7, <2>1, StoryGrows
  <2> QED
    BY <1>1, <1>3, <2>2
<1>9. CASE ~MustPass(c)
  <2>1. Play(p, square) = [cells |-> cells, turn |-> next, last |-> square, plies |-> once]
    BY <1>3, <1>9
  <2> DEFINE q == [cells |-> cells, turn |-> next, last |-> square, plies |-> once]
  <2>2. /\ q \in Positions /\ q.plies = once /\ Len(q.plies) = n + 1 /\ q.plies # <<>>
        /\ [cells |-> q.cells, turn |-> q.turn] = c
    BY <1>1, <1>3, <1>4, <1>8 DEF Positions
  <2> HIDE DEF q, once, then, c
  <2>3. Told(q, then)
    BY <1>1, <1>8, <1>9, <2>2 DEF Told
  <2>4. then \in [0 .. Len(q.plies) -> Moments]
    BY <2>2, <2>3 DEF Told, Story
  <2> QED
    BY <2>1, <2>2, <2>3, <2>4 DEF Sound, q
<1>10. CASE MustPass(c)
  <2>1. Play(p, square) = [cells |-> cells, turn |-> p.turn, last |-> square, plies |-> twice]
    BY <1>3, <1>10
  <2> DEFINE m == n + 1
             more == [k \in 0 .. m + 1 |-> IF k > m THEN d ELSE then[k]]
             q == [cells |-> cells, turn |-> p.turn, last |-> square, plies |-> twice]
  <2>2. Makes(c, pass, d) /\ pass.pass
    BY <1>4, <1>10 DEF Makes
  <2>3. ~MustPass(d)
    BY <1>4, <1>10 DEF MustPass
  <2>4. /\ m \in Nat /\ m > 0 /\ Len(once) = m /\ then[m] = c
    BY <1>1, <1>8
  <2> HIDE DEF then, once, c, d, pass, m
  <2>5. Story(twice, more)
    BY <1>3, <1>5, <1>8, <2>2, <2>4, StoryGrows
  <2>6. /\ twice \in Seq(Plies) /\ Len(twice) = m + 1 /\ more[m + 1] = d
    BY <1>3, <1>8, <2>4
  <2> HIDE DEF twice, more
  <2>7. /\ q \in Positions /\ q.plies = twice /\ q.plies # <<>>
        /\ [cells |-> q.cells, turn |-> q.turn] = d
    BY <1>1, <1>3, <2>4, <2>6 DEF Positions, d
  <2> HIDE DEF q
  <2>8. Told(q, more)
    BY <2>3, <2>5, <2>6, <2>7 DEF Told
  <2>9. more \in [0 .. Len(q.plies) -> Moments]
    BY <2>7, <2>8 DEF Told, Story
  <2> QED
    BY <2>1, <2>7, <2>8, <2>9 DEF Sound, q
<1> QED
  BY <1>9, <1>10

\* What undo leaves is the moment before the last move, and its past.
LEMMA UndoIs ==
  ASSUME NEW p, Sound(p), p.plies # <<>>, NEW past, Told(p, past)
  PROVE  LET top == Top(p.plies)
         IN  /\ top \in 1 .. Len(p.plies) /\ ~p.plies[top].pass
             /\ Undo(p) \in Positions
             /\ Undo(p).plies = SubSeq(p.plies, 1, top - 1)
             /\ Undo(p).cells = past[top - 1].cells /\ Undo(p).turn = past[top - 1].turn
             /\ Undo(p).plies = <<>> => Undo(p).last = NoSquare
<1> DEFINE top == Top(p.plies)
           n   == Len(p.plies)
           ply == p.plies[top]
           a   == past[top - 1]
           fewer == SubSeq(p.plies, 1, top - 1)
           q   == [p EXCEPT !.plies = fewer]
<1>1. p \in Positions /\ p.plies \in Seq(Plies) /\ n \in Nat /\ p.cells \in Boards
  BY DEF Sound, Positions
<1>2. Story(p.plies, past) /\ past[n] = [cells |-> p.cells, turn |-> p.turn]
  BY DEF Told
<1>3. /\ {k \in DOMAIN p.plies : ~p.plies[k].pass} # {}
      /\ Max({k \in DOMAIN p.plies : ~p.plies[k].pass}) = top
      /\ top \in 1 .. n /\ ~ply.pass
  BY <1>1, <1>2, TopIsTheLastMove
<1>4. Undo(p) = Retract(q, ply)
  BY <1>3, Zenon DEF Undo
<1>5. ply \in Plies /\ a \in Moments /\ past[top] \in Moments
  BY <1>1, <1>2, <1>3 DEF Story
<1>6. Makes(a, ply, past[top])
  BY <1>2, <1>3 DEF Story
<1>7. past[top].cells = p.cells
  <2>1. CASE top = n
    BY <1>2, <2>1
  <2>2. CASE top # n
    <3>1. top = n - 1 /\ p.plies[n].pass /\ n \in 1 .. n
      BY <1>3, <2>2 DEF Top
    <3>2. Makes(past[n - 1], p.plies[n], past[n])
      BY <1>2, <3>1 DEF Story
    <3> QED
      BY <1>2, <3>1, <3>2 DEF Makes
  <2> QED
    BY <2>1, <2>2
<1>8. /\ ply.side = a.turn /\ ply.move \in Squares /\ Flips(a.cells, a.turn, ply.move)
      /\ ply.flips = FlipsFor(a.cells, a.turn, ply.move)
      /\ p.cells = Covered(a, ply.move, ply.flips)
  BY <1>3, <1>6, <1>7 DEF Makes
<1>9. fewer \in Seq(Plies) /\ q \in Positions /\ q.plies = fewer /\ q.cells = p.cells
  <2>1. fewer \in Seq(Plies)
    BY <1>1, <1>3, SubSeqProperties
  <2> HIDE DEF fewer
  <2> QED
    BY <1>1, <2>1 DEF Positions
<1> DEFINE back == [s \in Squares |-> IF s = ply.move THEN Empty
                                      ELSE IF s \in ply.flips THEN Opponent(ply.side) ELSE q.cells[s]]
<1>10. back = a.cells
  <2>1. a.cells \in Boards /\ a.turn \in Sides
    BY <1>5 DEF Moments
  <2>2. \A s \in ply.flips : s \in Squares /\ a.cells[s] = Opponent(a.turn)
    BY <1>8, <2>1, FlipsAreTheOthers
  <2>3. a.cells[ply.move] = Empty
    BY <1>8 DEF Flips
  <2> HIDE DEF ply, a, q
  <2>4. \A s \in Squares : back[s] = a.cells[s]
    BY <1>8, <1>9, <2>2, <2>3 DEF Covered
  <2> HIDE DEF back
  <2>5. back \in [Squares -> {Empty, Black, White}] /\ a.cells \in [Squares -> {Empty, Black, White}]
    <3>1. back = [s \in Squares |-> back[s]]
      BY DEF back
    <3> QED
      BY <2>1, <2>4, <3>1 DEF Boards
  <2> QED
    BY <2>4, <2>5
<1> DEFINE last == IF q.plies = <<>> THEN NoSquare ELSE Last(q.plies).move
<1>11. Retract(q, ply) = [q EXCEPT !.cells = back, !.turn = ply.side, !.last = last]
  BY Zenon DEF Retract
<1>12. last \in Squares \cup {NoSquare}
  <2>1. ASSUME fewer # <<>> PROVE Last(fewer) \in Plies
    BY <1>9, <2>1 DEF Last
  <2> QED
    BY <1>9, <2>1 DEF Plies
<1>13. a.cells \in Boards /\ a.turn \in Sides
  BY <1>5 DEF Moments
<1> HIDE DEF q, back, last, fewer, ply, a, top
<1>14. /\ [q EXCEPT !.cells = back, !.turn = ply.side, !.last = last] \in Positions
       /\ [q EXCEPT !.cells = back, !.turn = ply.side, !.last = last].cells = back
       /\ [q EXCEPT !.cells = back, !.turn = ply.side, !.last = last].turn = ply.side
       /\ [q EXCEPT !.cells = back, !.turn = ply.side, !.last = last].last = last
       /\ [q EXCEPT !.cells = back, !.turn = ply.side, !.last = last].plies = fewer
  BY <1>8, <1>9, <1>10, <1>12, <1>13 DEF Positions
<1>15. /\ Undo(p) \in Positions /\ Undo(p).plies = fewer /\ Undo(p).cells = a.cells
       /\ Undo(p).turn = a.turn /\ Undo(p).last = last
  BY <1>4, <1>8, <1>10, <1>11, <1>14
<1>16. Undo(p).plies = <<>> => Undo(p).last = NoSquare
  BY <1>9, <1>15 DEF last
<1> QED
  BY <1>3, <1>15, <1>16 DEF fewer, ply, a, top

LEMMA UndoIsSound ==
  ASSUME NEW p, Sound(p)
  PROVE  Sound(Undo(p))
<1>1. PICK past : Told(p, past)
  BY DEF Sound
<1>2. p \in Positions /\ p.plies \in Seq(Plies) /\ Story(p.plies, past)
  BY <1>1 DEF Sound, Positions, Told
<1>3. CASE p.plies = <<>>
  <2>1. {k \in DOMAIN p.plies : ~p.plies[k].pass} = {}
    BY <1>2, <1>3, TopIsTheLastMove
  <2> QED
    BY <2>1, Zenon DEF Undo
<1>4. CASE p.plies # <<>>
  <2> DEFINE top == Top(p.plies)
             n == top - 1
             fewer == SubSeq(p.plies, 1, n)
             then == [k \in 0 .. n |-> past[k]]
  <2>1. /\ top \in 1 .. Len(p.plies) /\ ~p.plies[top].pass
        /\ Undo(p) \in Positions
        /\ Undo(p).plies = fewer
        /\ Undo(p).cells = past[n].cells /\ Undo(p).turn = past[n].turn
        /\ Undo(p).plies = <<>> => Undo(p).last = NoSquare
    BY <1>1, <1>4, UndoIs
  <2>2. /\ Len(p.plies) \in Nat /\ n \in 0 .. Len(p.plies) /\ n \in 0 .. n
        /\ n + 1 = top
    BY <1>2, <2>1
  <2> HIDE DEF n
  <2>3. Story(fewer, then)
    BY <1>2, <2>2, StoryBegins
  <2>4. Len(fewer) = n
    BY <1>2, <2>2, SubSeqProperties
  <2>5. then[n] = [cells |-> Undo(p).cells, turn |-> Undo(p).turn]
    <3>1. past[n] \in Moments
      BY <1>2, <2>2 DEF Story
    <3>2. past[n] = [cells |-> past[n].cells, turn |-> past[n].turn]
      BY <3>1 DEF Moments
    <3> QED
      BY <2>1, <2>2, <3>2
  <2>6. n > 0 => ~MustPass(then[n])
    <3> SUFFICES ASSUME n > 0, MustPass(past[n]) PROVE FALSE
      BY <2>2
    <3>1. n \in 1 .. Len(p.plies) - 1
      BY <2>1, <2>2
    <3> QED
      BY <1>2, <2>1, <2>2, <3>1 DEF Story
  <2> HIDE DEF fewer, then, top
  <2>7. Told(Undo(p), then) /\ then \in [0 .. Len(Undo(p).plies) -> Moments]
    BY <2>1, <2>3, <2>4, <2>5, <2>6 DEF Told, Story
  <2> QED
    BY <2>1, <2>7 DEF Sound
<1> QED
  BY <1>3, <1>4

\* What undo takes back, played again, is what it was.
UndoneAgain(p) ==
    LET before == Undo(p)
        moves  == {k \in DOMAIN p.plies : ~p.plies[k].pass}
    IN  IF moves = {} THEN p = Reset
        ELSE [Play(before, p.plies[Max(moves)].move) EXCEPT !.last = p.last] = p

LEMMA SoundIsExact ==
  ASSUME NEW p, Sound(p)
  PROVE  UndoneAgain(p)
<1> DEFINE moves == {k \in DOMAIN p.plies : ~p.plies[k].pass}
           n == Len(p.plies)
<1>1. PICK past : Told(p, past)
  BY DEF Sound
<1>2. /\ p \in Positions /\ p.plies \in Seq(Plies) /\ n \in Nat
      /\ Story(p.plies, past) /\ past[n] = [cells |-> p.cells, turn |-> p.turn]
      /\ n > 0 => ~MustPass(past[n])
  BY <1>1 DEF Sound, Positions, Told
<1>3. CASE p.plies = <<>>
  <2>1. moves = {}
    BY <1>2, <1>3, TopIsTheLastMove
  <2>2. n = 0 /\ past[0] = [cells |-> Reset.cells, turn |-> Black]
    BY <1>2, <1>3 DEF Story
  <2>3. p.cells = Reset.cells /\ p.turn = Black /\ p.last = NoSquare
    BY <1>2, <1>3, <2>2 DEF Sound
  <2>4. /\ Reset \in Positions /\ Reset.plies = <<>> /\ Reset.turn = Black /\ Reset.last = NoSquare
    <3>1. Reset \in Positions
      BY ResetIsSound DEF Sound
    <3> QED
      BY <3>1 DEF Reset
  <2> DEFINE r == Reset
  <2> HIDE DEF r
  <2>5. \A q, w \in Positions :
          q.cells = w.cells /\ q.turn = w.turn /\ q.last = w.last /\ q.plies = w.plies => q = w
    BY DEF Positions
  <2>6. p = Reset
    BY <1>2, <1>3, <2>3, <2>4, <2>5, Zenon
  <2> QED
    BY <2>1, <2>6, Zenon DEF UndoneAgain
<1>4. CASE p.plies # <<>>
  <2> DEFINE top == Top(p.plies)
             ply == p.plies[top]
             a == past[top - 1]
             u == Undo(p)
             fewer == SubSeq(p.plies, 1, top - 1)
             flips == FlipsFor(u.cells, u.turn, ply.move)
             again == [move |-> ply.move, flips |-> flips, side |-> u.turn, pass |-> FALSE]
             cells == Covered(u, ply.move, flips)
             next  == Opponent(u.turn)
             pass  == [move |-> NoSquare, flips |-> {}, side |-> next, pass |-> TRUE]
             c     == [cells |-> cells, turn |-> next]
  <2>1. moves # {} /\ Max(moves) = top
    BY <1>2, <1>4, TopIsTheLastMove
  <2>2. /\ top \in 1 .. n /\ ~ply.pass /\ u \in Positions /\ u.plies = fewer
        /\ u.cells = a.cells /\ u.turn = a.turn
    BY <1>1, <1>4, UndoIs
  <2>3. ply \in Plies /\ a \in Moments /\ past[top] \in Moments /\ top \in {n - 1, n}
    <3>1. top - 1 \in 0 .. n /\ top \in 0 .. n
      BY <1>2, <2>2
    <3>2. a \in Moments /\ past[top] \in Moments
      BY <1>2, <3>1 DEF Story
    <3>3. top \in {n - 1, n}
      BY DEF Top
    <3> QED
      BY <1>2, <2>2, <3>2, <3>3
  <2>4. Makes(a, ply, past[top])
    BY <1>2, <2>2 DEF Story
  <2>5. /\ ply.side = u.turn /\ ply.move \in Squares /\ Flips(u.cells, u.turn, ply.move)
        /\ ply.flips = flips /\ past[top].cells = cells /\ past[top].turn = next
    BY <2>2, <2>4 DEF Makes, Covered
  <2>6. Play(u, ply.move) = IF MustPass(c)
                            THEN [cells |-> cells, turn |-> u.turn, last |-> ply.move,
                                  plies |-> Append(Append(fewer, again), pass)]
                            ELSE [cells |-> cells, turn |-> next, last |-> ply.move,
                                  plies |-> Append(fewer, again)]
    BY <2>2, <2>5, PlayIs
  <2> HIDE DEF flips, cells, fewer
  <2>7. again = ply
    <3>1. ply = [move |-> ply.move, flips |-> ply.flips, side |-> ply.side, pass |-> ply.pass]
      BY <2>3 DEF Plies
    <3>2. ply.pass = FALSE
      BY <2>2, <2>3 DEF Plies
    <3> HIDE DEF ply
    <3> QED
      BY <2>5, <3>1, <3>2
  <2> HIDE DEF again, next
  <2>8. c = past[top]
    <3>1. past[top] = [cells |-> past[top].cells, turn |-> past[top].turn]
      BY <2>3 DEF Moments
    <3> QED
      BY <2>5, <3>1
  <2>9. Append(fewer, ply) = SubSeq(p.plies, 1, top)
    BY <1>2, <2>2 DEF fewer
  <2> HIDE DEF c
  <2>10. p = [cells |-> p.cells, turn |-> p.turn, plies |-> p.plies, last |-> p.last]
    BY <1>2 DEF Positions
  <2>11. ASSUME NEW r, NEW d, r = [cells |-> p.cells, turn |-> p.turn, plies |-> p.plies, last |-> d]
         PROVE  [r EXCEPT !.last = p.last] = p
    BY <2>10, <2>11
  <2>12. CASE MustPass(c)
    <3>1. top = n - 1 /\ n > 1 /\ n \in 1 .. n
      BY <1>2, <2>2, <2>3, <2>8, <2>12
    <3>2. p.plies[n].pass
      BY <1>2, <2>8, <2>12, <3>1 DEF Story
    <3>3. Makes(past[n - 1], p.plies[n], past[n]) /\ p.plies[n] \in Plies
      BY SMTT(60), <1>2, <3>1 DEF Story
    <3>4. next \in Sides /\ Opponent(next) = u.turn
      BY <2>2, Opponents DEF Positions, next
    <3>5. p.cells = cells /\ p.turn = u.turn
      BY <1>2, <2>5, <3>1, <3>2, <3>3, <3>4 DEF Makes
    <3>6. /\ p.plies[n].move = NoSquare /\ p.plies[n].flips = {} /\ p.plies[n].side = next
          /\ p.plies[n].pass = TRUE
      BY <2>5, <3>1, <3>2, <3>3 DEF Makes, Plies
    <3>7. p.plies[n] = pass
      BY <3>3, <3>6 DEF Plies
    <3> HIDE DEF pass
    <3>8. Append(SubSeq(p.plies, 1, n - 1), p.plies[n]) = p.plies
      BY <1>2, <3>1
    <3>9. Play(u, ply.move) = [cells |-> p.cells, turn |-> p.turn, last |-> ply.move, plies |-> p.plies]
      BY <2>6, <2>7, <2>9, <2>12, <3>1, <3>5, <3>7, <3>8
    <3> HIDE DEF u, ply
    <3>10. [Play(u, ply.move) EXCEPT !.last = p.last] = p
      BY <2>11, <3>9
    <3> QED
      BY <2>1, <3>10, Zenon DEF UndoneAgain, u, ply
  <2>13. CASE ~MustPass(c)
    <3>1. top = n
      <4> SUFFICES ASSUME top = n - 1 PROVE FALSE
        BY <2>3
      <4>1. n > 1 /\ n \in 1 .. n /\ n = top + 1
        BY <1>2, <2>2
      <4>2. Makes(past[n - 1], p.plies[n], past[n])
        BY <1>2, <4>1 DEF Story
      <4>3. p.plies[n].pass
        BY <1>2, <2>2, <4>1 DEF Top
      <4> QED
        BY <2>8, <2>13, <4>2, <4>3 DEF Makes
    <3>2. p.cells = cells /\ p.turn = next
      BY <1>2, <2>5, <3>1
    <3>3. SubSeq(p.plies, 1, n) = p.plies
      BY <1>2
    <3>4. Play(u, ply.move) = [cells |-> p.cells, turn |-> p.turn, last |-> ply.move, plies |-> p.plies]
      BY <2>6, <2>7, <2>9, <2>13, <3>1, <3>2, <3>3
    <3> HIDE DEF u, ply
    <3>5. [Play(u, ply.move) EXCEPT !.last = p.last] = p
      BY <2>11, <3>4
    <3> QED
      BY <2>1, <3>5, Zenon DEF UndoneAgain, u, ply
  <2> QED
    BY <2>12, <2>13
<1> QED
  BY <1>3, <1>4

-----------------------------------------------------------------------------
Threads ==
    [at : {"none", "spawned", "torn", "copied", "searching"},
     finds : SUBSET (Squares \cup {NoSquare}), generation : Nat]

(* One thread, or its answer, or none.                                     *)
OneThread ==
    /\ thinker \in Threads /\ (thinker.at = "none" => thinker = Asleep)
    /\ answer = {} \/ \E t \in Threads : answer = {t}
    /\ thinking \in BOOLEAN
    /\ thinking <=> thinker # Asleep \/ answer # {}
    /\ thinker = Asleep \/ answer = {}

IInv ==
    /\ Sound(game) /\ OneThread
    /\ generation \in Nat
    /\ window \in {"open", "closing", "closed"} /\ disturbed \in BOOLEAN

\* Every position of a game that was played from the start is sound, the last
\* one too: of those that were not, there would be a first.
LEMMA PlayedIsSound ==
  ASSUME NEW positions, Len(positions) \in Nat \ {0}, Played(positions)
  PROVE  Sound(Last(positions))
<1> DEFINE bad == {k \in 1 .. Len(positions) : ~Sound(positions[k])}
<1>1. bad \subseteq Nat
  OBVIOUS
<1>2. ASSUME bad # {} PROVE FALSE
  <2>1. PICK k \in bad : \A j \in bad : k <= j
    <3>1. OpToRel(<, Nat) = {p \in Nat \X Nat : p[1] < p[2]}
      BY Zenon DEF OpToRel
    <3>2. PICK k \in bad : \A j \in bad : <<j, k>> \notin OpToRel(<, Nat)
      BY <1>1, <1>2, NatLessThanWellFounded, WFMin, Zenon
    <3>3. ASSUME NEW j \in bad, j < k PROVE FALSE
      <4>1. <<j, k>> \in {p \in Nat \X Nat : p[1] < p[2]}
        BY <1>1, <3>3
      <4> QED
        BY <3>1, <3>2, <4>1
    <3> QED
      BY <1>1, <3>3
  <2>2. k \in 1 .. Len(positions) /\ ~Sound(positions[k])
    OBVIOUS
  <2>3. CASE k = 1
    BY <2>2, <2>3, ResetIsSound DEF Played
  <2>4. CASE k # 1
    <3>1. k \in 2 .. Len(positions) /\ k - 1 \in 1 .. Len(positions) /\ ~(k <= k - 1)
      BY <2>2, <2>4
    <3>2. Sound(positions[k - 1])
      BY <2>1, <3>1
    <3>3. PICK square \in Squares :
            CanPlay(positions[k - 1], square) /\ positions[k] = Play(positions[k - 1], square)
      BY <3>1 DEF Played
    <3> QED
      BY <2>2, <3>2, <3>3, PlayIsSound DEF CanPlay, Legal
  <2> QED
    BY <2>3, <2>4
<1> QED
  BY <1>2 DEF Last

LEMMA InitIInv == Init => IInv
<1> SUFFICES ASSUME Init PROVE IInv
  OBVIOUS
<1>1. Sound(game)
  BY OpeningsAssumption, PlayedIsSound DEF Init
<1>2. Asleep \in Threads
  BY DEF Asleep, Threads
<1> QED
  BY <1>1, <1>2 DEF Init, IInv, OneThread, Asleep

\* A thread that is begun, overtaken or left alone.
LEMMA ThreadsAre ==
  /\ Asleep \in Threads /\ Asleep.at = "none"
  /\ \A at \in {"spawned", "torn"} : Thread(at) \in Threads /\ Thread(at) # Asleep /\ Thread(at).at = at
<1>1. Asleep \in Threads /\ Asleep.at = "none"
  BY DEF Asleep, Threads
<1>2. ASSUME NEW at \in {"spawned", "torn"}
      PROVE  Thread(at) \in Threads /\ Thread(at).at = at
  BY <1>1 DEF Thread, Threads
<1> QED
  BY <1>1, <1>2

LEMMA OvertakenIsOne ==
  ASSUME OneThread
  PROVE  /\ Overtaken \in Threads /\ (Overtaken.at = "none" => Overtaken = Asleep)
         /\ Overtaken = Asleep <=> thinker = Asleep
  BY ThreadsAre DEF OneThread, Overtaken

LEMMA GoesOnKeepsOne ==
  ASSUME OneThread, NEW excused \in BOOLEAN, GoesOn(thinking, excused), UNCHANGED answer
  PROVE  OneThread' /\ disturbed' \in BOOLEAN
  BY OvertakenIsOne DEF OneThread, GoesOn

LEMMA StartKeepsOne ==
  ASSUME OneThread, NEW excused \in BOOLEAN, StartThinking(thinking, excused), UNCHANGED answer
  PROVE  OneThread' /\ disturbed' \in BOOLEAN
<1>1. CASE thinking
  BY <1>1, OvertakenIsOne DEF OneThread, StartThinking
<1>2. CASE ~thinking
  BY <1>2, ThreadsAre DEF OneThread, StartThinking
<1> QED
  BY <1>1, <1>2

\* The answer is taken from the thread that gave it, which has ended.
LEMMA AnsweredKeepsOne ==
  ASSUME OneThread, answer # {}, answer' = {}, NEW excused \in BOOLEAN,
         \/ GoesOn(FALSE, excused)
         \/ StartThinking(FALSE, excused)
         \/ thinking' = FALSE /\ UNCHANGED <<thinker, disturbed>> /\ disturbed = excused
  PROVE  OneThread' /\ disturbed' \in BOOLEAN
<1>1. thinker = Asleep /\ Overtaken = Asleep
  BY OvertakenIsOne DEF OneThread
<1> QED
  BY <1>1, ThreadsAre DEF OneThread, GoesOn, StartThinking

-----------------------------------------------------------------------------
\* Every step keeps it.
LEMMA NextIInv ==
  ASSUME IInv, [Next]_vars
  PROVE  IInv'
<1>1. Sound(game) /\ OneThread /\ generation \in Nat /\ disturbed \in BOOLEAN
      /\ window \in {"open", "closing", "closed"}
  BY DEF IInv
<1>2. ASSUME NEW square, CanPlay(game, square) PROVE Sound(Play(game, square))
  BY <1>1, <1>2, PlayIsSound DEF CanPlay, Legal
<1>3. CASE PlayMove
  <2>1. PICK square \in Squares : CanPlay(game, square) /\ game' = Play(game, square)
    BY <1>3 DEF PlayMove
  <2>2. Sound(game')
    BY <1>2, <2>1
  <2> DEFINE excused == disturbed \/ game.turn = White
  <2>3. /\ excused \in BOOLEAN /\ UNCHANGED <<generation, answer, window>>
        /\ StartThinking(thinking, excused) \/ GoesOn(thinking, excused)
    BY <1>3 DEF PlayMove
  <2> HIDE DEF excused
  <2>4. OneThread' /\ disturbed' \in BOOLEAN
    BY <1>1, <2>3, GoesOnKeepsOne, StartKeepsOne
  <2> QED
    BY <1>1, <2>2, <2>3, <2>4 DEF IInv
<1>4. CASE ScriptThink
  <2> DEFINE excused == disturbed \/ game.turn = Black
  <2>1. /\ excused \in BOOLEAN /\ UNCHANGED <<game, generation, answer, window>>
        /\ StartThinking(FALSE, excused) /\ ~thinking
    BY <1>4 DEF ScriptThink
  <2>2. StartThinking(thinking, excused)
    BY <1>1, <2>1 DEF OneThread, StartThinking
  <2> HIDE DEF excused
  <2>3. OneThread' /\ disturbed' \in BOOLEAN
    BY <1>1, <2>1, <2>2, StartKeepsOne
  <2> QED
    BY <1>1, <2>1, <2>3 DEF IInv
<1>5. CASE NewGame
  <2>1. /\ game' = Reset /\ GoesOn(thinking, thinking) /\ thinking \in BOOLEAN
        /\ generation' = generation + 1 /\ UNCHANGED <<answer, window>>
    BY <1>1, <1>5 DEF NewGame, OneThread
  <2>2. OneThread' /\ disturbed' \in BOOLEAN
    BY <1>1, <2>1, GoesOnKeepsOne
  <2> QED
    BY <1>1, <2>1, <2>2, ResetIsSound DEF IInv
<1>6. CASE TakeBack
  <2> DEFINE excused == disturbed \/ thinking \/ game'.turn = White
  <2>1. /\ game' = Undo(Undo(game)) /\ GoesOn(thinking, excused) /\ excused \in BOOLEAN
        /\ generation' = generation + 1 /\ UNCHANGED <<answer, window>>
    BY <1>6 DEF TakeBack
  <2> HIDE DEF excused
  <2>2. OneThread' /\ disturbed' \in BOOLEAN
    BY <1>1, <2>1, GoesOnKeepsOne
  <2>3. Sound(game')
    BY <1>1, <2>1, UndoIsSound
  <2> QED
    BY <1>1, <2>1, <2>2, <2>3 DEF IInv
<1>7. CASE Thinker
  <2>1. UNCHANGED <<game, generation, thinking, window, disturbed>>
    BY <1>7 DEF Thinker
  <2>2. OneThread'
    <3> DEFINE moves == LegalMoves(game.cells, game.turn)
               found == IF moves = {} THEN {NoSquare} ELSE moves
    <3>1. moves \subseteq Squares
      BY DEF LegalMoves
    <3>2. found \subseteq Squares \cup {NoSquare}
      BY <3>1
    <3>3. \/ thinker.at = "spawned" /\ UNCHANGED answer
             /\ thinker' = [at |-> "copied", finds |-> found, generation |-> 0]
          \/ thinker.at = "torn" /\ UNCHANGED answer
             /\ thinker' = [at |-> "copied", finds |-> Squares \cup {NoSquare}, generation |-> 0]
          \/ thinker.at = "copied" /\ UNCHANGED answer
             /\ thinker' = [thinker EXCEPT !.at = "searching", !.generation = generation]
          \/ thinker.at = "searching" /\ answer' = {thinker} /\ thinker' = Asleep
      BY <1>7 DEF Thinker
    <3> HIDE DEF found
    <3>4. thinker.at # "none" => thinker # Asleep
      BY ThreadsAre
    <3>5. thinker.at \in {"spawned", "torn", "copied", "searching"} /\ answer = {} /\ thinking
      BY <1>1, <3>3, <3>4 DEF OneThread
    <3>6. CASE UNCHANGED answer /\ thinker' \in Threads /\ thinker'.at # "none"
      <4>1. thinker' # Asleep
        BY <3>6, ThreadsAre
      <4> QED
        BY <2>1, <3>5, <3>6, <4>1 DEF OneThread
    <3>7. CASE answer' = {thinker} /\ thinker' = Asleep
      BY <1>1, <2>1, <3>5, <3>7, ThreadsAre DEF OneThread
    <3>8. CASE thinker.at = "copied" /\ UNCHANGED answer
               /\ thinker' = [thinker EXCEPT !.at = "searching", !.generation = generation]
      BY <1>1, <3>6, <3>8 DEF OneThread, Threads
    <3>9. CASE thinker'.at = "copied" /\ UNCHANGED answer
               /\ \E finds \in SUBSET (Squares \cup {NoSquare}) :
                    thinker' = [at |-> "copied", finds |-> finds, generation |-> 0]
      BY <3>6, <3>9 DEF Threads
    <3> QED
      BY <3>2, <3>3, <3>7, <3>8, <3>9
  <2> QED
    BY <1>1, <2>1, <2>2 DEF IInv
<1>8. CASE FinishAiMove
  <2>1. /\ answer # {} /\ answer' = {} /\ UNCHANGED <<generation, window>>
        /\ \E found \in answer : \E square \in found.finds : Answers(square, found.generation)
    BY <1>8 DEF FinishAiMove
  <2>2. PICK square, from : Answers(square, from)
    BY <2>1
  <2>3. /\ Sound(game')
        /\ \/ GoesOn(FALSE, disturbed)
           \/ StartThinking(FALSE, disturbed)
           \/ thinking' = FALSE /\ UNCHANGED <<thinker, disturbed>>
    BY <1>1, <1>2, <2>2 DEF Answers, PlaysNothing
  <2>4. OneThread' /\ disturbed' \in BOOLEAN
    BY <1>1, <2>1, <2>3, AnsweredKeepsOne
  <2> QED
    BY <1>1, <2>1, <2>3, <2>4 DEF IInv
<1>9. CASE Quit
  BY <1>1, <1>9 DEF Quit, IInv, OneThread
<1>10. CASE Closed
  BY <1>1, <1>10 DEF Closed, IInv, OneThread
<1>11. CASE UNCHANGED vars
  BY <1>1, <1>11 DEF vars, IInv, OneThread
<1> QED
  BY <1>3, <1>4, <1>5, <1>6, <1>7, <1>8, <1>9, <1>10, <1>11 DEF Next

LEMMA AlwaysIInv == Spec => []IInv
<1>1. Init => IInv
  BY InitIInv
<1>2. IInv /\ [Next]_vars => IInv'
  BY NextIInv
<1> QED
  BY <1>1, <1>2, PTL DEF Spec
-----------------------------------------------------------------------------
\* The history has room for every legal move and for its pass.
LEMMA SoundHasRoom ==
  ASSUME NEW p, Sound(p)
  PROVE  Len(p.plies) < HistoryRoom
<1>1. PICK past : Told(p, past)
  BY DEF Sound
<1> DEFINE n == Len(p.plies)
<1>2. n \in Nat /\ n \in 0 .. n /\ HistoryRoom \in Nat
  BY SizeAssumption DEF Sound, Positions, HistoryRoom
<1>3. past[n] \in Moments /\ n + 2 * Discs(past[n].cells, Empty) + Spare(p.plies, n) < HistoryRoom
  BY <1>1, <1>2 DEF Told, Story, Roomy
<1>4. Discs(past[n].cells, Empty) \in Nat
  BY <1>3, DiscsAreCounted DEF Moments
<1>5. Spare(p.plies, n) \in {0, 1}
  BY DEF Spare
<1> QED
  BY <1>2, <1>3, <1>4, <1>5

\* The variables hold what they are meant to, on every board, after every
\* opening and however the thread and the window's messages come between each
\* other: there is one thread at most, or its answer, and fThinking says so.
THEOREM TypesHold == Spec => []TypeOK
<1>1. IInv => TypeOK
  <2> SUFFICES ASSUME IInv PROVE TypeOK
    OBVIOUS
  <2>1. Len(game.plies) < HistoryRoom /\ Len(game.plies) \in Nat /\ HistoryRoom \in Nat
    BY SoundHasRoom, SizeAssumption DEF IInv, Sound, Positions, HistoryRoom
  <2>2. Cardinality(answer) <= 1
    BY SMTT(60), FS_EmptySet, FS_Singleton DEF IInv, OneThread
  <2> QED
    BY <2>1, <2>2 DEF IInv, OneThread, Threads, Sound, Positions, Boards, Sides, TypeOK
<1> QED
  BY <1>1, AlwaysIInv, PTL

\* Undo takes back one move, with its discs and its pass, and nothing else:
\* whoever played it, at any point of any game.
THEOREM UndoStaysExact == Spec => []UndoIsExact
<1>1. IInv => UndoIsExact
  <2> SUFFICES ASSUME IInv PROVE UndoIsExact
    OBVIOUS
  <2>1. UndoneAgain(game)
    BY SoundIsExact DEF IInv
  <2> QED
    BY <2>1 DEF UndoneAgain, UndoIsExact
<1> QED
  BY <1>1, AlwaysIInv, PTL

\* A legal move is never refused for want of room in fHistory, and the pass
\* that is recorded with it, which nothing checks, is inside it as well: each
\* move takes an empty square, and has no more than one pass.
NeverFull ==
    \A square \in Squares : Legal(game, square) =>
      CanPlay(game, square) /\ Len(Play(game, square).plies) < HistoryRoom

THEOREM HistoryNeverFull == Spec => []NeverFull
<1>1. IInv => NeverFull
  <2> SUFFICES ASSUME IInv, NEW square \in Squares, Legal(game, square)
               PROVE  CanPlay(game, square) /\ Len(Play(game, square).plies) < HistoryRoom
    BY DEF NeverFull
  <2>1. CanPlay(game, square)
    BY SoundHasRoom DEF IInv, CanPlay
  <2>2. Sound(Play(game, square))
    BY PlayIsSound DEF IInv, Legal
  <2> QED
    BY <2>1, <2>2, SoundHasRoom
<1> QED
  BY <1>1, AlwaysIInv, PTL
=============================================================================
