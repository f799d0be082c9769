---------------------------- MODULE OthelloBoard ----------------------------
(* The rules of ProseOthello: class Position of                            *)
(* proseothello/app/src/Othello.cpp, a board, whose turn it is, and every  *)
(* ply played to get here with the discs it turned, so that it can be      *)
(* taken back.                                                             *)
EXTENDS Integers, Sequences, FiniteSetsExt, SequencesExt

CONSTANT Size   \* the board's side: 8 in the code

ASSUME SizeAssumption == Size \in Nat /\ Size >= 4 /\ Size % 2 = 0

Squares == 0 .. Size * Size - 1
NoSquare == -1

Empty == 0
Black == 1
White == 2
Opponent(side) == Black + White - side

(* The squares seen from a square in each of the eight directions.         *)
Directions == (-1 .. 1) \X (-1 .. 1) \ {<<0, 0>>}
OnBoard(x, y) == x \in 0 .. Size - 1 /\ y \in 0 .. Size - 1
Ray(square, dir) ==
    LET X(k) == (square % Size) + k * dir[1]
        Y(k) == (square \div Size) + k * dir[2]
        reach == Cardinality({k \in 1 .. Size : OnBoard(X(k), Y(k))})
    IN  [k \in 1 .. reach |-> Y(k) * Size + X(k)]
Rays == [square \in Squares |-> {Ray(square, dir) : dir \in Directions}]

Reset ==
    LET low  == Size \div 2 - 1
        high == Size \div 2
        At(x, y) == y * Size + x
    IN  [cells |-> [s \in Squares |->
                      CASE s \in {At(low, low), At(high, high)} -> White
                        [] s \in {At(high, low), At(low, high)} -> Black
                        [] OTHER -> Empty],
         turn |-> Black, plies |-> <<>>, last |-> NoSquare]

Discs(cells, side) == Cardinality({s \in Squares : cells[s] = side})

(* FlipsFor(): a line of the other's discs is turned when it ends at one   *)
(* of the side's own.  A square where nothing turns is no legal move.      *)
Closes(cells, side, ray, k) ==
    cells[ray[k]] = side /\ \A j \in 1 .. k - 1 : cells[ray[j]] = Opponent(side)
Turned(cells, side, ray) ==
    UNION {{ray[j] : j \in 1 .. k - 1} : k \in {i \in DOMAIN ray : Closes(cells, side, ray, i)}}
FlipsFor(cells, side, square) ==
    IF cells[square] # Empty THEN {}
    ELSE UNION {Turned(cells, side, ray) : ray \in Rays[square]}
Flips(cells, side, square) ==
    /\ cells[square] = Empty
    /\ \E ray \in Rays[square] :
         /\ Len(ray) > 1 /\ cells[ray[1]] = Opponent(side)
         /\ \E k \in 2 .. Len(ray) : Closes(cells, side, ray, k)
LegalMoves(cells, side) == {s \in Squares : Flips(cells, side, s)}
CanMove(cells, side)    == \E s \in Squares : Flips(cells, side, s)
Legal(p, square) == square \in Squares /\ Flips(p.cells, p.turn, square)

(* Over(): neither side can move, a full board among the cases.            *)
Over(p) == ~CanMove(p.cells, Black) /\ ~CanMove(p.cells, White)

(* The turn passes on; a side that cannot move while the other can passes, *)
(* and the pass is a ply of its own.                                       *)
AdvanceTurn(p) ==
    LET next == Opponent(p.turn)
    IN  IF ~CanMove(p.cells, next) /\ ~Over(p)
        THEN [p EXCEPT !.plies = Append(@, [move |-> NoSquare, flips |-> {}, side |-> next, pass |-> TRUE])]
        ELSE [p EXCEPT !.turn = next]

HistoryRoom == 2 * Size * Size + 2
Placed(p, square, flips) ==
    [p EXCEPT !.cells = [s \in Squares |-> IF s = square \/ s \in flips THEN p.turn ELSE @[s]],
              !.plies = Append(@, [move |-> square, flips |-> flips, side |-> p.turn, pass |-> FALSE]),
              !.last = square]
CanPlay(p, square) == Len(p.plies) < HistoryRoom /\ Legal(p, square)
Play(p, square) == AdvanceTurn(Placed(p, square, FlipsFor(p.cells, p.turn, square)))

(* Undo(): back past the passes to a move, and that is taken back.         *)
Retract(p, ply) ==
    [p EXCEPT !.cells = [s \in Squares |-> IF s = ply.move THEN Empty
                                           ELSE IF s \in ply.flips THEN Opponent(ply.side) ELSE @[s]],
              !.turn = ply.side,
              !.last = IF p.plies = <<>> THEN NoSquare ELSE Last(p.plies).move]
UndoOnePly(p) ==
    IF p.plies = <<>> THEN p
    ELSE Retract([p EXCEPT !.plies = Front(@)], Last(p.plies))
Undo(p) ==
    LET moves == {k \in DOMAIN p.plies : ~p.plies[k].pass}
        top   == Max(moves)
    IN  IF moves = {} THEN p
        ELSE Retract([p EXCEPT !.plies = SubSeq(@, 1, top - 1)], p.plies[top])
=============================================================================
