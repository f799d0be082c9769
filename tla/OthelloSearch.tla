---------------------------- MODULE OthelloSearch ---------------------------
(* The machine of ProseOthello: class Search, alpha-beta over the rules,   *)
(* deeper and deeper until it is deep enough or its time is up.  The time  *)
(* is a number of nodes: the search notices at the first node from limit   *)
(* on that it has to stop.                                                 *)
EXTENDS OthelloBoard

CONSTANT Weights   \* kWeights: what a square is worth

Levels == {"Easy", "Medium", "Hard", "Expert"}
Infinity == 16777216   \* kInfinity
Never == Infinity      \* a limit that is not reached

CornerOf(square) ==
    LET Near(k) == IF k < 2 THEN {0} ELSE IF k >= Size - 2 THEN {Size - 1} ELSE {}
        corners == {y * Size + x : x \in Near(square % Size), y \in Near(square \div Size)}
    IN  IF corners = {} THEN NoSquare ELSE Min(corners)

Empties(cells) == Discs(cells, Empty)

(* Evaluate(): a square beside one's own corner is no longer poison.       *)
Worth(cells, square) ==
    LET corner == CornerOf(square)
    IN  IF Weights[square] < 0 /\ corner # NoSquare /\ cells[corner] = cells[square]
        THEN 8 ELSE Weights[square]
Weight(cells, side) ==
    MapThenSumSet(LAMBDA s : Worth(cells, s), {s \in Squares : cells[s] = side})
Mobility(cells, side) == Cardinality(LegalMoves(cells, side))
Evaluate(p) ==
    LET mine   == p.turn
        theirs == Opponent(p.turn)
    IN  Weight(p.cells, mine) - Weight(p.cells, theirs)
        + 8 * (Mobility(p.cells, mine) - Mobility(p.cells, theirs))
        + IF Empties(p.cells) <= 16
          THEN 4 * (Discs(p.cells, mine) - Discs(p.cells, theirs)) ELSE 0

Final(p) ==
    LET diff == Discs(p.cells, p.turn) - Discs(p.cells, Opponent(p.turn))
    IN  IF diff > 0 THEN 100000 + diff ELSE IF diff < 0 THEN diff - 100000 ELSE 0

PassTurn(p) == [p EXCEPT !.turn = Opponent(@)]

(* Order(): the weightiest first, of equals the first on the board.        *)
Before(s, t) == Weights[s] > Weights[t] \/ (Weights[s] = Weights[t] /\ s < t)
Order(moves) ==
    [k \in 1 .. Cardinality(moves) |->
       CHOOSE s \in moves : Cardinality({t \in moves : Before(t, s)}) = k - 1]

(* The move keeps the turn when the other side has to pass: then neither   *)
(* the value nor the window changes sides.                                 *)
Found(score, nodes, stopped) == [score |-> score, nodes |-> nodes, stopped |-> stopped]
Negated(found) == [found EXCEPT !.score = -@]

RECURSIVE Negamax(_, _, _, _, _, _)
Value(p, next, depth, alpha, beta, nodes, limit) ==
    IF next.turn = p.turn THEN Negamax(next, depth, alpha, beta, nodes, limit)
    ELSE Negated(Negamax(next, depth, -beta, -alpha, nodes, limit))

Higher(a, b) == IF a > b THEN a ELSE b
Tried(p, depth, alpha, beta, nodes, limit) ==
    FoldLeft(LAMBDA best, square :
               IF best.stopped \/ Higher(alpha, best.score) >= beta THEN best
               ELSE LET v == Value(p, Play(p, square), depth - 1, Higher(alpha, best.score),
                                   beta, best.nodes, limit)
                    IN  [v EXCEPT !.score = Higher(best.score, @)],
             Found(-Infinity, nodes, FALSE), Order(LegalMoves(p.cells, p.turn)))
Negamax(p, depth, alpha, beta, entered, limit) ==
    LET nodes == entered + 1 IN
    CASE Over(p) -> Found(Final(p), nodes, FALSE)
      [] ~Over(p) /\ depth <= 0 -> Found(Evaluate(p), nodes, FALSE)
      [] depth > 0 /\ ~CanMove(p.cells, p.turn) /\ ~Over(p) ->
           Negated(Negamax(PassTurn(p), depth, -beta, -alpha, nodes, limit))
      [] depth > 0 /\ CanMove(p.cells, p.turn) ->
           IF nodes >= limit THEN Found(alpha, nodes, TRUE)
           ELSE Tried(p, depth, alpha, beta, nodes, limit)

(* Think(): one depth, and then all of them; only a depth that was         *)
(* finished changes the answer.  A move that keeps the turn is searched    *)
(* with the whole window.                                                  *)
AtDepth(p, depth, nodes, limit) ==
    LET moves == LegalMoves(p.cells, p.turn) IN
    FoldLeft(LAMBDA best, square :
               IF best.stopped THEN best
               ELSE LET next  == Play(p, square)
                        alpha == IF next.turn = p.turn THEN -Infinity ELSE best.score
                        v     == Value(p, next, depth - 1, alpha, Infinity, best.nodes, limit)
                    IN  IF v.stopped \/ v.score <= best.score
                        THEN [best EXCEPT !.nodes = v.nodes, !.stopped = v.stopped]
                        ELSE [best EXCEPT !.nodes = v.nodes, !.score = v.score, !.square = square],
             [square |-> Min(moves), score |-> -Infinity, nodes |-> nodes, stopped |-> FALSE],
             Order(moves))

MaxDepth(level, empties) ==
    CASE level = "Medium" -> 1
      [] level = "Hard"   -> IF empties <= 10 THEN empties ELSE 4
      [] level = "Expert" -> IF empties <= 14 THEN empties ELSE 9

NoAnswer == [square |-> NoSquare, score |-> 0, depth |-> 0, nodes |-> 0, stopped |-> FALSE]
Deeper(p, depths, limit) ==
    FoldLeft(LAMBDA answer, depth :
               IF answer.stopped THEN answer
               ELSE LET found == AtDepth(p, depth, answer.nodes, limit)
                    IN  IF found.stopped THEN [answer EXCEPT !.stopped = TRUE, !.nodes = found.nodes]
                        ELSE [square |-> found.square, score |-> found.score, depth |-> depth,
                              nodes |-> found.nodes, stopped |-> FALSE],
             NoAnswer, [k \in 1 .. depths |-> k])
Think(p, level, limit) ==
    IF ~CanMove(p.cells, p.turn) THEN {NoSquare}
    ELSE IF level = "Easy" THEN LegalMoves(p.cells, p.turn)
    ELSE {Deeper(p, MaxDepth(level, Empties(p.cells)), IF level = "Medium" THEN Never ELSE limit).square}

(* What the search is held against: the endings counted out without        *)
(* bounds (BestFinish, the self test's), and a plain minimax.              *)
RECURSIVE BestFinish(_)
BestFinish(p) ==
    LET ends == {BestFinish(Play(p, s)) : s \in LegalMoves(p.cells, p.turn)} IN
    CASE Over(p) -> Discs(p.cells, Black) - Discs(p.cells, White)
      [] ~Over(p) /\ ~CanMove(p.cells, p.turn) -> BestFinish(PassTurn(p))
      [] CanMove(p.cells, p.turn) -> IF p.turn = Black THEN Max(ends) ELSE Min(ends)

RECURSIVE Minimax(_, _)
Minimax(p, depth) ==
    IF Over(p) THEN Final(p)
    ELSE IF depth = 0 THEN Evaluate(p)
    ELSE IF ~CanMove(p.cells, p.turn) THEN -Minimax(PassTurn(p), depth)
    ELSE LET Of(next) == IF next.turn = p.turn THEN Minimax(next, depth - 1)
                         ELSE -Minimax(next, depth - 1)
         IN  Max({Of(Play(p, s)) : s \in LegalMoves(p.cells, p.turn)})
=============================================================================
