--------------------------- MODULE OthelloGameMC ----------------------------
(* A board of four by four, taken up at the first move and where five or   *)
(* six squares are left, with passes of either side and early ends ahead.  *)
EXTENDS OthelloGame, OthelloSearch, OthelloScript, JuliaApp

MCMoves == {<<>>, <<11, 7, 2, 13, 8, 15, 0>>, <<1, 2, 3, 8, 14, 11>>}
MCOpenings ==
    {[k \in 1 .. Len(moves) + 1 |-> FoldLeft(Play, Reset, SubSeq(moves, 1, k - 1))] : moves \in MCMoves}
MCWeights ==
    [s \in Squares |->
       IF s \in {0, 3, 12, 15} THEN 120 ELSE IF s \in {5, 6, 9, 10} THEN -40 ELSE -20]

(* The boards where the search is tried: after the openings, and one and   *)
(* two moves on.                                                           *)
After(boards) ==
    boards \cup UNION {{Play(p, s) : s \in LegalMoves(p.cells, p.turn)} : p \in boards}
Boards == After(After({Last(o) : o \in MCOpenings} \ {Reset}))
Live == {p \in Boards : CanMove(p.cells, p.turn)}

(* Alpha-beta finds the value of the plain minimax at every depth.         *)
ASSUME SearchIsMinimax ==
    \A p \in Live \cup {Reset}, depth \in 1 .. 3 :
      AtDepth(p, depth, 0, Never).score = Minimax(p, depth)

(* "When little is left, the whole of it can be counted out exactly": the  *)
(* move it finds leads to the best ending there is.                        *)
ASSUME EndingsAreExact ==
    \A p \in Live, level \in {"Hard", "Expert"} :
      \A s \in Think(p, level, Never) : BestFinish(Play(p, s)) = BestFinish(p)

(* "Deeper and deeper, and always a completed answer": whenever its time   *)
(* is up, the machine has a legal move.  Counting out the whole board,     *)
(* from the first move on, is left out.                                    *)
ASSUME AlwaysAnswers ==
    \A p \in Live \cup {Reset}, level \in Levels, limit \in {1, 2, 5, 20} :
      \/ p = Reset /\ level \in {"Hard", "Expert"} /\ limit = 20
      \/ Think(p, level, limit) \subseteq LegalMoves(p.cells, p.turn)
=============================================================================
