---------------------------- MODULE OthelloGame -----------------------------
(* The window of ProseOthello (class GameWindow) and the thread that       *)
(* thinks for the machine.  The thread copies the game and then reads its  *)
(* generation, without a lock, while the window goes on handling messages; *)
(* its move comes back as a message.  A copy that a change overtakes may   *)
(* be any board, so that its answer may be any square.                     *)
(*                                                                         *)
(* Any legal move may be the search's answer (OthelloSearch), whatever the *)
(* level.  The window's other messages are handled one at a time, so that  *)
(* what posts them is left out.                                            *)
EXTENDS OthelloBoard

CONSTANTS Openings,         \* the games played before the story is taken up
          MaxPlays,         \* bounds the moves made through the window
          MaxGenerations    \* bounds new games and undos

ASSUME OpeningsAssumption ==
    \A opening \in Openings : Len(opening) \in Nat \ {0} /\ DOMAIN opening = 1 .. Len(opening)

VARIABLES game, generation,
          thinking,    \* fThinking
          thinker,     \* the thread: where it is, what it may answer, its generation
          answer,      \* its message to the window, if it is on its way
          window,      \* "open", "closing" (waits for the thread) or "closed"
          disturbed,   \* the machine's turn was meddled with (of no effect)
          plays        \* counts moves, for the bound

vars == <<game, generation, thinking, thinker, answer, window, disturbed, plays>>

Asleep == [at |-> "none", finds |-> {}, generation |-> 0]
Thread(at) == [Asleep EXCEPT !.at = at]

(* A game played from the start, position by position.                     *)
Played(positions) ==
    /\ positions[1] = Reset
    /\ \A k \in 2 .. Len(positions) : \E square \in Squares :
         CanPlay(positions[k - 1], square) /\ positions[k] = Play(positions[k - 1], square)

Init ==
    /\ \E opening \in Openings : Played(opening) /\ game = Last(opening)
    /\ generation = 0 /\ plays = 0
    /\ thinking = FALSE /\ thinker = Asleep /\ answer = {}
    /\ window = "open" /\ disturbed = FALSE

(* The copy of a thread that is about to make it is torn by a change.      *)
Overtaken == IF thinker.at = "spawned" THEN Thread("torn") ELSE thinker

(* StartThinking(): one thread at a time; there may be no room for it.     *)
StartThinking(busy, excused) ==
    IF busy THEN thinking' = TRUE /\ thinker' = Overtaken /\ disturbed' = excused
    ELSE \/ thinking' = TRUE /\ thinker' = Thread("spawned") /\ disturbed' = excused
         \/ thinking' = FALSE /\ thinker' = Asleep /\ disturbed' = TRUE

GoesOn(busy, excused) ==
    thinking' = busy /\ thinker' = Overtaken /\ disturbed' = excused

(* PlayMove(): the mouse plays for black only, but a second click or a     *)
(* script may find that it is white's turn when it is handled.             *)
PlayMove ==
    /\ window = "open" /\ plays < MaxPlays /\ plays' = plays + 1
    /\ \E square \in Squares :
         /\ CanPlay(game, square)
         /\ game' = Play(game, square)
    /\ IF ~Over(game') /\ game'.turn = White
       THEN StartThinking(thinking, disturbed \/ game.turn = White)
       ELSE GoesOn(thinking, disturbed \/ game.turn = White)
    /\ UNCHANGED <<generation, answer, window>>

(* The script's Think, whosever turn it is.                                *)
ScriptThink ==
    /\ window = "open" /\ ~thinking
    /\ StartThinking(FALSE, disturbed \/ game.turn = Black)
    /\ UNCHANGED <<game, generation, answer, window, plays>>

NewGame ==
    /\ window = "open" /\ generation < MaxGenerations
    /\ generation' = generation + 1 /\ game' = Reset
    /\ GoesOn(thinking, thinking)
    /\ UNCHANGED <<answer, window, plays>>

(* The menu's Undo takes two moves back.                                   *)
TakeBack ==
    /\ window = "open" /\ generation < MaxGenerations
    /\ generation' = generation + 1
    /\ \E once \in {Undo(game)} : game' = Undo(once)
    /\ GoesOn(thinking, disturbed \/ thinking \/ game'.turn = White)
    /\ UNCHANGED <<answer, window, plays>>

(* The thread: it copies the game, reads the generation, and posts what it *)
(* has found.                                                              *)
Thinker ==
    LET moves == LegalMoves(game.cells, game.turn) IN
    /\ \/ /\ thinker.at = "spawned"
          /\ thinker' = [at |-> "copied", finds |-> IF moves = {} THEN {NoSquare} ELSE moves, generation |-> 0]
          /\ UNCHANGED answer
       \/ /\ thinker.at = "torn"
          /\ thinker' = [at |-> "copied", finds |-> Squares \cup {NoSquare}, generation |-> 0]
          /\ UNCHANGED answer
       \/ /\ thinker.at = "copied"
          /\ thinker' = [thinker EXCEPT !.at = "searching", !.generation = generation]
          /\ UNCHANGED answer
       \/ /\ thinker.at = "searching"
          /\ answer' = {thinker} /\ thinker' = Asleep
    /\ UNCHANGED <<game, generation, thinking, window, disturbed, plays>>

(* FinishAiMove(): an answer of an earlier game, or that is no move any     *)
(* more, plays nothing.  When black has to pass the machine thinks on.     *)
PlaysNothingBusy == UNCHANGED <<game, thinking, thinker, disturbed>>
PlaysNothing ==
    /\ thinking' = FALSE
    /\ UNCHANGED <<game, thinker, disturbed>>

AnswersOnce(square, from) ==
    IF from = generation /\ game.turn = White /\ CanPlay(game, square)
    THEN game' = Play(game, square) /\ GoesOn(FALSE, disturbed)
    ELSE PlaysNothing

Answers(square, from) ==
    IF from = generation /\ game.turn = White /\ CanPlay(game, square)
    THEN /\ game' = Play(game, square)
         /\ IF ~Over(game') /\ game'.turn = White
            THEN StartThinking(FALSE, disturbed) ELSE GoesOn(FALSE, disturbed)
    ELSE PlaysNothing

FinishAiMove ==
    /\ window = "open"
    /\ \E found \in answer : \E square \in found.finds : Answers(square, found.generation)
    /\ answer' = {} /\ UNCHANGED <<generation, window, plays>>

(* QuitRequested() waits for the thread; its message is never handled.     *)
Quit ==
    /\ window = "open" /\ window' = "closing"
    /\ generation' = generation + 1
    /\ UNCHANGED <<game, thinking, thinker, answer, disturbed, plays>>

Closed ==
    /\ window = "closing" /\ thinker = Asleep
    /\ window' = "closed"
    /\ UNCHANGED <<game, generation, thinking, thinker, answer, disturbed, plays>>

Next ==
    \/ PlayMove \/ ScriptThink \/ NewGame \/ TakeBack
    \/ Thinker \/ FinishAiMove \/ Quit \/ Closed

(* The search ends (its depth and its time are bounded), and the window    *)
(* handles its messages.                                                   *)
Spec ==
    /\ Init /\ [][Next]_vars
    /\ WF_vars(Thinker) /\ WF_vars(FinishAiMove) /\ WF_vars(Closed)
-----------------------------------------------------------------------------
(* What the variables hold; fThinking says whether the machine's thread,   *)
(* of which there is one at most, or its answer is still to come.          *)
TypeOK ==
    /\ game.cells \in [Squares -> {Empty, Black, White}]
    /\ game.turn \in {Black, White} /\ game.last \in Squares \cup {NoSquare}
    /\ Len(game.plies) <= HistoryRoom
    /\ thinker.at \in {"none", "spawned", "torn", "copied", "searching"}
    /\ thinking <=> thinker # Asleep \/ answer # {}
    /\ thinker = Asleep \/ answer = {}
    /\ Cardinality(answer) <= 1
    /\ window \in {"open", "closing", "closed"} /\ disturbed \in BOOLEAN

(* Undo takes back exactly the last move, with the passes after it and the *)
(* discs it turned: played again it makes the same board, the same turn    *)
(* and the same history, whoever played it, and with none left the board   *)
(* is that of a new game.                                                  *)
UndoIsExact ==
    LET before == Undo(game)
        moves  == {k \in DOMAIN game.plies : ~game.plies[k].pass}
    IN  IF moves = {} THEN game = Reset
        ELSE [Play(before, game.plies[Max(moves)].move) EXCEPT !.last = game.last] = game

(* The machine answers: when it is white's turn and nobody plays, thinks,  *)
(* takes back or starts anew in its turn, and its thread could be spawned, *)
(* white moves until it is black's turn or the game is over.  Those four,  *)
(* and a failed spawn_thread, are what `disturbed` excuses.                *)
MachineAnswers ==
    window = "open" /\ game.turn = White /\ ~Over(game) /\ ~disturbed
      ~> window # "open" \/ game.turn = Black \/ Over(game) \/ disturbed
=============================================================================
