---------------------------- MODULE OthelloScript ---------------------------
(* What is asked of ProseOthello from outside its rules: the two surfaces  *)
(* scripts speak to, the mouse, and the words the window answers with.  A  *)
(* window here is its level, its circles, the moves and games asked of it  *)
(* in their order, and the messages it has not come to.                    *)
EXTENDS Integers, Sequences, FiniteSetsExt, SequencesExt, TLC

kLevels == 0 .. 3
NoField == [is |-> "missing"]
Num(n) == [is |-> "int", n |-> n]
Text(n) == [is |-> "text", n |-> n]
Pair(row, col) == [is |-> "pair", row |-> row, col |-> col]

(* FindInt32 and FieldInt32: the second takes words for numbers, and of    *)
(* two numbers the first; a field that is missing leaves the fallback.     *)
FindInt32(field, fallback) == IF field.is = "int" THEN field.n ELSE fallback
FieldInt32(field, fallback) ==
    CASE field.is \in {"int", "text"} -> field.n
      [] field.is = "pair" -> field.row
      [] OTHER -> fallback

GameWindow == [level |-> 1, hints |-> TRUE, done |-> <<>>, inbox |-> <<>>]
PostTo(w, messages) == [w EXCEPT !.inbox = @ \o messages]

----------------------------------------------------------------------------
(* The window's side.  Circles are turned over, unless the message says    *)
(* how they shall be and they are.                                         *)
Takes(w, m) ==
    CASE m.what = "level" -> IF m.level \in kLevels THEN [w EXCEPT !.level = m.level] ELSE w
      [] m.what = "hints" -> IF m.show = w.hints THEN w ELSE [w EXCEPT !.hints = ~@]
      [] m.what = "turn hints over" -> [w EXCEPT !.hints = ~@]
      [] m.what = "play"  ->
           IF m.square \in 0 .. 63 THEN [w EXCEPT !.done = Append(@, m)] ELSE w
      [] m.what \in {"new", "think"} -> [w EXCEPT !.done = Append(@, m)]
TakesAll(w) == FoldLeft(Takes, [w EXCEPT !.inbox = <<>>], w.inbox)

LevelMessage(level) == <<[what |-> "level", level |-> level]>>
PlayMessage(square) == <<[what |-> "play", square |-> square]>>
Only(w, messages) == [window |-> PostTo(w, messages), reply |-> "done"]
Says(w, value) == [window |-> w, reply |-> value]
Passed(w) == [window |-> w, reply |-> "not understood"]

----------------------------------------------------------------------------
(* GameWindow::HandleScripting, on the application's thread: all that      *)
(* changes the game is only posted, and answered before it is done.        *)
kScriptingProperties ==
    [Activate |-> {"execute"}, NewGame |-> {"execute"}, Play |-> {"execute"},
     Think |-> {"execute"}, Level |-> {"get", "set"}, Hints |-> {"get", "set"}]

HandleScripting(w, verb, property, data) ==
    CASE verb \notin kScriptingProperties[property] -> Passed(w)
      [] property = "Activate" -> Only(w, <<>>)
      [] property = "NewGame" ->
           LET level == FindInt32(data, w.level)
           IN  Only(w, <<[what |-> "new"]>>
                         \o IF level \in kLevels THEN LevelMessage(level) ELSE <<>>)
      [] property = "Play"  ->
           Only(w, PlayMessage(IF data.is = "pair" THEN data.row * 8 + data.col
                               ELSE FindInt32(data, -1)))
      [] property = "Think" -> Only(w, <<[what |-> "think"]>>)
      [] property = "Level" /\ verb = "get" -> Says(w, ToString(w.level))
      [] property = "Level" /\ verb = "set" ->
           IF FindInt32(data, -1) \in kLevels THEN Only(w, LevelMessage(data.n)) ELSE Says(w, "error")
      [] property = "Hints" /\ verb = "get" -> Says(w, ToString(w.hints))
      [] property = "Hints" /\ verb = "set" ->
           LET show == IF data.is = "bool" THEN data.on ELSE w.hints
           IN  Only(w, IF show # w.hints THEN <<[what |-> "turn hints over"]>> ELSE <<>>)

(* The raw codes, each with the fields it looks for.                       *)
HandleRaw(w, code, fields) ==
    CASE code = "ACTV" -> Only(w, <<>>)
      [] code = "NEWG" ->
           LET level == FieldInt32(fields.level, -1)
           IN  Only(w, (IF level \in kLevels THEN LevelMessage(level) ELSE <<>>)
                         \o <<[what |-> "new"]>>)
      [] code = "PLYY" ->
           LET square == FieldInt32(fields.square, -1)
               row    == FieldInt32(fields.row, -1)
               col    == FieldInt32(fields.col, -1)
           IN  Only(w, PlayMessage(IF square < 0 /\ row >= 0 /\ col >= 0 THEN row * 8 + col
                                   ELSE square))
      [] code = "THNK" -> Only(w, <<[what |-> "think"]>>)
      [] code = "SETL" ->
           LET level == FieldInt32(fields.level, -1)
           IN  IF level >= 0 THEN Only(w, LevelMessage(level))
               ELSE HandleScripting(w, "get", "Level", NoField)
      [] code = "HNTS" ->
           IF fields.hints.is = "missing" THEN HandleScripting(w, "get", "Hints", NoField)
           ELSE Only(w, <<[what |-> "hints", show |-> fields.hints.on]>>)

(* OthelloApp::MessageReceived: a property is looked for in the message    *)
(* itself, never in the specifier that names it to the system.             *)
AppMessage(w, m) ==
    IF "code" \in DOMAIN m THEN HandleRaw(w, m.code, m.fields)
    ELSE IF m.named = "in the message" THEN HandleScripting(w, m.verb, m.property, m.data)
    ELSE Passed(w)

----------------------------------------------------------------------------
(* The board on the screen: squares of an eighth of the smaller side, and  *)
(* of no more than 72; the point is cut to a square towards zero.  Lengths *)
(* are in sixteenths, a square's side always being even.                   *)
Cell(width, height) == Min({Min({width, height}) \div 8, 72 * 16})
Left(side, cell) == (side - 8 * cell) \div 2
Truncated(a, b) == IF a < 0 THEN -((-a) \div b) ELSE a \div b
MouseDown(x, y, width, height) ==
    LET cell == Min({width \div 8, height \div 8, 72 * 16})
        col  == Truncated(x - (width - 8 * cell) \div 2, cell)
        row  == Truncated(y - (height - 8 * cell) \div 2, cell)
    IN  IF col \in 0 .. 7 /\ row \in 0 .. 7 THEN row * 8 + col ELSE -1
Drawn(square, width, height) ==
    LET cell == Cell(width, height)
    IN  [left |-> Left(width, cell) + (square % 8) * cell,
         top |-> Left(height, cell) + (square \div 8) * cell, side |-> cell]

(* The end in the title and in the alert.                                  *)
StatusText(black, white) ==
    CASE black > white -> <<"you", black, white>>
      [] white > black -> <<"the machine", white, black>>
      [] OTHER -> <<"nobody", black, black>>
AnnounceEnd(black, white) ==
    CASE black > white -> <<"you", black, white>>
      [] white > black -> <<"the machine", white, black>>
      [] OTHER -> <<"nobody", 32, 32>>

----------------------------------------------------------------------------
RawFields(level, square, row, col, hints) ==
    [level |-> level, square |-> square, row |-> row, col |-> col, hints |-> hints]
Raw(code, fields) == [code |-> code, fields |-> fields]
Asks(verb, property, data) ==
    [named |-> "in the message", verb |-> verb, property |-> property, data |-> data]
GameWindows == [level : kLevels, hints : BOOLEAN, done : {<<>>}, inbox : {<<>>}]
Result(w, m) == TakesAll(AppMessage(w, m).window)
Nothing == RawFields(NoField, NoField, NoField, NoField, NoField)
Wanted(on) == [is |-> "bool", on |-> on]

(* The two surfaces do the same: a game at a level, a move by its square   *)
(* or by its row and column, the level, the circles.                       *)
ASSUME SurfacesAgree ==
    \A w \in GameWindows :
      /\ \A n \in kLevels :
           /\ Result(w, Raw("NEWG", [Nothing EXCEPT !.level = Text(n)]))
                = Result(w, Asks("execute", "NewGame", Num(n)))
           /\ Result(w, Raw("SETL", [Nothing EXCEPT !.level = Num(n)]))
                = Result(w, Asks("set", "Level", Num(n)))
      /\ \A row, col \in 0 .. 7 :
           LET played == Result(w, Asks("execute", "Play", Pair(row, col)))
           IN  /\ played.done = PlayMessage(row * 8 + col)
               /\ played = Result(w, Asks("execute", "Play", Num(row * 8 + col)))
               /\ played = Result(w, Raw("PLYY", [Nothing EXCEPT !.row = Num(row), !.col = Text(col)]))
      /\ \A on \in BOOLEAN :
           /\ Result(w, Raw("HNTS", [Nothing EXCEPT !.hints = Wanted(on)])).hints = on
           /\ Result(w, Asks("set", "Hints", Wanted(on))).hints = on

(* "twice would toggle back: tell the window what to do": the raw code     *)
(* holds when it comes twice before the window looks; the property does    *)
(* not.                                                                    *)
ASSUME TwiceIsOnce ==
    \A w \in GameWindows, on \in BOOLEAN :
      LET raw == Raw("HNTS", [Nothing EXCEPT !.hints = Wanted(on)])
          set == Asks("set", "Hints", Wanted(on))
      IN  /\ Result(AppMessage(w, raw).window, raw).hints = on
          /\ Result(AppMessage(w, set).window, set).hints = w.hints

(* No request, however wrong its data, leaves the levels or the board, and *)
(* each is answered unless it is named as the system names it.             *)
Fields == {NoField, Num(-1), Num(2), Num(99), Text(3), Text(64), Pair(1, -1), Pair(7, 9)}
Requests ==
    {Asks(verb, p, d) : verb \in {"get", "set", "execute"}, p \in DOMAIN kScriptingProperties,
                        d \in Fields}
        \cup {Raw(code, RawFields(a, b, c, d, NoField)) :
                code \in {"ACTV", "NEWG", "PLYY", "THNK", "SETL", "HNTS"},
                a \in Fields, b \in {NoField, Num(-1), Text(64)}, c, d \in {NoField, Num(1), Num(9)}}
ASSUME RequestsKeepTheRules ==
    \A w \in GameWindows, m \in Requests :
      /\ Result(w, m).level \in kLevels
      /\ \A d \in ToSet(Result(w, m).done) : d.what = "play" => d.square \in 0 .. 63
      /\ AppMessage(w, m).reply = "not understood" =>
           "verb" \in DOMAIN m /\ m.verb \notin kScriptingProperties[m.property]
      /\ "verb" \in DOMAIN m => AppMessage(w, [m EXCEPT !.named = "in a specifier"]) = Passed(w)

(* A click on a square that is drawn plays there, whatever the size of the *)
(* window; beside the board by a square or more, nothing is played.  By    *)
(* less, to the left or above, the first square is: the cut goes to zero.  *)
ASSUME ClicksHitTheirSquare ==
    \A width, height \in {128 * 45, 128 * 46, 128 * 80} :
      \A square \in 0 .. 63 :
        LET at == Drawn(square, width, height)
        IN  /\ at.left \in 0 .. width - at.side /\ at.top \in 0 .. height - at.side
            /\ \A dx, dy \in {0, at.side \div 2, at.side - 1} :
                 MouseDown(at.left + dx, at.top + dy, width, height) = square
ASSUME ClicksBesideTheBoard ==
    \A width, height \in {128 * 45, 128 * 80}, far \in 0 .. 500 :
      LET corner == Drawn(0, width, height)
      IN  /\ MouseDown(corner.left - corner.side - far, corner.top, width, height) = -1
          /\ MouseDown(corner.left + 8 * corner.side + far, corner.top, width, height) = -1

(* Title and alert name the same end, but for a draw with squares left.    *)
ASSUME EndsAgree ==
    \A black, white \in 0 .. 64 :
      black # white \/ black + white = 64 =>
        StatusText(black, white) = AnnounceEnd(black, white)
=============================================================================
