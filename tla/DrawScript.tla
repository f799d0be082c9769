----------------------------- MODULE DrawScript -----------------------------
(* ProseDraw as an application (prosedraw/app/src/PDApp.cpp): what scripts *)
(* ask of the newest window, the files it is launched with and given, and  *)
(* its windows as they come and go.                                        *)
EXTENDS Integers, Sequences, FiniteSetsExt, SequencesExt, Functions

sPDProperties ==
    [ShapeCount |-> {"get"}, Zoom |-> {"get", "set"}, Activate |-> {"execute"},
     AddShape |-> {"execute"}, Save |-> {"execute"}, PDF |-> {"execute"}, Drop |-> {"execute"},
     Open |-> {"execute"}, Quit |-> {"execute"}]

(* What a request is answered, what of the document it changes at once,    *)
(* with the window locked, and what it posts for the window to do.         *)
Outcome(reply, did, posted) == [reply |-> reply, did |-> did, posted |-> posted]
ErrorReply == Outcome(<<"error">>, <<>>, <<>>)
NotHandled == Outcome(<<"none">>, <<>>, <<>>)

(* Zooms are in hundredths; "one value, two conventions".                  *)
Clamped(zoom) == Max({25, Min({400, zoom})})
Factor(z) == IF z > 400 /\ z <= 40000 THEN (z + 50) \div 100 ELSE z
SetZoom(z) == Clamped(Factor(z))

(* A shape's words: a kind, up to four numbers, and what follows a bar.    *)
KindLength == [rect |-> 4, text |-> 4, rrect |-> 5, image |-> 5, ellipse |-> 7, diamond |-> 7]
Spread(numbers) ==
    LET given(i, default) == IF i \in DOMAIN numbers THEN numbers[i] ELSE default
    IN  [x |-> given(1, 0), y |-> given(2, 0), w |-> given(3, 96), h |-> given(4, 64)]

AddShapeScript(spec, loads) ==
    CASE spec.word = "" -> ErrorReply
      [] spec.word = "connect" -> Outcome(<<"done">>, <<[do |-> "connect"]>>, <<>>)
      [] spec.word \notin DOMAIN KindLength \cup {"", "connect"} -> ErrorReply
      [] spec.word = "image" /\ (spec.label = "" \/ ~loads) -> ErrorReply
      [] OTHER -> Outcome(<<"id">>, <<[do |-> "add", kind |-> spec.word, at |-> Spread(spec.numbers),
                                   label |-> IF spec.word = "image" THEN "" ELSE spec.label]>>, <<>>)

(* A colour wants its three parts and a point, or is taken for a kind.     *)
DropScript(spec) ==
    CASE spec.word = "" -> ErrorReply
      [] spec.word \in {"colour", "color"} /\ Len(spec.numbers) >= 5 ->
           Outcome(<<"done">>, <<>>, <<[what |-> "drop", colour |-> SubSeq(spec.numbers, 1, 3),
                                    at |-> SubSeq(spec.numbers, 4, 5)]>>)
      [] spec.word \in DOMAIN KindLength \ {"image"} ->
           Outcome(<<"done">>, <<>>, <<[what |-> "drop", kind |-> spec.word,
                                    at |-> <<Spread(spec.numbers).x, Spread(spec.numbers).y>>]>>)
      [] OTHER -> ErrorReply

(* path is empty, good, or one that nothing can be done with.              *)
OnPath(path, outcome) == IF path = "good" THEN outcome ELSE ErrorReply

HandleScriptingForWindow(verb, property, data) ==
    CASE property = "ShapeCount" /\ verb = "get" -> Outcome(<<"count">>, <<>>, <<>>)
      [] property = "Zoom" /\ verb = "get" -> Outcome(<<"zoom">>, <<>>, <<>>)
      [] property = "Zoom" /\ verb = "set" ->
           Outcome(<<"zoom", SetZoom(data.zoom)>>, <<>>, <<[what |-> "zoom", zoom |-> Factor(data.zoom)]>>)
      [] property = "Activate" /\ verb = "execute" ->
           Outcome(<<"done">>, <<[do |-> "focus"]>>, <<[what |-> "focus"]>>)
      [] property = "AddShape" /\ verb = "execute" -> AddShapeScript(data.spec, data.path = "good")
      [] property = "Save" /\ verb = "execute" ->
           OnPath(data.path, Outcome(<<"done">>, <<[do |-> "save"]>>, <<>>))
      [] property = "PDF" /\ verb = "execute" -> OnPath(data.path, Outcome(<<"done">>, <<>>, <<>>))
      [] property = "Drop" /\ verb = "execute" -> DropScript(data.spec)
      [] property = "Open" /\ verb = "execute" ->
           OnPath(data.path, Outcome(<<"done">>, <<>>, <<[what |-> "open"]>>))
      [] property = "Quit" /\ verb = "execute" -> Outcome(<<"done">>, <<>>, <<[what |-> "quit"]>>)
      [] OTHER -> NotHandled

----------------------------------------------------------------------------
(* The application: files that come before it is ready wait, the last of   *)
(* them only; all go to the newest window.  A window that closes says so   *)
(* and is gone some time after; when it was the last, so is all.           *)
PDApp(args) == [windows |-> <<>>, opens |-> <<>>, pending |-> <<>>, args |-> args,
                leaving |-> {}, told |-> <<>>, next |-> 1, runs |-> TRUE]
NewWindow(app) == [app EXCEPT !.windows = Append(@, app.next), !.next = @ + 1]
DocWindow(app) == Last(app.windows)
Hand(app, files) == [app EXCEPT !.opens = @ \o [i \in DOMAIN files |-> <<DocWindow(app), files[i]>>]]
ReadyToRun(app) ==
    [Hand(NewWindow(app), app.args \o app.pending) EXCEPT !.pending = <<>>, !.args = <<>>]
RefsReceived(app, file) ==
    IF app.windows = <<>> THEN [app EXCEPT !.pending = <<file>>] ELSE Hand(app, <<file>>)

WindowCloses(app, w) ==
    [app EXCEPT !.leaving = @ \cup {w}, !.told = Append(@, w)]
WindowGone(app, w) ==
    [app EXCEPT !.leaving = @ \ {w}, !.windows = SelectSeq(@, LAMBDA v : v # w)]
WindowClosed(app) ==            \* 'pdWc'
    [app EXCEPT !.told = Tail(@), !.runs = ToSet(app.windows) \ {Head(app.told)} # {}]

----------------------------------------------------------------------------
Specs == [word : DOMAIN KindLength \cup {"connect", "colour", "blob", ""},
          numbers : {<<>>, <<8, 16>>, <<8, 16, 32, 48>>, <<255, 128, 0, 8, 16>>},
          label : {"", "words"}]
Given == [zoom : {-100, 0, 25, 50, 100, 400, 500, 20000, 40000, 50000}, spec : Specs,
          path : {"", "good", "bad"}]

(* Whatever the table lists is answered, an error has changed nothing and  *)
(* posted nothing, and only adding shapes, saving and the focus are done   *)
(* before the answer.                                                      *)
ASSUME RequestsAreAnswered ==
    \A property \in DOMAIN sPDProperties, verb \in {"get", "set", "execute"}, data \in Given :
      LET outcome == HandleScriptingForWindow(verb, property, data)
      IN  /\ (verb \in sPDProperties[property]) = (outcome # NotHandled)
          /\ outcome.reply = <<"error">> => outcome = ErrorReply
          /\ outcome.did # <<>> => property \in {"AddShape", "Save", "Activate"}

(* The zoom that is answered is the one the canvas will have; a percentage *)
(* and a factor ask for the same.                                          *)
ASSUME ZoomIsAnswered ==
    /\ \A data \in Given :
         LET outcome == HandleScriptingForWindow("set", "Zoom", data)
         IN  outcome.reply[2] = Clamped(outcome.posted[1].zoom) /\ outcome.reply[2] \in 25 .. 400
    /\ \A z \in 25 .. 400 : SetZoom(z) = z /\ (z > 4 => SetZoom(100 * z) = z)

(* A shape that is added and one that is dropped are read alike.           *)
ASSUME WordsAreReadAlike ==
    \A spec \in Specs :
      LET added   == AddShapeScript(spec, TRUE)
          dropped == DropScript(spec)
      IN  dropped.posted # <<>> /\ spec.word # "colour" =>
            /\ added.did[1].kind = dropped.posted[1].kind
            /\ <<added.did[1].at.x, added.did[1].at.y>> = dropped.posted[1].at

(* The first window opens the arguments and the last of the files that     *)
(* came before it did; what comes later goes to the newest window.         *)
ASSUME FilesFindTheirWindow ==
    \A args \in BoundedSeq({"a", "b"}, 2), early \in BoundedSeq({"c", "d"}, 2), late \in {"c", "e"} :
      LET ready == ReadyToRun(FoldLeft(RefsReceived, PDApp(args), early))
          kept  == IF early = <<>> THEN <<>> ELSE <<Last(early)>>
      IN  /\ ready.opens = [i \in DOMAIN (args \o kept) |-> <<1, (args \o kept)[i]>>]
          /\ Last(RefsReceived(ready, late).opens) = <<1, late>>
          /\ Last(RefsReceived(NewWindow(ready), late).opens) = <<2, late>>

(* The windows in every order they can come, close and go.                 *)
CanFollow(app) ==
    IF ~app.runs THEN {}
    ELSE (IF app.next <= 3 THEN {NewWindow(app)} ELSE {})
           \cup {WindowCloses(app, w) : w \in ToSet(app.windows) \ app.leaving}
           \cup {WindowGone(app, w) : w \in app.leaving}
           \cup (IF app.told = <<>> THEN {} ELSE {WindowClosed(app)})
DrawApps ==
    FoldLeft(LAMBDA apps, i : apps \cup UNION {CanFollow(a) : a \in apps},
             {ReadyToRun(PDApp(<<>>))}, [i \in 1 .. 9 |-> i])

(* The application does not end over a window that has not closed, nor     *)
(* stay without one, when they close one after the other.                  *)
ASSUME EndsWithLastWindow ==
    \A app \in DrawApps :
      /\ ~app.runs => ToSet(app.windows) \subseteq app.leaving
      /\ \A w \in ToSet(app.windows) :
           Len(app.windows) = 1 /\ app.leaving = {} /\ app.told = <<>> /\ app.runs =>
             ~WindowClosed(WindowCloses(app, w)).runs
=============================================================================
