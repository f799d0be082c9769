------------------------------ MODULE JuliaApp ------------------------------
(* ProseJulia: the fractal, its view, its window and its scripting, as the *)
(* steps one application takes.  Angles are in quarters of a degree,       *)
(* lengths of the plane in millionths; the window is kept square, and a    *)
(* picture stands for what it was drawn from.                              *)
EXTENDS Integers, Sequences, SequencesExt, Functions

Unit == 1000000
Circle == 1440
NoPicture == [wide |-> 0]
Palettes == <<"inferno", "ocean", "ember", "ultraviolet">>

(* The control points of the palettes: hundredths of the way, and colour.  *)
kRamps ==
  <<<<<<0, 0, 0, 4>>, <<25, 87, 16, 110>>, <<50, 188, 55, 84>>,
      <<70, 249, 133, 22>>, <<88, 252, 222, 100>>, <<100, 255, 255, 255>>>>,
    <<<<0, 2, 6, 24>>, <<30, 10, 40, 99>>, <<55, 30, 96, 168>>,
      <<78, 90, 180, 222>>, <<92, 190, 236, 250>>, <<100, 255, 255, 255>>>>,
    <<<<0, 12, 10, 10>>, <<35, 70, 52, 46>>, <<60, 178, 78, 44>>,
      <<80, 240, 152, 60>>, <<93, 254, 224, 144>>, <<100, 255, 255, 236>>>>,
    <<<<0, 4, 0, 12>>, <<28, 64, 12, 108>>, <<52, 156, 36, 168>>,
      <<74, 236, 92, 188>>, <<90, 152, 220, 252>>, <<100, 255, 255, 255>>>>>>

(* Lerp8: num/den of the way from a to b, rounded.                         *)
Lerp8(num, den, a, b) == (2 * a * den + 2 * (b - a) * num + den) \div (2 * den)
Stretch(points, i) ==
    CHOOSE s \in 1 .. 5 : (s = 5 \/ 100 * i <= 255 * points[s + 1][1])
                            /\ (s = 1 \/ 100 * i > 255 * points[s][1])
BuildRamp(palette) ==
    LET points == kRamps[palette]
    IN  [i \in 0 .. 255 |->
           LET from == points[Stretch(points, i)]
               to   == points[Stretch(points, i) + 1]
           IN  [c \in 1 .. 3 |-> Lerp8(100 * i - 255 * from[1], 255 * (to[1] - from[1]),
                                      from[c + 1], to[c + 1])]]

----------------------------------------------------------------------------
(* PJFractal.  Values that make no sense are left unheard.                 *)
SetView(f, re, im, span) ==
    IF span \in 1 .. 100 * Unit THEN [f EXCEPT !.re = re, !.im = im, !.span = span] ELSE f
ZoomBy(f, num, den) == IF num > 0 THEN SetView(f, f.re, f.im, (f.span * num) \div den) ELSE f
PanBy(f, right, down) == [f EXCEPT !.re = @ + right, !.im = @ + down]
SetFrame(f, theta) == [f EXCEPT !.theta = theta % Circle]
SetIterations(f, n) == IF n \in 16 .. 2048 THEN [f EXCEPT !.iterations = n] ELSE f
SetPalette(f, index) ==
    IF index \in DOMAIN Palettes THEN [f EXCEPT !.palette = index, !.ramp = index] ELSE f

(* All a pixel's colour is worked out from.                                *)
Seen(f) == [re |-> f.re, im |-> f.im, span |-> f.span, theta |-> f.theta,
            iterations |-> f.iterations, ramp |-> f.ramp]

----------------------------------------------------------------------------
(* The view: a whole picture when something was set, one of a third of the *)
(* size at every pulse, none at all in fewer than two columns.             *)
Draw(v, size) == [v EXCEPT !.picture = [wide |-> size, seen |-> Seen(v)]]
RenderFull(v) ==
    LET fine == [v EXCEPT !.lowRes = FALSE]
    IN  IF v.wide < 2 THEN fine ELSE Draw(fine, v.wide)
Pulse(v) ==
    LET turned == SetFrame(v, v.theta + v.speed)
    IN  CASE v.paused -> v
          [] ~v.paused /\ v.wide \div 3 < 2 -> turned
          [] OTHER -> Draw([turned EXCEPT !.lowRes = TRUE], v.wide \div 3)

Post(v, m) == [v EXCEPT !.inbox = Append(@, m)]
SetPaused(v, paused) ==
    LET held == [v EXCEPT !.paused = paused]
    IN  Post(IF paused THEN RenderFull(held) ELSE [held EXCEPT !.lowRes = TRUE], [what |-> "title"])
UpdateTitle(v) ==
    [v EXCEPT !.title = [theta |-> v.theta, span |-> v.span, palette |-> v.palette,
                         paused |-> v.paused]]

(* A postcard has its own size, and every detail.                          *)
SavePostcard(v) == [v EXCEPT !.card = [wide |-> 512, seen |-> Seen(v)]]

KeyDown(v, key) ==
    CASE key = "space" -> SetPaused(v, ~v.paused)
      [] key = "plus"  -> RenderFull(ZoomBy(v, 7, 10))
      [] key = "minus" -> RenderFull(ZoomBy(v, 10, 7))
      [] key = "left"  -> RenderFull(PanBy(v, -(v.span \div 10), 0))
      [] key = "right" -> RenderFull(PanBy(v, v.span \div 10, 0))
      [] key = "up"    -> RenderFull(PanBy(v, 0, -(v.span \div 10)))
      [] key = "down"  -> RenderFull(PanBy(v, 0, v.span \div 10))

(* The window: the messages of its menu, of the view and of the scripting. *)
MenuMessages ==
    {[what |-> "toggle"], [what |-> "reset"], [what |-> "quit"], [what |-> "postcard"]}
        \cup {[what |-> "palette", index |-> i] : i \in DOMAIN Palettes}
        \cup {[what |-> "detail", iterations |-> n] : n \in {64, 200, 500, 1000}}
        \cup {[what |-> "speed", speed |-> s] : s \in {1, 4, 12, 32}}
MessageReceived(v, m) ==
    CASE m.what = "toggle"  -> UpdateTitle(SetPaused(v, ~v.paused))
      [] m.what = "reset"   -> UpdateTitle(RenderFull(SetView(v, 0, 0, 3 * Unit)))
      [] m.what = "palette" -> UpdateTitle(RenderFull(SetPalette(v, m.index)))
      [] m.what = "detail"  -> RenderFull(SetIterations(v, m.iterations))
      [] m.what = "speed"   -> [v EXCEPT !.speed = m.speed]
      [] m.what = "postcard" -> SavePostcard(v)
      [] m.what = "redraw"  -> UpdateTitle(RenderFull(v))
      [] m.what = "title"   -> UpdateTitle(v)
      [] m.what = "quit"    -> [v EXCEPT !.open = FALSE, !.inbox = <<>>]
Handled(v) == MessageReceived([v EXCEPT !.inbox = Tail(@)], Head(v.inbox))

PJWindow(wide) ==
    UpdateTitle(RenderFull(
      [re |-> 0, im |-> 0, span |-> 3 * Unit, theta |-> 0, iterations |-> 200, palette |-> 1,
       ramp |-> 1, speed |-> 4, paused |-> FALSE, lowRes |-> FALSE, picture |-> NoPicture, card |-> NoPicture,
       wide |-> wide, title |-> <<>>, inbox |-> <<>>, open |-> TRUE, reply |-> [is |-> "none"]]))

----------------------------------------------------------------------------
(* Scripting: a request is a verb, a property and data, which come as a    *)
(* number or as words.                                                     *)
sPJProperties ==
    [Frame |-> {"get", "set"}, Paused |-> {"get", "set"}, Palette |-> {"set"},
     Iterations |-> {"set"}, Zoom |-> {"set"}, Centre |-> {"set"}, Pixel |-> {"get"},
     Activate |-> {"execute"}, Postcard |-> {"execute"}, Quit |-> {"execute"}]

Reply(v, value) == [v EXCEPT !.reply = [is |-> "result", value |-> value]]
Fails(v) == [v EXCEPT !.reply = [is |-> "error"]]
Redrawn(v) == Reply(Post(v, [what |-> "redraw"]), <<>>)
Whole(v) == (v.theta + 2) \div 4        \* (int32)(Frame() + 0.5)
Number(data) == IF data.as = "none" THEN 0 ELSE data.n
Writable == {64}                        \* the paths a file can be written to
IntOnly(data) == IF data.as = "int" THEN data.n ELSE 0

Get(v, property, data) ==
    CASE property = "Frame"  -> Reply(v, [frame |-> Whole(v)])
      [] property = "Paused" -> Reply(v, [paused |-> v.paused])
      [] property = "Pixel"  ->
           LET still == IF v.paused THEN v ELSE SetPaused(v, TRUE)
           IN  IF data.as # "words" THEN Fails(v)
               ELSE IF data.n \in 0 .. still.picture.wide - 1 THEN Reply(still, [seen |-> still.picture.seen])
               ELSE Fails(still)

(* Paused is set by a toggle, posted when it differs.                      *)
Set(v, property, data) ==
    CASE property = "Frame"  ->
           LET turned == SetFrame(v, 4 * Number(data))
           IN  Reply(Post(turned, [what |-> "redraw"]), [frame |-> Whole(turned)])
      [] property = "Paused" ->
           LET pause == data.as = "none" \/ data.n # 0
           IN  Reply(IF pause # v.paused THEN Post(v, [what |-> "toggle"]) ELSE v, <<>>)
      [] property = "Palette" ->
           IF data.as = "words" /\ data.n \in DOMAIN Palettes THEN Redrawn(SetPalette(v, data.n))
           ELSE Fails(v)
      [] property = "Iterations" -> Redrawn(SetIterations(v, IntOnly(data)))
      [] property = "Zoom"       ->
           Redrawn(IF Number(data) > 0 THEN ZoomBy(v, 1, Number(data)) ELSE v)
      [] property = "Centre"     ->
           IF data.as = "words" THEN Redrawn(SetView(v, data.n, data.n, v.span)) ELSE Fails(v)

Execute(v, property, data) ==
    CASE property = "Activate" -> Reply(v, <<>>)
      [] property = "Postcard" ->
           IF data.as = "words" /\ data.n \in Writable THEN Reply(SavePostcard(v), <<>>) ELSE Fails(v)
      [] property = "Quit"     -> Reply(Post(v, [what |-> "quit"]), <<>>)

(* What the table does not list, and what no window is there to do, is     *)
(* left to the system, which says that it was not understood.              *)
Scripted(v, verb, property, data) ==
    IF verb \notin sPJProperties[property] \/ ~v.open
    THEN [v EXCEPT !.reply = [is |-> "not understood"]]
    ELSE CASE verb = "get" -> Get(v, property, data)
           [] verb = "set" -> Set(v, property, data)
           [] verb = "execute" -> Execute(v, property, data)

----------------------------------------------------------------------------
Offered == [as : {"none"}] \cup [as : {"int", "words"}, n : {0, 3, 64}]
KeyNames == {"space", "plus", "minus", "left", "right", "up", "down"}
Listed == {q \in {"get", "set", "execute"} \X DOMAIN sPJProperties : q[1] \in sPJProperties[q[2]]}
Asked(v) == {Scripted(v, q[1], q[2], d) : q \in Listed, d \in Offered}

(* What can happen next; a new size of the window draws nothing.           *)
CanBecome(v) ==
    Asked(v) \cup
    IF ~v.open THEN {}
    ELSE {KeyDown(v, key) : key \in KeyNames} \cup {Pulse(v)}
           \cup {Post(v, m) : m \in MenuMessages}
           \cup {[v EXCEPT !.wide = w] : w \in {5, 9}}
           \cup (IF v.inbox = <<>> THEN {} ELSE {Handled(v)})

(* Whatever happened before: the states of the first steps.                *)
Quiet(v) == [v EXCEPT !.reply = [is |-> "none"], !.card = NoPicture]
JuliaStates ==
    FoldLeft(LAMBDA reached, i : reached \cup UNION {{Quiet(w) : w \in CanBecome(v)} : v \in reached},
             {PJWindow(9)}, <<1, 2>>)

(* Spans at either end, where many presses of plus and minus lead.         *)
Spans == (1 .. 30) \cup {k * Unit + r : k \in 69 .. 99, r \in 0 .. 3} \cup {100 * Unit}
Near(span) == [PJWindow(9) EXCEPT !.span = span]
Waits(v, what) == \E i \in DOMAIN v.inbox : v.inbox[i].what = what

(* Every palette runs from its first colour to its last without a jump.    *)
ASSUME RampsAreSmooth ==
    \A p \in DOMAIN Palettes : \A c \in 1 .. 3 :
      LET ramp == BuildRamp(p)
      IN  /\ ramp[0][c] = kRamps[p][1][c + 1] /\ ramp[255][c] = kRamps[p][6][c + 1]
          /\ \A i \in 1 .. 255 : ramp[i][c] - ramp[i - 1][c] \in -4 .. 7

(* No order of keys, menus, pulses and scripts takes the fractal out of    *)
(* its limits, or leaves it coarse when it stands still.                   *)
InBounds(v) ==
    /\ v.theta \in 0 .. Circle - 1 /\ v.span \in 1 .. 100 * Unit
    /\ v.iterations \in 16 .. 2048 /\ v.palette = v.ramp
    /\ v.paused => ~v.lowRes
ASSUME FractalInBounds ==
    /\ \A u \in JuliaStates : \A v \in CanBecome(u) : InBounds(v)
    /\ \A key \in KeyNames, span \in Spans : InBounds(KeyDown(Near(span), key))

(* "pause renders full detail": a picture that stands still shows the      *)
(* fractal as it was set last, once the window has caught up.              *)
ASSUME StillPictureIsCurrent ==
    \A u \in JuliaStates : \A v \in CanBecome(u) :
      v.paused /\ v.open /\ ~Waits(v, "redraw") => v.picture.seen = Seen(v)

(* The title's words follow the fractal, but for the span, which the keys  *)
(* change without it.                                                      *)
ASSUME TitleCatchesUp ==
    \A u \in JuliaStates : \A v \in CanBecome(u) :
      v.open /\ v.inbox = <<>> =>
        /\ v.title.paused = v.paused
        /\ v.title.palette = v.palette
        /\ v.paused => v.title.theta = v.theta

(* Every request that is listed is answered, an error has changed nothing  *)
(* of the fractal, and a pixel is that of the fractal as it is, unless the *)
(* window still has to draw what was set before.                           *)
ASSUME AnswersAreTrue ==
    \A v \in {u \in JuliaStates : u.open} : \A q \in Listed, d \in Offered :
      LET w == Scripted(v, q[1], q[2], d)
      IN  /\ w.reply.is \in {"result", "error"}
          /\ w.reply.is = "error" => Seen(w) = Seen(v)
          /\ q[2] = "Pixel" /\ w.reply.is = "result" /\ ~Waits(v, "redraw") =>
                w.reply.value.seen = Seen(w)

(* "keep theta in [0, 360) so Frame get/set round-trips".                  *)
ASSUME FramesReadBack ==
    \A theta \in -800 .. 800 :
      LET w == Scripted(PJWindow(9), "set", "Frame", [as |-> "int", n |-> theta])
      IN  Get(w, "Frame", [as |-> "none"]).reply.value.frame = theta % 360

(* "set, not toggle": what is asked of a window that has caught up is so   *)
(* when it has caught up again; of two requests on end the second undoes   *)
(* the first.                                                              *)
CaughtUp(v) == FoldLeft(LAMBDA w, m : Handled(w), v, v.inbox)
PauseOf(v, on) == Scripted(v, "set", "Paused", [as |-> "int", n |-> on])
ASSUME PausedIsSet ==
    \A v \in {w \in JuliaStates : w.open /\ w.inbox = <<>>}, on \in {0, 1} :
      /\ CaughtUp(PauseOf(v, on)).paused = (on = 1)
      /\ CaughtUp(PauseOf(PauseOf(v, on), on)).paused = v.paused
=============================================================================
