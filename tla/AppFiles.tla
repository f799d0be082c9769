------------------------------ MODULE AppFiles ------------------------------
(* The PDF files of ProseWriter, ProseDraw, ProsePaint and ProseJulia: the *)
(* objects and the table that finds them, a write that fails, and for      *)
(* ProseDraw the drawing operators, labels and pictures.  A file is what   *)
(* it is made of: numbered objects of some length that refer to others.    *)
(*                                                                         *)
(* The lists of files opened last: of ProseDraw and ProsePaint (PDRecent,  *)
(* PPRecent), which keep them in memory, and of ProseWriter, which keeps   *)
(* them in a file.  A path is a sequence of characters, most of which are  *)
(* as good as any other.                                                   *)
EXTENDS Integers, Sequences, FiniteSetsExt, SequencesExt, Functions

----------------------------------------------------------------------------
(* The objects, in the order they are written.  told: the error of the     *)
(* write is looked at before the next one.                                 *)
Object(number, refs) == [number |-> number, refs |-> refs, told |-> TRUE]
Header == Object(0, {})

Fixed(page) == <<Object(1, {2}), Object(2, {3}), page, Object(4, {})>>
ImagePage == Fixed(Object(3, {2, 4, 5})) \o <<Object(5, {})>>
PaintObjects == ImagePage
JuliaObjects == ImagePage

DrawPage(images) == Object(3, {2, 4, 5} \cup {5 + i : i \in 1 .. images})
DrawImages(images) == [i \in 1 .. images |-> Object(5 + i, {})]
DrawObjects(images) ==
    Fixed(DrawPage(images)) \o <<Object(5, {})>> \o DrawImages(images)

(* The error of the first object is overwritten by that of the second.     *)
WriterTree(pages) ==
    <<[Object(1, {2}) EXCEPT !.told = FALSE],
      Object(2, {3 * p : p \in 1 .. pages})>>
WriterPage(p) ==
    <<Object(3 * p, {2, 3 * p + 1, 3 * p + 2}), Object(3 * p + 1, {}),
      Object(3 * p + 2, {})>>
WriterObjects(pages) ==
    WriterTree(pages) \o FlattenSeq([p \in 1 .. pages |-> WriterPage(p)])

----------------------------------------------------------------------------
(* Written one after the other: pos counts what should have been written,  *)
(* disk where each piece really begins, end how long the file really is.   *)
Nothing == [pos |-> 0, end |-> 0, disk |-> <<>>, offsets |-> <<>>, err |-> FALSE]
Put(file, object, length, fails) ==
    IF file.err THEN file ELSE
    [pos     |-> file.pos + length,
     end     |-> file.end + IF fails THEN length - 1 ELSE length,
     disk    |-> Append(file.disk, [at |-> file.end, object |-> object]),
     offsets |-> [n \in DOMAIN file.offsets \cup ({object.number} \ {0}) |->
                    IF n = object.number THEN file.pos ELSE file.offsets[n]],
     err     |-> fails /\ object.told]

(* A file that could not be written is taken away again.                   *)
NoFile == [disk |-> <<>>]
Finished(put, fails) ==
    IF put.err \/ fails THEN NoFile
    ELSE [disk |-> put.disk, offsets |-> put.offsets, start |-> put.pos, table |-> put.end]
WritePDF(objects, length, failing) ==
    LET pieces == <<Header>> \o objects
    IN  Finished(FoldLeftDomain(
                   LAMBDA file, i : Put(file, pieces[i], length[i], i = failing),
                   Nothing, pieces),
                 failing = Len(pieces) + 1)

(* A reader goes from the end to the table and from there to the objects.  *)
ObjectAt(file, offset) == {p.object.number : p \in {q \in Range(file.disk) : q.at = offset}}
Reads(file) ==
    /\ file.start = file.table
    /\ \A n \in DOMAIN file.offsets : ObjectAt(file, file.offsets[n]) = {n}
    /\ UNION {p.object.refs : p \in Range(file.disk)} = DOMAIN file.offsets \ {1}
    /\ DOMAIN file.offsets = 1 .. Len(file.disk) - 1

WriterFiles == {WriterObjects(pages) : pages \in 1 .. 3}
PdfFiles == {PaintObjects, JuliaObjects} \cup {DrawObjects(n) : n \in 0 .. 3} \cup WriterFiles
Lengths(objects, k) == [i \in 1 .. Len(objects) + 1 |-> 1 + ((i * k) % 4)]
Failures(objects) == 1 .. Len(objects) + 2

(* Every reference of a file that was written to its end is found where    *)
(* the table says, whatever the lengths of the objects.                    *)
ASSUME WholeFilesRead ==
    \A objects \in PdfFiles, k \in 1 .. 3 :
      Reads(WritePDF(objects, Lengths(objects, k), 0))

(* "never leave a broken half-PDF behind": a file in which any one write   *)
(* fails is gone, but for ProseWriter's catalog, which nobody misses.      *)
ASSUME NoHalfFiles ==
    \A objects \in PdfFiles, k \in 1 .. 3 : \A failing \in Failures(objects) :
      LET left == WritePDF(objects, Lengths(objects, k), failing)
      IN  IF objects \in WriterFiles /\ failing = 2
          THEN left # NoFile /\ ~Reads(left)
          ELSE left = NoFile

----------------------------------------------------------------------------
(* The pixels: four bytes of the bitmap's rows, three of the file's.       *)
Rows(width, height, bytesPerRow) ==
    {[to |-> 3 * (y * width + x) + c, from |-> y * bytesPerRow + 4 * x + (2 - c)] :
       x \in 0 .. width - 1, y \in 0 .. height - 1, c \in 0 .. 2}
JuliaRows(width, height, bytesPerRow) == Rows(width, height, bytesPerRow)
DrawRows(width, height) == Rows(width, height, 4 * width)
OverWhite(value, alpha) == (value * alpha + 255 * (255 - alpha)) \div 255

(* Every byte of the file comes from one byte of the bitmap that is not a  *)
(* pixel's alpha nor the rest of a row; the paper shows through as much as *)
(* the painting lets it.                                                   *)
ASSUME PixelsInPlace ==
    \A w, h \in 1 .. 3, slack \in {0, 4} :
      \A rows \in {Rows(w, h, 4 * w + slack), JuliaRows(w, h, 4 * w + slack)} :
      /\ slack = 0 => rows = DrawRows(w, h)
      /\ {r.to : r \in rows} = 0 .. 3 * w * h - 1
      /\ Cardinality(rows) = 3 * w * h
      /\ Cardinality({r.from : r \in rows}) = 3 * w * h
      /\ \A r \in rows : r.from % (4 * w + slack) < 4 * w /\ r.from % 4 # 3
ASSUME PaperShows ==
    \A a \in 0 .. 255, v \in {0, 1, 127, 254, 255} :
      /\ OverWhite(v, a) \in v .. 255
      /\ OverWhite(v, 255) = v /\ OverWhite(v, 0) = 255

----------------------------------------------------------------------------
(* What is drawn: the operators of a shape, without their numbers.         *)
Box(kind) ==
    CASE kind = "rect"    -> <<"re">>
      [] kind = "ellipse" -> <<"m", "c", "c", "c", "c", "h">>
      [] kind = "rrect"   -> <<"m">> \o FlattenSeq([i \in 1 .. 4 |-> <<"l", "c">>]) \o <<"h">>
      [] kind = "diamond" -> <<"m", "l", "l", "l", "h">>
BoxKinds == {"rect", "ellipse", "rrect", "diamond"}

If(condition, ops) == IF condition THEN ops ELSE <<>>
EmitBoxShape(s) ==
    Box(s.kind) \o If(s.fillOn, <<"rg">>) \o If(s.stroked, <<"RG", "w", "d">>)
    \o (IF s.fillOn /\ s.stroked THEN <<"B">>
        ELSE If(s.fillOn, <<"f">>) \o If(s.stroked, <<"S">>))
EmitLabel == <<"BT", "Tf", "rg", "Td", "Tj", "ET">>
EmitArrowhead == <<"q", "rg", "m", "l", "l", "h", "f", "Q">>
EmitConnector(s) ==
    <<"q", "RG", "w", "d", "m">> \o [i \in 1 .. s.bends + 1 |-> "l"] \o <<"S", "Q">>
    \o If(s.arrowEnd, EmitArrowhead) \o If(s.arrowStart, EmitArrowhead)
EmitShape(s) ==
    CASE s.kind = "connector" -> If(s.joined, EmitConnector(s))
      [] s.kind = "text"      -> If(s.labelled, EmitLabel)
      [] s.kind = "image"     -> <<"q", "cm", "Do", "Q">>
      [] s.kind \in BoxKinds  ->
           <<"q">> \o EmitBoxShape(s) \o <<"Q">> \o If(s.labelled, EmitLabel)

(* A reader of the page: saved states, texts and paths nest, and a path    *)
(* that was begun is painted before anything else is.                      *)
Page == [saved |-> 0, text |-> FALSE, path |-> FALSE, ok |-> TRUE]
Follow(page, op) ==
    LET free == ~page.text /\ ~page.path IN
    CASE op = "q"  -> [page EXCEPT !.saved = @ + 1, !.ok = @ /\ free]
      [] op = "Q"  -> [page EXCEPT !.saved = @ - 1, !.ok = @ /\ free /\ page.saved > 0]
      [] op = "BT" -> [page EXCEPT !.text = TRUE, !.ok = @ /\ free]
      [] op = "ET" -> [page EXCEPT !.text = FALSE, !.ok = @ /\ page.text]
      [] op \in {"m", "re"} -> [page EXCEPT !.path = TRUE, !.ok = @ /\ ~page.text]
      [] op \in {"l", "c", "h"} -> [page EXCEPT !.ok = @ /\ page.path]
      [] op \in {"S", "f", "B"} -> [page EXCEPT !.path = FALSE, !.ok = @ /\ page.path]
      [] op \in {"Tf", "Td", "Tj"} -> [page EXCEPT !.ok = @ /\ page.text]
      [] op \in {"cm", "Do"} -> [page EXCEPT !.ok = @ /\ free]
      [] op \in {"rg", "RG", "w", "d"} -> page
WellFormed(ops) == FoldLeft(Follow, Page, ops) = Page

Shapes == [kind : BoxKinds \cup {"connector", "text", "image"},
           fillOn : BOOLEAN, stroked : BOOLEAN, labelled : BOOLEAN, joined : BOOLEAN,
           arrowEnd : BOOLEAN, arrowStart : BOOLEAN, bends : 0 .. 2]

(* What ProseDraw puts on a page can be read; a box with neither fill nor  *)
(* line leaves its path unpainted, and only that.                          *)
ASSUME PagesAreWellFormed ==
    \A s \in Shapes :
      WellFormed(EmitShape(s)) <=> (s.kind \in BoxKinds => s.fillOn \/ s.stroked)

----------------------------------------------------------------------------
(* The pictures: named on the page in the order they are first drawn,      *)
(* stored in the order of their identities.                                *)
ImageObject(drawn) ==
    FoldLeft(LAMBDA names, id :
               IF id \in DOMAIN names THEN names
               ELSE [i \in DOMAIN names \cup {id} |->
                       IF i = id THEN Cardinality(DOMAIN names) ELSE names[i]],
             <<>>, drawn)
Stored(names, id) == Cardinality({i \in DOMAIN names : i < id})
ShownFor(drawn, id) ==
    LET names == ImageObject(drawn)
    IN  CHOOSE other \in DOMAIN names : Stored(names, other) = names[id]

(* Each picture is shown in its place if the pictures appear in the order  *)
(* of their identities; in any other order some are exchanged.             *)
FirstUses(drawn) ==
    SelectSeq([i \in DOMAIN drawn |-> IF \E j \in 1 .. i - 1 : drawn[j] = drawn[i]
                                      THEN 0 ELSE drawn[i]], LAMBDA id : id # 0)
ASSUME PicturesInOrderAreRight ==
    \A drawn \in BoundedSeq(1 .. 3, 4) :
      (\A id \in Range(drawn) : ShownFor(drawn, id) = id)
        <=> IsSorted(FirstUses(drawn), LAMBDA a, b : a <= b)

----------------------------------------------------------------------------
(* A label: UTF-8 to the literal of the page.                              *)
Points(bytes) ==
    LET At(i) == IF i <= Len(bytes) THEN bytes[i] ELSE 0
        Lead(i) == At(i) \div 32 = 6 /\ At(i + 1) # 0
        Lead3(i) == At(i) \div 16 = 14 /\ At(i + 1) # 0 /\ At(i + 2) # 0
        from[i \in 1 .. Len(bytes) + 3] ==
          IF i > Len(bytes) THEN <<>>
          ELSE IF At(i) < 128 THEN <<At(i)>> \o from[i + 1]
          ELSE IF Lead(i)
               THEN <<(At(i) % 32) * 64 + (At(i + 1) % 64)>> \o from[i + 2]
          ELSE IF Lead3(i)
               THEN <<(At(i) % 16) * 4096 + (At(i + 1) % 64) * 64 + (At(i + 2) % 64)>>
                    \o from[i + 3]
          ELSE <<65533>> \o from[i + 1]
    IN  from[1]
Marks == {8364, 8226, 8211, 8212, 8216, 8217, 8220, 8221}
MarkCode(cp) ==
    CASE cp = 8364 -> 128 [] cp = 8226 -> 149 [] cp = 8211 -> 150 [] cp = 8212 -> 151
      [] cp = 8216 -> 145 [] cp = 8217 -> 146 [] cp = 8220 -> 147 [] cp = 8221 -> 148
WinAnsi(cp) ==
    IF cp < 128 \/ cp \in 160 .. 255 THEN cp ELSE IF cp \in Marks THEN MarkCode(cp) ELSE 63
Backslash == 92
Escaped(byte) ==
    IF byte \in {40, 41, Backslash} THEN <<Backslash, byte>>
    ELSE IF byte \in 32 .. 126 THEN <<byte>>
    ELSE <<Backslash, 48 + (byte \div 64), 48 + ((byte \div 8) % 8), 48 + (byte % 8)>>
PdfText(bytes) == FlattenSeq([i \in DOMAIN Points(bytes) |-> Escaped(WinAnsi(Points(bytes)[i]))])
(* HelveticaStringWidth(), in characters: it measures the escaped text.    *)
Measured(bytes) == Len(PdfText(bytes))

(* A reader of the literal.                                                *)
Literal(text) ==
    LET from[i \in 1 .. Len(text) + 4] ==
          IF i > Len(text) THEN <<>>
          ELSE IF text[i] # Backslash THEN <<text[i]>> \o from[i + 1]
          ELSE IF text[i + 1] \in 48 .. 55
               THEN <<(text[i + 1] - 48) * 64 + (text[i + 2] - 48) * 8 + text[i + 3] - 48>>
                    \o from[i + 4]
          ELSE <<text[i + 1]>> \o from[i + 2]
    IN  from[1]

(* Characters and what is to be read for them: of one byte, of two, of     *)
(* three; one of four is four question marks.                              *)
Characters == {<<<<65>>, <<65>>>>, <<<<40>>, <<40>>>>, <<<<92>>, <<92>>>>,
               <<<<49>>, <<49>>>>, <<<<9>>, <<9>>>>, <<<<195, 169>>, <<233>>>>,
               <<<<226, 130, 172>>, <<128>>>>, <<<<206, 169>>, <<63>>>>,
               <<<<240, 159, 152, 128>>, <<63, 63, 63, 63>>>>}

(* A label is read back as it was written, character by character, and     *)
(* measured as long as it is if nothing in it had to be escaped.           *)
ASSUME LabelsReadBack ==
    \A a, b, c \in Characters :
      LET label == a[1] \o b[1] \o c[1] IN
      /\ Literal(PdfText(label)) = a[2] \o b[2] \o c[2]
      /\ Measured(label) = Len(Literal(PdfText(label)))
           <=> \A i \in DOMAIN PdfText(label) : PdfText(label)[i] # Backslash

-----------------------------------------------------------------------------
(* The lists of recent files.                                              *)

Newline == 10
Gap == 32
MaxRecent == 8
Upto(s, n) == SubSeq(s, 1, Min({n, Len(s)}))

(* The newest first, none twice, and no more than MaxRecent.               *)
Remember(items, path) ==
    IF path = <<>> THEN items
    ELSE Upto(<<path>> \o (IF Contains(items, path) THEN RemoveFirst(items, path) ELSE items),
              MaxRecent)

Listed(items) == FlattenSeq([i \in DOMAIN items |-> Append(items[i], Newline)])

Breaks(text) == {i \in DOMAIN text : text[i] = Newline}
LineFrom(text, at) ==
    SubSeq(text, at, Min({i \in Breaks(text) : i >= at} \cup {Len(text) + 1}) - 1)
Lines(text) ==
    FoldLeft(LAMBDA lines, i :
               IF i = 1 \/ i - 1 \in Breaks(text) THEN Append(lines, LineFrom(text, i)) ELSE lines,
             <<>>, [i \in 1 .. Len(text) + 1 |-> i])
Trim(line) ==
    LET solid == {i \in DOMAIN line : line[i] # Gap}
    IN  IF solid = {} THEN <<>> ELSE SubSeq(line, Min(solid), Max(solid))

(* Load(): a file that is too large leaves an empty list.                  *)
Loaded(text, limit) ==
    IF Len(text) \notin 1 .. limit THEN <<>>
    ELSE SelectSeq([i \in DOMAIN Lines(text) |-> Trim(Lines(text)[i])], LAMBDA l : l # <<>>)

----------------------------------------------------------------------------
(* ProseWriter: the file is read up to the size of a buffer, the new path  *)
(* is put in front and the whole lines that are left behind it.            *)
WholeLines(text) == IF text = <<>> THEN <<>> ELSE Front(Lines(text))
AddRecentFile(text, path, buffer) ==
    LET others == SelectSeq(WholeLines(Upto(text, buffer)), LAMBDA l : l # path)
    IN  Listed(Upto(<<path>> \o others, MaxRecent))

(* The menu: up to the first empty line.                                   *)
BuildRecentMenu(text, buffer) ==
    LET lines == Lines(Upto(text, buffer))
        empty == {i \in DOMAIN lines : lines[i] = <<>>}
    IN  Upto(lines, Min({MaxRecent, Len(lines)} \cup {i - 1 : i \in empty}))

----------------------------------------------------------------------------
(* The files opened one after the other; the last MaxRecent of them.       *)
Several == BoundedSeq({<<1>>, <<2, Gap, 2>>, <<3>>}, 4)
Many == {[i \in 1 .. 12 |-> <<20 + ((i * k) % 11)>>] : k \in 1 .. 5}
LastUse(opened, path) == Max({i \in DOMAIN opened : opened[i] = path})
Newest(opened) ==
    Upto(SetToSortSeq(Range(opened), LAMBDA p, q : LastUse(opened, p) > LastUse(opened, q)),
         MaxRecent)

(* The list is the files opened last, in their order, and so it is when it *)
(* is saved and loaded again.                                              *)
ASSUME RemembersTheNewest ==
    \A opened \in Several :
      LET items == FoldLeft(Remember, <<>>, opened) IN
      /\ items = Newest(opened)
      /\ Loaded(Listed(items), 64) = items
ASSUME ForgetsTheOldest ==
    \A opened \in Many :
      LET items == FoldLeft(Remember, <<>>, opened) IN
      /\ Len(items) = MaxRecent /\ Cardinality(Range(items)) = MaxRecent
      /\ \A i \in DOMAIN items : \A p \in Range(opened) :
           LastUse(opened, p) > LastUse(opened, items[i]) => Contains(Upto(items, i), p)

(* ProseWriter's menu shows the same as long as the paths fit the buffer.  *)
ASSUME MenuIsTheNewest ==
    \A opened \in Several \cup Many :
      LET text == FoldLeft(LAMBDA t, p : AddRecentFile(t, p, 64), <<>>, opened)
      IN  BuildRecentMenu(text, 64) = WholeLines(text)
          /\ WholeLines(text) = FoldLeft(Remember, <<>>, opened)

(* Otherwise the newest is still first, but the menu offers a piece of the *)
(* path the buffer ends in, and the next file drives it out.               *)
ASSUME LongPathsAreCut ==
    LET text == FoldLeft(LAMBDA t, p : AddRecentFile(t, p, 6), <<>>,
                         <<<<1, 1>>, <<2, 2>>, <<3, 3>>>>)
    IN  /\ BuildRecentMenu(text, 8) = <<<<3, 3>>, <<2, 2>>, <<1, 1>>>>
        /\ BuildRecentMenu(text, 7) = <<<<3, 3>>, <<2, 2>>, <<1>>>>
        /\ BuildRecentMenu(AddRecentFile(text, <<4>>, 7), 64) = <<<<4>>, <<3, 3>>, <<2, 2>>>>
=============================================================================
