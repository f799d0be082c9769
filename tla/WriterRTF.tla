------------------------------ MODULE WriterRTF -----------------------------
(* ProseWriter's RTF (PWRTF.cpp): what a document is written as, and what  *)
(* is read from it and from other programs' files.  RTF is a sequence of   *)
(* tokens: braces, control words with or without a number, and characters, *)
(* to which the escapes have been resolved.                                *)
EXTENDS Integers, Sequences, FiniteSetsExt, SequencesExt, Functions

NoNumber == -32768
Word(name, number) == [name |-> name, number |-> number]
Control(name) == Word(name, NoNumber)
Char(c) == [name |-> "char", number |-> c]
OpenBrace == Control("open")
CloseBrace == Control("close")
Group(tokens) == <<OpenBrace>> \o tokens \o <<CloseBrace>>

(* Characters: two letters, a space, a tab and the separator of cells.     *)
SemiColon == 59
Space == 32
Tabulator == 9
CellEnd == 29

Attributes == <<"b", "i", "ul">>
Black == 0
DefaultFamily == 0
DefaultFormat == [attrs |-> {}, size |-> 12, colour |-> Black, family |-> DefaultFamily]
Measures == <<"li", "ri", "fi", "sl", "sb", "sa">>
Usual == [m \in Range(Measures) |-> IF m = "sl" THEN 1 ELSE 0]
AlignWords == {"ql", "qc", "qr", "qj"}
PlainParagraph == [text |-> <<>>, align |-> "ql", measures |-> Usual, tabs |-> <<>>]

----------------------------------------------------------------------------
(* Writing.                                                                *)
FormatsOf(doc) ==
    FlattenSeq([p \in DOMAIN doc |-> [i \in DOMAIN doc[p].text |-> doc[p].text[i].format]])
Distinct(first, values) ==
    FoldLeft(LAMBDA seen, v : IF v \in Range(seen) THEN seen ELSE Append(seen, v), first, values)
FontNames(doc) ==
    Distinct(<<DefaultFamily>>, [i \in DOMAIN FormatsOf(doc) |-> FormatsOf(doc)[i].family])
Colours(doc) ==
    SelectSeq(Distinct(<<>>, [i \in DOMAIN FormatsOf(doc) |-> FormatsOf(doc)[i].colour]),
              LAMBDA c : c # Black)
Index(names, name) == CHOOSE i \in DOMAIN names : names[i] = name

FontTable(names) ==
    Group(<<Control("fonttbl")>> \o FlattenSeq(
      [i \in DOMAIN names |-> Group(<<Word("f", i - 1), Char(names[i]), Char(SemiColon)>>)]))
ColourTable(colours) ==
    Group(<<Control("colortbl"), Char(SemiColon)>> \o FlattenSeq(
      [i \in DOMAIN colours |-> <<Word("red", colours[i]), Char(SemiColon)>>]))

(* AppendEscaped(): the separator of cells becomes a tab.                  *)
Escape(c) == IF c = CellEnd THEN Control("tab") ELSE Char(c)

Switch(prev, next, a) ==
    IF (a \in prev) = (a \in next) THEN <<>>
    ELSE IF a \in next THEN <<Control(a)>>
    ELSE <<IF a = "ul" THEN Control("ulnone") ELSE Word(a, 0)>>
Changed(from, to, name, number) == IF from = to THEN <<>> ELSE <<Word(name, number)>>
Reformat(prev, next, names, colours) ==
    Changed(prev.family, next.family, "f", Index(names, next.family) - 1)
    \o FlattenSeq([i \in DOMAIN Attributes |-> Switch(prev.attrs, next.attrs, Attributes[i])])
    \o Changed(prev.size, next.size, "fs", 2 * next.size)
    \o Changed(prev.colour, next.colour, "cf",
               IF next.colour = Black THEN 0 ELSE Index(colours, next.colour))

Twips(m, value) == IF m = "sl" THEN 240 * value ELSE 20 * value
Geometry(p) ==
    FlattenSeq([i \in DOMAIN Measures |->
      LET m == Measures[i] IN
      IF p.measures[m] = Usual[m] THEN <<>> ELSE <<Word(m, Twips(m, p.measures[m]))>>])
    \o [i \in DOMAIN p.tabs |-> Word("tx", 20 * p.tabs[i])]

(* The last format of the paragraphs before goes on.                       *)
FormatBefore(doc, p, i) ==
    LET earlier == FormatsOf(SubSeq(doc, 1, p - 1))
                   \o [k \in 1 .. i - 1 |-> doc[p].text[k].format]
    IN  IF earlier = <<>> THEN DefaultFormat ELSE Last(earlier)
WriteParagraph(doc, p, names, colours) ==
    <<Control(doc[p].align)>> \o Geometry(doc[p])
    \o FlattenSeq([i \in DOMAIN doc[p].text |->
         Reformat(FormatBefore(doc, p, i), doc[p].text[i].format, names, colours)
         \o <<Escape(doc[p].text[i].char)>>])
    \o (IF doc[p].text = <<>> THEN <<Char(Space)>> ELSE <<>>)
    \o (IF p < Len(doc) THEN <<Control("par")>> ELSE <<>>)
WriteRTF(doc) ==
    LET names   == FontNames(doc)
        colours == Colours(doc)
    IN  Group(<<Control("rtf")>> \o FontTable(names) \o ColourTable(colours)
              \o FlattenSeq([p \in DOMAIN doc |-> WriteParagraph(doc, p, names, colours)]))

----------------------------------------------------------------------------
(* Reading.  skip is the depth of groups SkipGroup() is in, or NotSkipping. *)
NotSkipping == -1
Shut == 32000
StartState ==
    [attrs |-> {}, size |-> 12, font |-> 0, colour |-> 0, align |-> "ql",
     measures |-> Usual, tabs |-> <<>>]
Reader ==
    [doc |-> <<PlainParagraph>>, state |-> StartState, stack |-> <<>>, depth |-> 0,
     inFont |-> FALSE, inColour |-> FALSE, seenAuto |-> FALSE, tableDepth |-> Shut,
     fonts |-> <<>>, colours |-> <<>>, name |-> <<>>, pendingFont |-> -1,
     pendingColour |-> Black, skip |-> NotSkipping, done |-> FALSE]

Destinations == {"stylesheet", "info", "pict", "object", "footer", "header", "footnote",
                 "list", "generator", "field"}

Format(r) ==
    [attrs  |-> r.state.attrs,
     size   |-> IF r.state.size > 0 THEN r.state.size ELSE 12,
     colour |-> IF r.state.colour \in DOMAIN r.colours THEN r.colours[r.state.colour] ELSE Black,
     family |-> IF r.state.font \in DOMAIN r.fonts THEN r.fonts[r.state.font] ELSE DefaultFamily]
Emit(r, c) ==
    [r EXCEPT !.doc[Len(r.doc)].text = Append(@, [char |-> c, format |-> Format(r)])]

ApplyParaFormat(r, p) ==
    [r EXCEPT !.doc[p] = [@ EXCEPT !.align = r.state.align,
                                   !.measures = r.state.measures, !.tabs = r.state.tabs]]
EndParagraph(r) ==
    ApplyParaFormat([r EXCEPT !.doc = Append(@, PlainParagraph)], Len(r.doc))

Open(r) == [r EXCEPT !.depth = @ + 1, !.stack = Append(@, r.state)]
PopState(r) ==
    IF r.stack = <<>> THEN r
    ELSE [r EXCEPT !.state = Last(r.stack), !.stack = Front(r.stack)]
LeaveTable(r) ==
    IF r.depth >= r.tableDepth THEN r
    ELSE [r EXCEPT !.inFont = FALSE, !.inColour = FALSE, !.tableDepth = Shut]
(* The paragraph that no \par ends gets its format when the text ends.     *)
Close(r) ==
    LET closed == LeaveTable(PopState([r EXCEPT !.depth = @ - 1]))
    IN  IF closed.depth > 0 THEN closed
        ELSE [ApplyParaFormat(closed, Len(closed.doc)) EXCEPT !.done = TRUE]

(* The brace that ends a skipped group is taken without ending the group:  *)
(* neither the depth nor the saved state is taken back.                    *)
SkipGroup(r, token) ==
    CASE token.name = "open"  -> [r EXCEPT !.skip = @ + 1]
      [] token.name = "close" -> [r EXCEPT !.skip = @ - 1]
      [] OTHER -> r

NameFont(r) ==
    IF r.pendingFont < 0 \/ r.name = <<>> THEN r
    ELSE [r EXCEPT !.fonts = [f \in DOMAIN @ \cup {r.pendingFont} |->
                                IF f = r.pendingFont THEN r.name[1] ELSE @[f]]]
TableControl(r, token) ==
    CASE token.name = "f" /\ r.inFont ->
           [NameFont(r) EXCEPT !.pendingFont = token.number, !.name = <<>>]
      [] token.name = "red" -> [r EXCEPT !.pendingColour = token.number]
      [] OTHER -> r
EndColour(r) ==
    IF ~r.inColour THEN r
    ELSE IF ~r.seenAuto THEN [r EXCEPT !.seenAuto = TRUE]
    ELSE [r EXCEPT !.colours = Append(@, r.pendingColour), !.pendingColour = Black]
HandleCharInTable(r, c) ==
    IF c = SemiColon
    THEN [EndColour(IF r.inFont THEN NameFont(r) ELSE r) EXCEPT !.name = <<>>]
    ELSE IF r.inFont THEN [r EXCEPT !.name = Append(@, c)] ELSE r

On(token) == token.number # 0
Number(token, default, scale) ==
    IF token.number = NoNumber THEN default ELSE token.number \div scale
WordState(s, token) ==
    CASE token.name \in Range(Attributes) ->
           [s EXCEPT !.attrs = IF On(token) THEN @ \cup {token.name} ELSE @ \ {token.name}]
      [] token.name = "ulnone" -> [s EXCEPT !.attrs = @ \ {"ul"}]
      [] token.name = "fs" -> [s EXCEPT !.size = Number(token, 12, 2)]
      [] token.name = "f"  -> [s EXCEPT !.font = Number(token, 0, 1)]
      [] token.name = "cf" -> [s EXCEPT !.colour = Number(token, 0, 1)]
      [] token.name \in AlignWords -> [s EXCEPT !.align = token.name]
      [] token.name \in Range(Measures) ->
           [s EXCEPT !.measures[token.name] =
              Number(token, Usual[token.name], Twips(token.name, 1))]
      [] token.name = "tx" /\ token.number # NoNumber ->
           [s EXCEPT !.tabs = Append(@, token.number \div 20)]
      [] token.name = "plain" -> [s EXCEPT !.attrs = {}, !.size = 12, !.colour = 0]
      [] OTHER -> s
BeginTable(r, token) ==
    [r EXCEPT !.inFont = @ \/ token.name = "fonttbl",
              !.inColour = @ \/ token.name = "colortbl",
              !.seenAuto = @ /\ token.name # "colortbl", !.tableDepth = r.depth]
ControlWord(r, token) ==
    CASE token.name = "star" -> [r EXCEPT !.skip = 0]
      [] token.name \in {"fonttbl", "colortbl"} -> BeginTable(r, token)
      [] r.inFont \/ r.inColour -> TableControl(r, token)
      [] token.name \in Destinations -> [r EXCEPT !.skip = 0]
      [] token.name \in {"par", "line"} -> EndParagraph(r)
      [] token.name = "tab" -> Emit(r, Tabulator)
      [] OTHER -> [r EXCEPT !.state = WordState(@, token)]

Parse(r, token) ==
    CASE r.done -> r
      [] r.skip # NotSkipping -> SkipGroup(r, token)
      [] token.name = "open"  -> Open(r)
      [] token.name = "close" -> Close(r)
      [] token.name = "char" /\ (r.inFont \/ r.inColour) -> HandleCharInTable(r, token.number)
      [] token.name = "char" -> Emit(r, token.number)
      [] OTHER -> ControlWord(r, token)
AtEnd(r) == IF r.done THEN r ELSE ApplyParaFormat(r, Len(r.doc))
LoadRTF(tokens) ==
    AtEnd(FoldLeft(Parse, [Reader EXCEPT !.depth = 1], Tail(tokens))).doc

----------------------------------------------------------------------------
(* Small documents.                                                        *)
Letter == 120
Fancy == [attrs |-> {"b", "ul"}, size |-> 18, colour |-> 7, family |-> 3]
Italic == [DefaultFormat EXCEPT !.attrs = {"i"}, !.colour = 5]
In(format) == [char |-> Letter, format |-> format]
Texts == {<<>>, <<In(DefaultFormat)>>, <<In(Fancy)>>, <<In(Italic), In(Fancy)>>,
          <<[In(DefaultFormat) EXCEPT !.char = CellEnd]>>}
Paragraphs ==
    [text : Texts, align : {"ql", "qc"},
     measures : {Usual, [Usual EXCEPT !["li"] = 2], [Usual EXCEPT !["sl"] = 3]},
     tabs : {<<>>, <<4>>}]
Documents ==
    [1 .. 2 -> Paragraphs] \cup
    [1 .. 3 -> {p \in Paragraphs : p.align = "qc" /\ p.tabs = <<>> /\ Len(p.text) < 2
                                   /\ p.measures["sl"] = 1}]

(* What becomes of a document that is saved as RTF and opened again: cells *)
(* are tabs, an empty paragraph is a space, and indents, spacing and tabs, *)
(* which no later paragraph takes back, go on to the end.                  *)
Carried(doc, p, m) ==
    FoldLeft(LAMBDA value, q : IF q.measures[m] = Usual[m] THEN value ELSE q.measures[m],
             Usual[m], SubSeq(doc, 1, p))
Survives(doc) ==
    [p \in DOMAIN doc |->
      [align    |-> doc[p].align,
       measures |-> [m \in Range(Measures) |-> Carried(doc, p, m)],
       tabs     |-> FlattenSeq([q \in 1 .. p |-> doc[q].tabs]),
       text     |-> IF doc[p].text = <<>>
                    THEN <<[char |-> Space, format |-> FormatBefore(doc, p, 1)]>>
                    ELSE [i \in DOMAIN doc[p].text |->
                            [doc[p].text[i] EXCEPT !.char = IF @ = CellEnd THEN Tabulator ELSE @]]]]

(* Every character keeps its format and every paragraph its alignment.     *)
ASSUME RoundTrip == \A doc \in Documents : LoadRTF(WriteRTF(doc)) = Survives(doc)

Foreign(group, after) == Group(<<Control("rtf")>> \o group \o after \o <<Char(Letter)>>)
Inside == {Control("b"), Word("fs", 40), Control("qc"), Control("plain"), Char(Letter),
           Word("li", 40), Control("ulnone")}

(* What is set inside a group is forgotten after it: the last letter and   *)
(* its paragraph are as if the group had not been there.                   *)
ASSUME GroupsLeaveNoTrace ==
    \A words \in BoundedSeq(Inside, 2), after \in {Control("i"), Control("qr")} :
      LET Read(group) == LoadRTF(Foreign(group, <<after>>))[1] IN
      /\ Last(Read(Group(words)).text) = Last(Read(<<>>).text)
      /\ Read(Group(words)).align = Read(<<>>).align

(* But a group that is skipped takes the format of the last paragraph with *)
(* it, and that of a group around it outlives the group.                   *)
ASSUME SkippedGroupsLeak ==
    LET info == Group(<<Control("info"), Char(Letter)>>) IN
    /\ LoadRTF(Foreign(<<>>, <<Control("qc")>>))[1].align = "qc"
    /\ LoadRTF(Foreign(info, <<Control("qc")>>))[1].align = "ql"
    /\ Last(LoadRTF(Foreign(Group(<<Control("b")>> \o info), <<>>))[1].text).format.attrs = {"b"}

----------------------------------------------------------------------------
(* A \u: the bytes of a character.  A negative number is what a 16-bit one *)
(* above 32767 is written as.                                              *)
EmitUnicode(number) ==
    LET cp == IF number < 0 THEN number + 65536 ELSE number IN
    IF cp < 128 THEN <<cp>>
    ELSE IF cp < 2048 THEN <<192 + (cp \div 64), 128 + (cp % 64)>>
    ELSE <<224 + (cp \div 4096), 128 + ((cp \div 64) % 64), 128 + (cp % 64)>>
CodePoint(bytes) ==
    CASE Len(bytes) = 1 -> bytes[1]
      [] Len(bytes) = 2 -> (bytes[1] - 192) * 64 + (bytes[2] - 128)
      [] Len(bytes) = 3 -> (bytes[1] - 224) * 4096 + (bytes[2] - 128) * 64 + (bytes[3] - 128)
ASSUME UnicodeIsUtf8 ==
    \A cp \in (0 .. 70) \cup {127, 128, 2047, 2048, 32767, 32768, 55295, 57344, 65535} :
      CodePoint(EmitUnicode(IF cp > 32767 THEN cp - 65536 ELSE cp)) = cp
=============================================================================
