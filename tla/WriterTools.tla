---------------------------- MODULE WriterTools -----------------------------
(* ProseWriter around its document.  First prosewriter/app/src/PWApp.cpp:  *)
(* what scripts ask of it, its panels and the page setup they send, the    *)
(* names files are saved under, how they are read, and where a window      *)
(* opens.  Then the spelling (PWSpell.cpp and the marks of                 *)
(* PWPageView.cpp): the word list, the words of a paragraph, the word that *)
(* is being typed and the cache of what is marked; there a text is a       *)
(* sequence of bytes of some kinds, and the places in it count from zero,  *)
(* as in the code.                                                         *)
EXTENDS Integers, Sequences, FiniteSetsExt, SequencesExt, Functions

sPWProperties ==
    [Text |-> {"get", "set"}, Header |-> {"get", "set"}, Footer |-> {"get", "set"},
     Selection |-> {"get", "set"}, Frame |-> {"get", "set"}, Modified |-> {"get"},
     WordCount |-> {"get"}, Version |-> {"get"}, Title |-> {"get"}, Save |-> {"execute"},
     Quit |-> {"execute"}, Activate |-> {"execute"}, PDF |-> {"execute"}, Open |-> {"execute"}]
Settable == {"Text", "Header", "Footer", "Selection", "Frame"}

(* An answer, what is done before it, and what the window is sent.  Data   *)
(* is absent, good, or nothing that can be used.                           *)
Outcome(reply, did, posted) == [reply |-> reply, did |-> did, posted |-> posted]
ErrorReply == Outcome("error", {}, {})
NotHandled == Outcome("none", {}, {})

HandleScriptingForWindow(verb, property, data) ==
    CASE verb = "get" -> Outcome("value", {}, {})
      [] verb = "set" /\ property \in Settable ->
           IF data = "absent" \/ (property = "Frame" /\ data = "bad") THEN ErrorReply
           ELSE Outcome("done", {property}, {})
      [] property = "Save" -> Outcome("done", {IF data = "absent" THEN "save" ELSE "save as"}, {})
      [] property = "Quit" -> Outcome("done", {}, {"quit"})
      [] property = "Activate" -> Outcome("done", {"focus"}, {})
      [] property = "Open" -> IF data = "good" THEN Outcome("done", {}, {"open"}) ELSE ErrorReply
      [] property = "PDF" -> IF data = "good" THEN Outcome("done", {"pdf"}, {}) ELSE ErrorReply
      [] OTHER -> ErrorReply

(* A set is acknowledged at once and left to the window, 'pWst', which     *)
(* has nobody to tell what came of it.                                     *)
MessageReceived(verb, property, data) ==
    IF verb \notin sPWProperties[property] THEN NotHandled
    ELSE IF verb = "set" THEN Outcome("done", {}, {<<property, data>>})
    ELSE HandleScriptingForWindow(verb, property, data)
ForwardedSet(set) ==
    IF set[2] = "absent" THEN {} ELSE HandleScriptingForWindow("set", set[1], set[2]).did

----------------------------------------------------------------------------
(* The page setup panel; lengths are in half points, fields in points.     *)
kPapers == <<<<1190, 1684>>, <<1224, 1584>>, <<1224, 2016>>, <<840, 1190>>, <<1684, 2382>>, <<998, 1418>>>>
Turned(paper) == <<paper[2], paper[1]>>

PaperIndex(page) ==
    Min({i \in DOMAIN kPapers : page \in {kPapers[i], Turned(kPapers[i])}} \cup {1 + Len(kPapers)})
      % (1 + Len(kPapers))
Page(index, landscape) == IF landscape THEN Turned(kPapers[index]) ELSE kPapers[index]

ClampMargin(margin, extent) == Min({Max({margin, 36}), extent - 144})
MarginPair(a, b, extent) ==
    LET first  == ClampMargin(a, extent)
        second == ClampMargin(b, extent)
        over   == Max({0, first + second - (extent - 144)})
    IN  <<first - over \div 2, second - over \div 2>>
Fields(pair) == [i \in 1 .. 2 |-> (pair[i] \div 2) * 2]

(* A panel is made and shown when it is chosen first.  A window is hidden  *)
(* as often as it was hidden more often than shown; only the header's is   *)
(* shown again, the others are brought forward, which a hidden one is not. *)
NoPanel == [made |-> FALSE, level |-> 1]
OnScreen(panel) == panel.made /\ panel.level <= 0
ChoosePanel(kind, panel) ==
    IF ~panel.made THEN [made |-> TRUE, level |-> 0]
    ELSE IF kind = "header" THEN [panel EXCEPT !.level = @ - 1]
    ELSE panel
HidePanel(panel) == IF OnScreen(panel) THEN [panel EXCEPT !.level = @ + 1] ELSE panel
ApplyPanel(kind, panel) == IF kind \in {"header", "table"} THEN HidePanel(panel) ELSE panel
ClosePanel(panel) == IF OnScreen(panel) THEN NoPanel ELSE panel

----------------------------------------------------------------------------
(* Names are sequences of their letters, the endings in one piece.         *)
SameEnding == [rtf |-> {"rtf", "RTF"}, prose |-> {"prose", "Prose"}]
HasSuffix(name, ending) ==
    Len(name) >= 2 /\ name[Len(name) - 1] = "." /\ Last(name) \in SameEnding[ending]
WithExtension(name, ending) ==
    IF HasSuffix(name, ending) THEN name
    ELSE (IF name # <<>> /\ Last(name) = "." THEN Front(name) ELSE name) \o <<".", ending>>

(* A file is read in as many pieces as the system makes of it; -1 is a     *)
(* piece that fails, and a file above the limit is an empty one.           *)
ReadFileToString(size, pieces, limit) ==
    IF size > limit THEN [err |-> FALSE, got |-> 0]
    ELSE LET read == FoldLeft(LAMBDA r, n :
                       IF r.over \/ r.got >= size THEN r
                       ELSE IF n < 0 THEN [r EXCEPT !.over = TRUE, !.err = TRUE]
                       ELSE IF n = 0 THEN [r EXCEPT !.over = TRUE]
                       ELSE [r EXCEPT !.got = Min({size, @ + n})],
                     [got |-> 0, over |-> FALSE, err |-> FALSE], pieces)
         IN  [err |-> read.err, got |-> IF read.err THEN 0 ELSE read.got]

(* Words are what white space leaves between; a cell's end is no space.    *)
WordCount(text) ==
    FoldLeft(LAMBDA w, c :
               IF c = " " THEN [w EXCEPT !.inWord = FALSE]
               ELSE [count |-> IF w.inWord THEN w.count ELSE w.count + 1, inWord |-> TRUE],
             [count |-> 0, inWord |-> FALSE], text).count

(* Where the first window opens: as the last one was left, moved back onto *)
(* the screen, or in the corner.  A frame is left, top, right, bottom.     *)
OffsetBy(f, dx, dy) == <<f[1] + dx, f[2] + dy, f[3] + dx, f[4] + dy>>
FirstFrame(screen) ==
    <<screen[1] + 40, screen[2] + 36,
      screen[1] + 40 + Min({screen[3] - screen[1] - 80, 900}),
      screen[2] + 36 + Min({screen[4] - screen[2] - 72, 760})>>
Intersects(f, s) == f[1] <= s[3] /\ s[1] <= f[3] /\ f[2] <= s[4] /\ s[2] <= f[4]
MovedBack(f, s) ==
    OffsetBy(f, Min({0, s[3] - 20 - f[3]}), Min({0, s[4] - 20 - f[4]}))
StartFrame(screen, saved) ==
    LET moved == MovedBack(saved, screen)
    IN  IF /\ saved[3] - saved[1] > 380 /\ saved[4] - saved[2] > 300
           /\ Intersects(saved, screen)
           /\ moved[1] >= screen[1] - 5 /\ moved[2] >= screen[2] - 5
        THEN moved
        ELSE FirstFrame(screen)

----------------------------------------------------------------------------
(* Whatever the table lists is answered and nothing else is; an error has  *)
(* done nothing; asking does nothing; and what a set does later, in the    *)
(* window, is what a set in place would have done.                         *)
ASSUME ScriptsAreAnswered ==
    \A property \in DOMAIN sPWProperties, verb \in {"get", "set", "execute"},
       data \in {"absent", "good", "bad"} :
      LET outcome == MessageReceived(verb, property, data)
      IN  /\ (verb \in sPWProperties[property]) = (outcome # NotHandled)
          /\ outcome.reply = "error" => outcome = ErrorReply
          /\ verb = "get" => outcome.did \cup outcome.posted = {}
          /\ (verb = "set" /\ outcome # NotHandled) =>
               UNION {ForwardedSet(set) : set \in outcome.posted}
                 = HandleScriptingForWindow(verb, property, data).did

(* Whatever is typed for the margins, a column an inch wide is left, and   *)
(* none is less than half of the least margin (PWApp.cpp:372-374).  What   *)
(* is typed is in whole points.                                            *)
Typed == {-200, 0, 18, 36, 38, 100, 142, 144, 600, 1046, 1048, 3000}
ASSUME SetupLeavesRoom ==
    \A a, b \in Typed, i \in DOMAIN kPapers, j \in 1 .. 2 :
      LET pair == MarginPair(a, b, kPapers[i][j])
      IN  pair[1] >= 18 /\ pair[2] >= 18 /\ pair[1] + pair[2] <= kPapers[i][j] - 144

(* A setup that was applied is what the panel shows when it is made again, *)
(* and applying that changes nothing, unless a margin was cut below its    *)
(* least or in half points.                                                *)
ASSUME SetupComesBack ==
    /\ \A i \in DOMAIN kPapers, landscape \in BOOLEAN :
         Page(PaperIndex(Page(i, landscape)), landscape) = Page(i, landscape)
    /\ \A a, b \in Typed, i \in DOMAIN kPapers, j \in 1 .. 2 :
         LET pair == MarginPair(a, b, kPapers[i][j])
         IN  Fields(pair) = pair /\ Min(Range(pair)) >= 36 =>
               MarginPair(pair[1], pair[2], kPapers[i][j]) = pair

(* The header's panel is on the screen whenever it has been chosen.  The   *)
(* others are unless they were hidden before.                              *)
PanelsAfter(kind, n) ==
    FoldLeft(LAMBDA panels, i : panels \cup UNION {
               {ChoosePanel(kind, p), HidePanel(p), ApplyPanel(kind, p), ClosePanel(p)} : p \in panels},
             {NoPanel}, [i \in 1 .. n |-> i])
ASSUME PanelsCome ==
    \A kind \in {"setup", "header", "styles", "table"} : \A panel \in PanelsAfter(kind, 5) :
      OnScreen(ChoosePanel(kind, panel)) \/ (kind # "header" /\ panel.made /\ panel.level > 0)

(* A name gets its ending once, however it is spelt, and keeps its own     *)
(* letters in front of it.                                                 *)
ASSUME NamesKeepTheirEnding ==
    \A name \in BoundedSeq({"a", ".", "rtf", "RTF", "prose"}, 4), ending \in {"rtf", "prose"} :
      LET full == WithExtension(name, ending)
      IN  /\ HasSuffix(full, ending) /\ WithExtension(full, ending) = full
          /\ IsPrefix(SelectSeq(name, LAMBDA c : c # "."), SelectSeq(full, LAMBDA c : c # "."))

(* However a file's reads are cut, all of it comes or an error does, as    *)
(* long as it is not above the limit and does not shrink meanwhile.        *)
ASSUME FilesAreReadWhole ==
    \A size \in 0 .. 4, pieces \in BoundedSeq({-1, 1, 2, 3}, 4) :
      LET file == ReadFileToString(size, pieces \o [i \in 1 .. 4 |-> 1], 4)
      IN  file.err \/ file.got = size

(* The count is that of the places where a word begins.                    *)
ASSUME WordsAreCounted ==
    \A text \in BoundedSeq({"x", " ", "cell"}, 6) :
      WordCount(text)
        = Cardinality({i \in DOMAIN text : text[i] # " " /\ (i = 1 \/ text[i - 1] = " ")})

(* The first window is on the screen, whatever the last one left behind    *)
(* and however the screen has changed; one that fitted comes back in its   *)
(* place.                                                                  *)
Frames == {<<l, t, l + w, t + h>> : l, t \in {-900, -5, 0, 100, 700, 3000}, w, h \in {300, 301, 380, 381, 900, 2000}}
ASSUME FirstWindowIsOnScreen ==
    \A screen \in {<<0, 0, 1023, 767>>, <<0, 0, 1919, 1079>>, <<0, 0, 2559, 1599>>}, saved \in Frames :
      LET f == StartFrame(screen, saved)
      IN  /\ f[1] >= screen[1] - 5 /\ f[2] >= screen[2] - 5
          /\ f[3] <= screen[3] - 20 /\ f[4] <= screen[4] - 20
          /\ StartFrame(screen, f) = f \/ f = FirstFrame(screen)

-----------------------------------------------------------------------------
(* Spelling.                                                               *)

WordLetters == {"a", "s"}
Capital == "A"
Digit == "1"
Apostrophe == "'"
Hyphen == "-"
Gap == " "
HighByte == "high"   \* a byte of a character that is not ASCII

ToLower(word) == [i \in DOMAIN word |-> IF word[i] = Capital THEN "a" ELSE word[i]]
(* isalnum() of a byte that is not ASCII is false.                         *)
IsAlnum(c) == c \in WordLetters \cup {Capital, Digit}
IsTail(c) == c \in {Apostrophe, Hyphen}
IsWord(c) == IsAlnum(c) \/ IsTail(c)

LongWord == 48
LoadWords(lines) == {ToLower(l) : l \in {k \in Range(lines) : Len(k) \in 1 .. LongWord - 1}}
AddWord(words, word) == words \cup {ToLower(word)}

----------------------------------------------------------------------------
(* IsCorrect().                                                            *)
First(word, c) ==
    LET places == {i \in DOMAIN word : word[i] = c} IN IF places = {} THEN 0 ELSE Min(places)
Parts(word) ==
    LET cuts == {0, Len(word) + 1} \cup {i \in DOMAIN word : word[i] = Hyphen}
    IN  {SubSeq(word, i + 1, Min({j \in cuts : j > i}) - 1) : i \in cuts \ {Len(word) + 1}}
StemIsFound(words, word) ==
    LET apo  == First(word, Apostrophe)
        stem == SubSeq(word, 1, apo - 1)
    IN  /\ apo > 2
        /\ \/ stem \in words
           \/ Last(stem) = "s" /\ Front(stem) \in words
EveryPartIsFound(words, word) ==
    First(word, Hyphen) # 0 /\ Parts(word) \ {<<>>} \subseteq words
IsCorrect(words, word) ==
    LET w == ToLower(word) IN
    \/ words = {} \/ Len(w) <= 1
    \/ First(w, Digit) # 0
    \/ w \in words
    \/ StemIsFound(words, w)
    \/ EveryPartIsFound(words, w)

----------------------------------------------------------------------------
(* Ranges are [at, length].  The end of a word without what trails it.     *)
Slice(text, range) == SubSeq(text, range.at + 1, range.at + range.length)
TrimmedEnd(text, from, to) ==
    Max({from} \cup {e \in from + 1 .. to : ~IsTail(text[e])})
RunEnd(text, from) ==
    Min({Len(text)} \cup {e \in from .. Len(text) - 1 : ~IsWord(text[e + 1])})
RunStart(text, to) ==
    Max({0} \cup {s \in 1 .. to : ~IsWord(text[s])})

(* ScanParagraph(): one word after the other.                              *)
NextWord(text, from) ==
    Min({Len(text)} \cup {i \in from .. Len(text) - 1 : IsWord(text[i + 1])})
Unchecked(word) == word = <<>> \/ First(word, Digit) # 0 \/ Len(word) = 1
ScanFrom(words, text) ==
    LET from[i \in 0 .. Len(text)] ==
          LET start == NextWord(text, i)
              range == [at |-> start,
                        length |-> TrimmedEnd(text, start, RunEnd(text, start)) - start]
          IN  IF start = Len(text) THEN <<>>
              ELSE (IF Unchecked(Slice(text, range)) \/ IsCorrect(words, Slice(text, range))
                    THEN <<>> ELSE <<range>>) \o from[RunEnd(text, start)]
    IN  from[0]
ScanParagraph(words, text) == IF words = {} THEN <<>> ELSE ScanFrom(words, text)

CaretWordRange(text, offset) ==
    IF offset \notin 0 .. Len(text) THEN [at |-> offset, length |-> 0]
    ELSE LET start == RunStart(text, offset)
         IN  [at |-> start,
              length |-> TrimmedEnd(text, start, RunEnd(text, offset)) - start]

(* UpdateSpellCache(): for each paragraph the text it was scanned as.      *)
UpdateSpellCache(cache, words, paragraphs) ==
    IF words = {} THEN <<>>
    ELSE [p \in DOMAIN paragraphs |->
            IF p \in DOMAIN cache /\ cache[p].text = paragraphs[p] THEN cache[p]
            ELSE [text |-> paragraphs[p], ranges |-> ScanParagraph(words, paragraphs[p])]]

(* DrawSquiggles(): the places of a line that are marked, but for the word *)
(* the caret is in.                                                        *)
Spots(at, length) == at .. at + length - 1
Squiggles(ranges, text, line, caret) ==
    LET typed == CaretWordRange(text, caret)
        seen(r) == Spots(r.at, r.length) \cap Spots(line.at, line.length)
    IN  UNION {seen(r) : r \in {q \in Range(ranges) :
                                  seen(q) \cap Spots(typed.at, typed.length) = {}}}

----------------------------------------------------------------------------
ByteKinds == WordLetters \cup {Capital, Digit, Apostrophe, Hyphen, Gap, HighByte}
SpellTexts == BoundedSeq(ByteKinds, 4)
Dictionary == AddWord(LoadWords(<<<<"a", "a">>, <<>>, <<"A", "s">>>>), <<"s", "a">>)

(* The words of a text as a reader finds them: unbroken runs of letters,   *)
(* digits, apostrophes and hyphens, without those that trail.              *)
Runs(text) ==
    {[at |-> s, length |-> n] : s \in 0 .. Len(text) - 1, n \in 1 .. Len(text)}
IsRun(text, r) ==
    /\ r.at + r.length <= Len(text)
    /\ \A i \in r.at + 1 .. r.at + r.length : IsWord(text[i])
    /\ r.at = 0 \/ ~IsWord(text[r.at])
    /\ r.at + r.length = Len(text) \/ ~IsWord(text[r.at + r.length + 1])
WordsOf(text) ==
    {[r EXCEPT !.length = TrimmedEnd(text, r.at, r.at + r.length) - r.at] :
       r \in {q \in Runs(text) : IsRun(text, q)}}

(* A listed word is right with capitals, before an apostrophe and whatever *)
(* follows it, and joined to others; a lone letter is no stem.             *)
ASSUME StemsAndCompounds ==
    \A w, v \in Dictionary, tail \in BoundedSeq(WordLetters, 2) :
      /\ IsCorrect(Dictionary, [i \in DOMAIN w |-> IF w[i] = "a" THEN Capital ELSE w[i]])
      /\ IsCorrect(Dictionary, w \o <<Apostrophe>> \o tail)
      /\ IsCorrect(Dictionary, w \o <<"s", Apostrophe>> \o tail)
      /\ IsCorrect(Dictionary, w \o <<Hyphen>> \o v)
      /\ IsCorrect(Dictionary, w \o <<Hyphen>> \o tail) <=> tail \in Dictionary \cup {<<>>}
      /\ ~IsCorrect(AddWord(Dictionary, <<"s">>), <<"s", Apostrophe>> \o tail)

(* What is marked are the words that are wrong, each once, from left to    *)
(* right.                                                                  *)
ASSUME MarksAreWrongWords ==
    \A text \in SpellTexts :
      LET marks == ScanParagraph(Dictionary, text) IN
      /\ Range(marks) = {r \in WordsOf(text) : ~Unchecked(Slice(text, r))
                                               /\ ~IsCorrect(Dictionary, Slice(text, r))}
      /\ \A i, j \in DOMAIN marks : i < j => marks[i].at + marks[i].length <= marks[j].at
      /\ ScanParagraph({}, text) = <<>>

(* "mirrors ScanParagraph": wherever the caret is in a word or at its end, *)
(* the word that is being typed is that word, and it is not marked; any    *)
(* other mark is drawn, whole, however the paragraph is broken in lines.   *)
ASSUME CaretMirrorsScan ==
    \A text \in SpellTexts : \A caret \in 0 .. Len(text), r \in WordsOf(text) :
      caret \in r.at .. r.at + r.length => CaretWordRange(text, caret) = r
ASSUME OthersAreDrawn ==
    \A text \in BoundedSeq(ByteKinds \ {Capital, HighByte}, 4) : \A caret, break \in 0 .. Len(text) :
      LET marks == ScanParagraph(Dictionary, text)
          Line(from, to) == Squiggles(marks, text, [at |-> from, length |-> to - from], caret)
      IN  Line(0, break) \cup Line(break, Len(text))
            = UNION {Spots(r.at, r.length) : r \in Range(marks) \ {CaretWordRange(text, caret)}}

(* The cache is what a fresh scan would be, from whatever texts it was     *)
(* made before.                                                            *)
ASSUME CacheIsCurrent ==
    LET few == {<<>>, <<"a", "a">>, <<"s", "s">>, <<"s", "s", Gap, "s", "s">>}
        Fresh(paragraphs) == UpdateSpellCache(<<>>, Dictionary, paragraphs)
    IN  \A before, after \in BoundedSeq(few, 3) :
          UpdateSpellCache(Fresh(before), Dictionary, after) = Fresh(after)

(* A word behind an opening apostrophe is wrong although it is known, and  *)
(* so are the letters before one that is not ASCII.                        *)
ASSUME QuotedWordsAreMarked ==
    /\ ScanParagraph(Dictionary, <<Apostrophe, "a", "a", Apostrophe>>)
         = <<[at |-> 0, length |-> 3]>>
    /\ ScanParagraph(Dictionary, <<"s", "s", HighByte>>) = <<[at |-> 0, length |-> 2]>>
=============================================================================
