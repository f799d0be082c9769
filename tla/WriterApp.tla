----------------------------- MODULE WriterApp ------------------------------
(* The window of ProseWriter (prosewriter/app/src/PWApp.cpp): the menus,   *)
(* the find bar, the panels, the scripting interface and the files, over   *)
(* the page view.                                                          *)
(*                                                                         *)
(* A posted message (a script's set, a panel's choice, a quit) is handled  *)
(* between two keys, whichever they are.  Each answer to a dialog is an    *)
(* alternative of the action that shows it.                                *)
EXTENDS WriterView

CONSTANTS Paths,        \* files
          Seeds,        \* what each file holds at first: no document, or one
          Alignments,   \* the paragraph formats the Format menu gives
          StyleNames, Needle, Replacement,
          ScriptText    \* what a script sets the text to

(* A file as the program writes it: it has a paragraph at least.           *)
Readable(file) ==
    /\ file = [styles |-> file.styles, header |-> file.header, paras |-> file.paras]
    /\ file.styles \in Seq([name : StyleNames, f : CharFormats, format : ParaFormats])
    /\ file.header \in {"none", "title"} /\ file.paras # <<>>
    /\ file.paras \in Seq([text : Seq([c : Glyphs, f : CharFormats]), format : ParaFormats,
                           images : {s \in SUBSET Nat : IsFiniteSet(s)}])

ASSUME AppAssumption ==
    /\ Alignments \subseteq ParaFormats /\ Widths # {} /\ IsFiniteSet(Widths)
    /\ {Needle, Replacement, ScriptText} \subseteq Seq(Glyphs \cup {Line})
    /\ DOMAIN Seeds = Paths
    /\ \A p \in Paths : \A file \in Seeds[p] : Readable(file) /\ Seeds[p] = {file}

vars == <<doc, view, layout, clip, mode, ops, turns, disk, path, given>>

Init ==
    /\ disk = Seeds /\ given = FALSE
    /\ clip = {} /\ mode = "open" /\ ops = 0 /\ turns = 0
    /\ path = {} /\ doc = NewDocument
    /\ view = [caret |-> 0, anchor |-> None, fmt |-> Plain, over |-> FALSE]
    /\ layout = Layout([paras |-> <<>>, width |-> 0], doc, Max(Widths))

(* Most edits end with the caret put somewhere, and a relayout.            *)
Replaces(d, o) == \E e \in {d} : Shows(e, SetCaret(e, view, o, FALSE))

(* Undo and redo leave the caret where it is.  A step that restyles text   *)
(* which is no longer there is never done.  There are no more redos than   *)
(* undos before them, so they need no bound of their own.                  *)
Runaway(s) ==
    \/ s.kind = "format" /\ NeverEnds(doc, s.at, s.len)
    \/ s.kind = "remove" /\ s.at > Length(doc)

MenuUndo ==
    /\ doc.undo # <<>>
    /\ \E s \in {Last(doc.undo)} :
         IF Runaway(s) THEN Stuck ELSE TurnsTo(Undo(doc, s), view) /\ UNCHANGED files

MenuRedo ==
    /\ doc.redo # <<>>
    /\ \E s \in {Last(doc.redo)} :
         IF s.kind = "format" /\ Runaway(s) THEN Stuck
         ELSE /\ mode = "open" /\ doc' = Redo(doc, s) /\ layout' = Layout(layout, doc', layout.width)
              /\ UNCHANGED <<view, clip, mode, ops, turns, files>>

(* The find bar.  FindNext() steps past the match the caret is before.     *)
Found(d, v) ==
    LET has  == v.anchor # None /\ v.anchor # v.caret
        from == IF has /\ v.caret < v.anchor THEN v.anchor ELSE v.caret
        hit  == FindNext(d, Needle, from, TRUE)
    IN  IF hit = {} THEN v ELSE Select(d, v, Min(hit), Min(hit) + Len(Needle))

FindAgain == Moves(Found(doc, view))

ReplaceAndFind ==
    IF FindNext(doc, Needle, From, FALSE) = {From} /\ To - From = Len(Needle)
    THEN \E d \in {Insert(RemoveText(doc, From, Len(Needle)), From, Replacement, {})} :
           Shows(d, Found(d, SetCaret(d, view, From + Len(Replacement), FALSE)))
    ELSE FindAgain

ReplaceAllFound ==
    FindNext(doc, Needle, 0, FALSE) # {}
    /\ Shows(ReplaceAllText(doc, Needle, Replacement), view)

(* The format menu.  With no selection the range still is one character,   *)
(* which at a paragraph's end reaches into the next.                       *)
ApplyAlignment ==
    \E format \in Alignments :
      Shows(SetParaFormats(doc, From, IF From = To THEN From + 1 ELSE To, format), view)

(* The styles panel: its index may be one the document no longer has.      *)
NewStyle ==
    \E name \in StyleNames :
      Shows(AddStyle(doc, name, IF HasSelection THEN FormatAt(doc, From) ELSE view.fmt,
                     doc.paras[Locate(doc, From).para].format), view)

UseStyle ==
    \E k \in 1 .. Cardinality(StyleNames) :
      IF k \in DOMAIN doc.styles /\ NeverEnds(doc, From, To - From) THEN Stuck
      ELSE Shows(ApplyStyle(doc, From, To - From, k), view)

DeleteStyle ==
    \E k \in DOMAIN doc.styles : Shows(RemoveStyle(doc, k), view)

(* Page setup, the ruler's margins and the header's panel.                 *)
SetPageSetup ==
    \E w \in Widths \ {layout.width} :
      /\ Turn /\ layout' = Layout(layout, doc, w)
      /\ UNCHANGED <<doc, view, clip, mode, ops, files>>

SetHeader == Shows(SetHeaderText(doc, "title"), view)

(* An image takes the selection's place; one that is dropped does not.     *)
PlaceImage == Replaces(InsertImage(Cleared, From), From + 1)
DropImage  == Replaces(InsertImage(doc, view.caret), view.caret + 1)

(* Tables: a header row is bold; its edits need the caret in a row.        *)
PlaceTable ==
    \E f \in {{}} \cup {{g} : g \in CharFormats \ {Plain}} :
      Replaces(InsertTable(Cleared, From, 2, 2, f), From + 4)

InRow    == IsRow(doc, Locate(doc, view.caret).para)
RowStart == ParaStart(doc, Locate(doc, view.caret).para)
RowEnd   == ParaEnd(doc, Locate(doc, view.caret).para)

AddRow  == InRow /\ Replaces(InsertTableRowAfter(doc, view.caret), RowEnd + 1)
DropRow == InRow /\ Replaces(DeleteTableRow(doc, view.caret), RowStart)

ChangesColumn(d) ==
    \E e \in {d} : Shows(e, SetCaret(e, view, ColumnCaret(doc, e, view.caret), FALSE))
AddColumn  == InRow /\ ChangesColumn(InsertTableColumnAt(doc, view.caret))
DropColumn == InRow /\ ChangesColumn(DeleteTableColumnAt(doc, view.caret))

(* DoSave(): the file is replaced whole or left as it was.                 *)
Store(p) ==
    /\ disk' = [disk EXCEPT ![p] = {Saved(doc)}] /\ path' = {p} /\ given' = FALSE
    /\ doc' = [doc EXCEPT !.modified = FALSE]

DoSave(p) == Store(p) \/ UNCHANGED <<doc, disk, path, given>>

Save ==
    /\ Turn
    /\ \E p \in Paths : DoSave(p)
    /\ UNCHANGED <<view, layout, clip, mode, ops>>

(* OpenFile(): a document with changes is saved first, or is given up.     *)
Adopt(file) ==
    LET d == Load(doc, file) IN TurnsTo(d, SetCaret(d, view, 0, FALSE))

OpenFile ==
    \E p \in Paths, keep \in IF doc.modified THEN {{}, path} ELSE {{}} :
      /\ disk' = [q \in Paths |-> IF q \in keep THEN {Saved(doc)} ELSE disk[q]]
      /\ \E file \in disk'[p] : Adopt(file)
      /\ path' = {p} /\ given' = FALSE

(* AdoptDoc(): a script's text takes the document's place, its header and  *)
(* styles too, and counts as no change.                                    *)
ScriptedText ==
    /\ Adopt(Saved(Insert(NewDocument, 0, ScriptText, {})))
    /\ given' = TRUE /\ UNCHANGED <<disk, path>>

ScriptedSelection ==
    \E a, b \in 0 .. Length(doc) : Moves(Select(doc, view, a, b))

(* QuitRequested(): closes a document with changes only when it was told   *)
(* to give them up, or has saved them.                                     *)
Quit ==
    /\ \/ UNCHANGED <<doc, disk, path, given>>
       \/ doc.modified /\ \E p \in path : Store(p)
    /\ mode = "open" /\ mode' = "closed" /\ UNCHANGED <<view, layout, clip, ops, turns>>

Menus ==
    \/ MenuUndo \/ MenuRedo \/ FindAgain \/ ReplaceAndFind \/ ReplaceAllFound
    \/ ApplyAlignment \/ NewStyle \/ UseStyle \/ DeleteStyle
    \/ SetPageSetup \/ SetHeader \/ PlaceImage \/ DropImage
    \/ PlaceTable \/ AddRow \/ DropRow \/ AddColumn \/ DropColumn

Next ==
    \/ Keys \/ Mouse \/ Clipboard \/ ApplyCharFormat \/ Menus
    \/ ScriptedSelection \/ ScriptedText \/ Save \/ OpenFile \/ Quit

Spec == Init /\ [][Next]_vars
-----------------------------------------------------------------------------
(* What the variables hold: there is a paragraph, the paragraphs have      *)
(* distinct identities, and the document is not left quiet.                *)
TypeOK ==
    /\ \A p \in DOMAIN doc.paras :
         /\ \A k \in DOMAIN doc.paras[p].text : doc.paras[p].text[k] \in [c : Glyphs, f : CharFormats]
         /\ doc.paras[p].format \in ParaFormats
         /\ \A q \in DOMAIN doc.paras : doc.paras[p].id = doc.paras[q].id => p = q
    /\ doc.paras # <<>> /\ ~doc.quiet /\ doc.modified \in BOOLEAN
    /\ view.caret \in Nat /\ view.anchor \in Nat \cup {None} /\ view.fmt \in CharFormats
    /\ mode \in {"open", "closed", "stuck"} /\ ops \in 0 .. MaxOps /\ turns \in 0 .. MaxTurns
    /\ path \subseteq Paths /\ Cardinality(path) <= 1 /\ given \in BOOLEAN

(* The incremental layout shows what a cold one would, whatever is kept    *)
(* from the layouts before: every paragraph's lines are those of its text  *)
(* and format now, and the lines start where the document has them.  What  *)
(* depends on other paragraphs does go stale and is left out: a list's     *)
(* numbers, a table's column widths and the heights of its rows.  So do    *)
(* the page breaks of a document with a table; without one they are right. *)
OwnLines(p, m) == [m EXCEPT !.number = 0, !.columns = <<>>, !.tall = IF IsRow(doc, p) THEN <<>> ELSE @]

LinesAreCurrent ==
    LET cold == LayoutFull(doc, layout.width)
    IN  /\ Len(layout.paras) = Len(cold)
        /\ \A p \in DOMAIN cold : OwnLines(p, layout.paras[p]) = OwnLines(p, cold[p])
        /\ layout.starts = Starts(doc, cold)
        /\ (\A p \in DOMAIN cold : ~IsRow(doc, p)) => layout.pages = Pages(cold)

(* A window that would close or open another file without asking has       *)
(* nothing to lose: its file holds the document, or it was never changed.  *)
(* A text that a script gave is the exception (AdoptDoc).                  *)
CleanMeansSaved ==
    ~doc.modified /\ ~given =>
        IF path = {} THEN Saved(doc) = Saved(NewDocument)
        ELSE \A p \in path : disk[p] = {Saved(doc)}

(* Undo takes the document back to the text before the step, and Redo to   *)
(* the text before the undo, however edits, undos and redos came about,    *)
(* as long as every step was noted where it happened.                      *)
UndoIsExact ==
    ~doc.stray =>
      /\ \A k \in {Len(doc.undo)} \ {0} : \A s \in {doc.undo[k]}  :
           \A d \in {Undo(doc, s)} : Text(d) = s.was
      /\ \A k \in {Len(doc.redo)} \ {0} : \A s \in {doc.redo[k]}  :
           \A d \in {Redo(doc, s)} : Text(d) = s.was
=============================================================================
