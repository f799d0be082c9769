------------------------------ MODULE DrawApp ------------------------------
(* A window of ProseDraw (prosedraw/app/src/PDApp.cpp): what menus, the    *)
(* inspector and scripts do to the document between the messages of the    *)
(* canvas, and the files it is saved to and opened from.  Scripts run on   *)
(* the application's thread, with the window locked: between messages.     *)
EXTENDS DrawCanvas

CONSTANTS Files,        \* paths
          InitialDisk   \* what the files hold at the start

(* A drawing is sound when its ids are below the next one to be given, so  *)
(* that none is given twice, and when every connector joins two boxes, if  *)
(* it did when it was made.                                                *)
Joined(S) == \A c \in Connectors(S) : S[c].clean => Ends(S[c]) \subseteq Boxes(S)
Sound(drawing) == DOMAIN drawing.shapes \subseteq 1 .. drawing.next - 1 /\ Joined(drawing.shapes)

(* What LoadFromMessage() reads: shapes and images of one drawing.         *)
Readable(file) ==
    /\ file.shapes \in [DOMAIN file.shapes -> Shape] /\ DOMAIN file.shapes \subseteq 1 .. MaxShapes
    /\ Joined(file.shapes)
    /\ Len(file.images) \in Nat /\ file.images = [k \in 1 .. Len(file.images) |-> file.images[k]]
    /\ \A k \in DOMAIN file.images : file.images[k].id \in Nat

ASSUME DiskAssumption ==
    DOMAIN InitialDisk = Files /\ \A f \in Files : Readable(InitialDisk[f])

VARIABLES disk,         \* Saved() documents by path
          path,         \* fFilePath: a set of at most one path
          open          \* the window is open

vars == <<doc, canvas, ops, disk, path, open>>

Window  == <<disk, path, open>>
Edit(d) == Do(d, canvas) /\ UNCHANGED Window
InCanvas(A) == A /\ UNCHANGED Window

(* ReadyToRun(): a new window, or one that opened the file it was launched *)
(* with.                                                                   *)
Init ==
    /\ canvas = IdleCanvas /\ ops = 0 /\ disk = InitialDisk /\ open = TRUE
    /\ \/ doc = EmptyDocument /\ path = {}
       \/ \E f \in Files : doc = Load(EmptyDocument, disk[f]) /\ path = {f}

(* TOOL_MSG.                                                               *)
PickTool ==
    /\ \E t \in Tools \ {canvas.tool} : Tool([canvas EXCEPT !.tool = t])
    /\ UNCHANGED Window

(* The menu's Undo and Redo: the selection, the editor and the connector   *)
(* tool keep the ids they hold, and a gesture goes on.                     *)
MenuUndo ==
    /\ doc.undo # <<>> /\ ops < MaxOps
    /\ LET stack == Undo(doc).undo
           held  == {b \in canvas.began : \E k \in DOMAIN stack : stack[k] = b}
       IN  Do(Undo(doc), [canvas EXCEPT !.began = held])
    /\ UNCHANGED Window
MenuRedo == doc.redo # <<>> /\ ops < MaxOps /\ Edit(Redo(doc))

(* ALIGN_MSG and ZORDER_MSG.                                               *)
MenuAlign ==
    LET ids == Ids(canvas.sel)
    IN  /\ Alignable(doc, ids) /\ ops < MaxOps
        /\ \E put \in [ids -> Frame(doc, ids)] : Edit(Align(doc, ids, put))

Restack(toFront) ==
    LET walk[k \in 0 .. Len(canvas.sel)] ==
          IF k = 0 THEN doc ELSE MoveZ(walk[k - 1], canvas.sel[k], toFront)
    IN  walk[Len(canvas.sel)]

MenuZOrder ==
    /\ canvas.sel # <<>> /\ ops < MaxOps
    /\ \E toFront \in BOOLEAN : Edit(Restack(toFront))

(* ApplyInspector(): a look for the whole selection, a shape at a time     *)
(* (styles only when its first shape is still there), or the place of a    *)
(* single box.                                                             *)
ApplyLook(look, flags) ==
    LET walk[k \in 0 .. Len(canvas.sel)] ==
          IF k = 0 THEN doc ELSE SetLook(walk[k - 1], canvas.sel[k], look, flags)
    IN  walk[Len(canvas.sel)]

ApplyInspector ==
    /\ canvas.sel # <<>> /\ ops < MaxOps
    /\ \/ \E look \in Looks, flags \in BOOLEAN : Edit(ApplyLook(look, flags))
       \/ /\ OneBoxSelected
          /\ \E p \in Positions : Edit(SetShapeRect(doc, canvas.sel[1], p))

(* The AddShape script: an image is loaded first, then its shape added.    *)
ScriptAddShape ==
    /\ Room(1)
    /\ \E p \in Positions, look \in Looks :
         \/ Edit(AddShape(doc, NewBox(p, look)))
         \/ \E pic \in Pictures :
              Edit(AddShape(AddImage(doc, pic), NewImage(p, look, doc.nextImage)))

(* DoSave(), and the Save script likewise: the file is replaced whole, by  *)
(* a rename, or it stays as it was and the document stays modified.        *)
Write(f) == disk' = [disk EXCEPT ![f] = Saved(doc)]
Uncut(c) == [c EXCEPT !.cut = FALSE]

Save ==
    /\ ops < MaxOps
    /\ \E f \in Files :
         \/ Write(f) /\ path' = {f} /\ Do([doc EXCEPT !.modified = FALSE], Uncut(canvas))
         \/ Do(doc, canvas) /\ UNCHANGED <<disk, path>>
    /\ UNCHANGED open

(* OpenFile(): a modified document is discarded when the user says so, or  *)
(* saved first.  The selection is emptied; what else the canvas remembers  *)
(* stays.                                                                  *)
OpenFile ==
    /\ ops < MaxOps
    /\ \E f \in Files :
         LET kept == IF doc.modified /\ path # {}
                     THEN {disk, [g \in Files |-> IF g \in path THEN Saved(doc)
                                                                ELSE disk[g]]}
                     ELSE {disk}
         IN  \E files \in kept :
               /\ disk' = files
               /\ Do(Load(doc, files[f]), [Uncut(Select(canvas, <<>>)) EXCEPT !.began = {}])
         /\ path' = {f}
    /\ UNCHANGED open

(* QuitRequested(): closing asks when the document is modified.            *)
Close ==
    /\ open' = FALSE
    /\ \/ UNCHANGED <<doc, disk>>
       \/ /\ doc.modified /\ path # {}
          /\ disk' = [g \in Files |-> IF g \in path THEN Saved(doc) ELSE disk[g]]
          /\ doc' = [doc EXCEPT !.modified = FALSE]
    /\ UNCHANGED <<canvas, ops, path>>

Mouse ==
    \/ InCanvas(ResizeBegins) \/ InCanvas(ClickShape) \/ InCanvas(ClickNothing)
    \/ InCanvas(ClickConnector) \/ InCanvas(ClickText) \/ InCanvas(CreateBegins)
    \/ InCanvas(Dragged) \/ InCanvas(Resized) \/ InCanvas(CreateEnds)
    \/ InCanvas(BandEnds) \/ InCanvas(GestureEnds) \/ InCanvas(ConnectReleased)
    \/ InCanvas(DropCreateAt) \/ InCanvas(DropColourAt)

Keys ==
    \/ InCanvas(DeleteSelection) \/ InCanvas(NudgeSelection) \/ InCanvas(Escape)
    \/ InCanvas(EnterKey) \/ InCanvas(CommitLabelEdit) \/ InCanvas(CancelLabelEdit)

Messages ==
    \/ PickTool \/ MenuUndo \/ MenuRedo \/ MenuAlign \/ MenuZOrder
    \/ ApplyInspector \/ Save \/ OpenFile
    \/ InCanvas(DuplicateSelection) \/ InCanvas(SelectAll)

Scripting == ScriptAddShape \/ Save \/ InCanvas(QueueConnector)

Next == open /\ (Mouse \/ Keys \/ Messages \/ Scripting \/ Close)

Spec == Init /\ [][Next]_vars
-----------------------------------------------------------------------------
TypeOK ==
    /\ doc.shapes \in [DOMAIN doc.shapes -> Shape] /\ Nobody \notin DOMAIN doc.shapes
    /\ doc.next \in Nat \ {0} /\ doc.nextImage \in Nat \ {0}
    /\ doc.modified \in BOOLEAN
    /\ canvas.tool \in Tools /\ canvas.drag \in Drags
    /\ \A i \in Ids(canvas.sel) \cup {canvas.grip, canvas.from, canvas.editor} : i \in Nat
    /\ DOMAIN disk = Files /\ path \subseteq Files /\ open \in BOOLEAN

(* Whatever is undone and redone in the middle of whatever gesture, the    *)
(* drawing and every one that undo and redo can bring back are sound.  The *)
(* connectors excepted are those born on a shape already gone: the tool    *)
(* armed before it went, or a duplicate read through a stale pointer.      *)
DrawingsSound ==
    /\ TypeOK
    /\ Sound(Now(doc))
    /\ \A k \in DOMAIN doc.undo : Sound(doc.undo[k])
    /\ \A k \in DOMAIN doc.redo : Sound(doc.redo[k])

AtRest == ~Reshaping

(* What the window shows is in the file it is named after.                 *)
OnDisk ==
    /\ path = {} => doc.shapes = EmptyDocument.shapes
    /\ \A f \in path : doc.shapes = disk[f].shapes

(* A document that closes without a question has its shapes on disk:       *)
(* fModified is never clear while they differ.  Excepted is a gesture      *)
(* while it goes on, which MouseUp marks, and one that a second press cut  *)
(* short, which nothing marks: after a save in mid-drag what was dragged   *)
(* since is lost without a question.                                       *)
CleanMeansSaved == ~doc.modified /\ AtRest /\ ~canvas.cut => OnDisk

(* A step of a gesture that changes the shapes in place.                   *)
InPlace == Reshaping /\ doc'.undo = doc.undo /\ doc'.redo = doc.redo

(* What the press of the gesture put on the undo stack is on it still.     *)
(* Edits in mid-gesture may have filled the stack and pushed it out; an    *)
(* undo or an opening in mid-gesture may have taken it.                    *)
OnUndo(drawing) == \E k \in DOMAIN doc.undo : doc.undo[k] = drawing
Covered == \E b \in canvas.began : OnUndo(b)
Pushed  == canvas.began # {} /\ Len(doc.undo) >= UndoCap
Taken   == canvas.began = {}

(* A change of the shapes can be taken back: what the drawing was before   *)
(* it is on the undo stack, or on redo when undo made the change.  Opening *)
(* a file does without, and so do the moves of a gesture: the drawing its  *)
(* MouseDown began with is on the stack, unless it was pushed out or taken *)
(* in mid-gesture: an undo then takes the gesture's one entry, and what    *)
(* the gesture goes on to change is on no stack.                           *)
Opened  == doc'.undo = <<>> /\ doc'.redo = <<>> /\ ~doc'.modified
CanBeTakenBack ==
    doc'.shapes # doc.shapes =>
        \/ InPlace /\ (Covered \/ Pushed \/ Taken)
        \/ Opened
        \/ Now(doc) \in {doc'.undo[k] : k \in DOMAIN doc'.undo}
                       \cup {doc'.redo[k] : k \in DOMAIN doc'.redo}
NothingIsLost == [][CanBeTakenBack]_vars
=============================================================================
