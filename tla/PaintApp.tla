------------------------------ MODULE PaintApp ------------------------------
(* A window of ProsePaint (prosepaint/app/src/PPApp.cpp): layers, history, *)
(* canvas and files, by menus and by scripts.  Most scripts are forwarded  *)
(* to the window; Save and Pixel work on the document from the             *)
(* application's thread, in two steps here, with the window in between.    *)
EXTENDS PaintCanvas

CONSTANTS Files,        \* paths
          InitialDisk   \* what the files hold at the start

(* Files that hold no painting: what the disk of an instance may start as. *)
NoPaintings == [f \in Files |-> [width |-> 1, layers |-> <<>>]]

(* What a file may hold: what the program writes, on a canvas not too wide.*)
Readable(file) ==
    /\ file = [width |-> file.width, layers |-> file.layers] /\ file.width \in Cells(MaxWidth)
    /\ file.layers \in Seq([id : Nat \ {0}, bits : [Cells(file.width) -> Paint], shown : BOOLEAN])
    /\ \A j, k \in DOMAIN file.layers : file.layers[j].id = file.layers[k].id => j = k

ASSUME DiskAssumption ==
    DOMAIN InitialDisk = Files /\ \A f \in Files : Readable(InitialDisk[f])

VARIABLES disk,         \* Saved() documents by path
          path,         \* fFilePath: a set of at most one path
          adopt,        \* paths of 'ppAd' messages that wait for the window
          script,       \* what a Save script has written and not yet noted
          pick,         \* what a Pixel script has composed and not yet kept
          late          \* history: a script's second step undid what came between

vars == <<doc, canvas, tangled, ops, disk, path, adopt, script, pick, late>>
Elsewhere == <<canvas, disk, path, adopt, script, pick, late>>

Init ==
    /\ doc = NewDocument(MaxWidth) /\ disk = InitialDisk
    /\ canvas = [tool |-> "brush", painting |-> FALSE, shaping |-> FALSE]
    /\ path = {} /\ adopt = {} /\ script = {} /\ pick = {}
    /\ tangled = FALSE /\ ops = 0 /\ late = [saved |-> FALSE, drawn |-> FALSE]

Canvas ==
    /\ PressBrush \/ PressFill \/ PressShape \/ Moved \/ Release \/ ScriptStroke \/ Draw
    /\ UNCHANGED <<disk, path, adopt, script, pick>>
    /\ late' = [late EXCEPT !.drawn = @ /\ doc'.composite = doc.composite]

(* TOOL_MSG.                                                               *)
PickTool ==
    /\ \E t \in Tools \ {canvas.tool} : canvas' = [canvas EXCEPT !.tool = t]
    /\ UNCHANGED <<doc, tangled, ops, disk, path, adopt, script, pick, late>>

(* The layer list, the Layer menu and the Layer script.                    *)
LayerOps ==
    /\ Free /\ UNCHANGED Elsewhere
    /\ \/ \E id \in 1 .. doc.next - 1 : HasLayer(doc, id) /\ Calm(SetActiveLayer(doc, id))
       \/ Len(doc.layers) < 2 /\ Calm(AddLayer(doc))
       \/ /\ HasLayer(doc, doc.active)
          /\ \/ Calm(DeleteLayer(doc, doc.active))
             \/ \E up \in BOOLEAN : Calm(MoveLayer(doc, doc.active, up))
             \/ \E shown \in BOOLEAN : Calm(SetLayerShown(doc, doc.active, shown))
             \/ Calm(RenameLayer(doc, doc.active))

(* The stack is walked while a stroke holds the layer it will end on.      *)
History ==
    /\ Free /\ UNCHANGED Elsewhere
    /\ \/ doc.undo # <<>> /\ Tangle(Undo(doc), doc.stroke.on)
       \/ doc.redo # <<>> /\ Tangle(Redo(doc), doc.stroke.on)

Cleared(d) == Do(d) /\ tangled' = doc.stroke.on

(* 'ppRz', 'ppPp' and 'ppNw': the canvas is resized, or replaced unasked.  *)
ChangeCanvas ==
    /\ Free /\ UNCHANGED Elsewhere
    /\ \E w \in Cells(MaxWidth) :
         \/ w # doc.width /\ Cleared(Resize(doc, w))
         \/ Cleared(SetCanvas(doc, w))

(* DoSave(): the file is replaced whole or stays as it was.                *)
Write(f) == disk' = [disk EXCEPT ![f] = Saved(doc)]
Save ==
    /\ Free
    /\ \E f \in Files : Write(f) /\ path' = {f}
    /\ Calm([doc EXCEPT !.modified = FALSE])
    /\ late' = [late EXCEPT !.saved = FALSE]
    /\ UNCHANGED <<canvas, adopt, script, pick>>

SaveFails == Free /\ Calm(doc) /\ UNCHANGED Elsewhere

(* OpenFile().                                                             *)
OpenFile ==
    /\ Free
    /\ \E f \in Files :
         /\ Cleared(Load(doc, disk[f]))
         /\ path' = IF disk[f].layers = <<>> THEN path ELSE {f}
         /\ late' = [late EXCEPT !.saved = @ /\ disk[f].layers = <<>>]
    /\ UNCHANGED <<canvas, disk, adopt, script, pick>>

(* The Save script: SaveToFile(), SavedClean(), and a message to adopt the *)
(* path.                                                                   *)
ScriptSaves ==
    /\ Free /\ script = {}
    /\ \E f \in Files : Write(f) /\ script' = {f}
    /\ Calm(doc) /\ UNCHANGED <<canvas, path, adopt, pick, late>>

ScriptNotes ==
    /\ script # {} /\ script' = {} /\ adopt' = script
    /\ doc' = [doc EXCEPT !.modified = FALSE]
    /\ late' = [late EXCEPT !.saved = \A f \in script : disk[f] # Saved(doc)]
    /\ UNCHANGED <<canvas, tangled, ops, disk, path, pick>>

AdoptPath ==
    /\ adopt # {} /\ path' = adopt /\ adopt' = {}
    /\ UNCHANGED <<doc, canvas, tangled, ops, disk, script, pick, late>>

(* The Pixel script: Composite(), in the application's thread.             *)
PixelComposes ==
    /\ Free /\ pick = {} /\ doc.stale /\ pick' = {Flat(doc)}
    /\ Calm(doc) /\ UNCHANGED <<canvas, disk, path, adopt, script, late>>

PixelKeeps ==
    \E image \in pick :
       /\ doc' = [doc EXCEPT !.composite = image, !.stale = FALSE]
       /\ late' = [late EXCEPT !.drawn = image # Flat(doc)]
       /\ pick' = {} /\ UNCHANGED <<canvas, tangled, ops, disk, path, adopt, script>>

Messages ==
    PickTool \/ LayerOps \/ History \/ ChangeCanvas \/ Save \/ SaveFails \/ OpenFile \/ AdoptPath
Scripting == ScriptSaves \/ ScriptNotes \/ PixelComposes \/ PixelKeeps

Next == Canvas \/ Messages \/ Scripting
Spec == Init /\ [][Next]_vars
-----------------------------------------------------------------------------
Steps == {doc.undo[k] : k \in DOMAIN doc.undo} \cup {doc.redo[k] : k \in DOMAIN doc.redo}

TypeOK ==
    /\ doc.width \in Cells(MaxWidth)
    /\ \A k \in DOMAIN doc.layers :
         /\ doc.layers[k].id \in 1 .. doc.next - 1
         /\ doc.layers[k].bits \in [Cells(doc.width) -> Paint]
         /\ \A j \in DOMAIN doc.layers : doc.layers[j].id = doc.layers[k].id => j = k
    /\ doc.layers # <<>> => HasLayer(doc, doc.active)
    /\ Len(doc.undo) <= UndoCap
    /\ \A step \in Steps : step.layer \in 1 .. doc.next - 1
    /\ canvas \in [tool : Tools, painting : BOOLEAN, shaping : BOOLEAN]

(* The history fits the painting: going down the undo stack, and down the  *)
(* redo stack, every step finds on its layer the pixels it left there, so  *)
(* that undo takes back what was painted and nothing else (layers deleted  *)
(* since excepted).  This is so between strokes, whatever was done while   *)
(* they were painted that did not tangle them.                             *)
Finds(d, step, seen) ==
    HasLayer(d, step.layer) =>
        \A c \in step.rect : c \in DOMAIN seen /\ Pixels(d, step.layer)[c] = seen[c]
HistoryFits ==
    LET back[k \in 0 .. Len(doc.undo)] == IF k = 0 THEN doc ELSE Undo(back[k - 1])
        ahead[k \in 0 .. Len(doc.redo)] == IF k = 0 THEN doc ELSE Redo(ahead[k - 1])
    IN  TypeOK /\ (~doc.stroke.on /\ ~tangled =>
            /\ \A k \in DOMAIN doc.undo :
                 Finds(back[k - 1], Last(back[k - 1].undo), Last(back[k - 1].undo).after)
            /\ \A k \in DOMAIN doc.redo :
                 Finds(ahead[k - 1], Last(ahead[k - 1].redo), Last(ahead[k - 1].redo).before))

(* What the window shows is what the layers are, unless it is going to be  *)
(* recomputed (fCompositeDirty).  Excepted are a Pixel script that kept    *)
(* what it had composed before the window painted on, and a file that      *)
(* failed to load.                                                         *)
CompositeIsCurrent ==
    ~doc.stale /\ ~late.drawn /\ doc.layers # <<>> => doc.composite = Flat(doc)

(* A painting the window would close without a word is in a file, or is a  *)
(* new canvas nobody painted on.  Excepted are tangled strokes, which end  *)
(* without marking it, a script that saved what has changed since, and a   *)
(* file that failed to load.                                               *)
CleanMeansSaved ==
    ~doc.modified /\ ~canvas.painting /\ ~tangled /\ ~late.saved /\ doc.layers # <<>> =>
        \/ Saved(doc) \in {disk[f] : f \in Files}
        \/ doc.layers = NewDocument(doc.width).layers
=============================================================================
