# A verification project for Prose

Prose runs Haiku on Apple silicon: a Mac application (`src/tools/hvgpu/`, Swift)
is the virtual machine and the devices of its own making, a series of patches to
Haiku (`src/patches/haiku/`) is the guest's half - drivers, servers, agents - and
five applications and a language server (`src/prose*/`, `src/clangdserver/`) are
written for it.

Two kinds of things go wrong there and are hard to test.  Between guest and host:
requests and answers over shared pages and rings, time-outs with late answers,
interrupts that say less than they seem to, a guest that falls over in the middle.
In the applications: long sequences of legal edits, undo and redo across them, files,
scripts and threads that come in between.  These TLA+ modules model both, TLC checks
them on small instances, and TLAPS proves what matters most for every instance.

Paths below are relative to the repository; `0127:66` is line 66 of the patch
numbered 0127 in `src/patches/haiku/`, and a file of an application is named without
its directory.

## 1. The system: components, state, interaction

| component | where | state | modelled by |
|---|---|---|---|
| Command channel of Prose Display and Prose Chip | 0014, 0127, `prds.swift`, `chipdevice.swift` | command page, `seq`, `command_outstanding`, `command_done`, control ring | `CommandPage`, `CommandRpc` |
| Game panes | 0102, `prds.swift` | `panes[]`, the arena, `pane_lock`; the host's `paneTable` | `GamePanes` |
| Mode hints, live resize | 0014, 0016, 0020, `prds.swift` | `shared->pref_*`, `hint_sem`, event buffers; the host's preferred size; the agent's last size | `ModeHint` |
| Prose Portal | 0059, `portal.swift` | request and reply buffers; `pending`, `waiting`, timers; the daemon's read loop and threads | `Portal`, `PortalPromise` |
| clangd_server | `clangdserver/app/src` | port, looper, workers, reader, two pipes, `fReplies`, `fLock`, remembered texts | `ClangdServer`, `ClangdSession`, `LanguagePromise`, `Json` |
| ProseDraw | `prosedraw/app/src` | shapes, images, undo and redo of whole drawings, tool, selection, gesture | `DrawApp`, `DrawCanvas`, `DrawDocument`, `DrawScript` |
| ProsePaint | `prosepaint/app/src` | layers, undo steps of pixels, stroke, composite | `PaintApp`, `PaintCanvas`, `PaintDocument` |
| ProseWriter | `prosewriter/app/src` | paragraphs, undo steps, layout cache, caret and selection, files | `WriterApp`, `WriterView`, `WriterLayout`, `WriterDocument`, `WriterRTF`, `WriterTools` |
| ProseOthello | `Othello.cpp` | game, history, generation, the thread that thinks | `OthelloGame`, `OthelloBoard`, `OthelloSearch`, `OthelloScript` |
| ProseJulia | `PJApp.cpp`, `PJFractal.cpp` | fractal, picture, title, pause | `JuliaApp` |
| PDF writers, recent files | `*PDF.cpp`, `*Recent.cpp`, `PWApp.cpp` | a file's objects and offsets; a list of paths | `AppFiles` |
| Display modes, commits, presenter | 0014-0018, `prds.swift`, `gamepane.swift` | mode, front and back buffer, `presentLock` | the queues only |
| virtio bus | 0003, 0030 | rings, interrupt suppression | stray callbacks only |
| malloc thread caches; HostFS; MIDI; the chip's sound; Automation; Prose.app; kernel, libroot and network patches; tools; build | see `PROJECT.json` | | no |

How they interact:

* app_server, games, the resize agent's mode switches and the Chip's players all
  go through a driver's **one command page** (`prds_command()`): calls, under a
  mutex, each waiting at most five seconds.  The host serves each device on one
  serial queue, answers by writing the page and returning the ring element.
* **Every interrupt of a device runs the callbacks of all its queues** (0030:20),
  so a vsync event also releases the semaphore that says "a command completed".
* Games share the pool with the desktop through the pane arena; the slot number is
  the only name a pane has on both sides.
* The host tells the guest about the window through events (advisory, dropped when
  the guest has posted no buffer) and through the device configuration.
* Automation on the Mac asks the guest through the Portal: the completion of a
  request is called from the reply, from the request's timer, or from a reset.
* An editor posts messages to clangd_server's looper, which forwards texts into
  clangd's pipe and starts a **thread for each question**; a reader thread takes
  clangd's frames out of the other pipe.  All share one session, its lock and the
  text that columns are converted by.
* An application's window is one looper: mouse, keys, menus and forwarded messages
  come one at a time.  **Scripts arrive on the application's own thread.**  ProseDraw
  runs them with the window locked; ProseWriter too, except that a set is forwarded
  and acknowledged first; ProsePaint, ProseOthello and ProseJulia read (and
  ProsePaint's Save and Pixel write) without the lock.

Hard behaviours: late completions after time-outs; stale semaphore permits; torn
reads of shared fields; slots, buffers and numbers reused while an old command may
still be carried out; frames lost part-way; guest restarts; undo and redo in the
middle of gestures; caches that must follow every edit; a script between two mouse
messages; an answer computed for a game that is over.  `PROJECT.json` lists them as
`hazards`, each at its line, with the properties that guard it or the reason there
is none.

What makes each component correct:

* *channel* - a command runs at most once and as queued, an answer reaches its own
  caller, nobody writes the page while the device may read it, the channel recovers;
* *panes* - no two panes share pixels, the pane a team holds is the picture on the
  screen, only its owner or its owner's death takes it away, ioctls end;
* *hints* - the screen follows the window to every size that was announced;
* *Portal* - one completion per request and no reply the daemon did not give, no
  buffer lost or doubled, results never mixed, requests in order and once;
* *clangd_server* - an answer is of its own question, about a text no older than the
  one it was asked of, and about the very place; texts agree once all is quiet;
* *documents* - undo and redo bring back exactly what was there, no change is lost
  without a question, what is shown is what there is;
* *Othello* - undo is exact, the machine answers when it is its turn, and plays the
  move its search says;
* *files* - what is written can be read, or is not left behind.

## 2. The modules

A device or a program with concurrency is a state machine; an application is one
whose actions are the window's messages, composed of a document (operators on a
record), a canvas or view (its gestures and keys) and the window (menus, files,
scripts).  Pure algorithms are modules of operators whose checks are ASSUMEs: TLC
evaluates them, over bounded inputs, at the start of the run of the application they
belong to, and stops if one is false.

### CommandRpc and CommandPage

`CommandRpc` says what the channel promises, without rings, pages or semaphores:
numbers are given out once, the device holds at most one command, carries it out
at most once and only while it holds it; "ok" is told only to the caller whose
command was accepted; a caller may give up at any time and its command may still be
carried out afterwards.

`CommandPage` is the code.  `pc[c]` is a thread's place in `prds_command()`:
`Enter` takes the lock and looks at `command_outstanding`; `Signalled` and
`TimedOut` are the two ends of `acquire_sem_etc()` in `prds_collect()`; `Collected`
and `NotOnUsedRing` are the ends of its dequeue loop; `WriteAndQueue` and
`QueueFails` number the request, write the page, clear the answer and queue it;
`Check` compares the sequence numbers on the page.  The host takes the request by
reading the page when it gets to it, not when it was queued (`HostTakes`), so
overwriting a page in flight is visible.  `StrayCallback` is the control callback
run for another queue's interrupt.  Numbers stand for whole requests and answers.

### GamePanes

Uses the channel as `CommandRpc` promises it (`Rpc == INSTANCE CommandRpc`): the
commands of an ioctl are `Rpc!Call`, `Issue`, `ReturnOk`, `GiveUp`, and the host's
handling of a request is joined to `Rpc!Execute`.  That composition is justified by
`ImplementsRpc`.  An ioctl is a sequence of steps under `pane_lock` (`doing`,
`target`): reaping goes slot by slot, each dead team's pane a command of its own.
The bottom-up walk of `prds_pane_alloc()` is stated as what it finds - the lowest
of the places where it can come to rest that is free (`FirstFit`).
`TeamExits` is the end of a program, outside an ioctl.  A program whose pane id
could not be copied out frees the pane at once (0102:520): `BeginFree`.

### PortalPromise and Portal

`PortalPromise`: a request gets one outcome, a reply only if the daemon dealt with
it, and the daemon deals with no request twice.  It deliberately allows a request
whose caller was told "timed out" to be carried out later.

`Portal` follows a request from `send()` through a buffer, the driver's FIFO,
`read()` (the buffer is posted again before the request is handled), the daemon's
loop or a command's thread, and its reply frames back.  `writer` is the holder of
`sWriteLock`; a single frame is written in one step (`Reply`, `RunFails`), a result
is one `WritePart` per frame.  Any write may fail.  The daemon may die between
system calls and be restarted; the guest may fall, be reset and start again.

### ModeHint

The host's `windowResized()` and `emit()`; the driver's start in the order of
`prds_init_driver()` (read the configuration, post event buffers, ENABLE_EVENTS);
the event callback in single stores; the ioctl in single loads; `hint_thread()`'s
outer and inner waits.  `announced` is a history variable: was the last resize sent
to the guest, or made before the configuration was read?  `HintInit`, `hintVars` and the
like are so named because `CommandPage`, the driver's other half, has the plain names.

### LanguagePromise, ClangdSession, ClangdServer, Json

`LanguagePromise` is what an editor may rely on: a question is answered at most once,
with nothing or with an answer to it, about a text no older than the one it was asked
of and, if it is the same, about the very place.  The places are the edges of the
characters of all the versions.

`ClangdSession` is `lsp.cpp`: `at[t]` is a thread's place in `Request()` or
`Notify()`.  A frame is written in two pieces under `fLock` (`Locks`, `Writes`), a
pipe holds `PipeRoom` frames and a writer waits, a request polls `fReplies` until it
finds its number (`Finds`) or gives up (`GivesUp`), and the reader delivers under the
same lock.  clangd is external: it takes a frame, answers requests in any order,
publishes diagnostics, or dies.  `Utf16FromByte` and `ByteFromUtf16` are the column
conversions on a line that is the sequence of its characters' widths.

`ClangdServer` is `main.cpp`: the looper's handlers, each of their blocking calls a
step; `Remembers` copies the text after clangd was told of it, the freed copy may be
read as anything meanwhile; workers; the reader's diagnostics.  The editor is
`client.cpp`.  `KeepsPromise` is the refinement.  `Json` is `json.cpp`'s reader and
writer on tokens, with its string escapes and UTF-8 on bytes.

### DrawDocument, DrawCanvas, DrawApp, DrawScript

Shapes are boxes, images or connectors with one grid coordinate; undo and redo are
stacks of whole drawings as in `PDDocument.cpp`, the cap included.  `DrawCanvas` has
the mouse gesture by gesture: press, moves and release are separate actions, with
anything of `DrawApp` between them, and what the code keeps across them (`fMoveBase`,
`fConnectFrom`, `fEditorShapeId`, stale shape pointers of a duplicate) is state.  A press
takes whatever gesture is going on for its own, as in the code.  Two fields of the canvas
are history: `began` is the drawing a move's or resize's press put on the undo stack, until
an undo takes it; `cut` says that a press left one without its Touch() after a save.
`DrawApp` is the window and its file; scripts act between two messages.
`DrawScript` has the scripting table, the zoom's two conventions, what a shape's
words mean, and the application's windows and files as they come and go.

### PaintDocument, PaintCanvas, PaintApp

A canvas is a row of pixels, undo steps hold the pixels under a stroke's rectangle
for a layer id, `composite` and its dirty flag are state.  A stroke is many messages
(`PaintCanvas`), layers, undo, resize, loading and scripted strokes come between any
two.  In `PaintApp` the Save and Pixel scripts are two steps each, on the
application's thread.  `tangled` and `late` are history variables: a stroke was mixed
with something that its undo step does not see (paint on another layer than the
stroke's, or a stroke begun over a smudge under way), or a script's second step undid
what came between.

### WriterDocument, WriterLayout, WriterView, WriterApp, and its functions

`WriterDocument` is `PWDocument.cpp`: offsets over the whole text, paragraphs split
and merged by edits, undo steps with coalesced keys, tables as cells separated by a
character, images on their marks, styles.  `WriterLayout` keeps each paragraph's lines
under its identity and revision as `PWLayout.cpp` does: a row of a table is one line, as
high as the tallest of its cells wrapped in columns that all rows share out, and pages
break by the heights kept.  A character is one unit wide and a line of text one unit high;
padding and fractions of a unit are left out.  The wrap, and every loop of the document, is
a recursive function, so that it can be reasoned about.  `WriterView` is the caret,
selection and keys; nothing there clamps the caret after undo, and the model has it so.
`WriterApp` is the menus, find and replace, clipboard, page setup, files, scripts.
`WriterRTF` writes and reads RTF as tokens.  `WriterTools` has the spelling (the scan, the
stems, the word at the caret and the cache) and the scripting table with its forwarded
sets, the page setup's clamps, the panels, file names, reads and the first window.

### OthelloBoard, OthelloSearch, OthelloGame, OthelloScript

`OthelloBoard` is the rules, `OthelloSearch` alpha-beta, the evaluation, deepening
under a limit of nodes and the counted-out endings.  `OthelloGame` is the window with
the thread that thinks: it copies the game and reads the generation afterwards,
unlocked, so its answer may be of a torn or an earlier game; `fThinking`, the posted
answer and its acceptance are separate steps.  `OthelloScript` compares the two
surfaces scripts speak to, and places clicks.

### JuliaApp, AppFiles

`JuliaApp`: the colour ramps on whole numbers, the fractal's settings and their limits, a view with its
posted messages, keys, resize, pause, the title and the scripting requests as a
function from window to window.  `AppFiles`: the objects, offsets and table of a PDF as
the four writers make them, with every single write failing in turn; operators of a page;
pixels; labels; and the two kinds of lists of recent files.

## 3. The runs

| run | instance | shows |
|---|---|---|
| `command_page` | 3 callers, 3 commands, 2 stray permits | the channel's safety, that a call returns and the channel recovers, and that it implements `CommandRpc` |
| `command_page_signal` | 2 callers | **finding**: a permit is not a completion |
| `game_panes` | 2 teams, 2 slots, 2 pages, 3 commands, desktop | panes, arena and pictures stay together; ioctls end |
| `game_panes_crash` | the same, 1 page | **finding**: a crashed game's picture stays |
| `portal` | 3 requests, 1 buffer each way, 3 frames, 1 fall | buffers, results, order, the promise; `RequestsGetThrough` when every buffer has to be waited for |
| `mode_hint` | 2 sizes, 2 event buffers, 3 resizes, 1 vsync | the screen follows announced sizes |
| `mode_hint_lost` | 1 resize | **finding**: a resize nobody announced |
| `clangd` | 2 questions, 2 versions of a line, pipes of 1 frame, 1 session | `KeepsPromise`, `OwnAnswers`, `TextsAgree`, the lock |
| `draw` | 6 shapes, 4 operations, undo of 4, 1 file | `DrawingsSound`, `CleanMeansSaved`, `NothingIsLost` |
| `paint` | 2 pixels, 2 inks, 4 operations, undo of 2, 1 file | `HistoryFits`, `CompositeIsCurrent`, `CleanMeansSaved` |
| `writer` | 2 edits and 1 undo, save, opening or page setup on a table above a list, 2 widths | `LinesAreCurrent`, `CleanMeansSaved`, `UndoIsExact` |
| `othello` | 4 by 4, 3 plays from three openings, 2 generations | `UndoIsExact`, `MachineAnswers`, one thread at most |

Why the bounds are enough.  *Channel*: a late completion confuses the next command but one
(the first times out, the second collects or fails, the third reads), so three commands;
two stray permits are one more than a call can consume before its own completion.  *Panes*:
a slot changes hands with two teams; two slots and two pages give every overlap of
neighbours and holes below a pane; three commands are a create, a given-up destroy and the
create or commit after it.  *Portal*: the code has eight buffers each way and any
number of requests; what matters is that requests outnumber buffers.  Of three requests on
one buffer the host queues two, the buffer has to be read and posted again before each of
them, and the read loop waits for the write lock of a result that waits for the reply
buffer while another request stands behind it; every frame of a result of three (a first,
a middle and a last) waits for the reply buffer to come back; and a daemon dies or the
guest restarts in the middle of it.  The model was also run once with two buffers each way
and two frames, in which a callback finds two buffers on its ring, and with two falls; both
take too long to be kept as runs, and the safety properties are proved for all bounds
(section 4).  `RequestsGetThrough` is stated as "again and again nothing is on its way",
which for a bounded number of requests says that each of them gets through.
*Hints*: the two sizes differ in both
fields, so any mixture of them is neither; three resizes let a size come back.  *clangd*:
two workers are what can mix answers up; a pipe of one frame is full after one, so that
every write can wait; the two versions have characters of two bytes, one byte, and four
bytes (two UTF-16 units), with the place asked of behind the first.  *Draw*: a connector
and its two boxes, and a copy of all three; four operations are a gesture with an edit in
its middle and an undo and redo after it; `UndoCap` is 4, and no command of the run edits
more shapes than that one by one, since the real cap is 200. Two connectors copied at once
need more operations than the run has; the proofs cover any number.  *Paint*: a stroke,
another begun in it, and a step off either end of a history of two.  *Writer*: two edits
reach merges, splits and tables next to a list under undo and redo; a second letter only
doubles the states.  Its rows are too short to wrap.
*Othello*: the openings leave five and six squares, with passes of either side and both
kinds of end within three plays; two generations let an answer be of the game before.

Deadlock is checked in `paint`; elsewhere a model has a bounded number of calls,
requests, resizes or edits, or a window that closes, and may rightly stop.  The
liveness properties take its place where there are any.

Fairness.  *Channel*: `CallersRun` is what the kernel's scheduler and its queueing
mutex give (strong fairness of `Enter`: a waiter is not passed over for ever).
Nothing is assumed of the host, except in the hypothesis `HostRuns` of
`ChannelRecovers`.  *Panes*: an ioctl in progress goes on, a channel call ends (that
is `CallReturns`), the host serves its queue; no team is obliged to begin anything.
*Portal*: weak fairness of the host's queue, the interrupts and the daemon's threads;
none for commands, which may run for ever, for timers or restarts of the guest, nor for
failing writes: no thread is freed by the failure of a write that need not fail.
*Hints*: weak fairness of the boot, the callback and the agent; strong fairness of
`TimesOut` (not every wait is interrupted by a signal) and of `SwitchTo` (app_server
does not refuse a size for ever).  *Othello*: weak fairness of the thread, of the posted
answer and of an alert's end: a thread is scheduled, a looper takes its messages.  The
player owes nothing.  *clangd_server and the other applications*: safety only.

### Findings

* **`SignalMeansCompleted`** - 0127:76 says a signal means the command is on the used
  ring.  The control callback runs for every interrupt of the device, so a vsync
  leaves a permit that the next command mistakes for its completion; a command that
  then takes longer than the ten-millisecond bound fails although nothing is wrong
  (the next caller collects it, so nothing is corrupted: `AnswerIsMine`).
* **`CrashedPictureGoes`** - 0102:258 and `docs/game-pane.md:220` say a crashed game
  leaves no picture.  It does until another program allocates a pane.
* **`NoHintIsLost`** - 0020:65 and `docs/s2-display-device.md:236` say no hint is
  lost.  A resize between reading the configuration and ENABLE_EVENTS, or with no
  event buffer posted, is not followed until the next resize.
### What the code does not keep

Three claims of the repository that the models show broken.  No run is kept for them: the
property next to each excepts exactly this, by name, and TLC finds it violated without the
exception (the third on a file with a table whose second row has a cell that wraps).

* PDCanvas.cpp:661 says one undo entry covers a drag ("PushUndo at MouseDown, raw rects
  during, Touch at MouseUp").  Undo does not end the drag: it takes the entry, the drag
  goes on (664-686), and what it then changes is on neither stack.  `NothingIsLost` excepts
  it as `Taken`.
* PDDocument.h:136 says a gesture "closes with Touch".  MouseDown does not look at `fDrag`
  (PDCanvas.cpp:539-647), so a press of another button replaces a drag, and the MouseUp
  that follows does not touch the document (714-715).  After a save in mid-drag the window
  counts as clean, and closes without a question, while its shapes are not those of the
  file.  `CleanMeansSaved` excepts it as `canvas.cut`.
* `prosewriter/README.md:52-53` says incremental relayout is verified identical to a cold
  layout and works inside cells.  A row's height is kept with the row (PWLayout.cpp:562-572)
  but comes from column widths that all rows share (163-214, 311), and pages break by it
  (515-520): a letter typed in the first row can leave the second row's height, the places
  below it and the page breaks as they were.  `LinesAreCurrent` excepts a row's columns and
  height, and the pages of a document with a table.

### What the pure modules check

| module | evaluated in | assumptions |
|---|---|---|
| `Json` | `clangd` | strings and values are read as written (`StringsRoundTrip`, `ValuesRoundTrip`), nesting is bounded, escapes are characters |
| `AppFiles` | `draw` | every object is found where the table says (`WholeFilesRead`), no half file is left (`NoHalfFiles`), pixels, operators, pictures and labels; the recent list is the files opened last, saved and loaded |
| `DrawScript` | `draw` | every listed request is answered and an error has changed nothing, zooms, files find their window, the application ends with its last window |
| `WriterRTF` | `writer` | `RoundTrip` up to what `Survives` names; what groups leave behind |
| `WriterTools` | `writer` | what is marked are the wrong words, the word at the caret mirrors the scan, the cache is a fresh scan; requests and forwarded sets, the page setup leaves room and comes back, panels, names, reads, word count, the first window is on the screen |
| `OthelloSearch` | `othello` | alpha-beta is the plain minimax, endings are exact, there is always a legal answer |
| `OthelloScript` | `othello` | the two surfaces agree, requests keep the rules, a click plays its square |
| `JuliaApp` | `othello` | ramps without jumps, a still picture is current, answers are true, frames read back, "set, not toggle" |

Each of these was also tried against altered definitions, as the listed mutants do for
the properties of the runs: an assumption that no alteration could falsify was dropped.

### What the models found besides

Modelling the code as it is meant naming these in the definitions, and leaving out of a
property, by name, what the code does not keep.  They are for the maintainers to judge.

*ProseDraw.*  A nudge, a style or a change of order of more than 200 shapes takes a
snapshot for each and cannot be taken back whole (PDDocument.cpp:445).  A drag with a connector selected between two boxes leaves a box behind:
`fMoveBase` holds boxes only and is walked with the selection's index (PDCanvas.cpp:661,
670; PDCanvas.h:107).  Opening a second file keeps the first one's pictures
(PDDocument.cpp:564).  Of the files received before the application is ready only the
last is kept.  Two windows that close together can leave it running without any (the
same in ProseWriter).  The zoom is documented as 50 to 400 and clamped to 25 to 400; a
scripted percentage up to 4 is a factor.

*ProsePaint.*  A new canvas or another paper discards a painting unasked and keeps
`fFilePath`, and so does opening a file; a file that fails to load leaves no layer; a
Pixel script's composite races the window's; dabs after a scripted stroke are neither
undoable nor marked; `Resize()` during a stroke leaves a step of the old geometry,
against PPDocument.cpp:554.

*ProseWriter.*  The caret and the anchor are not clamped after undo or a merge, and a
format applied past the end never ends; typing after undo notes the step at a stale
offset and keeps the redo; removal across paragraphs saves images at wrong offsets; the
second paragraph's format is lost when a merge is undone; a script's text clears
`fModified`; opening a .txt or .rtf file makes Save write the native format over it; an
alignment or style at a paragraph's end formats the next one too; Tab after the last
cell makes a short row, deleting the last column leaves its separator, and a new column
leaves the rows above without one (against PWDocument.cpp:1027); list numbers, table
widths and row heights go stale in the incremental layout; a file above 64 MB opens as an empty
document; the page setup, styles and table panels, once hidden, are only activated and
do not come back (PWApp.cpp:1841-1865, 1949); a scripted set is acknowledged before it
is applied, so that its errors are never told (PWApp.cpp:2516-2530).

*Files.*  In PWPDF.cpp the error of the catalog's write (:140) is overwritten (:149),
against "never leave a broken half-PDF behind" (:216).  ProseDraw numbers pictures by
first use and stores them by identity (PDPDF.cpp:335, 403, 447).  A label is measured
with its escapes.  RTF: indents and tabs go on to later paragraphs, an empty paragraph
comes back as a space, a skipped group does not restore the state.  JSON: a `\u` pair is
always refused (json.cpp:271, against json.h:4), an empty array becomes null, the last
of two equal keys wins (json.h:44 says the first).  Spelling: bytes above 127 split a
word, an opening apostrophe makes a known word wrong.  ProseWriter's list of recent
files is cut at 4095 bytes.

*clangd_server.*  A late answer and late diagnostics are placed with the columns of the
text remembered now, not of the one they are about (main.cpp:384, 542); `LanguagePromise`
therefore promises the place only for the same text.  Starting clangd and a full pipe
hold the looper, against main.cpp:441.

*ProseOthello.*  Undo during thinking, or after passes, leaves white to move with nobody
thinking; a new game or undo while it thinks, followed by a quick move, has the answer
dropped and none started; the thread may copy a torn game; a second click before the
first is handled plays for white.  `MachineAnswers` is stated from the moments when
nobody interferes.  Scripting looks for the property in the message instead of the
specifier (Othello.cpp:1262); the Hints property posts a toggle; a row and column off
the board wrap to another square; a draw is announced as "32 all".

*ProseJulia.*  `Iterations` set by a string reads as 0 (PJApp.cpp:592, 720); `Paused`
posts a toggle, against "set, not toggle" (:697); a resize while paused keeps the old
picture; a point that leaves in its first step is painted as the inside
(PJFractal.cpp:154, 181).

## 4. What is proved

`DisplayDriver_proofs` is about both halves of the driver, which share no variable.  Of
`CommandPage` it proves, for every set of callers and every bound, the type
invariant, the five safety properties of the channel, the action property
`PageQuietWhileTheirs`, and the refinement of `CommandRpc`.  Assumptions:
`CallersAssumption` (no caller is the "free lock" value) and `BoundsAssumption`.

None of the properties is inductive by itself.  `RunsOnceAsQueued` needs to know
that the page still holds what was queued; that needs that whoever may write the page
knows nothing is in flight; and that rests on the lock and on `outstanding`.  The
invariant `IInv` says exactly this: `LockHeld` (only the lock's holder is past
`Enter`), `OneInFlight` (the four states the one command can be in, and that
`outstanding` tells them from none), `PlaceKnows` (what a caller may rely on at each
place), `HistoryAgrees` (the histories against page and rings), `SignalNotLost`, and
the types.  Each action keeps it: `CallerKeepsIInv`, `HostKeepsIInv`,
`StutterKeepsIInv`.  The refinement maps a caller's place to idle/calling/issued and
`held` to the request while `outstanding`; `Collected` is `Retire`, `WriteAndQueue`
is `Issue`, `Check` is `ReturnOk` or `GiveUp`, and everything the abstract channel
does not see is a stutter.

`GamePanes_proofs` proves, for every set of teams, number of slots, size of the arena
and bound, the type invariant, `ArenaDisjoint`, `UsedIsOnScreen` and
`TakenOnlyFromTheDead`.  Assumptions: `TeamsAssumption` (the desktop, "nobody" and the
teams are different) and `ArenaAssumption` (there is a slot and a page).  The channel
is what `CommandRpc` says, which `DisplayDriver_proofs` shows the drivers implement.

`UsedIsOnScreen` is not inductive: a create that timed out may still be carried out,
and the state alone does not say that it cannot hit a pane in use.  `IInv` adds what
rules it out.  `OnlyLockHolderCalls`: a team is at the channel only under `pane_lock`.
`IoctlKnows`: what the ioctl saw of the table is still so.  `UnansweredIsHarmless`: the
one command the host has and has not carried out is about an unused slot, a slot its
holder is letting go of, or is the holder's own.  `CreateInProgress`: while the create
is unanswered it is what the host holds; once accepted, the picture is there and only a
desktop commit can be on its way.  The step that carries the argument is
`SendKeepsIInv`: a command goes out only when the device holds none, so a late command
is over before the slot it is about can be taken again.  That is also where it rests on
the single command page.  The lowest place exists and is free by `MinIsLeast` and
`FirstFitFits`.

`ClangdServer_proofs` proves, for any questions, versions of the text, pipes and ports,
`TypeOK` (with it that `fLock` has one holder, who is the one thread that writes),
`OwnAnswers`, and `ColumnsRoundTrip`: a column at a character's edge survives the
conversion to UTF-16 units and back, for any line.  Assumption: `SessionAssumption`.

`OwnAnswers` rests on numbers: a reply is taken by its id alone, from a table that also
holds what came after others gave up.  `IInv` says where a number can be.
`ThreadsMatch`, `SentMatch`, `ThinkingMatch`, `SaidMatch`, `KeptMatch`: whatever carries
a number - a thread still asking under it, a frame in the pipe, a request clangd thinks
about, a reply on its way, a reply in `fReplies` - belongs to the one thread it was
issued to, and none is above `fNextId`.  `GotOwn`: what a worker found is its own.
`Ready`: a question waits in the port once, and its worker has not begun.  A step that
takes a new number makes it larger than any in use; every other step moves or drops what
carries one.  The columns need that bytes and units grow from one character to the next
(`UnitsGrow`).

Its second half proves, under the same assumption, `TextsAgree`, and that `ClangdServer`
implements `LanguagePromise` (`KeepsPromise`), whatever opened, changed and closed the
text while a question was on its way.  The invariant is `IInv` and `Talk`, one part for
each place where a text or a question can be.

* `Sessions`: an open session is the editor's or on its way to end; while the editor is in
  it, everything in the port is of that session; and what opens one is alone in the port.
* `PortFlows`, `PipeFlows`: the latest text in the port, or with none there what the looper
  has taken (`Taken`), is the editor's; the latest in the pipe, or with none there what
  clangd knows, is what the looper has passed on (`Passed`).  `TextsAgree` is the case where
  both are empty.  The two differ while the looper stands between the frame it wrote and the
  text it has yet to remember, which is where a worker may look.
* `Once`: a question is about a version that was sent, at a character's edge, and has its
  answer before the session ends, so that everything on its way is of one session.
* `Posted`, `Started`, `Sent`, `Thought`, `Said`: where a question waits in the port the
  looper will have come to its very text; from then on every text before clangd's is that
  one or a later one (or none); and a column computed from another text goes with a clangd
  that will know that text or a later one (`Fits`).  An answer about the text asked of is
  thus at the place asked of, by `ColumnsRoundTrip`.

`Latest` says what the last text at some places of a queue is; `LatestTail` and
`LatestAppend` are what taking from and adding to the queue do to it, and carry every step.

`Portal_proofs` proves, for any number of requests, buffers, parts of a result and
falls, the type invariant, `BuffersConserved`, `HandledInOrder`, `BodyIsPrefix` and the
refinement of `PortalPromise`.  Assumption: `PortalAssumption` (the bounds are numbers).
`IInv` has a part for each thing that is passed on.

* `BuffersOnce`: request buffers end to end (`Places`: posted, with the host, filled, in
  the FIFO, being read) are all different, also while the guest is down, and all of them
  while it is up; reply buffers are counted.
* `Stages`: what the read loop has in hand at each place, and what a reset leaves.
* `InLine`: those dealt with, the one in hand, those in the buffers and those waiting, end
  to end (`Line`), are numbers that grow.  `HandledInOrder` is the first piece of it: a
  request cannot overtake another because nothing is put anywhere but at the end.
* `StillOpen`, `Answered`, `RingAnswered`: a request waited for was told nothing yet, and
  a reply, a job or a frame is of a request that was dealt with, and of its kind.
* `RingInPieces`, `Joins`, `Bodies`: the host joins frames by number alone, so the
  invariant says that parts of one result stand together and in order on the ring
  (`Follows`, `Ascends`), that a result is put there once (`Unsent`, `Placed`), and that
  the part at the front, or the next one to be written, goes on where the body ends.

The step that carries it is `Flush`, the one loop that fills any number of buffers:
`FlushIs` and `FlushKeeps` cut both queues at the number it moves.  `StepPromise` maps each
step: `Send` asks, `Handle` deals with a request, `TakeFrame`, `Expire` and the falls tell
outcomes, of several requests at once in one step or of none, and the rest stutters.

Of `ModeHint` `DisplayDriver_proofs` proves, for any sizes, number of event buffers and
bounds, `HintTypeOK`
(with it that the semaphore never holds two permits) and `SharedCatchesUp`.  Assumptions:
`SizesAssumption` (sizes have no 0 in them, which is what the driver starts from) and
`HintBoundsAssumption`.  `BuffersKept`: an event buffer is with the host, posted, on the ring
or the callback's.  `Booting`: nothing moves before ENABLE_EVENTS.  `OnePermit`: between
the count and the release there is no permit, and none while the agent waits.  `Storing`:
the callback is half way through a size, and which half.

`OthelloGame_proofs` proves, for a board of any even size, any openings and any bounds,
`TypeOK` (with it that there is one thread that thinks or its answer, never two, and that
`fThinking` says so), `UndoIsExact`, and `HistoryNeverFull`: a legal move is never refused
for want of room in `fHistory`, and the pass written along with it, which `PlayMove` does
not check, is inside it too.  Assumptions: `SizeAssumption` and `OpeningsAssumption` (an
opening is a list of positions; that it is one that was played is a guard of `Init`).

The board alone does not say that undo is exact: the discs a ply flipped have to be those
of the move it was.  `Sound` therefore says that the past can be told.  There is a `Story`,
a board and a side to move for every ply, each made from the one before it by that ply
(`Makes`), from the first position of a game to the one that is played; a pass stands
where the side had no move and the other one had, and only there.  A move makes the story
longer (`StoryGrows`), an undo shortens it (`StoryBegins`).  `Roomy` is the room: plies so
far, and two for every empty square, since a move takes a square and has one pass at most,
and two passes never follow each other.  `OneThread` is the other half: a thread, an
answer on its way, or neither.

`PaintApp_proofs` proves, for any width of the canvas, set of inks, cap of the history,
files and number of operations, `TypeOK`, `CompositeIsCurrent`, `CleanMeansSaved` and
`HistoryFits`.  Assumptions: `PaintAssumption` (white is an ink, bare is not, undo keeps a step),
`WidthAssumption`, and `DiskAssumption` (the files there are at first can be read).
`AlwaysSound` is the invariant:

* `Sound`: the layers have numbers of their own, below the next one, and pixels for the
  width of the canvas; the active one is there; steps are inside their rectangle and of
  layers that were there once; both stacks together hold no more than the cap.
* a stroke goes on only while the mouse paints, and `CompositeIsCurrent`.
* `Typed`: among others, every file can be read, whichever wrote it.
* `Kept`: a painting that counts as saved is in a file, or is a new canvas, or is `Mixed`.
  This last is what `CleanMeansSaved` does not see and induction needs: a smudge puts its
  pixels on the layer at once and the document is marked only when the stroke ends; the
  stroke in progress holds what is needed to mark it then.

A change of the document is one of two relations.  `Fine` is for edits: what is shown is
composed again (`Shows`), changed layers mark the painting (`Marks`), and a smudge under
way stays held or is marked (`Holds`).  `Touch` is for a tool, which may mix.  Each
operation of `PaintDocument` has a lemma that it is one of them (`StrokeEndIs`,
`ResizeIs`, `ApplyStepIs`, `LoadIs`, ...), each message is a few of these in a row
(`StrokeStep`, `CanvasStep`, `EditStep`, `FileStep`).  `LoadIs` needs that a finite list
of numbers has a largest (`GreatestIs`), which is shown by the least bound there is.
The two exceptions of the model are as narrow as the proof allows: a second stroke
forgets a smudge that is under way (`Drops`), and paint may reach a layer that is not the
stroke's (`Stray`); after either, layers may have changed without a mark.

`HistoryFits` (`HistoryIsExact`) looks down both stacks by doing every undo and redo.  A
step of the program changes the top only, so induction needs the same fact said of the
stacks as they lie: `Trail`.  A pixel a step covers is, under the next step up the stack
that covers it too, as the one leaves it and the other finds it, and in the picture when
no later step covers it.  The picture is the layers as they were before the stroke that
is being painted (`Picture`), since strokes change pixels long before they are noted, and
undo works in the middle of them; `StrokeFits` says that outside of its rectangle a stroke
has changed nothing.  `Fitting` is both, between tangles.  A stroke that ends puts its
step on top (`Trail` of a longer stack); an undo moves a step from one trail to the other
(`TrailOfFewer` when layers were deleted since); what crops or replaces the canvas clears
both.  `WalkExists` and `WalkFinds` then go down a trail, by the least index at which a
walk would not find what `Trail` says.

`DrawApp_proofs` proves, for any page, any number of shapes, files and operations, the
three properties of the `draw` run: `DrawingsSound` (`Soundness`), `CleanMeansSaved`
(`CleanIsSaved`) and `NothingIsLost` (`TakenBack`).  Assumptions: `DrawAssumption` (a page
without gaps, which is what puts an aligned box on it; undo keeps a drawing),
`BoundAssumption`, and `DiskAssumption` (what the files hold at first is one drawing, whose
ids are inside the bound on ids).  `IInv` has three strengthenings:

* `Whole`: the drawing is sound, with every one on both stacks (`Drafts`), and the stacks
  together hold no more than the cap; a file, by `File`, holds shapes that are joined.
  Redo is the reason for all of it: nothing else says that what comes back is sound.
* `Steady`: the selection names no shape twice.  Without it a nudge would move a box by
  two and off the page, and a walk along the selection would have no bound.
* `Begun`: the drawing that the press of a drag put on the undo stack is there for as long
  as `began` says so, or the stack has been filled since.

An edit (`Edit1`) is nothing, or begins with a snapshot; `Edits` is up to n of these in a
row, after which the first drawing is fewer than n from the top of the undo stack if the
stack holds n (`EditsGoOn`).  The model walks a selection with recursive functions;
`WalkIs` has that such a walk exists and `WalkStays` that it stays where its steps keep
it, both by the least index at which they would fail, and `NudgeIs`, `CopiesIs`,
`ApplyLookIs`, `RestackIs` and `ChosenIs` are its instances.  `InOrderIs` says that the
drawing order of a set of shapes exists and meets each once.

`CleanIsSaved` and `TakenBack` keep the exceptions of their properties, and no others: a drag
while it goes on and one that a second press cut short after a save (`cut`); the moves of a
drag whose entry an undo or an opening took, or edits in mid-drag pushed out of a full stack.
That a press may come at any moment is in the proof: `TakesIs` and `OpensIs` are about a press
over whatever gesture is under way.

`TakenBack` has a hypothesis, `MaxShapes <= UndoCap`, and needs it.  NudgeSelection(), the
inspector and the order menu edit one shape at a time with a snapshot each; the stack
drops its oldest drawing at 200 (PDDocument.cpp:445).  Such a command on more shapes than
that pushes out the drawing it began with, and undo cannot bring it back: with a cap of 1
TLC finds it at once for two boxes.

`WriterApp_proofs` proves, for any letters, formats, cap of the history, page widths,
files, scripts and number of operations, the four properties of the `writer` run:
`TypeOK` (`TypeCorrect`), `LinesAreCurrent` (`LinesStayCurrent`), `CleanMeansSaved`
(`CleanIsSaved`) and `UndoIsExact` (`UndoAndRedoAreExact`).  Assumptions:
`WriterAssumption` (the plain format is a format, a new paragraph's format numbers
nothing, undo keeps a step), `LayoutAssumption`, `ViewAssumption`, and `AppAssumption`
(there is a page width, finitely many; what the files hold at first can be read).  `IInv`
has four parts:

* `Page`: the document is `Whole` (identities below the next one and all different, text,
  images and steps of their types), not quiet, its history is `Exact`, and the layout
  `Fits` it.
* `Scene`: caret, selection, clipboard and counters.  Nothing bounds the caret by the
  document, as nothing does in the code: every edit is shown to keep the invariant at an
  offset past the end.
* `FilesAre`: a file is `Readable`, whichever wrote it.
* `CleanMeansSaved`, which is inductive with these.

Every operation of `PWDocument` is one relation, `Edits`: the result is whole, is the same
document or marked, keeps an exact history exact, and `Evolves`: each paragraph is the
one it was, or has a later revision, or an identity that was not in use.  This last is
all the layout needs.  `KeptIs` has that lines kept by identity and revision are those of
the paragraph now, so `Fits` goes from layout to layout (`LayoutIs`), and what fits is
current (`FitsCurrent`).  `Fits` says nothing of what a paragraph's entry takes from others -
a list's number, a row's columns and height - and no more can be proved of them;
where no paragraph is a row every line is one unit high, and the pages
follow from the lines.  `Load` counts identities on from those of the document before it for
the sake of what is kept alone.

`Exact` says of the stacks as they lie what `UndoIsExact` says of their tops: each step,
taken as a splice of the text (`Turns`), leads from the text it notes to the one the step
above it notes, and the top one to the document's.  That an operation is the splice its
step says is where the work is, since paragraphs, not text, are what the code edits.
`Locate` is inverted (`LocateIs`, `LocateAt`), a text is put together from what
stands before and behind a place (`Parted` and the lemmas on it), and `InsertIs`,
`SplitParaIs` and `RemoveEdits` follow for any number of paragraphs; then come a letter
joined to the step on top, the loops over rows of a table, matches, runs and paragraphs
(`WalkIs`, `WalkStays`: the least index at which a loop would go wrong), and `UndoIs` and
`RedoIs`, which undo a splice with a splice (`SpliceTwice`).  The exception `stray` is the
code's own: an insertion past the end notes an offset at which it did not happen, and a
letter that joins a step leaves a redo stack that is about another text.

Only model-checked: `JuliaApp` and the pure modules; and all liveness (fairness and
ENABLED are beyond the prover).  What the pure modules compute by folds and recursion is
checked on bounded inputs: a proof for all of them would need induction with an operator
as a parameter.  Modules with RECURSIVE operators are kept apart from those with theorems.

## 5. What is not modelled

* `GamePanes`: the pane's layout, sprites, palettes, clip rectangles, shaders
  (PANE_SHADER compiles on the device queue, prds.swift:476), PANE_WAIT_RETRACE; a
  device reset, which leaves the host's pane table as it is (prds.swift:220).
* `Portal`: the text of commands and results and their truncation; INFO, which goes
  the way of PING; the 32-bit request number's wrap; `prpt_write()` losing a buffer when
  queueing fails (0059:600), which needs a full ring, and the ring is larger than eight
  buffers.
* `ModeHint`: REDRAW events, sizes above the device's maximum (they are clamped before
  anything else sees them), the agent's end after eleven hard errors, a second boot.
* `CommandPage`: the contents of requests and answers; teardown of the driver.
* `ClangdServer`: several documents or editors, frames that are oversize or unreadable,
  SIGPIPE; a session deleted while workers of unanswered requests use it (main.cpp:570):
  the editor is `client.cpp`, which ends a session when it has its answers.  The wait of
  both pipes for each other (lsp.cpp:129) cannot happen while clangd reads as it writes,
  which the model takes for granted.
* *Applications*: drawing, fonts, colours and menus; ProsePaint's close with its save
  panel, what a brush does within a pixel row and the shape of a fill, a pulse of the
  airbrush while a shape is dragged over a stroke under way (PPCanvas.cpp:316); ProseDraw's
  picture bytes in `CleanMeansSaved`; the bytes of ProseWriter's native format and where its
  find bar is drawn;
  Othello's animation; ProseJulia's interleaving of scripts with the window (a script
  is one step).
* Display modes, commits and the presenter: their inputs are queues modelled above; the
  picture itself, the double buffer and the vsync thread are calls into Apple's
  frameworks.  A SET_MODE or COMMIT whose caller timed out may still be carried out
  (prds.swift:314, 325); that is in `CommandRpc`'s promise, its effect on the picture
  is not.
* virtio's interrupt suppression and recheck (0030), the malloc thread caches (0138,
  0140), HostFS, MIDI: patches whose surroundings are in Haiku and not in the
  repository, or, for the allocator, a large and mostly sequential structure.
* Prose.app, Automation, the tools, the tests and the build: user interface, calls
  into Apple's framework, scripts and other people's code.

## 6. Where to go on

1. `Commits`: SET_MODE and COMMIT over `CommandRpc`, front buffer, display buffer under
   `presentLock`, presenter; abstract specification "the screen shows a prefix of the
   frames app_server finished".
2. ProsePaint's and ProseJulia's remaining unlocked scripts as interleavings.
