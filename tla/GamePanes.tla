----------------------------- MODULE GamePanes -----------------------------
(***************************************************************************)
(* Game panes: the pane table of the prose_display driver, the pane table  *)
(* of the host device, and the command channel between them, which is used *)
(* as CommandRpc promises it (CommandPage implements that promise): a      *)
(* command may be refused, may succeed, or may be given up and still be    *)
(* carried out later.                                                      *)
(*                                                                         *)
(* A pane is a slot of the driver's table, a range of the arena in the     *)
(* pool and a picture on the host under the same slot number.  Teams       *)
(* allocate, move, present and free panes through ioctls that hold         *)
(* pane_lock; a team may exit at any time it is not inside one.            *)
(*                                                                         *)
(* Bound: no ioctl begins once MaxCommands commands have been numbered.    *)
(***************************************************************************)
EXTENDS Naturals, FiniteSetsExt

CONSTANTS
  Teams,        \* programs that may own panes
  NoTeam,       \* "nobody": an unused slot, a free pane_lock
  Desktop,      \* app_server, whose commits share the channel
  PaneCount,    \* PRDS_MAX_PANES
  ArenaSize,    \* pages of the arena
  MaxCommands   \* the bound

ASSUME TeamsAssumption == NoTeam \notin Teams /\ Desktop \notin Teams \cup {NoTeam}
ASSUME ArenaAssumption ==
  PaneCount \in Nat \ {0} /\ ArenaSize \in Nat \ {0} /\ MaxCommands \in Nat

Slots == 0..(PaneCount - 1)
Sizes == 1..ArenaSize
NoCommand == 0

VARIABLES
  \* the driver's table and the ioctl in progress
  pane,         \* [Slots -> [used, team, at, size]]: info->panes
  paneLock,     \* the team inside a pane ioctl, or NoTeam
  doing,        \* what that ioctl is at
  target,       \* the slot it is at
  want,         \* the size it allocates
  alive,        \* [Teams -> BOOLEAN]
  \* the channel (CommandRpc)
  phase, number, last, held, accepted, rejected, told,
  body,         \* the request of the command the device holds
  \* the host
  picture       \* [Slots -> [live, at, size, by]]: paneTable

rpcVars == <<phase, number, last, held, accepted, rejected, told>>
tableVars == <<pane, paneLock, doing, target, want, alive>>
vars == <<tableVars, rpcVars, body, picture>>

Callers == Teams \cup {Desktop}
Rpc == INSTANCE CommandRpc

NoPane == [used |-> FALSE, team |-> NoTeam, at |-> 0, size |-> 0]
NoPicture == [live |-> FALSE, at |-> 0, size |-> 0, by |-> NoTeam]
NoBody == [kind |-> "none", id |-> 0, at |-> 0, size |-> 0, by |-> NoTeam]

Init ==
  /\ pane = [i \in Slots |-> NoPane]
  /\ paneLock = NoTeam
  /\ doing = "none"
  /\ target = 0
  /\ want = 0
  /\ alive = [t \in Teams |-> TRUE]
  /\ Rpc!Init
  /\ body = NoBody
  /\ picture = [i \in Slots |-> NoPicture]

-----------------------------------------------------------------------------
(* The arena.                                                              *)

\* Mutant: one page of overlap at the end goes unnoticed.
FreeOffByOne(table, a, n) ==
  \A i \in Slots :
    table[i].used => a + n <= table[i].at + 1 \/ table[i].at + table[i].size <= a

\* A range of n pages at a meets no pane in use.
Free(table, a, n) ==
  \A i \in Slots :
    table[i].used => a + n <= table[i].at \/ table[i].at + table[i].size <= a

\* Where the bottom-up walk may come to rest: the start, and the end of each pane.
Stops(table) == {0} \cup {table[i].at + table[i].size : i \in {j \in Slots : table[j].used}}

Fits(table, n) == {a \in Stops(table) : Free(table, a, n) /\ a + n <= ArenaSize}

\* The lowest place for n pages.
FirstFit(table, n) == Min(Fits(table, n))

-----------------------------------------------------------------------------
(* The ioctls, each under pane_lock.                                       *)

Begin(t, what, slot) ==
  /\ alive[t]
  /\ paneLock = NoTeam
  /\ last < MaxCommands
  /\ paneLock' = t
  /\ doing' = what
  /\ target' = slot
  /\ UNCHANGED <<pane, alive, body, picture>>

Finish ==
  /\ paneLock' = NoTeam
  /\ doing' = "none"
  /\ target' = 0
  /\ want' = 0

\* prds_pane_alloc(): the arguments are valid, the lock is taken, and
\* prds_pane_reap() starts at slot 0.
BeginAlloc(t, n) ==
  /\ Begin(t, "reap", 0)
  /\ want' = n
  /\ UNCHANGED rpcVars

\* Mutant: any team may free any pane.
BeginFreeAnyone(t, i) ==
  /\ pane[i].used
  /\ Begin(t, "freeing", i)
  /\ Rpc!Call(t)
  /\ UNCHANGED want

\* prds_pane_free() by the owner.
BeginFree(t, i) ==
  /\ pane[i].used
  /\ pane[i].team = t
  /\ Begin(t, "freeing", i)
  /\ Rpc!Call(t)
  /\ UNCHANGED want

\* prds_pane_configure() and prds_pane_present() by the owner.
BeginTouch(t, i) ==
  /\ pane[i].used
  /\ pane[i].team = t
  /\ Begin(t, "touching", i)
  /\ Rpc!Call(t)
  /\ UNCHANGED want

\* Mutant: the loop runs one slot too far.
ReapSkipsTooFar ==
  /\ doing = "reap"
  /\ target \in Slots \cup {PaneCount}
  /\ target = PaneCount \/ (pane[target].used => alive[pane[target].team])
  /\ target' = target + 1
  /\ UNCHANGED <<pane, paneLock, doing, want, alive, rpcVars, body, picture>>

\* prds_pane_reap() looks at a slot: unused, or its team is still there.
ReapSkips ==
  /\ doing = "reap"
  /\ target \in Slots
  /\ pane[target].used => alive[pane[target].team]
  /\ target' = target + 1
  /\ UNCHANGED <<pane, paneLock, doing, want, alive, rpcVars, body, picture>>

\* The team has gone: its pane is to be destroyed.
ReapFinds ==
  /\ doing = "reap"
  /\ target \in Slots
  /\ pane[target].used
  /\ ~alive[pane[target].team]
  /\ doing' = "reaping"
  /\ Rpc!Call(paneLock)
  /\ UNCHANGED <<pane, paneLock, target, want, alive, body, picture>>

\* The slot is free again, whatever became of the command.
ReapDone ==
  /\ doing = "reaping"
  /\ phase[paneLock] = "idle"
  /\ pane' = [pane EXCEPT ![target] = NoPane]
  /\ doing' = "reap"
  /\ target' = target + 1
  /\ UNCHANGED <<paneLock, want, alive, rpcVars, body, picture>>

Unused == {i \in Slots : ~pane[i].used}

\* B_BUSY, B_NO_MEMORY, or B_BAD_VALUE for a layout that does not stay inside its
\* allocation, which is looked at last and is not modelled further.
AllocFails ==
  /\ doing = "reap"
  /\ target = PaneCount
  /\ Finish
  /\ UNCHANGED <<pane, alive, rpcVars, body, picture>>

\* A slot and a place are found; the host is asked to create the pane.
AllocCreates ==
  /\ doing = "reap"
  /\ target = PaneCount
  /\ Unused # {}
  /\ Fits(pane, want) # {}
  /\ target' = Min(Unused)
  /\ doing' = "creating"
  /\ Rpc!Call(paneLock)
  /\ UNCHANGED <<pane, paneLock, want, alive, body, picture>>

\* Mutant: the slot is taken even when the command failed.
CreateDoneRegardless ==
  /\ doing = "creating"
  /\ phase[paneLock] = "idle"
  /\ pane' = [pane EXCEPT ![target] =
       [used |-> TRUE, team |-> paneLock, at |-> FirstFit(pane, want), size |-> want]]
  /\ Finish
  /\ UNCHANGED <<alive, rpcVars, body, picture>>

\* Mutant: the error path comes out without unlocking.
CreateDoneKeepsLock ==
  /\ doing = "creating"
  /\ phase[paneLock] = "idle"
  /\ told[paneLock] = "ok"
  /\ pane' = [pane EXCEPT ![target] =
       [used |-> TRUE, team |-> paneLock, at |-> FirstFit(pane, want), size |-> want]]
  /\ Finish
  /\ UNCHANGED <<alive, rpcVars, body, picture>>

\* The answer to PANE_CREATE: the slot is taken only if it is OK.
CreateDone ==
  /\ doing = "creating"
  /\ phase[paneLock] = "idle"
  /\ \/ /\ told[paneLock] = "ok"
        /\ pane' = [pane EXCEPT ![target] =
             [used |-> TRUE, team |-> paneLock, at |-> FirstFit(pane, want), size |-> want]]
     \/ /\ told[paneLock] = "failed"
        /\ UNCHANGED pane
  /\ Finish
  /\ UNCHANGED <<alive, rpcVars, body, picture>>

\* The slot is free again, whatever became of PANE_DESTROY.
FreeDone ==
  /\ doing = "freeing"
  /\ phase[paneLock] = "idle"
  /\ pane' = [pane EXCEPT ![target] = NoPane]
  /\ Finish
  /\ UNCHANGED <<alive, rpcVars, body, picture>>

TouchDone ==
  /\ doing = "touching"
  /\ phase[paneLock] = "idle"
  /\ Finish
  /\ UNCHANGED <<pane, alive, rpcVars, body, picture>>

\* A team crashes or quits; a thread of it inside an ioctl comes out first.
TeamExits(t) ==
  /\ alive[t]
  /\ paneLock # t
  /\ alive' = [alive EXCEPT ![t] = FALSE]
  /\ UNCHANGED <<pane, paneLock, doing, target, want, rpcVars, body, picture>>

-----------------------------------------------------------------------------
(* The channel, and the host behind it.                                    *)

\* The request a caller writes to the command page.
RequestOf(c) ==
  IF c = Desktop THEN [NoBody EXCEPT !.kind = "commit"]
  ELSE IF doing \in {"reaping", "freeing"}
       THEN [NoBody EXCEPT !.kind = "destroy", !.id = target]
  ELSE IF doing = "creating"
       THEN [kind |-> "create", id |-> target, at |-> FirstFit(pane, want),
             size |-> want, by |-> c]
       ELSE [NoBody EXCEPT !.kind = "touch", !.id = target, !.by = c]

DesktopCommits ==
  /\ last < MaxCommands
  /\ Rpc!Call(Desktop)
  /\ UNCHANGED <<tableVars, body, picture>>

Send(c) ==
  /\ Rpc!Issue(c)
  /\ body' = RequestOf(c)
  /\ UNCHANGED <<tableVars, picture>>

SendRefused(c) ==
  /\ Rpc!Refuse(c)
  /\ UNCHANGED <<tableVars, body, picture>>

Answered(c) ==
  /\ Rpc!ReturnOk(c)
  /\ UNCHANGED <<tableVars, body, picture>>

GivesUp(c) ==
  /\ Rpc!GiveUp(c)
  /\ UNCHANGED <<tableVars, body, picture>>

Collected ==
  /\ Rpc!Retire
  /\ UNCHANGED <<tableVars, body, picture>>

\* What the host's pane table becomes when it accepts the request.
After(b) ==
  CASE b.kind = "create"  -> [picture EXCEPT ![b.id] =
                               [live |-> TRUE, at |-> b.at, size |-> b.size, by |-> b.by]]
    [] b.kind = "destroy" -> [picture EXCEPT ![b.id] = NoPicture]
    [] b.kind = "touch"   -> [picture EXCEPT ![b.id].by = b.by]
    [] OTHER              -> picture

\* paneCreate(), paneConfig(), panePresent(), paneDestroy() on the device
\* queue: PANE_DESTROY is always accepted, CONFIG and PRESENT only for a live pane.
HostAccepts ==
  /\ Rpc!Execute
  /\ accepted' # accepted
  /\ body.kind = "touch" => picture[body.id].live
  /\ picture' = After(body)
  /\ UNCHANGED <<tableVars, body>>

HostRejects ==
  /\ Rpc!Execute
  /\ rejected' # rejected
  /\ body.kind # "destroy"
  /\ UNCHANGED <<tableVars, body, picture>>

-----------------------------------------------------------------------------
IoctlStep ==
  \/ ReapSkips \/ ReapFinds \/ ReapDone \/ AllocFails \/ AllocCreates
  \/ CreateDone \/ FreeDone \/ TouchDone

ChannelStep(c) == Send(c) \/ SendRefused(c) \/ Answered(c) \/ GivesUp(c)

HostStep == HostAccepts \/ HostRejects \/ Collected

Next ==
  \/ \E t \in Teams, n \in Sizes : BeginAlloc(t, n)
  \/ \E t \in Teams, i \in Slots : BeginFree(t, i) \/ BeginTouch(t, i)
  \/ \E t \in Teams : TeamExits(t)
  \/ IoctlStep
  \/ DesktopCommits
  \/ \E c \in Callers : ChannelStep(c)
  \/ HostStep

Spec == Init /\ [][Next]_vars

(***************************************************************************)
(* An ioctl that began goes on, the channel answers or gives up, and the   *)
(* host serves its queue.  No team is obliged to begin an ioctl.           *)
(***************************************************************************)
FairSpec ==
  /\ Spec
  /\ WF_vars(IoctlStep)
  /\ \A c \in Callers : WF_vars(ChannelStep(c))
  /\ WF_vars(HostStep)

-----------------------------------------------------------------------------
(* Properties.                                                             *)

\* Every variable holds a value of its type.
TypeOK ==
  /\ pane \in [Slots -> [used : BOOLEAN, team : Teams \cup {NoTeam},
                         at : 0..ArenaSize, size : 0..ArenaSize]]
  /\ paneLock \in Teams \cup {NoTeam}
  /\ doing \in {"none", "reap", "reaping", "creating", "freeing", "touching"}
  /\ target \in 0..PaneCount
  /\ want \in 0..ArenaSize
  /\ alive \in [Teams -> BOOLEAN]
  /\ body \in [kind : {"none", "commit", "create", "destroy", "touch"}, id : Slots,
               at : 0..ArenaSize, size : 0..ArenaSize, by : Teams \cup {NoTeam}]
  /\ picture \in [Slots -> [live : BOOLEAN, at : 0..ArenaSize,
                            size : 0..ArenaSize, by : Teams \cup {NoTeam}]]

\* The slot is being destroyed by the ioctl in progress.
Going(i) == doing \in {"reaping", "freeing"} /\ target = i

\* A pane the driver counts as its team's is on the host, at the same place in
\* the pool, drawn for that team: no late command of an earlier owner, no failed
\* or given-up command, can take it away, move it or draw it.
UsedIsOnScreen ==
  \A i \in Slots : pane[i].used /\ ~Going(i) =>
    /\ picture[i].live
    /\ picture[i].at = pane[i].at
    /\ picture[i].size = pane[i].size
    /\ picture[i].by = pane[i].team

\* No two panes share pixels, and none reaches out of the arena.
ArenaDisjoint ==
  \A i \in Slots : pane[i].used =>
    /\ pane[i].at + pane[i].size <= ArenaSize
    /\ \A j \in Slots \ {i} : pane[j].used =>
         \/ pane[i].at + pane[i].size <= pane[j].at
         \/ pane[j].at + pane[j].size <= pane[i].at

\* A slot changes hands only by way of being unused: a team that holds a pane
\* keeps it, at the place it was given, until it frees it or has gone.
TakenOnlyFromTheDead ==
  [][\A i \in Slots :
       pane[i].used /\ alive[pane[i].team] /\ pane'[i] # pane[i] =>
         paneLock = pane[i].team /\ doing = "freeing" /\ target = i]_vars

\* "a game that crashes must not leave a picture composited over the desktop for
\* ever": once its team has gone, a picture goes.
CrashedPictureGoes ==
  \A i \in Slots, t \in Teams :
    (picture[i].live /\ picture[i].by = t /\ ~alive[t])
      ~> ~(picture[i].live /\ picture[i].by = t)

\* pane_lock is let go of: a pane ioctl ends, whatever becomes of its commands.
IoctlEnds == doing # "none" ~> doing = "none"

(***************************************************************************)
(* The inductive invariant: the types, what the channel knows of numbers,  *)
(* what each place of an ioctl relies on, and what the one command that    *)
(* the host has not yet carried out may be about.                          *)
(***************************************************************************)

Phases == {"idle", "calling", "issued"}

\* The variables of the channel hold values of their types, and numbers are
\* given out in order.
NumbersInOrder ==
  /\ phase \in [Callers -> Phases]
  /\ number \in [Callers -> Nat]
  /\ last \in Nat
  /\ held \in Nat
  /\ accepted \subseteq 1..last
  /\ rejected \subseteq 1..last
  /\ told \in [Callers -> {"nothing", "ok", "failed"}]
  /\ held <= last
  /\ \A c \in Callers : number[c] <= last

\* The host has a command that it has not carried out.
Unanswered == held # NoCommand /\ held \notin accepted \cup rejected

\* A team is at the channel only from inside its ioctl, under pane_lock.
OnlyLockHolderCalls ==
  /\ doing = "none" <=> paneLock = NoTeam
  /\ \A t \in Teams : phase[t] # "idle" =>
       paneLock = t /\ doing \in {"reaping", "creating", "freeing", "touching"}

\* What the ioctl in progress found in the table is still so: the table changes
\* only under pane_lock.
IoctlKnows ==
  /\ doing \in {"reap", "creating", "reaping"} => want \in Sizes
  /\ doing \in {"reaping", "freeing"} => target \in Slots /\ pane[target].used
  /\ doing = "creating" =>
       target \in Slots /\ ~pane[target].used /\ Fits(pane, want) # {}
  /\ doing = "reaping" => ~alive[pane[target].team]
  /\ doing = "freeing" => pane[target].team = paneLock
  /\ doing = "touching" =>
       target \in Slots /\ pane[target].used /\ pane[target].team = paneLock
  /\ \A i \in Slots : pane[i].used => pane[i].team \in Teams

\* The pane being created is on the host, and nothing is on its way that could
\* disturb it.
Created ==
  /\ picture[target] = [live |-> TRUE, at |-> FirstFit(pane, want),
                        size |-> want, by |-> paneLock]
  /\ Unanswered => body.kind = "commit"

\* PANE_CREATE: unanswered, it is the one on the page; accepted, its picture is
\* there.
CreateInProgress ==
  doing = "creating" =>
    /\ phase[paneLock] = "issued" /\ number[paneLock] = held /\ Unanswered =>
         body = RequestOf(paneLock)
    /\ phase[paneLock] = "issued" /\ number[paneLock] \in accepted => Created
    /\ phase[paneLock] = "idle" /\ told[paneLock] = "ok" => Created

\* An unanswered command, whoever may have given up on it, is about a slot that
\* nobody holds, or that its holder is letting go of, or about the holder's own
\* pane.
UnansweredIsHarmless ==
  Unanswered =>
    /\ body.kind = "create" => ~pane[body.id].used
    /\ body.kind = "destroy" /\ pane[body.id].used => Going(body.id)
    /\ body.kind = "touch" /\ pane[body.id].used => pane[body.id].team = body.by

IInv ==
  /\ TypeOK
  /\ NumbersInOrder
  /\ OnlyLockHolderCalls
  /\ IoctlKnows
  /\ CreateInProgress
  /\ UnansweredIsHarmless
  /\ ArenaDisjoint
  /\ UsedIsOnScreen
=============================================================================
