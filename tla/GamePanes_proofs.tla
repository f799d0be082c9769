-------------------------- MODULE GamePanes_proofs --------------------------
(***************************************************************************)
(* Proofs about game panes, for every set of teams, number of slots, arena *)
(* and bound: no two panes share pixels, and the pane a team holds is its  *)
(* picture on the host, whatever commands were given up and came late.     *)
(***************************************************************************)
EXTENDS GamePanes, TLAPS, WellFoundedInduction

\* A set of natural numbers that is not empty has a least element.
LEMMA MinIsLeast ==
  ASSUME NEW S \in SUBSET Nat, S # {}
  PROVE  Min(S) \in S /\ \A a \in S : Min(S) <= a
<1>1. OpToRel(<, Nat) = {p \in Nat \X Nat : p[1] < p[2]}
  BY Zenon DEF OpToRel
<1>2. PICK x \in S : \A y \in S : <<y, x>> \notin OpToRel(<, Nat)
  BY NatLessThanWellFounded, WFMin, Zenon
<1>3. \A y \in S : x <= y
  <2> SUFFICES ASSUME NEW y \in S, y < x PROVE FALSE
    OBVIOUS
  <2>1. <<y, x>> \in {p \in Nat \X Nat : p[1] < p[2]}
    OBVIOUS
  <2> QED
    BY <1>1, <1>2, <2>1
<1> QED
  BY <1>3 DEF Min

\* Where the walk comes to rest is free and inside the arena.
LEMMA FirstFitFits ==
  ASSUME TypeOK, NEW n \in Sizes, Fits(pane, n) # {}
  PROVE  /\ FirstFit(pane, n) \in 0..ArenaSize
         /\ Free(pane, FirstFit(pane, n), n)
         /\ FirstFit(pane, n) + n <= ArenaSize
<1>1. Stops(pane) \subseteq Nat
  BY ArenaAssumption DEF Stops, TypeOK
<1>2. Fits(pane, n) \subseteq Nat
  BY <1>1 DEF Fits
<1>3. FirstFit(pane, n) \in Fits(pane, n)
  BY <1>2, MinIsLeast DEF FirstFit
<1>4. /\ FirstFit(pane, n) \in Nat
      /\ Free(pane, FirstFit(pane, n), n)
      /\ FirstFit(pane, n) + n <= ArenaSize
  BY <1>2, <1>3 DEF Fits
<1> QED
  BY <1>4, ArenaAssumption DEF Sizes

\* A slot's number, and the one after it, are in the range of the loop.
LEMMA SlotsAreTargets ==
  ASSUME NEW i \in Slots
  PROVE  i \in 0..PaneCount /\ i + 1 \in 0..PaneCount
  BY ArenaAssumption DEF Slots

\* Some slot is unused whenever one is looked for.
LEMMA UnusedSlot ==
  ASSUME Unused # {}
  PROVE  Min(Unused) \in Slots /\ ~pane[Min(Unused)].used
<1>1. Unused \subseteq Nat
  BY ArenaAssumption DEF Unused, Slots
<1> QED
  BY <1>1, MinIsLeast DEF Unused

-----------------------------------------------------------------------------
\* The invariant holds before the first ioctl.
LEMMA InitIInv == Init => IInv
<1> SUFFICES ASSUME Init PROVE IInv
  OBVIOUS
<1>1. TypeOK
  BY ArenaAssumption DEF Init, TypeOK, Slots, NoPane, NoPicture, NoBody
<1>2. NumbersInOrder
  BY DEF Init, Rpc!Init, NumbersInOrder, Phases, NoCommand
<1>3. OnlyLockHolderCalls
  BY TeamsAssumption DEF Init, Rpc!Init, OnlyLockHolderCalls, Callers
<1>4. IoctlKnows /\ CreateInProgress
  BY DEF Init, IoctlKnows, CreateInProgress, NoPane
<1>5. UnansweredIsHarmless
  BY DEF Init, Rpc!Init, UnansweredIsHarmless, Unanswered
<1>6. ArenaDisjoint /\ UsedIsOnScreen
  BY DEF Init, ArenaDisjoint, UsedIsOnScreen, NoPane
<1> QED
  BY <1>1, <1>2, <1>3, <1>4, <1>5, <1>6 DEF IInv

-----------------------------------------------------------------------------
(* One lemma per part of the system: ioctls that begin, the ioctl in       *)
(* progress, the channel, the host.                                        *)

\* Who is inside an ioctl.
LEMMA LockHolder ==
  ASSUME IInv
  PROVE  /\ doing # "none" => paneLock \in Teams /\ paneLock \in Callers
         /\ paneLock = NoTeam => doing = "none"
         /\ Teams \subseteq Callers
         /\ Desktop \notin Teams
         /\ paneLock # Desktop
  BY TeamsAssumption DEF IInv, TypeOK, OnlyLockHolderCalls, Callers

\* A call that begins leaves the numbers alone.
LEMMA CallKeepsNumbers ==
  ASSUME NumbersInOrder, NEW c \in Callers, Rpc!Call(c)
  PROVE  /\ NumbersInOrder'
         /\ Unanswered' = Unanswered
         /\ phase'[c] = "calling"
         /\ \A d \in Callers \ {c} : phase'[d] = phase[d] /\ told'[d] = told[d]
         /\ UNCHANGED <<number, last, held, accepted, rejected>>
  BY DEF NumbersInOrder, Rpc!Call, Unanswered, Phases

\* A team that comes in finds nobody inside.
LEMMA BeginKeepsIInv ==
  ASSUME IInv, NEW t \in Teams,
         \/ \E n \in Sizes : BeginAlloc(t, n)
         \/ \E i \in Slots : BeginFree(t, i) \/ BeginTouch(t, i)
  PROVE  IInv'
<1> USE DEF IInv
<1>1. doing = "none" /\ paneLock = NoTeam
  BY LockHolder DEF BeginAlloc, BeginFree, BeginTouch, Begin
<1>2. CASE \E n \in Sizes : BeginAlloc(t, n)
  <2> PICK n \in Sizes : BeginAlloc(t, n)
    BY <1>2
  <2> USE DEF BeginAlloc, Begin, rpcVars
  <2>1. TypeOK'
    BY ArenaAssumption DEF TypeOK, Sizes
  <2>2. NumbersInOrder'
    BY DEF NumbersInOrder
  <2>3. OnlyLockHolderCalls'
    BY <1>1, TeamsAssumption DEF OnlyLockHolderCalls
  <2>4. IoctlKnows' /\ CreateInProgress'
    BY DEF IoctlKnows, CreateInProgress
  <2>5. UnansweredIsHarmless' /\ UsedIsOnScreen'
    BY <1>1 DEF UnansweredIsHarmless, UsedIsOnScreen, Unanswered, Going
  <2>6. ArenaDisjoint'
    BY DEF ArenaDisjoint
  <2> QED
    BY <2>1, <2>2, <2>3, <2>4, <2>5, <2>6
<1>3. ASSUME NEW i \in Slots, BeginFree(t, i) \/ BeginTouch(t, i)
      PROVE  IInv'
  <2>1. /\ pane[i].used /\ pane[i].team = t
        /\ paneLock' = t /\ target' = i /\ doing' \in {"freeing", "touching"}
        /\ Rpc!Call(t)
        /\ UNCHANGED <<pane, alive, body, picture, want>>
    BY <1>3 DEF BeginFree, BeginTouch, Begin
  <2>2. TypeOK'
    BY <2>1, SlotsAreTargets DEF TypeOK
  <2>3. NumbersInOrder' /\ Unanswered' = Unanswered
    BY <2>1, CallKeepsNumbers, LockHolder
  <2>4. OnlyLockHolderCalls'
    BY <1>1, <2>1, CallKeepsNumbers, LockHolder, TeamsAssumption
    DEF OnlyLockHolderCalls
  <2>5. IoctlKnows' /\ CreateInProgress'
    BY <2>1 DEF IoctlKnows, CreateInProgress
  <2>6. UnansweredIsHarmless' /\ UsedIsOnScreen'
    BY <1>1, <2>1, <2>3 DEF UnansweredIsHarmless, UsedIsOnScreen, Going
  <2>7. ArenaDisjoint'
    BY <2>1 DEF ArenaDisjoint
  <2> QED
    BY <2>2, <2>3, <2>4, <2>5, <2>6, <2>7
<1> QED
  BY <1>2, <1>3

\* prds_pane_reap() passes over a slot.
LEMMA ReapSkipsKeepsIInv ==
  ASSUME IInv, ReapSkips
  PROVE  IInv'
<1> USE DEF IInv, ReapSkips, rpcVars
<1>1. TypeOK'
  BY SlotsAreTargets DEF TypeOK
<1>2. NumbersInOrder' /\ OnlyLockHolderCalls'
  BY DEF NumbersInOrder, OnlyLockHolderCalls
<1>3. IoctlKnows' /\ CreateInProgress'
  BY DEF IoctlKnows, CreateInProgress
<1>4. UnansweredIsHarmless' /\ UsedIsOnScreen'
  BY DEF UnansweredIsHarmless, UsedIsOnScreen, Unanswered, Going
<1>5. ArenaDisjoint'
  BY DEF ArenaDisjoint
<1> QED
  BY <1>1, <1>2, <1>3, <1>4, <1>5

\* It finds the pane of a team that has gone.
LEMMA ReapFindsKeepsIInv ==
  ASSUME IInv, ReapFinds
  PROVE  IInv'
<1> USE DEF IInv, ReapFinds
<1>1. paneLock \in Teams
  BY LockHolder
<1>2. NumbersInOrder' /\ Unanswered' = Unanswered
  BY <1>1, CallKeepsNumbers, LockHolder
<1>3. TypeOK'
  BY DEF TypeOK
<1>4. OnlyLockHolderCalls'
  BY <1>1, CallKeepsNumbers, LockHolder, TeamsAssumption DEF OnlyLockHolderCalls
<1>5. IoctlKnows' /\ CreateInProgress'
  BY DEF IoctlKnows, CreateInProgress
<1>6. UnansweredIsHarmless' /\ UsedIsOnScreen'
  BY <1>2 DEF UnansweredIsHarmless, UsedIsOnScreen, Going
<1>7. ArenaDisjoint'
  BY DEF ArenaDisjoint
<1> QED
  BY <1>2, <1>3, <1>4, <1>5, <1>6, <1>7

\* A slot becomes unused: the pane of a team that has gone, or of the caller.
LEMMA SlotFreedKeepsIInv ==
  ASSUME IInv, ReapDone \/ FreeDone
  PROVE  IInv'
<1> USE DEF IInv
<1>1. /\ doing \in {"reaping", "freeing"} /\ phase[paneLock] = "idle"
      /\ target \in Slots /\ paneLock \in Teams
      /\ pane' = [pane EXCEPT ![target] = NoPane]
      /\ UNCHANGED <<alive, body, picture>> /\ UNCHANGED rpcVars
  BY LockHolder DEF ReapDone, FreeDone, IoctlKnows
<1>2. \/ doing' = "reap" /\ UNCHANGED <<paneLock, want>> /\ target' = target + 1
         /\ doing = "reaping"
      \/ doing' = "none" /\ paneLock' = NoTeam /\ target' = 0 /\ want' = 0
  BY DEF ReapDone, FreeDone, Finish
<1>3. /\ pane'[target] = NoPane /\ ~pane'[target].used
      /\ \A i \in Slots \ {target} : pane'[i] = pane[i]
  BY <1>1 DEF TypeOK, NoPane
<1>4. TypeOK'
  <2>1. pane' \in [Slots -> [used : BOOLEAN, team : Teams \cup {NoTeam},
                              at : 0..ArenaSize, size : 0..ArenaSize]]
    BY <1>1, ArenaAssumption DEF TypeOK, NoPane
  <2>2. target' \in 0..PaneCount /\ want' \in 0..ArenaSize
    BY <1>1, <1>2, SlotsAreTargets, ArenaAssumption DEF TypeOK
  <2> QED
    BY <1>1, <1>2, <2>1, <2>2 DEF TypeOK
<1>5. NumbersInOrder' /\ Unanswered' = Unanswered
  BY <1>1 DEF NumbersInOrder, Unanswered, rpcVars
<1>6. OnlyLockHolderCalls'
  BY <1>1, <1>2, TeamsAssumption DEF OnlyLockHolderCalls, rpcVars
<1>7. IoctlKnows' /\ CreateInProgress'
  BY <1>1, <1>2, <1>3 DEF IoctlKnows, CreateInProgress
<1>8. UnansweredIsHarmless'
  BY <1>1, <1>2, <1>3, <1>5 DEF UnansweredIsHarmless, TypeOK, Going
<1>9. UsedIsOnScreen'
  BY <1>1, <1>2, <1>3 DEF UsedIsOnScreen, Going
<1>10. ArenaDisjoint'
  BY <1>3 DEF ArenaDisjoint
<1> QED
  BY <1>4, <1>5, <1>6, <1>7, <1>8, <1>9, <1>10

\* An ioctl comes out with the table as it was, nothing of it at the channel.
LEMMA TableKeptKeepsIInv ==
  ASSUME IInv, doing \in {"reap", "touching", "creating"}, Finish,
         doing # "reap" => phase[paneLock] = "idle",
         UNCHANGED <<pane, alive, body, picture>>, UNCHANGED rpcVars
  PROVE  IInv'
<1> USE DEF IInv, Finish, rpcVars
<1>1. TypeOK'
  BY ArenaAssumption DEF TypeOK
<1>2. NumbersInOrder'
  BY DEF NumbersInOrder
<1>3. OnlyLockHolderCalls'
  BY TeamsAssumption DEF OnlyLockHolderCalls
<1>4. IoctlKnows' /\ CreateInProgress'
  BY DEF IoctlKnows, CreateInProgress
<1>5. UnansweredIsHarmless' /\ UsedIsOnScreen'
  BY DEF UnansweredIsHarmless, UsedIsOnScreen, Unanswered, Going
<1>6. ArenaDisjoint'
  BY DEF ArenaDisjoint
<1> QED
  BY <1>1, <1>2, <1>3, <1>4, <1>5, <1>6

\* The host is to be asked for the pane.
LEMMA AllocCreatesKeepsIInv ==
  ASSUME IInv, AllocCreates
  PROVE  IInv'
<1> USE DEF IInv, AllocCreates
<1>1. paneLock \in Teams
  BY LockHolder
<1>2. NumbersInOrder' /\ Unanswered' = Unanswered
  BY <1>1, CallKeepsNumbers, LockHolder
<1>3. target' \in Slots /\ ~pane[target'].used
  BY UnusedSlot
<1>4. TypeOK'
  BY <1>3, SlotsAreTargets DEF TypeOK
<1>5. OnlyLockHolderCalls'
  BY <1>1, CallKeepsNumbers, LockHolder, TeamsAssumption DEF OnlyLockHolderCalls
<1>6. IoctlKnows'
  BY <1>3 DEF IoctlKnows, Fits, Stops, Free
<1>7. CreateInProgress'
  BY <1>1, CallKeepsNumbers, LockHolder DEF CreateInProgress
<1>8. UnansweredIsHarmless' /\ UsedIsOnScreen'
  BY <1>2 DEF UnansweredIsHarmless, UsedIsOnScreen, Going
<1>9. ArenaDisjoint'
  BY DEF ArenaDisjoint
<1> QED
  BY <1>2, <1>4, <1>5, <1>6, <1>7, <1>8, <1>9

\* The slot is taken: its picture is the one just created, in a place that no
\* other pane meets.
LEMMA CreateDoneKeepsIInv ==
  ASSUME IInv, CreateDone, told[paneLock] = "ok",
         pane' = [pane EXCEPT ![target] =
           [used |-> TRUE, team |-> paneLock, at |-> FirstFit(pane, want), size |-> want]]
  PROVE  IInv'
<1> DEFINE place == FirstFit(pane, want)
<1> USE DEF IInv
<1>1. /\ doing = "creating" /\ phase[paneLock] = "idle" /\ paneLock \in Teams
      /\ target \in Slots /\ want \in Sizes /\ Fits(pane, want) # {} /\ Created
      /\ doing' = "none" /\ paneLock' = NoTeam /\ target' = 0 /\ want' = 0
      /\ UNCHANGED <<alive, body, picture>> /\ UNCHANGED rpcVars
  BY LockHolder DEF CreateDone, Finish, IoctlKnows, CreateInProgress
<1>2. /\ place \in 0..ArenaSize /\ Free(pane, place, want)
      /\ place + want <= ArenaSize
  BY <1>1, FirstFitFits
<1> HIDE DEF place
<1>3. /\ pane'[target] = [used |-> TRUE, team |-> paneLock, at |-> place, size |-> want]
      /\ \A i \in Slots \ {target} : pane'[i] = pane[i]
  BY <1>1 DEF TypeOK, place
<1>4. TypeOK'
  <2>1. pane' \in [Slots -> [used : BOOLEAN, team : Teams \cup {NoTeam},
                              at : 0..ArenaSize, size : 0..ArenaSize]]
    BY <1>1, <1>2 DEF TypeOK, place
  <2> QED
    BY <1>1, <2>1, ArenaAssumption DEF TypeOK
<1>5. NumbersInOrder' /\ Unanswered' = Unanswered
  BY <1>1 DEF NumbersInOrder, Unanswered, rpcVars
<1>6. OnlyLockHolderCalls'
  BY <1>1, TeamsAssumption DEF OnlyLockHolderCalls, rpcVars
<1>7. IoctlKnows' /\ CreateInProgress'
  BY <1>1, <1>3 DEF IoctlKnows, CreateInProgress
<1>8. UnansweredIsHarmless'
  BY <1>1, <1>5 DEF UnansweredIsHarmless, Created
<1>9. UsedIsOnScreen'
  BY <1>1, <1>3 DEF UsedIsOnScreen, Created, Going, place
<1>10. ArenaDisjoint'
  BY <1>1, <1>2, <1>3 DEF ArenaDisjoint, Free
<1> QED
  BY <1>4, <1>5, <1>6, <1>7, <1>8, <1>9, <1>10

\* The ioctl in progress goes on.
LEMMA IoctlKeepsIInv ==
  ASSUME IInv, IoctlStep
  PROVE  IInv'
<1>1. CASE CreateDone
  <2>1. CASE told[paneLock] = "failed" /\ UNCHANGED pane
    BY <1>1, <2>1, TableKeptKeepsIInv DEF CreateDone
  <2> QED
    BY <1>1, <2>1, CreateDoneKeepsIInv DEF CreateDone
<1>2. CASE ReapSkips
  BY <1>2, ReapSkipsKeepsIInv
<1>3. CASE ReapFinds
  BY <1>3, ReapFindsKeepsIInv
<1>4. CASE ReapDone \/ FreeDone
  BY <1>4, SlotFreedKeepsIInv
<1>5. CASE AllocFails \/ TouchDone
  BY <1>5, TableKeptKeepsIInv DEF AllocFails, TouchDone
<1>6. CASE AllocCreates
  BY <1>6, AllocCreatesKeepsIInv
<1> QED
  BY <1>1, <1>2, <1>3, <1>4, <1>5, <1>6 DEF IoctlStep

\* A team exits outside its ioctls, which is nobody else's business yet.
LEMMA ExitKeepsIInv ==
  ASSUME IInv, NEW t \in Teams, TeamExits(t)
  PROVE  IInv'
<1> USE DEF IInv, TeamExits, rpcVars
<1>1. TypeOK' /\ NumbersInOrder' /\ OnlyLockHolderCalls' /\ IoctlKnows'
  BY DEF TypeOK, NumbersInOrder, OnlyLockHolderCalls, IoctlKnows, Fits, Stops, Free
<1>2. CreateInProgress'
  BY DEF CreateInProgress, Created, Unanswered, RequestOf, FirstFit, Fits, Stops, Free
<1>3. UnansweredIsHarmless' /\ UsedIsOnScreen' /\ ArenaDisjoint'
  BY DEF UnansweredIsHarmless, UsedIsOnScreen, ArenaDisjoint, Unanswered, Going
<1> QED
  BY <1>1, <1>2, <1>3

-----------------------------------------------------------------------------
\* What the driver knows and the host shows stay the same while the channel
\* works.
LEMMA ChannelKeepsTables ==
  ASSUME IInv, UNCHANGED <<tableVars, picture>>
  PROVE  /\ IoctlKnows' /\ UsedIsOnScreen' /\ ArenaDisjoint'
         /\ FirstFit(pane, want)' = FirstFit(pane, want)
         /\ \A i : Going(i)' = Going(i)
         /\ TypeOK' <=> body' \in [kind : {"none", "commit", "create", "destroy", "touch"},
                                   id : Slots, at : 0..ArenaSize, size : 0..ArenaSize,
                                   by : Teams \cup {NoTeam}]
<1> USE DEF IInv, tableVars
<1>1. IoctlKnows' /\ UsedIsOnScreen' /\ ArenaDisjoint'
  BY DEF IoctlKnows, UsedIsOnScreen, ArenaDisjoint, Going, Fits, Stops, Free
<1>2. FirstFit(pane, want)' = FirstFit(pane, want)
  BY DEF FirstFit, Fits, Stops, Free
<1>3. \A i : Going(i)' = Going(i)
  BY DEF Going
<1>4. TypeOK' <=> body' \in [kind : {"none", "commit", "create", "destroy", "touch"},
                             id : Slots, at : 0..ArenaSize, size : 0..ArenaSize,
                             by : Teams \cup {NoTeam}]
  BY DEF TypeOK
<1> QED
  BY <1>1, <1>2, <1>3, <1>4

\* The desktop comes to the channel; nothing of the panes is involved.
LEMMA DesktopKeepsIInv ==
  ASSUME IInv, DesktopCommits
  PROVE  IInv'
<1> USE DEF IInv, DesktopCommits
<1>1. Desktop \in Callers
  BY DEF Callers
<1>2. /\ NumbersInOrder' /\ Unanswered' = Unanswered
      /\ \A d \in Teams : phase'[d] = phase[d] /\ told'[d] = told[d]
      /\ UNCHANGED <<number, last, held, accepted, rejected>>
  BY <1>1, CallKeepsNumbers, LockHolder
<1>3. TypeOK' /\ IoctlKnows' /\ UsedIsOnScreen' /\ ArenaDisjoint'
  BY ChannelKeepsTables DEF TypeOK
<1>4. OnlyLockHolderCalls'
  BY <1>2 DEF OnlyLockHolderCalls, tableVars
<1>5. CreateInProgress'
  BY <1>2, LockHolder, ChannelKeepsTables
  DEF CreateInProgress, Created, RequestOf, tableVars
<1>6. UnansweredIsHarmless'
  BY <1>2 DEF UnansweredIsHarmless, Going, tableVars
<1> QED
  BY <1>2, <1>3, <1>4, <1>5, <1>6

\* What is written to the command page is a request about the ioctl in progress.
LEMMA RequestFits ==
  ASSUME IInv, NEW c \in Callers, phase[c] = "calling"
  PROVE  /\ RequestOf(c) \in [kind : {"none", "commit", "create", "destroy", "touch"},
                              id : Slots, at : 0..ArenaSize, size : 0..ArenaSize,
                              by : Teams \cup {NoTeam}]
         /\ c = Desktop => RequestOf(c).kind = "commit"
         /\ c # Desktop =>
              /\ c = paneLock /\ RequestOf(c).id = target
              /\ RequestOf(c).kind = "create" => ~pane[target].used
              /\ RequestOf(c).kind = "destroy" => Going(target)
              /\ RequestOf(c).kind = "touch" =>
                   pane[target].team = paneLock /\ RequestOf(c).by = paneLock
<1> USE DEF IInv
<1>1. CASE c = Desktop
  <2>1. 0 \in Slots /\ 0 \in 0..ArenaSize
    BY ArenaAssumption DEF Slots
  <2> QED
    BY <1>1, <2>1 DEF RequestOf, NoBody
<1>2. CASE c # Desktop
  <2>1. /\ c = paneLock /\ c \in Teams
        /\ doing \in {"reaping", "creating", "freeing", "touching"}
    BY <1>2 DEF OnlyLockHolderCalls, Callers
  <2>2. target \in Slots /\ 0 \in 0..ArenaSize
    BY <2>1, ArenaAssumption DEF IoctlKnows
  <2>3. doing = "creating" =>
          want \in Sizes /\ want \in 0..ArenaSize /\ FirstFit(pane, want) \in 0..ArenaSize
    BY FirstFitFits DEF IoctlKnows, TypeOK
  <2>4. CASE doing = "creating"
    BY <1>2, <2>1, <2>2, <2>3, <2>4 DEF RequestOf, IoctlKnows
  <2>5. CASE doing \in {"reaping", "freeing"}
    BY <1>2, <2>1, <2>2, <2>5 DEF RequestOf, NoBody, Going
  <2>6. CASE doing = "touching"
    BY <1>2, <2>1, <2>2, <2>6 DEF RequestOf, NoBody, IoctlKnows
  <2> QED
    BY <2>1, <2>4, <2>5, <2>6
<1> QED
  BY <1>1, <1>2

\* The command goes to the host, which has carried out every command before it.
LEMMA SendKeepsIInv ==
  ASSUME IInv, NEW c \in Callers, Send(c)
  PROVE  IInv'
<1> USE DEF IInv
<1>1. /\ phase[c] = "calling" /\ held = 0
      /\ last' = last + 1 /\ held' = last + 1
      /\ number' = [number EXCEPT ![c] = last + 1]
      /\ phase' = [phase EXCEPT ![c] = "issued"]
      /\ UNCHANGED <<accepted, rejected, told>>
      /\ body' = RequestOf(c) /\ UNCHANGED <<tableVars, picture>>
  BY DEF Send, Rpc!Issue, NoCommand
<1>2. TypeOK' /\ IoctlKnows' /\ UsedIsOnScreen' /\ ArenaDisjoint'
  BY <1>1, RequestFits, ChannelKeepsTables
<1>3. NumbersInOrder'
  BY <1>1 DEF NumbersInOrder, Phases
<1>4. /\ ~Unanswered
      /\ last + 1 \notin accepted \cup rejected
      /\ phase'[c] = "issued" /\ number'[c] = last + 1
      /\ \A d \in Callers \ {c} :
           phase'[d] = phase[d] /\ number'[d] = number[d] /\ number'[d] # last + 1
  BY <1>1 DEF NumbersInOrder, Unanswered, NoCommand
<1>5. OnlyLockHolderCalls'
  BY <1>1, <1>4, LockHolder DEF OnlyLockHolderCalls, tableVars
<1>6. UnansweredIsHarmless'
  <2>1. body'.kind = "commit" \/ body'.id = target
    BY <1>1, RequestFits
  <2> QED
    BY <1>1, <2>1, RequestFits DEF UnansweredIsHarmless, Going, tableVars
<1>7. CreateInProgress'
  <2> SUFFICES ASSUME doing = "creating" PROVE CreateInProgress'
    BY <1>1 DEF CreateInProgress, tableVars
  <2>1. paneLock \in Callers /\ paneLock' = paneLock
    BY <1>1, LockHolder DEF tableVars
  <2>2. CASE c = paneLock
    <3>1. RequestOf(paneLock)' = RequestOf(paneLock)
      BY <1>1, ChannelKeepsTables DEF RequestOf, tableVars
    <3> QED
      BY <1>1, <1>4, <2>1, <2>2, <3>1 DEF CreateInProgress
  <2>3. CASE c # paneLock
    <3>1. c = Desktop /\ body'.kind = "commit"
      BY <1>1, <2>3, RequestFits
    <3>2. Created => Created'
      BY <1>1, <3>1, ChannelKeepsTables DEF Created, tableVars
    <3> QED
      BY <1>1, <1>4, <2>1, <2>3, <3>2 DEF CreateInProgress
  <2> QED
    BY <2>2, <2>3
<1> QED
  BY <1>2, <1>3, <1>5, <1>6, <1>7

\* A caller comes out of prds_command(): refused, answered, or giving up.  What
\* it was told "ok" of is on the host, and nothing else can be on its way.
LEMMA CallerOutKeepsIInv ==
  ASSUME IInv, NEW c \in Callers, SendRefused(c) \/ Answered(c) \/ GivesUp(c)
  PROVE  IInv'
<1> USE DEF IInv
<1>1. UNCHANGED <<tableVars, body, picture>> /\ UNCHANGED <<held, accepted, rejected>>
  BY DEF SendRefused, Answered, GivesUp, Rpc!Refuse, Rpc!ReturnOk, Rpc!GiveUp
<1>2. /\ phase[c] # "idle"
      /\ phase' = [phase EXCEPT ![c] = "idle"]
      /\ \/ told' = [told EXCEPT ![c] = "failed"]
         \/ /\ told' = [told EXCEPT ![c] = "ok"]
            /\ phase[c] = "issued" /\ number[c] \in accepted
  BY DEF SendRefused, Answered, GivesUp, Rpc!Refuse, Rpc!ReturnOk, Rpc!GiveUp
<1>3. \/ last' = last + 1 /\ number' = [number EXCEPT ![c] = last + 1]
      \/ UNCHANGED <<last, number>>
  BY DEF SendRefused, Answered, GivesUp, Rpc!Refuse, Rpc!ReturnOk, Rpc!GiveUp
<1>4. TypeOK' /\ IoctlKnows' /\ UsedIsOnScreen' /\ ArenaDisjoint'
  BY <1>1, ChannelKeepsTables DEF TypeOK
<1>5. NumbersInOrder'
  BY <1>1, <1>2, <1>3 DEF NumbersInOrder, Phases
<1>6. /\ phase'[c] = "idle"
      /\ \/ told'[c] = "failed"
         \/ told'[c] = "ok" /\ phase[c] = "issued" /\ number[c] \in accepted
      /\ \A d \in Callers \ {c} :
           phase'[d] = phase[d] /\ told'[d] = told[d] /\ number'[d] = number[d]
  BY <1>2, <1>3 DEF NumbersInOrder
<1>7. OnlyLockHolderCalls'
  BY <1>1, <1>6, LockHolder DEF OnlyLockHolderCalls, tableVars
<1>8. UnansweredIsHarmless'
  BY <1>1 DEF UnansweredIsHarmless, Unanswered, Going, tableVars
<1>9. CreateInProgress'
  <2> SUFFICES ASSUME doing = "creating" PROVE CreateInProgress'
    BY <1>1 DEF CreateInProgress, tableVars
  <2>1. paneLock \in Callers /\ paneLock' = paneLock
    BY <1>1, LockHolder DEF tableVars
  <2>2. Unanswered' = Unanswered
    BY <1>1 DEF Unanswered
  <2>3. Created' = Created /\ RequestOf(paneLock)' = RequestOf(paneLock)
    BY <1>1, <2>2, ChannelKeepsTables DEF Created, RequestOf, tableVars
  <2>4. CASE c = paneLock
    BY <1>1, <1>6, <2>1, <2>3, <2>4 DEF CreateInProgress
  <2>5. CASE c # paneLock
    BY <1>1, <1>6, <2>1, <2>2, <2>3, <2>5 DEF CreateInProgress
  <2> QED
    BY <2>4, <2>5
<1> QED
  BY <1>4, <1>5, <1>7, <1>8, <1>9

-----------------------------------------------------------------------------
\* What an accepted request does to the pictures.
LEMMA AfterIs ==
  ASSUME TypeOK
  PROVE  /\ body.kind = "create" =>
              After(body) = [picture EXCEPT ![body.id] =
                [live |-> TRUE, at |-> body.at, size |-> body.size, by |-> body.by]]
         /\ body.kind = "destroy" => After(body) = [picture EXCEPT ![body.id] = NoPicture]
         /\ body.kind = "touch" => After(body) = [picture EXCEPT ![body.id].by = body.by]
         /\ body.kind \in {"none", "commit"} => After(body) = picture
         /\ body.kind \in {"none", "commit", "create", "destroy", "touch"}
         /\ body.id \in Slots
         /\ After(body) \in [Slots -> [live : BOOLEAN, at : 0..ArenaSize,
                                       size : 0..ArenaSize, by : Teams \cup {NoTeam}]]
<1>1. 0 \in 0..ArenaSize
  BY ArenaAssumption
<1>2. body.kind \in {"none", "commit", "create", "destroy", "touch"} /\ body.id \in Slots
  BY DEF TypeOK
<1>3. CASE body.kind = "create"
  BY <1>2, <1>3 DEF After, TypeOK
<1>4. CASE body.kind = "destroy"
  BY <1>1, <1>2, <1>4 DEF After, TypeOK, NoPicture
<1>5. CASE body.kind = "touch"
  BY <1>2, <1>5 DEF After, TypeOK
<1>6. CASE body.kind \in {"none", "commit"}
  BY <1>2, <1>6 DEF After, TypeOK
<1> QED
  BY <1>2, <1>3, <1>4, <1>5, <1>6

\* The host carries the command out: the slot it is about is nobody's, or its
\* holder's business.
LEMMA AcceptKeepsIInv ==
  ASSUME IInv, HostAccepts
  PROVE  IInv'
<1> USE DEF IInv
<1>1. /\ Unanswered /\ accepted' = accepted \cup {held}
      /\ UNCHANGED <<phase, number, last, held, told, rejected, tableVars, body>>
      /\ picture' = After(body)
  BY DEF HostAccepts, Rpc!Execute, Unanswered
<1>2. ~Unanswered'
  BY <1>1 DEF Unanswered
<1>3. TypeOK'
  BY <1>1, AfterIs DEF TypeOK, tableVars
<1>4. NumbersInOrder'
  <2>1. held \in 1..last
    BY <1>1 DEF NumbersInOrder, Unanswered, NoCommand
  <2> QED
    BY <1>1, <2>1 DEF NumbersInOrder
<1>5. OnlyLockHolderCalls' /\ IoctlKnows' /\ ArenaDisjoint'
  BY <1>1 DEF OnlyLockHolderCalls, IoctlKnows, ArenaDisjoint, tableVars, Fits, Stops, Free
<1>6. UnansweredIsHarmless'
  BY <1>2 DEF UnansweredIsHarmless
<1>7. \A i \in Slots : pane[i].used /\ ~Going(i) =>
        /\ picture'[i].live = picture[i].live /\ picture'[i].at = picture[i].at
        /\ picture'[i].size = picture[i].size
        /\ picture'[i].by \in {picture[i].by, pane[i].team}
  <2> SUFFICES ASSUME NEW i \in Slots, pane[i].used, ~Going(i)
               PROVE  /\ picture'[i].live = picture[i].live
                      /\ picture'[i].at = picture[i].at
                      /\ picture'[i].size = picture[i].size
                      /\ picture'[i].by \in {picture[i].by, pane[i].team}
    OBVIOUS
  <2>1. CASE i # body.id \/ body.kind \in {"none", "commit"}
    BY <1>1, <2>1, AfterIs DEF TypeOK
  <2>2. CASE i = body.id /\ body.kind \notin {"none", "commit"}
    <3>1. body.kind = "touch" /\ pane[i].team = body.by
      BY <1>1, <2>2, AfterIs DEF UnansweredIsHarmless
    <3>2. picture' = [picture EXCEPT ![i].by = body.by]
      BY <1>1, <2>2, <3>1, AfterIs
    <3> QED
      BY <3>1, <3>2 DEF TypeOK
  <2> QED
    BY <2>1, <2>2
<1>8. UsedIsOnScreen'
  BY <1>1, <1>7 DEF UsedIsOnScreen, Going, tableVars
<1>9. CreateInProgress'
  <2> SUFFICES ASSUME doing = "creating" PROVE CreateInProgress'
    BY <1>1 DEF CreateInProgress, tableVars
  <2>1. Created => Created'
    BY <1>1, <1>2, AfterIs, ChannelKeepsTables
    DEF Created, tableVars, FirstFit, Fits, Stops, Free
  <2>2. phase[paneLock] = "issued" /\ number[paneLock] = held => Created'
    <3> SUFFICES ASSUME phase[paneLock] = "issued", number[paneLock] = held
                 PROVE  Created'
      OBVIOUS
    <3>1. body = RequestOf(paneLock)
      BY <1>1 DEF CreateInProgress
    <3>2. body = [kind |-> "create", id |-> target, at |-> FirstFit(pane, want),
                  size |-> want, by |-> paneLock]
      BY <3>1, LockHolder DEF RequestOf
    <3>3. target \in Slots
      BY DEF IoctlKnows
    <3>4. picture'[target] = [live |-> TRUE, at |-> FirstFit(pane, want),
                              size |-> want, by |-> paneLock]
      BY <1>1, <3>2, <3>3, AfterIs DEF TypeOK
    <3>5. FirstFit(pane, want)' = FirstFit(pane, want)
      BY <1>1 DEF tableVars, FirstFit, Fits, Stops, Free
    <3> QED
      BY <1>1, <1>2, <3>4, <3>5 DEF Created, tableVars
  <2> QED
    BY <1>1, <1>2, <2>1, <2>2 DEF CreateInProgress, tableVars
<1> QED
  BY <1>3, <1>4, <1>5, <1>6, <1>8, <1>9

\* The host turns the command down, or the driver takes an answered one off the
\* ring: the pictures stay, and nothing is on its way.
LEMMA QuietHostKeepsIInv ==
  ASSUME IInv, HostRejects \/ Collected
  PROVE  IInv'
<1> USE DEF IInv
<1>1. /\ UNCHANGED <<phase, number, last, told, accepted, tableVars, body, picture>>
      /\ \/ Unanswered /\ rejected' = rejected \cup {held} /\ held' = held
         \/ ~Unanswered /\ rejected' = rejected /\ held' = NoCommand
  BY DEF HostRejects, Collected, Rpc!Execute, Rpc!Retire, Unanswered
<1>2. ~Unanswered'
  BY <1>1 DEF Unanswered
<1>3. TypeOK' /\ IoctlKnows' /\ UsedIsOnScreen' /\ ArenaDisjoint'
  BY <1>1, ChannelKeepsTables DEF TypeOK
<1>4. NumbersInOrder'
  <2>1. Unanswered => held \in 1..last
    BY DEF NumbersInOrder, Unanswered, NoCommand
  <2>2. held' \in Nat /\ held' <= last
    BY <1>1 DEF NumbersInOrder, NoCommand
  <2> QED
    BY <1>1, <2>1, <2>2 DEF NumbersInOrder
<1>5. OnlyLockHolderCalls'
  BY <1>1 DEF OnlyLockHolderCalls, tableVars
<1>6. UnansweredIsHarmless'
  BY <1>2 DEF UnansweredIsHarmless
<1>7. CreateInProgress'
  <2>1. Created => Created'
    BY <1>1, <1>2, ChannelKeepsTables DEF Created, tableVars
  <2> QED
    BY <1>1, <1>2, <2>1 DEF CreateInProgress, tableVars
<1> QED
  BY <1>3, <1>4, <1>5, <1>6, <1>7

-----------------------------------------------------------------------------
\* The inductive invariant holds of every behaviour of the game panes: what the
\* channel may still deliver never concerns a pane that somebody holds, unless it
\* is the holder's own doing.
THEOREM Invariant == Spec => []IInv
<1>1. IInv /\ [Next]_vars => IInv'
  <2> SUFFICES ASSUME IInv, [Next]_vars PROVE IInv'
    OBVIOUS
  <2>1. CASE \E t \in Teams, n \in Sizes : BeginAlloc(t, n)
    BY <2>1, BeginKeepsIInv
  <2>2. CASE \E t \in Teams, i \in Slots : BeginFree(t, i) \/ BeginTouch(t, i)
    BY <2>2, BeginKeepsIInv
  <2>3. CASE \E t \in Teams : TeamExits(t)
    BY <2>3, ExitKeepsIInv
  <2>4. CASE IoctlStep
    BY <2>4, IoctlKeepsIInv
  <2>5. CASE DesktopCommits
    BY <2>5, DesktopKeepsIInv
  <2>6. CASE \E c \in Callers : ChannelStep(c)
    BY <2>6, SendKeepsIInv, CallerOutKeepsIInv DEF ChannelStep
  <2>7. CASE HostStep
    BY <2>7, AcceptKeepsIInv, QuietHostKeepsIInv DEF HostStep
  <2>8. CASE UNCHANGED vars
    <3> USE <2>8 DEF vars, tableVars, rpcVars, IInv
    <3>1. TypeOK' /\ IoctlKnows' /\ UsedIsOnScreen' /\ ArenaDisjoint'
      BY ChannelKeepsTables DEF TypeOK
    <3>2. NumbersInOrder' /\ OnlyLockHolderCalls' /\ UnansweredIsHarmless'
      BY DEF NumbersInOrder, OnlyLockHolderCalls, UnansweredIsHarmless, Unanswered, Going
    <3>3. CreateInProgress'
      BY ChannelKeepsTables DEF CreateInProgress, Created, Unanswered, RequestOf
    <3> QED
      BY <3>1, <3>2, <3>3
  <2> QED
    BY <2>1, <2>2, <2>3, <2>4, <2>5, <2>6, <2>7, <2>8 DEF Next
<1> QED
  BY <1>1, InitIInv, PTL DEF Spec

\* Every variable of the game panes holds a value of its type.
THEOREM TypeCorrect == Spec => []TypeOK
BY Invariant, PTL DEF IInv

\* No two panes share pixels, and none reaches out of the arena, whatever was
\* allocated and freed before.
THEOREM PanesAreDisjoint == Spec => []ArenaDisjoint
BY Invariant, PTL DEF IInv

\* A pane its team holds is on the host, in its place, drawn for that team,
\* however late the commands of earlier owners are carried out.
THEOREM HeldPanesShow == Spec => []UsedIsOnScreen
BY Invariant, PTL DEF IInv

\* Nobody's pane is taken or moved while its team is there and does not free it.
THEOREM PanesAreKept == Spec => TakenOnlyFromTheDead
<1> DEFINE Kept ==
      \A i \in Slots :
        pane[i].used /\ alive[pane[i].team] /\ pane'[i] # pane[i] =>
          paneLock = pane[i].team /\ doing = "freeing" /\ target = i
<1>1. IInv /\ [Next]_vars => [Kept]_vars
  <2> SUFFICES ASSUME IInv, Next, NEW i \in Slots,
                      pane[i].used, alive[pane[i].team], pane'[i] # pane[i]
               PROVE  paneLock = pane[i].team /\ doing = "freeing" /\ target = i
    OBVIOUS
  <2>1. ReapDone \/ CreateDone \/ FreeDone
    BY DEF Next, IoctlStep, ChannelStep, HostStep, BeginAlloc, BeginFree, BeginTouch,
           Begin, TeamExits, ReapSkips, ReapFinds, AllocFails, AllocCreates, TouchDone,
           DesktopCommits, Send, SendRefused, Answered, GivesUp, HostAccepts,
           HostRejects, Collected, tableVars
  <2>2. i = target
    BY <2>1 DEF ReapDone, CreateDone, FreeDone, IInv, TypeOK
  <2>3. ~CreateDone
    BY <2>2 DEF CreateDone, IInv, IoctlKnows
  <2>4. ~ReapDone
    BY <2>2 DEF ReapDone, IInv, IoctlKnows
  <2>5. FreeDone
    BY <2>1, <2>3, <2>4
  <2> QED
    BY <2>2, <2>5 DEF FreeDone, IInv, IoctlKnows
<1> QED
  BY <1>1, Invariant, PTL DEF Spec, TakenOnlyFromTheDead
=============================================================================
