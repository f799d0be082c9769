------------------------------ MODULE ModeHint ------------------------------
(***************************************************************************)
(* Live resize: the guest's desktop follows the host window.               *)
(*                                                                         *)
(* A resize changes the host's preferred size and, when mode hints are     *)
(* enabled and the guest has an event buffer posted, sends a MODE_HINT.    *)
(* The driver's event callback stores the size in the area it shares with  *)
(* userland, one field after the other, and releases a semaphore if        *)
(* somebody waits on it.  prose_display_agent waits through the            *)
(* PRDS_WAIT_MODE_HINT ioctl, passing the size it knows, lets a drag       *)
(* settle and switches the screen.                                         *)
(*                                                                         *)
(* A size is a pair, because the ioctl reads its two fields while the      *)
(* callback may be writing them on another processor.                      *)
(*                                                                         *)
(* The names that say nothing of hints by themselves (HintInit, hintVars)  *)
(* keep apart from those of CommandPage, the same driver's other half:     *)
(* DisplayDriver_proofs is about both.                                     *)
(*                                                                         *)
(* Bounds: MaxResizes resizes and MaxVsyncs vsync events, which share the  *)
(* event buffers; one boot.                                                *)
(***************************************************************************)
EXTENDS Naturals, Sequences

CONSTANTS
  Sizes,         \* <<width, height>> a window may have
  EventBuffers,  \* PRDS_EVENT_BUFFERS
  MaxResizes,
  MaxVsyncs

\* Two window sizes that differ in both fields: any mixture of them is neither.
WindowSizes == {<<1, 1>>, <<2, 2>>}

ASSUME SizesAssumption == Sizes # {} /\ Sizes \subseteq (Nat \ {0}) \X (Nat \ {0})
ASSUME HintBoundsAssumption ==
  EventBuffers \in Nat \ {0} /\ MaxResizes \in Nat /\ MaxVsyncs \in Nat

Unknown == <<0, 0>>
Vsync == <<0, 0>>    \* an event that carries no size

VARIABLES
  \* the host
  pref,       \* prefWidth, prefHeight
  hints,      \* eventMask has MODE_HINT
  elements,   \* eventElements: how many event buffers the host holds
  announced,  \* was the last resize sent to the guest?
  resizes, vsyncs,
  \* the event queue
  posted,     \* buffers on their way to the host
  events,     \* filled buffers, in the order the device returned them
  \* the driver
  boot,       \* how far prds_init_driver() is
  shared,     \* shared->pref_width, shared->pref_height
  event,      \* the size the callback is at
  callback,   \* "none", "width", "height", "count", "release"
  hintSem,    \* hint_sem, when it is not negative
  waiting,    \* the agent waits on hint_sem
  \* the agent
  agent,      \* the place in hint_thread() and in the ioctl
  settling,   \* in the inner loop
  applied,    \* the size last applied
  hint,       \* the size being settled on
  got,        \* the size the ioctl copies out
  arrived,    \* the ioctl returned B_OK
  screen      \* the guest's screen

windowVars == <<pref, hints, elements, announced, resizes, vsyncs>>
queueVars  == <<posted, events>>
semVars    == <<hintSem, waiting>>
eventVars  == <<boot, shared, event, callback>>
agentVars  == <<agent, settling, applied, hint, got, arrived, screen>>
hintVars   == <<windowVars, queueVars, eventVars, semVars, agentVars>>

HintInit ==
  /\ pref \in Sizes
  /\ hints = FALSE
  /\ elements = 0
  /\ announced = TRUE
  /\ resizes = 0 /\ vsyncs = 0
  /\ posted = 0
  /\ events = <<>>
  /\ boot = "config"
  /\ shared = Unknown
  /\ event = Unknown
  /\ callback = "none"
  /\ hintSem = 0
  /\ waiting = FALSE
  /\ agent = "off"
  /\ settling = FALSE
  /\ applied = Unknown /\ hint = Unknown /\ got = Unknown
  /\ arrived = FALSE
  /\ screen = Unknown

-----------------------------------------------------------------------------
(* The host.                                                               *)

\* emit(): a filled event goes to the guest, or is dropped.
Emit(e) ==
  IF elements = 0
  THEN UNCHANGED <<elements, events>>
  ELSE elements' = elements - 1 /\ events' = Append(events, e)

\* windowResized().  A resize before the driver has read the device's
\* configuration is found there and needs no event.
Resize ==
  /\ resizes < MaxResizes
  /\ resizes' = resizes + 1
  /\ \E size \in Sizes \ {pref} :
       /\ pref' = size
       /\ IF hints THEN Emit(size) ELSE UNCHANGED <<elements, events>>
  /\ announced' = (boot = "config" \/ (hints /\ elements > 0))
  /\ UNCHANGED <<hints, vsyncs, posted, eventVars, semVars, agentVars>>

\* displayTick() with VSYNC enabled.
Tick ==
  /\ boot = "up"
  /\ vsyncs < MaxVsyncs
  /\ vsyncs' = vsyncs + 1
  /\ Emit(Vsync)
  /\ UNCHANGED <<pref, hints, announced, resizes, posted, eventVars, semVars, agentVars>>

\* didReceiveNotificationFor the event queue.
TakeBuffers ==
  /\ posted > 0
  /\ elements' = elements + posted
  /\ posted' = 0
  /\ UNCHANGED <<pref, hints, announced, resizes, vsyncs, events>>
  /\ UNCHANGED <<eventVars, semVars, agentVars>>

-----------------------------------------------------------------------------
(* The driver starts.                                                      *)

ReadConfig ==
  /\ boot = "config"
  /\ boot' = "post"
  /\ shared' = pref
  /\ UNCHANGED <<windowVars, queueVars, event, callback, semVars, agentVars>>

PostEventBuffers ==
  /\ boot = "post"
  /\ boot' = "enable"
  /\ posted' = EventBuffers
  /\ UNCHANGED <<windowVars, events, shared, event, callback, semVars, agentVars>>

\* ENABLE_EVENTS, and SET_MODE to the size in the configuration; the agent is
\* launched when the desktop is.
EnableEvents ==
  /\ boot = "enable"
  /\ boot' = "up"
  /\ hints' = TRUE
  /\ screen' = shared
  /\ agent' = "idle"
  /\ UNCHANGED <<pref, elements, announced, resizes, vsyncs, queueVars>>
  /\ UNCHANGED <<shared, event, callback, semVars>>
  /\ UNCHANGED <<settling, applied, hint, got, arrived>>

-----------------------------------------------------------------------------
(* The event callback, in interrupt context.                               *)

\* Mutant: the buffers are taken from the wrong end of the ring.
NextEventNewest ==
  /\ callback = "none"
  /\ events # <<>>
  /\ events' = SubSeq(events, 1, Len(events) - 1)
  /\ IF events[Len(events)] = Vsync
     THEN posted' = posted + 1 /\ UNCHANGED <<event, callback>>
     ELSE event' = events[Len(events)] /\ callback' = "width" /\ UNCHANGED posted
  /\ UNCHANGED <<windowVars, boot, shared, semVars, agentVars>>

\* Mutant: a hint's buffer is posted here and again when it has been stored.
NextEventPostsTwice ==
  /\ callback = "none"
  /\ events # <<>>
  /\ events' = Tail(events)
  /\ posted' = posted + 1
  /\ IF Head(events) = Vsync
     THEN UNCHANGED <<event, callback>>
     ELSE event' = Head(events) /\ callback' = "width"
  /\ UNCHANGED <<windowVars, boot, shared, semVars, agentVars>>

\* A buffer is taken off the ring; a vsync's is posted again at once.
NextEvent ==
  /\ callback = "none"
  /\ events # <<>>
  /\ events' = Tail(events)
  /\ IF Head(events) = Vsync
     THEN posted' = posted + 1 /\ UNCHANGED <<event, callback>>
     ELSE event' = Head(events) /\ callback' = "width" /\ UNCHANGED posted
  /\ UNCHANGED <<windowVars, boot, shared, semVars, agentVars>>

StoreWidth ==
  /\ callback = "width"
  /\ shared' = <<event[1], shared[2]>>
  /\ callback' = "height"
  /\ UNCHANGED <<windowVars, queueVars, boot, event, semVars, agentVars>>

StoreHeight ==
  /\ callback = "height"
  /\ shared' = <<shared[1], event[2]>>
  /\ callback' = "count"
  /\ UNCHANGED <<windowVars, queueVars, boot, event, semVars, agentVars>>

\* The buffer is posted again and the callback is through with the event.
Repost ==
  /\ event' = Unknown
  /\ callback' = "none"
  /\ posted' = posted + 1

\* get_sem_count(): is anybody waiting?
CountWaiters ==
  /\ callback = "count"
  /\ IF waiting
     THEN callback' = "release" /\ UNCHANGED <<event, posted>>
     ELSE Repost
  /\ UNCHANGED <<windowVars, events, boot, shared, semVars, agentVars>>

\* release_sem_etc(): whoever is still waiting goes on; else the permit stays.
Release ==
  /\ callback = "release"
  /\ IF waiting
     THEN /\ waiting' = FALSE /\ arrived' = TRUE /\ agent' = "copyWidth"
          /\ UNCHANGED hintSem
     ELSE hintSem' = hintSem + 1 /\ UNCHANGED <<waiting, arrived, agent>>
  /\ Repost
  /\ UNCHANGED <<windowVars, events, boot, shared, settling, applied, hint, got, screen>>

-----------------------------------------------------------------------------
(* The agent: the ioctl PRDS_WAIT_MODE_HINT.                               *)

Asked == IF settling THEN hint ELSE applied

\* The ioctl compares the caller's width with the host's ...
CompareWidth ==
  /\ agent = "idle"
  /\ agent' = IF Asked = Unknown THEN "wait"
              ELSE IF Asked[1] = shared[1] THEN "compareHeight" ELSE "copyWidth"
  /\ arrived' = TRUE
  /\ UNCHANGED <<windowVars, queueVars, eventVars, semVars>>
  /\ UNCHANGED <<settling, applied, hint, got, screen>>

\* ... and its height, and waits if they are the same.
CompareHeight ==
  /\ agent = "compareHeight"
  /\ agent' = IF Asked[2] = shared[2] THEN "wait" ELSE "copyWidth"
  /\ UNCHANGED <<windowVars, queueVars, eventVars, semVars>>
  /\ UNCHANGED <<settling, applied, hint, got, arrived, screen>>

\* acquire_sem_etc(): a permit is there, or the thread is queued.
Acquire ==
  /\ agent = "wait"
  /\ IF hintSem > 0
     THEN hintSem' = hintSem - 1 /\ agent' = "copyWidth" /\ UNCHANGED waiting
     ELSE waiting' = TRUE /\ agent' = "waiting" /\ UNCHANGED hintSem
  /\ UNCHANGED <<windowVars, queueVars, eventVars>>
  /\ UNCHANGED <<settling, applied, hint, got, arrived, screen>>

\* The wait times out; the host's size is copied out all the same.
TimesOut ==
  /\ agent = "waiting"
  /\ waiting' = FALSE
  /\ arrived' = FALSE
  /\ agent' = "copyWidth"
  /\ UNCHANGED <<windowVars, queueVars, eventVars, hintSem>>
  /\ UNCHANGED <<settling, applied, hint, got, screen>>

\* A signal: the ioctl returns without copying anything out.
Interrupted ==
  /\ agent = "waiting"
  /\ waiting' = FALSE
  /\ arrived' = FALSE
  /\ agent' = "returned"
  /\ got' = Asked
  /\ UNCHANGED <<windowVars, queueVars, eventVars, hintSem>>
  /\ UNCHANGED <<settling, applied, hint, screen>>

CopyWidth ==
  /\ agent = "copyWidth"
  /\ got' = <<shared[1], 0>>
  /\ agent' = "copyHeight"
  /\ UNCHANGED <<windowVars, queueVars, eventVars, semVars>>
  /\ UNCHANGED <<settling, applied, hint, arrived, screen>>

CopyHeight ==
  /\ agent = "copyHeight"
  /\ got' = <<got[1], shared[2]>>
  /\ agent' = "returned"
  /\ UNCHANGED <<windowVars, queueVars, eventVars, semVars>>
  /\ UNCHANGED <<settling, applied, hint, arrived, screen>>

-----------------------------------------------------------------------------
(* The agent: hint_thread().                                               *)

\* Mutant: a wait that timed out is not looked at, as if nothing had come.
IdleReturnsOnlyHints ==
  /\ agent = "returned"
  /\ ~settling
  /\ IF ~arrived \/ got = Unknown \/ got = applied
     THEN UNCHANGED <<settling, hint>>
     ELSE settling' = TRUE /\ hint' = got
  /\ agent' = "idle"
  /\ UNCHANGED <<windowVars, queueVars, eventVars, semVars, applied, got, arrived, screen>>

\* The outer wait: a size other than the one applied starts the settling.
IdleReturns ==
  /\ agent = "returned"
  /\ ~settling
  /\ IF got = Unknown \/ got = applied
     THEN UNCHANGED <<settling, hint>>
     ELSE settling' = TRUE /\ hint' = got
  /\ agent' = "idle"
  /\ UNCHANGED <<windowVars, queueVars, eventVars, semVars, applied, got, arrived, screen>>

\* The inner wait: a hint while the window moves replaces the last, and the
\* loop goes on unless kMaxSettleWait is over; quiet ends it.
SettleReturns ==
  /\ agent = "returned"
  /\ settling
  /\ hint' = IF arrived /\ got # Unknown THEN got ELSE hint
  /\ \/ arrived /\ agent' = "idle"
     \/ agent' = "switch"
  /\ UNCHANGED <<windowVars, queueVars, eventVars, semVars>>
  /\ UNCHANGED <<settling, applied, got, arrived, screen>>

\* switch_to() succeeds.
SwitchTo ==
  /\ agent = "switch"
  /\ screen' = hint
  /\ applied' = hint
  /\ settling' = FALSE
  /\ agent' = "idle"
  /\ UNCHANGED <<windowVars, queueVars, eventVars, semVars, hint, got, arrived>>

\* switch_to() fails: the size is not applied and the next wait returns at once.
SwitchFails ==
  /\ agent = "switch"
  /\ settling' = FALSE
  /\ agent' = "idle"
  /\ UNCHANGED <<windowVars, queueVars, eventVars, semVars>>
  /\ UNCHANGED <<applied, hint, got, arrived, screen>>

-----------------------------------------------------------------------------
DriverStarts == ReadConfig \/ PostEventBuffers \/ EnableEvents
CallbackStep == NextEvent \/ StoreWidth \/ StoreHeight \/ CountWaiters \/ Release
AgentStep ==
  \/ CompareWidth \/ CompareHeight \/ Acquire \/ TimesOut \/ Interrupted
  \/ CopyWidth \/ CopyHeight \/ IdleReturns \/ SettleReturns
  \/ SwitchTo \/ SwitchFails

HintNext == Resize \/ Tick \/ TakeBuffers \/ DriverStarts \/ CallbackStep \/ AgentStep

HintSpec == HintInit /\ [][HintNext]_hintVars

(***************************************************************************)
(* The guest boots, its interrupts are handled and its threads scheduled,  *)
(* waits time out (they are not interrupted for ever), and app_server does *)
(* not refuse a size for ever.  Nobody need resize the window.             *)
(***************************************************************************)
FairSpec ==
  /\ HintSpec
  /\ WF_hintVars(TakeBuffers)
  /\ WF_hintVars(DriverStarts)
  /\ WF_hintVars(CallbackStep)
  /\ WF_hintVars(AgentStep)
  /\ SF_hintVars(TimesOut)
  /\ SF_hintVars(SwitchTo)

-----------------------------------------------------------------------------
(* Properties.                                                             *)

AgentPlaces == {"off", "idle", "compareHeight", "wait", "waiting", "copyWidth",
                "copyHeight", "returned", "switch"}
Seen == {<<s[1], t[2]>> : s, t \in Sizes \cup {Unknown}}

\* Every variable holds a value of its type.
HintTypeOK ==
  /\ pref \in Sizes
  /\ hints \in BOOLEAN /\ announced \in BOOLEAN
  /\ elements \in 0..EventBuffers /\ posted \in 0..EventBuffers
  /\ events \in Seq(Sizes \cup {Vsync}) /\ Len(events) <= EventBuffers
  /\ boot \in {"config", "post", "enable", "up"}
  /\ shared \in Seen
  /\ event \in Sizes \cup {Unknown}
  /\ callback \in {"none", "width", "height", "count", "release"}
  /\ hintSem \in 0..1
  /\ waiting = (agent = "waiting")
  /\ agent \in AgentPlaces
  /\ settling \in BOOLEAN /\ arrived \in BOOLEAN
  /\ applied \in Seen /\ hint \in Seen /\ got \in Seen /\ screen \in Seen

\* Where the hints stand among the events on their way.
Hinted == {i \in DOMAIN events : events[i] # Vsync}

\* What the driver shows the agent is what the host wants, or the hint that says
\* so is the last of those on their way: the last among the events, or the one the
\* callback is storing when there is none among them.
SharedCatchesUp ==
  boot # "config" /\ announced =>
    \/ \E i \in Hinted : events[i] = pref /\ \A j \in Hinted : j <= i
    \/ Hinted = {} /\ IF callback \in {"width", "height"} THEN event = pref ELSE shared = pref

\* A size that the host announced is the screen's in the end, unless the host
\* has come to want another: not a hint between comparing and waiting, nor half
\* a size, nor a time out while settling, nor a refused mode keeps the desktop
\* from it.
ScreenFollows ==
  \A s \in Sizes :
    (pref = s /\ announced) ~> ((screen = s /\ applied = s) \/ pref # s)

\* The comment over hint_thread(): "let the driver tell us at once when the host
\* wants a size other than the one we applied last, so no hint is ever lost".
NoHintIsLost ==
  \A s \in Sizes : pref = s ~> (screen = s \/ pref # s)
=============================================================================
