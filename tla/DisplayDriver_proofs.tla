------------------------ MODULE DisplayDriver_proofs ------------------------
(***************************************************************************)
(* Proofs about the Prose Display driver.  Of its command channel, for     *)
(* every set of callers and every bound: its inductive invariant, the      *)
(* safety properties that follow from it, and that the channel implements  *)
(* CommandRpc.  Of its mode hints, for every set of sizes, any number of   *)
(* event buffers and any bounds: their types, with the number of event     *)
(* buffers and of the semaphore's permits, and that what the driver shows  *)
(* the agent catches up with what the host announced.                      *)
(*                                                                         *)
(* The two halves have no variable in common, and no proof of the one uses *)
(* a fact of the other.                                                    *)
(***************************************************************************)
EXTENDS CommandPage, ModeHint, Integers, TLAPS

-----------------------------------------------------------------------------
(* The command channel.                                                    *)

\* The invariant holds before the first call.
LEMMA InitIInv == Init => IInv
<1> SUFFICES ASSUME Init PROVE IInv
  OBVIOUS
<1>1. TypeOK
  BY DEF Init, TypeOK, Places, Blank
<1>2. LockHeld
  BY CallersAssumption DEF Init, LockHeld
<1>3. OneInFlight /\ PlaceKnows /\ HistoryAgrees /\ SignalNotLost
  BY DEF Init, OneInFlight, PlaceKnows, HistoryAgrees, SignalNotLost
<1> QED
  BY <1>1, <1>2, <1>3 DEF IInv

-----------------------------------------------------------------------------
(* One lemma per part of the system: the driver's steps, then the host's.  *)

\* A thread's steps through prds_command() keep the invariant.
LEMMA CallerKeepsIInv ==
  ASSUME IInv, NEW c \in Callers, Call(c) \/ CallerStep(c)
  PROVE  IInv'
<1> USE CallersAssumption
      DEF IInv, TypeOK, LockHeld, OneInFlight, PlaceKnows, HistoryAgrees,
          SignalNotLost, Places, Blank, Goto, Return,
          driverVars, pageVars, ringVars, hostVars, histVars
<1>1. CASE Call(c)
  BY <1>1 DEF Call
<1>2. CASE Enter(c)
  BY <1>2 DEF Enter
<1>3. CASE Signalled(c)
  BY <1>3 DEF Signalled
<1>4. CASE TimedOut(c)
  BY <1>4 DEF TimedOut
<1>5. CASE Collected(c)
  <2>1. outstanding /\ used = 1 /\ avail = 0 /\ hostHas = 0 /\ answer.seq = seq
    <3>1. used > 0
      BY <1>5 DEF Collected
    <3> QED
      BY <3>1
  <2>2. LockHeld'
    BY <1>5, <2>1 DEF Collected
  <2>5. TypeOK'
    <3>1. outstanding' \in BOOLEAN
      BY <1>5 DEF Collected
    <3>2. pc' \in [Callers -> Places] /\ used' \in Nat
      BY <1>5, <2>1 DEF Collected
    <3>3. UNCHANGED <<lock, calls, mySeq, seq, told, permits, avail,
                      request, answer, hostHas, irq, queued, accepted, rejected>>
      BY <1>5 DEF Collected
    <3> QED
      BY <3>1, <3>2, <3>3
  <2>3. OneInFlight' /\ SignalNotLost' /\ HistoryAgrees'
    BY <1>5, <2>1 DEF Collected
  <2>4. PlaceKnows'
    <3> SUFFICES ASSUME NEW d \in Callers PROVE PlaceKnows!(d)'
      OBVIOUS
    <3>1. CASE d = c
      BY <1>5, <2>1, <3>1 DEF Collected
    <3>2. CASE d # c
      BY <1>5, <2>1, <3>2 DEF Collected
    <3> QED
      BY <3>1, <3>2
  <2> QED
    BY <2>2, <2>3, <2>4, <2>5
<1>6. CASE NotOnUsedRing(c)
  BY <1>6 DEF NotOnUsedRing
<1>7. CASE WriteAndQueue(c)
  BY <1>7 DEF WriteAndQueue
<1>8. CASE QueueFails(c)
  BY <1>8 DEF QueueFails
<1>9. CASE Check(c)
  BY <1>9 DEF Check
<1> QED
  BY <1>1, <1>2, <1>3, <1>4, <1>5, <1>6, <1>7, <1>8, <1>9 DEF CallerStep

\* The host's steps and the interrupt's keep it too.
LEMMA HostKeepsIInv ==
  ASSUME IInv, HostStep \/ StrayCallback
  PROVE  IInv'
<1> USE DEF IInv, TypeOK, LockHeld, OneInFlight, PlaceKnows, HistoryAgrees,
            SignalNotLost, Places,
            driverVars, pageVars, ringVars, hostVars, histVars
<1>1. CASE HostTakes
  BY <1>1 DEF HostTakes
<1>2. CASE HostAnswers
  <2>1. PICK type \in {"OK", "ERR"} :
           /\ answer' = [seq |-> hostHas, type |-> type]
           /\ accepted' = IF type = "OK" THEN accepted \cup {hostHas} ELSE accepted
           /\ rejected' = IF type = "ERR" THEN rejected \cup {hostHas} ELSE rejected
    BY <1>2 DEF HostAnswers
  <2>2. answer'.seq = hostHas /\ answer'.type = type
    BY <2>1
  <2>3. TypeOK' /\ LockHeld'
    BY <1>2, <2>1 DEF HostAnswers
  <2>4. OneInFlight' /\ SignalNotLost'
    BY <1>2, <2>1, <2>2 DEF HostAnswers
  <2>5. HistoryAgrees'
    BY <1>2, <2>1, <2>2 DEF HostAnswers
  <2>6. PlaceKnows'
    BY <1>2, <2>1, <2>2 DEF HostAnswers
  <2> QED
    BY <2>3, <2>4, <2>5, <2>6
<1>3. CASE Interrupt
  <2>1. permits' > 0 /\ permits' \in Nat /\ LockHeld'
    BY <1>3 DEF Interrupt
  <2>6. TypeOK'
    <3>1. irq' \in BOOLEAN
      BY <1>3 DEF Interrupt
    <3>2. UNCHANGED <<pc, driverVars, pageVars, ringVars, hostHas, histVars>>
      BY <1>3 DEF Interrupt
    <3> QED
      BY <2>1, <3>1, <3>2
  <2>2. OneInFlight'
    BY <1>3 DEF Interrupt
  <2>3. HistoryAgrees'
    BY <1>3 DEF Interrupt
  <2>4. SignalNotLost'
    BY <2>1
  <2>5. PlaceKnows'
    BY <1>3 DEF Interrupt
  <2> QED
    BY <2>2, <2>3, <2>4, <2>5, <2>6, <2>1
<1>4. CASE StrayCallback
  BY <1>4 DEF StrayCallback
<1> QED
  BY <1>1, <1>2, <1>3, <1>4 DEF HostStep

\* A step that changes nothing keeps it.
LEMMA StutterKeepsIInv ==
  ASSUME IInv, UNCHANGED vars
  PROVE  IInv'
BY DEF vars, IInv, TypeOK, LockHeld, OneInFlight, PlaceKnows, HistoryAgrees,
       SignalNotLost, driverVars, pageVars, ringVars, hostVars, histVars

\* The invariant is an invariant: whatever the order of timeouts, late
\* completions and stray interrupts, the driver's book-keeping of its one
\* command agrees with the rings and the page.
THEOREM Invariance == Spec => []IInv
<1>1. IInv /\ [Next]_vars => IInv'
  BY CallerKeepsIInv, HostKeepsIInv, StutterKeepsIInv DEF Next
<1> QED
  BY InitIInv, <1>1, PTL DEF Spec

-----------------------------------------------------------------------------
(* What follows from it.                                                   *)

\* The variables keep their types.
THEOREM TypeCorrect == Spec => []TypeOK
  BY Invariance, PTL DEF IInv

\* At most one command is in flight and `outstanding` says so.
THEOREM OneInFlightAlways == Spec => []OneInFlight
  BY Invariance, PTL DEF IInv

\* The host carries out what was queued, once.
THEOREM RunsOnce == Spec => []RunsOnceAsQueued
<1>1. IInv => RunsOnceAsQueued
  BY DEF IInv, TypeOK, OneInFlight, HistoryAgrees, RunsOnceAsQueued
<1> QED
  BY Invariance, <1>1, PTL

\* The answer a caller finds on the page is its own.
THEOREM AnswersNeverMixed == Spec => []AnswerIsMine
<1>1. IInv => AnswerIsMine
  BY DEF IInv, TypeOK, PlaceKnows, AnswerIsMine
<1> QED
  BY Invariance, <1>1, PTL

\* The signal of a completed command is never lost.
THEOREM SignalsKept == Spec => []SignalNotLost
  BY Invariance, PTL DEF IInv

\* The page is not written while the device may read it.
THEOREM PageQuiet == Spec => PageQuietWhileTheirs
<1>1. IInv /\ [Next]_vars
        => [avail > 0 \/ hostHas # 0 => request' = request]_vars
  <2> SUFFICES ASSUME IInv, Next, avail > 0 \/ hostHas # 0
               PROVE  request' = request
    OBVIOUS
  <2>1. outstanding
    BY DEF IInv, TypeOK, OneInFlight
  <2>2. ASSUME NEW c \in Callers, Call(c) \/ CallerStep(c)
        PROVE  request' = request
    <3>1. pc[c] # "write"
      BY <2>1 DEF IInv, PlaceKnows
    <3> QED
      BY <2>2, <3>1 DEF CallerStep, Call, Enter, Signalled, TimedOut, Collected,
         NotOnUsedRing, WriteAndQueue, QueueFails, Check, pageVars
  <2>3. ASSUME HostStep \/ StrayCallback
        PROVE  request' = request
    BY <2>3 DEF HostStep, HostTakes, HostAnswers, Interrupt, StrayCallback, pageVars
  <2> QED
    BY <2>2, <2>3 DEF Next
<1> QED
  BY Invariance, <1>1, PTL DEF Spec, PageQuietWhileTheirs

-----------------------------------------------------------------------------
(* The channel implements its promise.                                     *)

\* A thread's steps are steps of the abstract channel, or none.
LEMMA CallerRefines ==
  ASSUME IInv, NEW c \in Callers, Call(c) \/ CallerStep(c)
  PROVE  [Rpc!Next]_Rpc!rpcVars
<1> USE DEF driverVars, pageVars, ringVars, hostVars, histVars, Goto, Return
<1>0. /\ pc \in [Callers -> Places]
      /\ mySeq \in [Callers -> Nat]
      /\ told \in [Callers -> {"nothing", "ok", "failed"}]
      /\ seq \in Nat /\ request = seq
  BY DEF IInv, TypeOK, HistoryAgrees
<1>1. CASE Call(c)
  <2>1. Rpc!Call(c)
    BY <1>0, <1>1 DEF Call, Rpc!Call
  <2> QED
    BY <2>1 DEF Rpc!Next
<1>2. CASE Enter(c)
  BY <1>0, <1>2 DEF Enter, Rpc!rpcVars
<1>3. CASE Signalled(c)
  BY <1>0, <1>3 DEF Signalled, Rpc!rpcVars
<1>4. CASE TimedOut(c)
  <2>1. Rpc!GiveUp(c)
    BY <1>0, <1>4 DEF TimedOut, Rpc!GiveUp
  <2> QED
    BY <2>1 DEF Rpc!Next
<1>5. CASE Collected(c)
  <2>1. outstanding /\ seq \in accepted \cup rejected /\ seq # 0
    BY <1>5 DEF Collected, IInv, TypeOK, OneInFlight, HistoryAgrees
  <2>2. Rpc!Retire
    BY <1>0, <1>5, <2>1 DEF Collected, Rpc!Retire
  <2> QED
    BY <2>2 DEF Rpc!Next
<1>6. CASE NotOnUsedRing(c)
  <2>1. Rpc!GiveUp(c)
    BY <1>0, <1>6 DEF NotOnUsedRing, Rpc!GiveUp
  <2> QED
    BY <2>1 DEF Rpc!Next
<1>7. CASE WriteAndQueue(c)
  <2>1. ~outstanding
    BY <1>7 DEF WriteAndQueue, IInv, PlaceKnows
  <2>2. Rpc!Issue(c)
    BY <1>0, <1>7, <2>1 DEF WriteAndQueue, Rpc!Issue
  <2> QED
    BY <2>2 DEF Rpc!Next
<1>8. CASE QueueFails(c)
  <2>1. ~outstanding
    BY <1>8 DEF QueueFails, IInv, PlaceKnows
  <2>2. Rpc!Refuse(c)
    BY <1>0, <1>8, <2>1 DEF QueueFails, Rpc!Refuse
  <2> QED
    BY <2>2 DEF Rpc!Next
<1>9. CASE Check(c)
  <2>1. CASE answer.seq = mySeq[c] /\ answer.type = "OK"
    <3>1. mySeq[c] \in accepted
      BY <1>9, <2>1 DEF Check, IInv, PlaceKnows
    <3>2. Rpc!ReturnOk(c)
      BY <1>0, <1>9, <2>1, <3>1 DEF Check, Rpc!ReturnOk
    <3> QED
      BY <3>2 DEF Rpc!Next
  <2>2. CASE ~(answer.seq = mySeq[c] /\ answer.type = "OK")
    <3>1. Rpc!GiveUp(c)
      BY <1>0, <1>9, <2>2 DEF Check, Rpc!GiveUp
    <3> QED
      BY <3>1 DEF Rpc!Next
  <2> QED
    BY <2>1, <2>2
<1> QED
  BY <1>1, <1>2, <1>3, <1>4, <1>5, <1>6, <1>7, <1>8, <1>9 DEF CallerStep

\* So are the host's and the interrupt's.
LEMMA HostRefines ==
  ASSUME IInv, HostStep \/ StrayCallback
  PROVE  [Rpc!Next]_Rpc!rpcVars
<1> USE DEF driverVars, pageVars, ringVars, hostVars, histVars
<1>1. CASE HostTakes
  BY <1>1 DEF HostTakes, Rpc!rpcVars
<1>2. CASE HostAnswers
  <2>1. outstanding /\ hostHas = request /\ request # 0
        /\ request \notin accepted \cup rejected
    BY <1>2 DEF HostAnswers, IInv, TypeOK, OneInFlight, HistoryAgrees
  <2>2. Rpc!Execute
    BY <1>2, <2>1 DEF HostAnswers, Rpc!Execute
  <2> QED
    BY <2>2 DEF Rpc!Next
<1>3. CASE Interrupt
  BY <1>3 DEF Interrupt, Rpc!rpcVars
<1>4. CASE StrayCallback
  BY <1>4 DEF StrayCallback, Rpc!rpcVars
<1> QED
  BY <1>1, <1>2, <1>3, <1>4 DEF HostStep

\* The driver, its page, its rings and the host together keep the promise
\* CommandRpc states.
THEOREM Refinement == Spec => ImplementsRpc
<1>1. Init => Rpc!Init
  BY DEF Init, Rpc!Init
<1>2. IInv /\ [Next]_vars => [Rpc!Next]_Rpc!rpcVars
  <2>1. ASSUME UNCHANGED vars
        PROVE  UNCHANGED Rpc!rpcVars
    BY <2>1 DEF vars, driverVars, pageVars, ringVars, hostVars, histVars, Rpc!rpcVars
  <2> QED
    BY <2>1, CallerRefines, HostRefines DEF Next
<1> QED
  BY Invariance, <1>1, <1>2, PTL DEF Spec, ImplementsRpc, Rpc!Spec

-----------------------------------------------------------------------------
(* The mode hints.                                                         *)

-----------------------------------------------------------------------------
(* Sizes and what may be seen of them.                                     *)
LEMMA SeenIs ==
  /\ Unknown \in Seen /\ Unknown \notin Sizes /\ Sizes \subseteq Seen
  /\ \A p \in Seen : p = <<p[1], p[2]>>
  /\ \A p, q \in Seen : <<p[1], q[2]>> \in Seen /\ <<p[1], 0>> \in Seen
<1>1. \A s \in Sizes : s[1] \in Nat \ {0} /\ s[2] \in Nat \ {0} /\ s = <<s[1], s[2]>>
  BY SizesAssumption
<1>2. Unknown = <<Unknown[1], Unknown[2]>> /\ Unknown[1] = 0 /\ Unknown[2] = 0
  BY DEF Unknown
<1>3. \A s \in Sizes \cup {Unknown} : s \in Seen
  <2> SUFFICES ASSUME NEW s \in Sizes \cup {Unknown} PROVE s \in Seen
    OBVIOUS
  <2>1. <<s[1], s[2]>> \in Seen
    BY DEF Seen
  <2>2. s = <<s[1], s[2]>>
    BY <1>1, <1>2
  <2> QED
    BY <2>1, <2>2
<1>4. \A p \in Seen : \E s, t \in Sizes \cup {Unknown} : p = <<s[1], t[2]>> /\ p[1] = s[1] /\ p[2] = t[2]
  BY DEF Seen
<1>5. \A p, q \in Seen : <<p[1], q[2]>> \in Seen
  BY <1>4 DEF Seen
<1>6. \A p \in Seen : <<p[1], 0>> \in Seen
  BY <1>2, <1>3, <1>5
<1>7. Unknown \notin Sizes
  BY <1>1, <1>2
<1>8. \A p \in Seen : p = <<p[1], p[2]>>
  BY <1>4
<1> QED
  BY <1>3, <1>5, <1>6, <1>7, <1>8

-----------------------------------------------------------------------------
(* The inductive invariant.                                                *)

(* An event buffer is with the host, posted, on the ring, or the one the   *)
(* callback is at.                                                         *)
AtOne == IF callback = "none" THEN 0 ELSE 1
BuffersKept ==
  elements + posted + Len(events) + AtOne = IF boot \in {"config", "post"} THEN 0 ELSE EventBuffers

(* Before the driver is up nothing is sent and nobody waits.               *)
Booting ==
  /\ hints = (boot = "up")
  /\ boot # "up" => agent = "off" /\ callback = "none" /\ events = <<>>

(* A permit stays behind only when a waiter has left the callback to       *)
(* release one, and no second callback releases before it is used.         *)
OnePermit == callback = "release" \/ waiting => hintSem = 0

(* The callback stores a hint, its width and then its height.              *)
Storing ==
  /\ callback # "none" => event \in Sizes
  /\ callback = "height" => shared[1] = event[1]

HintIInv == HintTypeOK /\ BuffersKept /\ Booting /\ OnePermit /\ Storing /\ SharedCatchesUp

-----------------------------------------------------------------------------
(* Types.                                                                  *)
LEMMA HintInitIInv == HintInit => HintIInv
<1> SUFFICES ASSUME HintInit PROVE HintIInv
  OBVIOUS
<1> USE HintBoundsAssumption, SeenIs
<1>1. HintTypeOK
  <2>1. events \in Seq(Sizes \cup {Vsync}) /\ Len(events) = 0
    BY DEF HintInit
  <2>2. /\ elements \in 0..EventBuffers /\ posted \in 0..EventBuffers /\ 0 <= EventBuffers
    BY DEF HintInit
  <2> QED
    <3>1. pref \in Sizes /\ event \in Sizes \cup {Unknown} /\ hintSem \in 0..1
      BY DEF HintInit
    <3>2. shared \in Seen /\ applied \in Seen /\ hint \in Seen /\ got \in Seen /\ screen \in Seen
      BY DEF HintInit
    <3>3. /\ hints \in BOOLEAN /\ announced \in BOOLEAN /\ settling \in BOOLEAN /\ arrived \in BOOLEAN
          /\ boot \in {"config", "post", "enable", "up"} /\ waiting = (agent = "waiting") /\ agent \in AgentPlaces
          /\ callback \in {"none", "width", "height", "count", "release"}
      BY DEF HintInit, AgentPlaces
    <3> QED
      BY <2>1, <2>2, <3>1, <3>2, <3>3 DEF HintTypeOK
<1>2. BuffersKept /\ Booting /\ OnePermit /\ Storing
  <2>1. BuffersKept
    <3>1. Len(events) = 0
      BY DEF HintInit
    <3> QED
      BY <3>1 DEF HintInit, BuffersKept, AtOne
  <2>2. hints = (boot = "up")
    BY Zenon DEF HintInit
  <2> QED
    BY <2>1, <2>2 DEF HintInit, Booting, OnePermit, Storing
<1>3. SharedCatchesUp
  BY DEF HintInit, SharedCatchesUp
<1> QED
  BY <1>1, <1>2, <1>3 DEF HintIInv

(* A filled buffer moves from the host to the ring, if the host has one.   *)
LEMMA EmitIs ==
  ASSUME HintIInv, NEW e \in Sizes \cup {Vsync}, Emit(e), UNCHANGED <<posted, callback, boot>>
  PROVE  /\ elements' \in 0..EventBuffers /\ events' \in Seq(Sizes \cup {Vsync})
         /\ Len(events') <= EventBuffers /\ BuffersKept'
         /\ elements = 0 => events' = events
         /\ elements > 0 => /\ Len(events') = Len(events) + 1 /\ events'[Len(events) + 1] = e
                            /\ \A i \in 1..Len(events) : events'[i] = events[i]
<1>1. /\ elements \in 0..EventBuffers /\ posted \in 0..EventBuffers /\ Len(events) <= EventBuffers
      /\ events \in Seq(Sizes \cup {Vsync}) /\ EventBuffers \in Nat
  BY HintBoundsAssumption DEF HintIInv, HintTypeOK
<1>2. Len(events) \in Nat
  BY <1>1
<1>3. BuffersKept /\ AtOne' = AtOne /\ AtOne \in {0, 1}
  BY DEF HintIInv, AtOne
<1>4. CASE elements = 0
  BY <1>1, <1>3, <1>4 DEF Emit, BuffersKept
<1>5. CASE elements > 0
  <2>1. elements' = elements - 1 /\ events' = Append(events, e)
    BY <1>1, <1>5 DEF Emit
  <2>2. /\ events' \in Seq(Sizes \cup {Vsync}) /\ Len(events') = Len(events) + 1
        /\ events'[Len(events) + 1] = e /\ \A i \in 1..Len(events) : events'[i] = events[i]
    BY <1>1, <2>1
  <2>3. elements + posted + Len(events) <= EventBuffers
    BY <1>1, <1>2, <1>3 DEF BuffersKept
  <2>4. Len(events') <= EventBuffers /\ elements' \in 0..EventBuffers
    BY <1>1, <1>2, <1>5, <2>1, <2>2, <2>3
  <2>5. BuffersKept'
    BY <1>1, <1>2, <1>3, <2>1, <2>2 DEF BuffersKept
  <2> QED
    BY <1>1, <1>5, <2>2, <2>4, <2>5
<1> QED
  BY <1>1, <1>4, <1>5

LEMMA StepTypes ==
  ASSUME HintIInv, [HintNext]_hintVars
  PROVE  HintTypeOK' /\ BuffersKept'
<1>0. /\ HintTypeOK /\ BuffersKept /\ OnePermit /\ Storing /\ Booting
      /\ elements \in 0..EventBuffers /\ posted \in 0..EventBuffers /\ EventBuffers \in Nat \ {0}
      /\ events \in Seq(Sizes \cup {Vsync}) /\ Len(events) \in Nat /\ Len(events) <= EventBuffers
  BY HintBoundsAssumption DEF HintIInv, HintTypeOK
<1>1. ASSUME elements' \in 0..EventBuffers /\ posted' \in 0..EventBuffers,
             events' \in Seq(Sizes \cup {Vsync}) /\ Len(events') <= EventBuffers,
             event' \in Sizes \cup {Unknown},
             callback' \in {"none", "width", "height", "count", "release"},
             UNCHANGED <<pref, hints, announced, boot, shared, semVars, agentVars>>
      PROVE  HintTypeOK'
  BY <1>0, <1>1 DEF HintTypeOK, semVars, agentVars
<1>2. ASSUME UNCHANGED <<windowVars, queueVars, boot, event>>, shared' \in Seen, hintSem' \in 0..1,
             callback' \in {"none", "width", "height", "count", "release"},
             waiting' = (agent' = "waiting"), agent' \in AgentPlaces, settling' \in BOOLEAN, arrived' \in BOOLEAN,
             applied' \in Seen /\ hint' \in Seen /\ got' \in Seen /\ screen' \in Seen
      PROVE  HintTypeOK'
  BY <1>0, <1>2 DEF HintTypeOK, windowVars, queueVars
<1>3. ASSUME UNCHANGED <<elements, posted, events, callback, boot>> PROVE BuffersKept'
  BY <1>0, <1>3 DEF BuffersKept, AtOne
<1>4. CASE Resize
  <2>1. PICK size \in Sizes : /\ pref' = size
                              /\ IF hints THEN Emit(size) ELSE UNCHANGED <<elements, events>>
    BY <1>4 DEF Resize
  <2>2. UNCHANGED <<hints, posted, eventVars, semVars, agentVars>>
    BY <1>4 DEF Resize
  <2>3. /\ elements' \in 0..EventBuffers /\ events' \in Seq(Sizes \cup {Vsync})
        /\ Len(events') <= EventBuffers /\ BuffersKept'
    <3>1. CASE hints
      BY <2>1, <2>2, <3>1, EmitIs DEF eventVars
    <3>2. CASE ~hints
      BY <1>0, <1>3, <2>1, <2>2, <3>2 DEF eventVars
    <3> QED
      BY <3>1, <3>2
  <2>4. announced' \in BOOLEAN /\ pref' \in Sizes
    BY <1>4, <2>1 DEF Resize
  <2> QED
    BY <1>0, <2>2, <2>3, <2>4 DEF HintTypeOK, eventVars, semVars, agentVars
<1>5. CASE Tick
  <2>1. Emit(Vsync) /\ UNCHANGED <<pref, hints, announced, posted, eventVars, semVars, agentVars>>
    BY <1>5 DEF Tick
  <2>2. /\ elements' \in 0..EventBuffers /\ events' \in Seq(Sizes \cup {Vsync})
        /\ Len(events') <= EventBuffers /\ BuffersKept'
    BY <2>1, EmitIs DEF eventVars
  <2> QED
    BY <1>0, <1>1, <2>1, <2>2 DEF HintTypeOK, eventVars
<1>6. CASE TakeBuffers
  <2>1. /\ elements' = elements + posted /\ posted' = 0
        /\ UNCHANGED <<pref, hints, announced, events, eventVars, semVars, agentVars>>
    BY <1>6 DEF TakeBuffers
  <2>2. BuffersKept'
    BY <1>0, <2>1 DEF BuffersKept, AtOne, eventVars
  <2>3. elements' \in 0..EventBuffers
    BY <1>0, <2>1 DEF BuffersKept, AtOne
  <2> QED
    BY <1>0, <1>1, <2>1, <2>2, <2>3 DEF HintTypeOK, eventVars
<1>7. CASE ReadConfig
  <2>1. /\ boot = "config" /\ boot' = "post" /\ shared' = pref
        /\ UNCHANGED <<windowVars, queueVars, event, callback, semVars, agentVars>>
    BY <1>7 DEF ReadConfig
  <2>2. shared' \in Seen
    BY <1>0, <2>1, SeenIs DEF HintTypeOK
  <2>3. BuffersKept'
    BY <1>0, <2>1 DEF BuffersKept, AtOne, windowVars, queueVars
  <2> QED
    BY <1>0, <2>1, <2>2, <2>3 DEF HintTypeOK, windowVars, queueVars, semVars, agentVars
<1>8. CASE PostEventBuffers
  <2>1. /\ boot = "post" /\ boot' = "enable" /\ posted' = EventBuffers
        /\ UNCHANGED <<windowVars, events, shared, event, callback, semVars, agentVars>>
    BY <1>8 DEF PostEventBuffers
  <2>2. BuffersKept'
    BY <1>0, <2>1 DEF BuffersKept, AtOne, windowVars
  <2>3. posted' \in 0..EventBuffers
    BY <1>0, <2>1
  <2> QED
    BY <1>0, <2>1, <2>2, <2>3 DEF HintTypeOK, windowVars, semVars, agentVars
<1>9. CASE EnableEvents
  <2>1. /\ boot = "enable" /\ boot' = "up" /\ hints' = TRUE /\ screen' = shared /\ agent' = "idle"
        /\ UNCHANGED <<pref, elements, announced, queueVars, shared, event, callback, semVars>>
        /\ UNCHANGED <<settling, applied, hint, got, arrived>>
    BY <1>9 DEF EnableEvents
  <2>2. BuffersKept'
    BY <1>0, <2>1 DEF BuffersKept, AtOne, queueVars
  <2>3. waiting' = (agent' = "waiting") /\ agent' \in AgentPlaces
    BY <1>0, <2>1 DEF HintTypeOK, Booting, AgentPlaces, semVars
  <2> QED
    BY <1>0, <2>1, <2>2, <2>3 DEF HintTypeOK, queueVars, semVars
<1>10. CASE NextEvent
  <2>1. /\ callback = "none" /\ events # <<>> /\ events' = Tail(events)
        /\ UNCHANGED <<windowVars, boot, shared, semVars, agentVars>>
        /\ IF Head(events) = Vsync
           THEN posted' = posted + 1 /\ UNCHANGED <<event, callback>>
           ELSE event' = Head(events) /\ callback' = "width" /\ UNCHANGED posted
    BY <1>10 DEF NextEvent
  <2>2. /\ events' \in Seq(Sizes \cup {Vsync}) /\ Len(events') = Len(events) - 1 /\ Len(events) > 0
        /\ Head(events) \in Sizes \cup {Vsync}
    BY <1>0, <2>1
  <2>3. BuffersKept'
    BY <1>0, <2>1, <2>2 DEF BuffersKept, AtOne, windowVars
  <2>4. posted' \in 0..EventBuffers /\ event' \in Sizes \cup {Unknown}
    BY <1>0, <2>1, <2>2 DEF BuffersKept, AtOne, HintTypeOK
  <2>5. callback' \in {"none", "width", "height", "count", "release"}
    BY <2>1
  <2> QED
    BY <1>0, <1>1, <2>1, <2>2, <2>3, <2>4, <2>5 DEF windowVars
<1>11. CASE StoreWidth \/ StoreHeight
  <2>1. /\ callback # "none" /\ callback' \in {"height", "count"} /\ shared' \in Seen
        /\ UNCHANGED <<windowVars, queueVars, boot, event, semVars, agentVars>>
    <3>1. /\ callback # "none" /\ callback' \in {"height", "count"}
          /\ shared' = <<event[1], shared[2]>> \/ shared' = <<shared[1], event[2]>>
          /\ UNCHANGED <<windowVars, queueVars, boot, event, semVars, agentVars>>
      BY <1>11 DEF StoreWidth, StoreHeight
    <3>2. event \in Seen /\ shared \in Seen
      BY <1>0, <3>1, SeenIs DEF HintTypeOK, Storing
    <3>3. <<event[1], shared[2]>> \in Seen /\ <<shared[1], event[2]>> \in Seen
      BY <3>2, SeenIs
    <3> QED
      BY Zenon, <3>1, <3>3
  <2>2. BuffersKept'
    BY <1>0, <2>1 DEF BuffersKept, AtOne, windowVars, queueVars
  <2> QED
    BY <1>0, <1>2, <2>1, <2>2 DEF HintTypeOK, semVars, agentVars
<1>12. ASSUME Repost, callback # "none", UNCHANGED <<elements, events, boot>>
       PROVE  BuffersKept' /\ posted' \in 0..EventBuffers /\ event' \in Sizes \cup {Unknown}
  <2>1. posted' = posted + 1 /\ callback' = "none" /\ event' = Unknown
    BY <1>12 DEF Repost
  <2>2. BuffersKept'
    BY <1>0, <1>12, <2>1 DEF BuffersKept, AtOne
  <2>3. posted' \in 0..EventBuffers
    BY <1>0, <1>12, <2>1 DEF BuffersKept, AtOne
  <2> QED
    BY <2>1, <2>2, <2>3
<1>13. CASE CountWaiters
  <2>1. /\ callback = "count" /\ UNCHANGED <<windowVars, events, boot, shared, semVars, agentVars>>
        /\ \/ callback' = "release" /\ UNCHANGED <<event, posted>>
           \/ Repost
    BY <1>13 DEF CountWaiters
  <2>2. CASE callback' = "release" /\ UNCHANGED <<event, posted>>
    <3>1. BuffersKept'
      BY <1>0, <2>1, <2>2 DEF BuffersKept, AtOne, windowVars
    <3> QED
      BY <1>0, <1>1, <2>1, <2>2, <3>1 DEF HintTypeOK, windowVars
  <2>3. CASE Repost
    <3>1. BuffersKept' /\ posted' \in 0..EventBuffers /\ event' \in Sizes \cup {Unknown}
      BY <1>12, <2>1, <2>3 DEF windowVars
    <3> QED
      BY <1>0, <1>1, <2>1, <2>3, <3>1 DEF Repost, windowVars
  <2> QED
    BY <2>1, <2>2, <2>3
<1>14. CASE Release
  <2>1. /\ callback = "release" /\ Repost
        /\ UNCHANGED <<windowVars, events, boot, shared, settling, applied, hint, got, screen>>
        /\ \/ waiting' = FALSE /\ arrived' = TRUE /\ agent' = "copyWidth" /\ UNCHANGED hintSem
           \/ hintSem' = hintSem + 1 /\ UNCHANGED <<waiting, arrived, agent>>
    BY <1>14 DEF Release
  <2>2. BuffersKept' /\ posted' \in 0..EventBuffers /\ event' \in Sizes \cup {Unknown}
    BY <1>12, <2>1 DEF windowVars
  <2>3. hintSem' \in 0..1 /\ waiting' = (agent' = "waiting") /\ agent' \in AgentPlaces /\ arrived' \in BOOLEAN
    <3>1. hintSem = 0 /\ hintSem' \in 0..1
      BY <1>0, <2>1 DEF HintTypeOK, OnePermit
    <3>2. /\ agent \in AgentPlaces /\ waiting = (agent = "waiting") /\ arrived \in BOOLEAN
          /\ "copyWidth" \in AgentPlaces /\ "copyWidth" # "waiting"
      BY <1>0 DEF HintTypeOK, AgentPlaces
    <3>3. waiting' = (agent' = "waiting") /\ agent' \in AgentPlaces /\ arrived' \in BOOLEAN
      <4>1. CASE waiting' = FALSE /\ arrived' = TRUE /\ agent' = "copyWidth"
        BY <3>2, <4>1
      <4>2. CASE UNCHANGED <<waiting, arrived, agent>>
        BY <3>2, <4>2
      <4> QED
        BY <2>1, <4>1, <4>2
    <3> QED
      BY <3>1, <3>3
  <2> QED
    BY <1>0, <2>1, <2>2, <2>3 DEF HintTypeOK, Repost, windowVars
<1>15. CASE AgentStep
  <2>1. UNCHANGED <<windowVars, queueVars, eventVars>>
    BY <1>15 DEF AgentStep, CompareWidth, CompareHeight, Acquire, TimesOut, Interrupted, CopyWidth, CopyHeight,
       IdleReturns, SettleReturns, SwitchTo, SwitchFails
  <2>2. BuffersKept'
    BY <1>3, <2>1 DEF windowVars, queueVars, eventVars
  <2>3. hintSem' \in 0..1
    BY <1>0, <1>15 DEF HintTypeOK, AgentStep, CompareWidth, CompareHeight, Acquire, TimesOut, Interrupted, CopyWidth,
       CopyHeight, IdleReturns, SettleReturns, SwitchTo, SwitchFails, semVars
  <2>4. waiting' = (agent' = "waiting") /\ agent' \in AgentPlaces
    BY <1>0, <1>15 DEF HintTypeOK, AgentPlaces, AgentStep, CompareWidth, CompareHeight, Acquire, TimesOut, Interrupted,
       CopyWidth, CopyHeight, IdleReturns, SettleReturns, SwitchTo, SwitchFails, semVars
  <2>5. settling' \in BOOLEAN /\ arrived' \in BOOLEAN
    BY <1>0, <1>15 DEF HintTypeOK, AgentStep, CompareWidth, CompareHeight, Acquire, TimesOut, Interrupted,
       CopyWidth, CopyHeight, IdleReturns, SettleReturns, SwitchTo, SwitchFails
  <2>6. applied' \in Seen /\ hint' \in Seen /\ got' \in Seen /\ screen' \in Seen
    BY <1>0, <1>15, SeenIs DEF HintTypeOK, Asked, AgentStep, CompareWidth, CompareHeight, Acquire, TimesOut, Interrupted,
       CopyWidth, CopyHeight, IdleReturns, SettleReturns, SwitchTo, SwitchFails
  <2> QED
    BY <1>0, <1>2, <2>1, <2>2, <2>3, <2>4, <2>5, <2>6 DEF HintTypeOK, eventVars
<1>16. CASE UNCHANGED hintVars
  BY <1>0, <1>3, <1>16 DEF HintTypeOK, hintVars, windowVars, queueVars, eventVars, semVars, agentVars
<1> QED
  BY <1>4, <1>5, <1>6, <1>7, <1>8, <1>9, <1>10, <1>11, <1>13, <1>14, <1>15, <1>16
     DEF HintNext, DriverStarts, CallbackStep

LEMMA StepRest ==
  ASSUME HintIInv, [HintNext]_hintVars
  PROVE  Booting' /\ OnePermit' /\ Storing'
<1>0. HintTypeOK /\ BuffersKept /\ OnePermit /\ Storing /\ Booting
  BY DEF HintIInv
<1>1. CASE Resize \/ Tick
  <2>1. UNCHANGED <<hints, eventVars, semVars, agentVars>> /\ (~hints => UNCHANGED events)
    BY <1>0, <1>1 DEF Resize, Tick, Booting
  <2> QED
    BY <1>0, <2>1 DEF Booting, OnePermit, Storing, eventVars, semVars, agentVars
<1>2. CASE TakeBuffers
  BY <1>0, <1>2 DEF TakeBuffers, Booting, OnePermit, Storing, eventVars, semVars, agentVars
<1>3. CASE ReadConfig \/ PostEventBuffers
  <2>1. /\ hints = FALSE /\ boot' # "up" /\ UNCHANGED <<hints, agent, callback, event, events, hintSem, waiting>>
        /\ agent = "off" /\ callback = "none" /\ events = <<>>
    BY <1>0, <1>3 DEF ReadConfig, PostEventBuffers, Booting, windowVars, queueVars, semVars, agentVars
  <2> QED
    BY <1>0, <2>1 DEF Booting, OnePermit, Storing
<1>4. CASE EnableEvents
  BY <1>0, <1>4 DEF EnableEvents, Booting, OnePermit, Storing, queueVars, semVars
<1>5. CASE NextEvent
  <2>1. /\ events \in Seq(Sizes \cup {Vsync}) /\ events # <<>> /\ boot = "up"
        /\ UNCHANGED <<hints, boot, semVars, agentVars>> /\ callback = "none"
        /\ \/ UNCHANGED callback
           \/ event' = Head(events) /\ Head(events) # Vsync /\ callback' = "width"
    BY <1>0, <1>5 DEF HintTypeOK, NextEvent, Booting, windowVars
  <2>2. Head(events) \in Sizes \cup {Vsync}
    BY <2>1
  <2> QED
    BY <1>0, <2>1, <2>2 DEF Booting, OnePermit, Storing, semVars, agentVars
<1>6. CASE StoreWidth \/ StoreHeight
  <2>1. /\ UNCHANGED <<hints, events, boot, event, semVars, agentVars>>
        /\ callback # "none" /\ callback' # "release"
        /\ callback' = "height" => shared'[1] = event[1]
    BY <1>6 DEF StoreWidth, StoreHeight, windowVars, queueVars
  <2> QED
    BY <1>0, <2>1 DEF Booting, OnePermit, Storing, semVars, agentVars
<1>7. CASE CountWaiters
  <2>1. /\ UNCHANGED <<hints, events, boot, shared, semVars, agentVars>> /\ callback = "count"
        /\ \/ waiting /\ callback' = "release" /\ UNCHANGED event
           \/ callback' = "none"
    BY <1>7 DEF CountWaiters, Repost, windowVars
  <2> QED
    BY <1>0, <2>1 DEF Booting, OnePermit, Storing, semVars, agentVars
<1>8. CASE Release
  <2>1. /\ UNCHANGED <<hints, events, boot>> /\ callback = "release" /\ callback' = "none"
        /\ \/ waiting' = FALSE
           \/ ~waiting /\ UNCHANGED waiting
        /\ boot = "up"
    BY <1>0, <1>8 DEF Release, Repost, Booting, windowVars
  <2> QED
    BY <1>0, <2>1 DEF Booting, OnePermit, Storing
<1>9. CASE AgentStep
  <2>1. UNCHANGED <<windowVars, queueVars, eventVars>> /\ boot = "up"
    BY <1>0, <1>9 DEF AgentStep, CompareWidth, CompareHeight, Acquire, TimesOut, Interrupted, CopyWidth, CopyHeight,
       IdleReturns, SettleReturns, SwitchTo, SwitchFails, Booting
  <2>2. (waiting' => waiting \/ (hintSem \in 0..1 /\ ~(hintSem > 0) /\ UNCHANGED hintSem))
        /\ (hintSem = 0 => hintSem' = 0)
    BY <1>0, <1>9 DEF HintTypeOK, AgentStep, CompareWidth, CompareHeight, Acquire, TimesOut, Interrupted, CopyWidth,
       CopyHeight, IdleReturns, SettleReturns, SwitchTo, SwitchFails, semVars
  <2> QED
    BY <1>0, <2>1, <2>2 DEF Booting, OnePermit, Storing, windowVars, queueVars, eventVars
<1>10. CASE UNCHANGED hintVars
  BY <1>0, <1>10 DEF Booting, OnePermit, Storing, hintVars, windowVars, queueVars, eventVars, semVars, agentVars
<1> QED
  BY <1>1, <1>2, <1>3, <1>4, <1>5, <1>6, <1>7, <1>8, <1>9, <1>10
     DEF HintNext, DriverStarts, CallbackStep

-----------------------------------------------------------------------------
(* What the driver shows catches up.                                       *)

(* A hint is stored whole: its width, then its height.                     *)
LEMMA StepShared ==
  ASSUME HintIInv, [HintNext]_hintVars
  PROVE  SharedCatchesUp'
<1>0. /\ HintTypeOK /\ SharedCatchesUp /\ Storing /\ Booting
      /\ events \in Seq(Sizes \cup {Vsync}) /\ Len(events) \in Nat /\ DOMAIN events = 1..Len(events)
      /\ Vsync \notin Sizes
  BY SeenIs DEF HintIInv, HintTypeOK, Vsync, Unknown
<1>1. ASSUME UNCHANGED <<boot, announced, events, callback, pref, event, shared>> PROVE SharedCatchesUp'
  BY <1>0, <1>1 DEF SharedCatchesUp, Hinted
<1>2. CASE Resize
  <2>1. PICK size \in Sizes : /\ pref' = size
                              /\ IF hints THEN Emit(size) ELSE UNCHANGED <<elements, events>>
    BY <1>2 DEF Resize
  <2>2. /\ announced' = (boot = "config" \/ (hints /\ elements > 0))
        /\ UNCHANGED <<boot, callback, event, shared, posted>>
    BY <1>2 DEF Resize, eventVars
  <2>3. CASE boot # "config" /\ hints /\ elements > 0
    <3>1. /\ events' \in Seq(Sizes \cup {Vsync}) /\ Len(events') = Len(events) + 1
          /\ events'[Len(events) + 1] = size
      BY <2>1, <2>2, <2>3, EmitIs
    <3>2. DOMAIN events' = 1..(Len(events) + 1)
      BY <3>1
    <3>3. Len(events) + 1 \in Hinted' /\ \A j \in Hinted' : j <= Len(events) + 1
      BY <1>0, <3>1, <3>2 DEF Hinted
    <3> QED
      BY <2>1, <3>1, <3>3 DEF SharedCatchesUp
  <2>4. CASE ~(boot # "config" /\ hints /\ elements > 0)
    BY <2>2, <2>4 DEF SharedCatchesUp
  <2> QED
    BY <2>3, <2>4
<1>3. CASE Tick
  <2>1. Emit(Vsync) /\ UNCHANGED <<boot, announced, callback, pref, event, shared, posted>>
    BY <1>3 DEF Tick, eventVars
  <2>2. Hinted' = Hinted /\ \A i \in Hinted : events'[i] = events[i]
    <3>1. CASE elements = 0
      <4>1. events' = events
        BY <2>1, <3>1 DEF Emit
      <4> QED
        BY <4>1 DEF Hinted
    <3>2. CASE elements > 0
      <4>1. /\ events' \in Seq(Sizes \cup {Vsync}) /\ Len(events') = Len(events) + 1
            /\ events'[Len(events) + 1] = Vsync
            /\ \A i \in 1..Len(events) : events'[i] = events[i]
        BY <2>1, <3>2, EmitIs
      <4>2. DOMAIN events' = 1..(Len(events) + 1)
        BY <4>1
      <4>3. \A i \in DOMAIN events' : i \in 1..Len(events) \/ i = Len(events) + 1
        BY <1>0, <4>2
      <4>4. \A i \in 1..Len(events) : i \in DOMAIN events'
        BY <1>0, <4>2
      <4> QED
        BY <1>0, <4>1, <4>3, <4>4 DEF Hinted
    <3> QED
      BY <1>0, <3>1, <3>2 DEF HintTypeOK
  <2> QED
    BY <1>0, <2>1, <2>2 DEF SharedCatchesUp
<1>4. CASE TakeBuffers
  BY <1>1, <1>4 DEF TakeBuffers, eventVars
<1>5. CASE ReadConfig
  <2>1. /\ shared' = pref /\ UNCHANGED <<events, callback, pref>> /\ events = <<>> /\ callback = "none"
    BY <1>0, <1>5 DEF ReadConfig, Booting, windowVars, queueVars
  <2>2. Hinted' = {}
    BY <2>1 DEF Hinted
  <2> QED
    BY <2>1, <2>2 DEF SharedCatchesUp
<1>6. CASE PostEventBuffers
  BY <1>0, <1>6 DEF PostEventBuffers, SharedCatchesUp, Hinted, windowVars
<1>7. CASE EnableEvents
  BY <1>0, <1>7 DEF EnableEvents, SharedCatchesUp, Hinted, queueVars
<1>8. CASE NextEvent
  <2>1. /\ callback = "none" /\ events # <<>> /\ events' = Tail(events)
        /\ UNCHANGED <<boot, announced, pref, shared>>
        /\ IF Head(events) = Vsync
           THEN UNCHANGED <<event, callback>>
           ELSE event' = Head(events) /\ callback' = "width"
    BY <1>8 DEF NextEvent, windowVars
  <2>2. /\ events' \in Seq(Sizes \cup {Vsync}) /\ Len(events') = Len(events) - 1 /\ Len(events) > 0
        /\ Head(events) = events[1] /\ DOMAIN events' = 1..(Len(events) - 1)
        /\ \A i \in 1..(Len(events) - 1) : events'[i] = events[i + 1]
    BY <1>0, <2>1
  <2>3. \A i \in Hinted : i # 1 => i - 1 \in Hinted' /\ events'[i - 1] = events[i]
    <3> SUFFICES ASSUME NEW i \in 1..Len(events), events[i] # Vsync, i # 1
                 PROVE  i - 1 \in Hinted' /\ events'[i - 1] = events[i]
      BY <1>0 DEF Hinted
    <3>1. i - 1 \in 1..(Len(events) - 1) /\ (i - 1) + 1 = i
      BY <1>0
    <3> QED
      BY <2>2, <3>1 DEF Hinted
  <2>4. \A i \in Hinted' : i + 1 \in Hinted
    <3> SUFFICES ASSUME NEW i \in 1..(Len(events) - 1), events'[i] # Vsync
                 PROVE  i + 1 \in Hinted
      BY <2>2 DEF Hinted
    <3>1. i + 1 \in 1..Len(events) /\ events[i + 1] # Vsync
      BY <1>0, <2>2
    <3> QED
      BY <1>0, <3>1 DEF Hinted
  <2>5. Hinted \subseteq 1..Len(events) /\ Hinted' \subseteq Nat \ {0}
    BY <1>0, <2>2 DEF Hinted
  <2>6. SUFFICES ASSUME boot # "config", announced PROVE SharedCatchesUp'
    BY <2>1 DEF SharedCatchesUp
  <2>7. CASE Hinted = {}
    <3>1. Hinted' = {}
      BY <2>4, <2>7
    <3>2. Head(events) = Vsync
      BY <1>0, <2>2, <2>7 DEF Hinted
    <3> QED
      BY <1>0, <2>1, <2>6, <2>7, <3>1, <3>2 DEF SharedCatchesUp
  <2>8. ASSUME NEW i \in Hinted, events[i] = pref, \A j \in Hinted : j <= i PROVE SharedCatchesUp'
    <3>1. CASE i = 1
      <4>1. Hinted' = {}
        BY <2>4, <2>5, <2>8, <3>1
      <4>2. Head(events) = pref /\ Head(events) # Vsync
        BY <2>2, <2>8, <3>1 DEF Hinted
      <4> QED
        BY <2>1, <4>1, <4>2 DEF SharedCatchesUp
    <3>2. CASE i # 1
      <4> DEFINE k == i - 1
      <4>1. k \in Hinted' /\ events'[k] = pref'
        BY <2>1, <2>3, <2>8, <3>2
      <4>2. \A j \in Hinted' : j <= k
        BY <2>4, <2>5, <2>8
      <4> HIDE DEF k
      <4> QED
        BY <4>1, <4>2 DEF SharedCatchesUp
    <3> QED
      BY <3>1, <3>2
  <2> QED
    BY <1>0, <2>6, <2>7, <2>8 DEF SharedCatchesUp
<1>9. CASE StoreWidth
  BY <1>0, <1>9 DEF StoreWidth, SharedCatchesUp, Hinted, windowVars, queueVars
<1>10. CASE StoreHeight
  <2>1. /\ callback = "height" /\ callback' = "count" /\ shared' = <<shared[1], event[2]>>
        /\ UNCHANGED <<boot, announced, events, pref, event>>
    BY <1>10 DEF StoreHeight, windowVars, queueVars
  <2>2. shared' = event
    <3>1. event \in Seen /\ shared[1] = event[1]
      BY <1>0, <2>1, SeenIs DEF Storing
    <3>2. event = <<event[1], event[2]>>
      BY <3>1, SeenIs
    <3> QED
      BY <2>1, <3>1, <3>2
  <2> QED
    BY <1>0, <2>1, <2>2 DEF SharedCatchesUp, Hinted
<1>11. CASE CountWaiters \/ Release
  <2>1. /\ callback \in {"count", "release"} /\ callback' \in {"release", "none"}
        /\ UNCHANGED <<boot, announced, events, pref, shared>>
    BY <1>11 DEF CountWaiters, Release, Repost, windowVars
  <2> QED
    BY <1>0, <2>1 DEF SharedCatchesUp, Hinted
<1>12. CASE AgentStep
  <2>1. UNCHANGED <<windowVars, queueVars, eventVars>>
    BY <1>12 DEF AgentStep, CompareWidth, CompareHeight, Acquire, TimesOut, Interrupted, CopyWidth, CopyHeight,
       IdleReturns, SettleReturns, SwitchTo, SwitchFails
  <2> QED
    BY <1>1, <2>1 DEF windowVars, queueVars, eventVars
<1>13. CASE UNCHANGED hintVars
  BY <1>1, <1>13 DEF hintVars, windowVars, queueVars, eventVars
<1> QED
  BY <1>2, <1>3, <1>4, <1>5, <1>6, <1>7, <1>8, <1>9, <1>10, <1>11, <1>12, <1>13
     DEF HintNext, DriverStarts, CallbackStep

-----------------------------------------------------------------------------
\* The invariant is an invariant: whatever the order of resizes, ticks, interrupts
\* and waits, no event buffer is lost and no hint is stored out of order.
LEMMA HintInvariance == HintSpec => []HintIInv
<1>1. HintIInv /\ [HintNext]_hintVars => HintIInv'
  BY StepTypes, StepRest, StepShared DEF HintIInv
<1> QED
  BY HintInitIInv, <1>1, PTL DEF HintSpec

\* Every variable keeps to its type: no event buffer is lost or posted twice, and
\* the semaphore never holds more than one permit, so at most one wait of the
\* agent's ends before its time.
THEOREM HintTypeCorrect == HintSpec => []HintTypeOK
<1>1. HintIInv => HintTypeOK
  BY DEF HintIInv
<1> QED
  BY HintInvariance, <1>1, PTL

\* Once the hints on their way are stored, the driver shows the size the host
\* announced last, and never half of it for longer than the callback takes.
THEOREM DriverCatchesUp == HintSpec => []SharedCatchesUp
<1>1. HintIInv => SharedCatchesUp
  BY DEF HintIInv
<1> QED
  BY HintInvariance, <1>1, PTL
=============================================================================
