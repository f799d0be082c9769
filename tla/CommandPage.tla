---------------------------- MODULE CommandPage ----------------------------
(***************************************************************************)
(* The command channel of the prose_display driver (the prose_chip driver  *)
(* has the same one) and the host device behind it.                        *)
(*                                                                         *)
(* A driver has ONE command page: the first half is the request the host   *)
(* reads, the second the answer it writes.  A caller holds the command     *)
(* lock, writes the page, puts it on the control ring and waits on a       *)
(* semaphore for at most five seconds; a command whose caller gave up      *)
(* stays the device's (`outstanding`) and the next caller collects it      *)
(* first.  The semaphore is released by the queue's interrupt callback,    *)
(* which the virtio bus runs for every interrupt of the device, whether or *)
(* not it was this queue that completed something.                         *)
(*                                                                         *)
(* Bounds: MaxCommands calls are made in all and stray callbacks stop      *)
(* piling up at MaxPermits.                                                *)
(***************************************************************************)
EXTENDS Naturals

CONSTANTS
  Callers,      \* threads inside the driver's ioctls
  NoCaller,     \* "the command lock is free"
  MaxCommands,  \* how many calls are made
  MaxPermits    \* how many stray callbacks pile up on the semaphore

ASSUME CallersAssumption == NoCaller \notin Callers
ASSUME BoundsAssumption == MaxCommands \in Nat /\ MaxPermits \in Nat

VARIABLES
  \* the driver
  pc,           \* [Callers -> Places], where each caller is
  lock,         \* info->command_lock: its holder
  calls,        \* calls made so far (the bound)
  mySeq,        \* [Callers -> Nat]: hdr->seq of the caller's request
  seq,          \* info->seq
  outstanding,  \* info->command_outstanding
  permits,      \* the count of info->command_done
  told,         \* [Callers -> {"nothing", "ok", "failed"}]: the status returned
  \* the command page
  request,      \* the sequence number in the request half
  answer,       \* the answer half: [seq, type]
  \* the control ring: every descriptor points at the one page
  avail,        \* commands the device has not taken
  used,         \* commands the device has put back
  \* the host
  hostHas,      \* the request the host read and is carrying out, or 0
  irq,          \* an interrupt the guest has not yet handled
  \* history
  queued,       \* sequence numbers put on the ring
  accepted,     \* sequence numbers carried out and answered OK
  rejected      \* sequence numbers carried out and answered with an error

driverVars == <<lock, calls, mySeq, seq, outstanding, told>>
pageVars   == <<request, answer>>
ringVars   == <<avail, used>>
hostVars   == <<hostHas, irq>>
histVars   == <<queued, accepted, rejected>>
vars == <<pc, driverVars, permits, pageVars, ringVars, hostVars, histVars>>

Places == {"idle",                 \* not in prds_command()
           "lock",                 \* waiting for command_lock
           "waitOld", "drainOld",  \* prds_collect() of a command that timed out
           "write",                \* about to write the page
           "waitOwn", "drainOwn",  \* prds_collect() of the caller's own command
           "check"}                \* about to read the answer

Blank == [seq |-> 0, type |-> "none"]

Init ==
  /\ pc = [c \in Callers |-> "idle"]
  /\ lock = NoCaller
  /\ calls = 0
  /\ mySeq = [c \in Callers |-> 0]
  /\ seq = 0
  /\ outstanding = FALSE
  /\ permits = 0
  /\ told = [c \in Callers |-> "nothing"]
  /\ request = 0
  /\ answer = Blank
  /\ avail = 0
  /\ used = 0
  /\ hostHas = 0
  /\ irq = FALSE
  /\ queued = {}
  /\ accepted = {}
  /\ rejected = {}

Goto(c, place) == pc' = [pc EXCEPT ![c] = place]

\* prds_command() returns: the lock goes with the MutexLocker.
Return(c, status) ==
  /\ Goto(c, "idle")
  /\ lock' = NoCaller
  /\ told' = [told EXCEPT ![c] = status]

-----------------------------------------------------------------------------
(* The driver.                                                             *)

Call(c) ==
  /\ pc[c] = "idle"
  /\ calls < MaxCommands
  /\ calls' = calls + 1
  /\ Goto(c, "lock")
  /\ told' = [told EXCEPT ![c] = "nothing"]
  /\ UNCHANGED <<lock, mySeq, seq, outstanding, permits>>
  /\ UNCHANGED <<pageVars, ringVars, hostVars, histVars>>

\* Mutant: the driver before patch 0127 did not know of outstanding commands.
EnterRegardless(c) ==
  /\ pc[c] = "lock"
  /\ lock = NoCaller
  /\ lock' = c
  /\ Goto(c, "write")
  /\ UNCHANGED <<calls, mySeq, seq, outstanding, told, permits>>
  /\ UNCHANGED <<pageVars, ringVars, hostVars, histVars>>

\* Mutant: stale permits are thrown away before waiting for the old command.
EnterDrainingPermits(c) ==
  /\ pc[c] = "lock"
  /\ lock = NoCaller
  /\ lock' = c
  /\ Goto(c, IF outstanding THEN "waitOld" ELSE "write")
  /\ permits' = 0
  /\ UNCHANGED <<calls, mySeq, seq, outstanding, told>>
  /\ UNCHANGED <<pageVars, ringVars, hostVars, histVars>>

Enter(c) ==
  /\ pc[c] = "lock"
  /\ lock = NoCaller
  /\ lock' = c
  /\ Goto(c, IF outstanding THEN "waitOld" ELSE "write")
  /\ UNCHANGED <<calls, mySeq, seq, outstanding, told, permits>>
  /\ UNCHANGED <<pageVars, ringVars, hostVars, histVars>>

\* acquire_sem_etc() gets a permit: whatever was completed is on the used
\* ring, the driver believes.
Signalled(c) ==
  /\ permits > 0
  /\ permits' = permits - 1
  /\ \/ pc[c] = "waitOld" /\ Goto(c, "drainOld")
     \/ pc[c] = "waitOwn" /\ Goto(c, "drainOwn")
  /\ UNCHANGED <<driverVars, pageVars, ringVars, hostVars, histVars>>

\* acquire_sem_etc() times out: B_BUSY for an old command, B_TIMED_OUT for the
\* caller's own, and in both cases the page stays the device's.
TimedOut(c) ==
  /\ pc[c] \in {"waitOld", "waitOwn"}
  /\ permits = 0
  /\ Return(c, "failed")
  /\ UNCHANGED <<calls, mySeq, seq, outstanding, permits>>
  /\ UNCHANGED <<pageVars, ringVars, hostVars, histVars>>

\* Mutant: the result of queue_dequeue() is not looked at.
CollectedUnchecked(c) ==
  /\ used' = used - 1
  /\ outstanding' = FALSE
  /\ \/ pc[c] = "drainOld" /\ Goto(c, "write")
     \/ pc[c] = "drainOwn" /\ Goto(c, "check")
  /\ UNCHANGED <<lock, calls, mySeq, seq, told, permits, avail>>
  /\ UNCHANGED <<pageVars, hostVars, histVars>>

\* queue_dequeue() succeeds.
Collected(c) ==
  /\ used > 0
  /\ used' = used - 1
  /\ outstanding' = FALSE
  /\ \/ pc[c] = "drainOld" /\ Goto(c, "write")
     \/ pc[c] = "drainOwn" /\ Goto(c, "check")
  /\ UNCHANGED <<lock, calls, mySeq, seq, told, permits, avail>>
  /\ UNCHANGED <<pageVars, hostVars, histVars>>

\* Mutant: the driver before patch 0127 spun until queue_dequeue() succeeded.
SpinForEver(c) == FALSE /\ UNCHANGED vars

\* Mutant: giving up on the used ring forgets that the device has the page.
ForgetsOnGivingUp(c) ==
  /\ pc[c] \in {"drainOld", "drainOwn"}
  /\ used = 0
  /\ outstanding' = FALSE
  /\ Return(c, "failed")
  /\ UNCHANGED <<calls, mySeq, seq, permits>>
  /\ UNCHANGED <<pageVars, ringVars, hostVars, histVars>>

\* kDequeueAttempts attempts over ten milliseconds found the used ring empty.
NotOnUsedRing(c) ==
  /\ pc[c] \in {"drainOld", "drainOwn"}
  /\ used = 0
  /\ Return(c, "failed")
  /\ UNCHANGED <<calls, mySeq, seq, outstanding, permits>>
  /\ UNCHANGED <<pageVars, ringVars, hostVars, histVars>>

\* The request is copied to the page, the answer half cleared, and the page
\* put on the control ring, which makes it the device's.
WriteAndQueue(c) ==
  /\ pc[c] = "write"
  /\ seq' = seq + 1
  /\ mySeq' = [mySeq EXCEPT ![c] = seq + 1]
  /\ request' = seq + 1
  /\ answer' = Blank
  /\ avail' = avail + 1
  /\ outstanding' = TRUE
  /\ queued' = queued \cup {seq + 1}
  /\ Goto(c, "waitOwn")
  /\ UNCHANGED <<lock, calls, told, permits, used, hostVars, accepted, rejected>>

\* The same, but queue_request_v() fails: the page is written and never sent.
QueueFails(c) ==
  /\ pc[c] = "write"
  /\ seq' = seq + 1
  /\ mySeq' = [mySeq EXCEPT ![c] = seq + 1]
  /\ request' = seq + 1
  /\ answer' = Blank
  /\ Return(c, "failed")
  /\ UNCHANGED <<calls, outstanding, permits, ringVars, hostVars, histVars>>

\* The answer is looked at on the page before anything is copied out.
Check(c) ==
  /\ pc[c] = "check"
  /\ Return(c, IF answer.seq = mySeq[c] /\ answer.type = "OK"
               THEN "ok" ELSE "failed")
  /\ UNCHANGED <<calls, mySeq, seq, outstanding, permits>>
  /\ UNCHANGED <<pageVars, ringVars, hostVars, histVars>>

-----------------------------------------------------------------------------
(* The host and the interrupt.                                             *)

\* handle(): nextElement() and readBytes(), on the device's serial queue.
HostTakes ==
  /\ avail > 0
  /\ hostHas = 0
  /\ avail' = avail - 1
  /\ hostHas' = request
  /\ UNCHANGED <<pc, driverVars, permits, pageVars, used, irq, histVars>>

\* The command is carried out, the answer written with the request's own
\* sequence number, and the element returned, which interrupts the guest.
HostAnswers ==
  /\ hostHas # 0
  /\ \E type \in {"OK", "ERR"} :
       /\ answer' = [seq |-> hostHas, type |-> type]
       /\ accepted' = IF type = "OK" THEN accepted \cup {hostHas} ELSE accepted
       /\ rejected' = IF type = "ERR" THEN rejected \cup {hostHas} ELSE rejected
  /\ used' = used + 1
  /\ hostHas' = 0
  /\ irq' = TRUE
  /\ UNCHANGED <<pc, driverVars, permits, request, avail, queued>>

\* prds_control_callback(), run for the completion of a command.
Interrupt ==
  /\ irq
  /\ irq' = FALSE
  /\ permits' = permits + 1
  /\ UNCHANGED <<pc, driverVars, pageVars, ringVars, hostHas, histVars>>

\* prds_control_callback(), run because the event queue interrupted (a vsync,
\* a mode hint), or for another round of VirtioQueue::Interrupt().
StrayCallback ==
  /\ permits < MaxPermits
  /\ permits' = permits + 1
  /\ UNCHANGED <<pc, driverVars, pageVars, ringVars, hostVars, histVars>>

-----------------------------------------------------------------------------
CallerStep(c) ==
  \/ Enter(c) \/ Signalled(c) \/ TimedOut(c) \/ Collected(c)
  \/ NotOnUsedRing(c) \/ WriteAndQueue(c) \/ QueueFails(c) \/ Check(c)

HostStep == HostTakes \/ HostAnswers \/ Interrupt

Next ==
  \/ \E c \in Callers : Call(c) \/ CallerStep(c)
  \/ HostStep
  \/ StrayCallback

Spec == Init /\ [][Next]_vars

(***************************************************************************)
(* The kernel runs the threads and serves the mutex in order, so a caller  *)
(* is not passed over for ever.  Nothing is assumed of the host here.      *)
(***************************************************************************)
CallersRun ==
  \A c \in Callers : WF_vars(CallerStep(c)) /\ SF_vars(Enter(c))

LiveSpec == Spec /\ CallersRun

\* The host serves its queue and its interrupts arrive.
HostRuns == WF_vars(HostStep)

-----------------------------------------------------------------------------
(* Properties.                                                             *)

\* Every variable holds a value of its type.
TypeOK ==
  /\ pc \in [Callers -> Places]
  /\ lock \in Callers \cup {NoCaller}
  /\ calls \in Nat
  /\ mySeq \in [Callers -> Nat]
  /\ seq \in Nat
  /\ outstanding \in BOOLEAN
  /\ permits \in Nat
  /\ told \in [Callers -> {"nothing", "ok", "failed"}]
  /\ request \in Nat
  /\ answer \in [seq : Nat, type : {"none", "OK", "ERR"}]
  /\ avail \in Nat
  /\ used \in Nat
  /\ hostHas \in Nat
  /\ irq \in BOOLEAN
  /\ queued \in SUBSET Nat
  /\ accepted \in SUBSET Nat
  /\ rejected \in SUBSET Nat

\* What the host carries out is a command some caller queued, and never one it
\* has carried out before.  The host reads the page when it gets to it, so this
\* rests on nobody writing the page of a command that timed out.
RunsOnceAsQueued ==
  hostHas # 0 => hostHas \in queued \ (accepted \cup rejected)

\* When a caller comes to read the page, the answer on it is the answer to its
\* own command: the comparison of sequence numbers in prds_command() guards
\* against a broken host, and no order of timeouts and late completions needs it.
AnswerIsMine == \A c \in Callers : pc[c] = "check" => answer.seq = mySeq[c]

\* There is never more than one command in flight, wherever it is: the driver's
\* `outstanding` says exactly whether one is on the control ring, with the host,
\* or on the used ring with its own answer on the page.
OneInFlight ==
  \/ ~outstanding /\ avail = 0 /\ hostHas = 0 /\ used = 0
  \/ outstanding /\ avail = 1 /\ hostHas = 0 /\ used = 0
  \/ outstanding /\ avail = 0 /\ hostHas = request /\ hostHas # 0 /\ used = 0
  \/ outstanding /\ avail = 0 /\ hostHas = 0 /\ used = 1 /\ answer.seq = request

\* A completed command that nobody has collected can still be noticed: an
\* interrupt is on its way, a permit is there, or a caller already has one and
\* is about to look at the ring.
SignalNotLost ==
  used > 0 =>
    \/ irq
    \/ permits > 0
    \/ \E c \in Callers : pc[c] \in {"drainOld", "drainOwn"}

\* The request half of the page never changes while the device may read it.
PageQuietWhileTheirs ==
  [][avail > 0 \/ hostHas # 0 => request' = request]_vars

\* A call comes back whatever the host does, a dead host included.
CallReturns == \A c \in Callers : pc[c] # "idle" ~> pc[c] = "idle"

\* With a host that serves its queue, a command that timed out does not hold
\* the channel for ever: it is collected, or it lies on the used ring with a
\* signal that the next caller will find.
ChannelRecovers ==
  HostRuns => (outstanding ~> (~outstanding \/ (used > 0 /\ permits > 0)))

\* The comment in prds_collect(): "The completion is signalled once the device
\* has put the command on the used ring, so it is there to take."
SignalMeansCompleted ==
  \A c \in Callers : pc[c] \in {"drainOld", "drainOwn"} => used > 0

(***************************************************************************)
(* The inductive invariant: type correctness, the lock, the single command *)
(* in flight, what each place of a caller knows, and the histories.        *)
(***************************************************************************)

\* Only the holder of the command lock is past Enter.
LockHeld == \A c \in Callers : pc[c] \notin {"idle", "lock"} <=> lock = c

\* What a caller knows of the channel at each place.
PlaceKnows ==
  \A c \in Callers :
    /\ pc[c] \in {"waitOld", "drainOld"} => outstanding
    /\ pc[c] = "write" => ~outstanding
    /\ pc[c] \in {"waitOwn", "drainOwn"} => outstanding /\ mySeq[c] = seq
    /\ pc[c] = "check" =>
         /\ ~outstanding
         /\ mySeq[c] = seq
         /\ answer.seq = seq
         /\ answer.type = "OK" => seq \in accepted

\* The histories agree with the rings: a command not yet answered has not been
\* carried out, and numbers are given out in order.
HistoryAgrees ==
  /\ request = seq
  /\ accepted \cup rejected \subseteq queued
  /\ queued \subseteq 1..seq
  /\ outstanding => seq \in queued
  /\ outstanding /\ used = 0 => seq \notin accepted \cup rejected
  /\ used > 0 /\ answer.type = "OK" => seq \in accepted
  /\ used > 0 => seq \in accepted \cup rejected

IInv ==
  TypeOK /\ LockHeld /\ OneInFlight /\ PlaceKnows /\ HistoryAgrees /\ SignalNotLost

(***************************************************************************)
(* The channel implements CommandRpc.                                      *)
(***************************************************************************)
Rpc == INSTANCE CommandRpc WITH
  NoCommand <- 0,
  phase  <- [c \in Callers |->
              IF pc[c] = "idle" THEN "idle"
              ELSE IF pc[c] \in {"waitOwn", "drainOwn", "check"} THEN "issued"
              ELSE "calling"],
  number <- mySeq,
  last   <- seq,
  held   <- IF outstanding THEN request ELSE 0,
  accepted <- accepted,
  rejected <- rejected,
  told   <- told

\* Every step of the driver, the host and the interrupt is a step of the
\* abstract channel, or none.
ImplementsRpc == Rpc!Spec
=============================================================================
