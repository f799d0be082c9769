------------------------------- MODULE Portal -------------------------------
(***************************************************************************)
(* The Prose Portal: requests from the Mac to the guest and their replies. *)
(*                                                                         *)
(* The host device (a serial queue) numbers a request, arms its timer and  *)
(* puts it in a buffer the guest has posted, or keeps it waiting for one.  *)
(* The driver's interrupt callback moves filled buffers to a FIFO, read()  *)
(* takes the oldest, copies it and posts the buffer again.  The daemon     *)
(* answers small requests from its read loop and runs each command on a    *)
(* thread of its own; a command's result may take several frames, written  *)
(* under one lock.  The guest may go down and come up, the daemon may die. *)
(*                                                                         *)
(* Frames are records; the text of a command and its output are left out,  *)
(* a result being as many parts as frames carry it.                        *)
(*                                                                         *)
(* Bounds: MaxRequests requests, MaxParts frames in a result, MaxFalls     *)
(* times that the guest goes down or its daemon dies.  The 32-bit request  *)
(* number, which skips 0 when it wraps, is not taken as far as wrapping.   *)
(***************************************************************************)
EXTENDS Naturals, SequencesExt

CONSTANTS MaxRequests, BufferCount, MaxParts, MaxFalls

ASSUME PortalAssumption ==
  /\ MaxRequests \in Nat /\ MaxFalls \in Nat
  /\ BufferCount \in Nat \ {0} /\ MaxParts \in Nat \ {0}

Ids == 1..MaxRequests
Buffers == 1..BufferCount

VARIABLES
  \* the host
  nextID,      \* the next request's number
  kind,        \* [Ids -> {"none", "ping", "run"}]: what was asked
  pending,     \* the requests with a completion to call
  body,        \* [Ids -> Seq(1..MaxParts)]: the parts of a result, as they came
  total,       \* [Ids -> 0..MaxParts]: how many there are; 0 before the RESULT
  told,        \* [Ids -> outcome]: what the completion was called with
  waiting,     \* requests with no buffer to go in
  elements,    \* requestElements: the guest's buffers the host holds
  heard,       \* alive: the daemon has said hello since the last reset
  \* request buffers, host to guest
  content,     \* [Buffers -> Ids \cup {0}]
  rxPosted,    \* posted by the driver, not yet taken by the host
  rxUsed,      \* filled by the host, not yet seen by the driver
  rxFifo,      \* rxIndex: seen, not yet read
  rxIrq,       \* the host returned a buffer and the callback has not run
  \* reply buffers, guest to host
  txFree,      \* how many are free
  txRing,      \* frames the host has not taken
  txUsed,      \* buffers the host gave back, not yet seen by the driver
  txIrq,
  \* the guest
  guest,       \* "down", "reset" (no driver yet) or "up"
  reader,      \* the daemon's read loop
  mine,        \* the buffer read() has taken
  current,     \* the request the loop is dealing with
  reply,       \* the frame type the loop is to send
  job,         \* [Ids -> {"none", "running", "over"}]: a command's thread
  writer,      \* the job holding sWriteLock, or 0
  part,        \* the part it writes next
  parts,       \* how many parts its result has
  handled,     \* requests the daemon dealt with, in order
  falls

hostVars  == <<nextID, kind, pending, body, total, told, waiting, elements, heard>>
askVars   == <<nextID, kind>>
replyVars == <<pending, body, total, told, heard>>
rxVars    == <<content, rxPosted, rxUsed, rxFifo, rxIrq>>
txVars    == <<txFree, txRing, txUsed, txIrq>>
loopVars  == <<reader, mine, current, reply, handled>>
jobVars   == <<job, writer, part, parts>>
vars == <<hostVars, rxVars, txVars, guest, loopVars, jobVars, falls>>

Init ==
  /\ nextID = 1
  /\ kind = [id \in Ids |-> "none"]
  /\ pending = {}
  /\ body = [id \in Ids |-> <<>>]
  /\ total = [id \in Ids |-> 0]
  /\ told = [id \in Ids |-> "nothing"]
  /\ waiting = <<>>
  /\ elements = <<>>
  /\ heard = FALSE
  /\ content = [b \in Buffers |-> 0]
  /\ rxPosted = <<>> /\ rxUsed = <<>> /\ rxFifo = <<>> /\ rxIrq = FALSE
  /\ txFree = 0 /\ txRing = <<>> /\ txUsed = 0 /\ txIrq = FALSE
  /\ guest = "reset"
  /\ reader = "gone" /\ mine = 0 /\ current = 0 /\ reply = "none"
  /\ job = [id \in Ids |-> "none"]
  /\ writer = 0 /\ part = 0 /\ parts = 0
  /\ handled = <<>>
  /\ falls = 0

-----------------------------------------------------------------------------
(* The host.                                                               *)

\* Mutant: the newest waiting request is sent first.
FlushNewest(queue, buffers) ==
  LET n == Min({Len(queue), Len(buffers)})
      Filled(b) == {i \in 1..n : buffers[i] = b}
  IN /\ waiting' = SubSeq(queue, 1, Len(queue) - n)
     /\ elements' = SubSeq(buffers, n + 1, Len(buffers))
     /\ content' = [b \in Buffers |->
          IF Filled(b) = {} THEN content[b] ELSE queue[Len(queue) - Max(Filled(b)) + 1]]
     /\ rxUsed' = rxUsed \o SubSeq(buffers, 1, n)
     /\ rxIrq' = (rxIrq \/ n > 0)

\* flushRequests(): the oldest requests go into the oldest buffers.
Flush(queue, buffers) ==
  LET n == Min({Len(queue), Len(buffers)})
      Filled(b) == {i \in 1..n : buffers[i] = b}
  IN /\ waiting' = SubSeq(queue, n + 1, Len(queue))
     /\ elements' = SubSeq(buffers, n + 1, Len(buffers))
     /\ content' = [b \in Buffers |->
          IF Filled(b) = {} THEN content[b] ELSE queue[Max(Filled(b))]]
     /\ rxUsed' = rxUsed \o SubSeq(buffers, 1, n)
     /\ rxIrq' = (rxIrq \/ n > 0)

\* send(), past the guards: the guest has said hello and the request fits.
Send(what) ==
  /\ heard
  /\ nextID \in Ids
  /\ nextID' = nextID + 1
  /\ kind' = [kind EXCEPT ![nextID] = what]
  /\ pending' = pending \cup {nextID}
  /\ Flush(Append(waiting, nextID), elements)
  /\ UNCHANGED <<body, total, told, heard, rxPosted, rxFifo, txVars>>
  /\ UNCHANGED <<guest, loopVars, jobVars, falls>>

\* didReceiveNotificationFor the request queue.
TakeBuffers ==
  /\ rxPosted # <<>>
  /\ rxPosted' = <<>>
  /\ Flush(waiting, elements \o rxPosted)
  /\ UNCHANGED <<askVars, replyVars, rxFifo, txVars, guest, loopVars, jobVars, falls>>

Complete(id, outcome) ==
  /\ pending' = pending \ {id}
  /\ told' = [told EXCEPT ![id] = outcome]

\* Mutant: the timer does not look whether the request is still pending.
ExpireRegardless(id) ==
  /\ id < nextID
  /\ told[id] # "timedOut"
  /\ Complete(id, "timedOut")
  /\ UNCHANGED <<askVars, body, total, waiting, elements, heard>>
  /\ UNCHANGED <<rxVars, txVars, guest, loopVars, jobVars, falls>>

\* The request's timer.  A frame still waiting for a buffer stays waiting.
Expire(id) ==
  /\ id \in pending
  /\ Complete(id, "timedOut")
  /\ UNCHANGED <<askVars, body, total, waiting, elements, heard>>
  /\ UNCHANGED <<rxVars, txVars, guest, loopVars, jobVars, falls>>

\* A part of a result arrives and completes the request if it is the last.
Assemble(frame) ==
  LET id == frame.id
      length == IF frame.type = "result" THEN frame.of ELSE total[id]
  IN /\ body' = [body EXCEPT ![id] = Append(@, frame.part)]
     /\ total' = [total EXCEPT ![id] = length]
     /\ IF Len(body[id]) + 1 >= length
        THEN Complete(id, "success")
        ELSE UNCHANGED <<pending, told>>

\* What handle() does with a frame.
Handle(frame) ==
  \/ /\ frame.type = "hello"
     /\ heard' = TRUE
     /\ UNCHANGED <<pending, body, total, told>>
  \/ /\ frame.type # "hello"
     /\ frame.id \notin pending               \* the request timed out
     /\ UNCHANGED replyVars
  \/ /\ frame.type # "hello"
     /\ frame.id \in pending
     /\ UNCHANGED heard
     /\ \/ frame.type = "pong" /\ Complete(frame.id, "success") /\ UNCHANGED <<body, total>>
        \/ frame.type = "error" /\ Complete(frame.id, "guestError") /\ UNCHANGED <<body, total>>
        \/ /\ frame.type = "result" \/ (frame.type = "more" /\ total[frame.id] > 0)
           /\ Assemble(frame)
        \/ /\ frame.type = "more" /\ total[frame.id] = 0
           /\ Complete(frame.id, "malformed")
           /\ UNCHANGED <<body, total>>

\* didReceiveNotificationFor the reply queue, a frame at a time.
TakeFrame ==
  /\ txRing # <<>>
  /\ Handle(Head(txRing))
  /\ txRing' = Tail(txRing)
  /\ txUsed' = txUsed + 1
  /\ txIrq' = TRUE
  /\ UNCHANGED <<askVars, waiting, elements, rxVars, txFree, guest, loopVars, jobVars, falls>>

-----------------------------------------------------------------------------
(* The driver.                                                             *)

\* prpt_rx_callback() empties the used ring.
RxCallback ==
  /\ guest = "up"
  /\ rxIrq
  /\ rxIrq' = FALSE
  /\ rxFifo' = rxFifo \o rxUsed
  /\ rxUsed' = <<>>
  /\ UNCHANGED <<hostVars, content, rxPosted, txVars, guest, loopVars, jobVars, falls>>

\* prpt_tx_callback() frees every buffer on the used ring.
TxCallback ==
  /\ guest = "up"
  /\ txIrq
  /\ txIrq' = FALSE
  /\ txFree' = txFree + txUsed
  /\ txUsed' = 0
  /\ UNCHANGED <<hostVars, rxVars, txRing, guest, loopVars, jobVars, falls>>

\* prpt_read(): the oldest buffer comes off the FIFO.
ReadTakes ==
  /\ reader = "read"
  /\ rxFifo # <<>>
  /\ mine' = Head(rxFifo)
  /\ rxFifo' = Tail(rxFifo)
  /\ reader' = "copy"
  /\ UNCHANGED <<hostVars, content, rxPosted, rxUsed, rxIrq, txVars, guest>>
  /\ UNCHANGED <<current, reply, handled, jobVars, falls>>

\* Mutant: the buffer is never posted again.
ReadCopiesOnly ==
  /\ reader = "copy"
  /\ current' = content[mine]
  /\ mine' = 0
  /\ reader' = "handle"
  /\ UNCHANGED <<hostVars, rxVars, txVars, guest>>
  /\ UNCHANGED <<reply, handled, jobVars, falls>>

\* It is copied out, and the host may fill it again.
ReadCopies ==
  /\ reader = "copy"
  /\ current' = content[mine]
  /\ rxPosted' = Append(rxPosted, mine)
  /\ mine' = 0
  /\ reader' = "handle"
  /\ UNCHANGED <<hostVars, content, rxUsed, rxFifo, rxIrq, txVars, guest>>
  /\ UNCHANGED <<reply, handled, jobVars, falls>>

\* prpt_write(): a free buffer is filled and queued for the host.
Write(frame) ==
  /\ txFree > 0
  /\ txFree' = txFree - 1
  /\ txRing' = Append(txRing, frame)
  /\ UNCHANGED <<txUsed, txIrq>>

Frame(type, id) == [type |-> type, id |-> id, part |-> 0, of |-> 0]

-----------------------------------------------------------------------------
(* The daemon's read loop.                                                 *)

\* handle(): a ping or an info is answered from the loop, a command gets a
\* thread, or an error if there is no memory or no thread for it.
Deal ==
  /\ reader = "handle"
  /\ handled' = Append(handled, current)
  /\ \/ /\ kind[current] = "ping"
        /\ reader' = "reply" /\ reply' = "pong"
        /\ UNCHANGED <<current, job>>
     \/ /\ kind[current] = "run"
        /\ reader' = "reply" /\ reply' = "error"
        /\ UNCHANGED <<current, job>>
     \/ /\ kind[current] = "run"
        /\ job' = [job EXCEPT ![current] = "running"]
        /\ reader' = "read" /\ current' = 0
        /\ UNCHANGED reply
  /\ UNCHANGED <<hostVars, rxVars, txVars, guest, mine, writer, part, parts, falls>>

\* send_frame() under sWriteLock, and back to read(); the first frame of all
\* is the HELLO.
Reply ==
  /\ reader = "reply"
  /\ writer = 0
  /\ Write(Frame(reply, current))
  /\ reader' = "read" /\ current' = 0 /\ reply' = "none"
  /\ UNCHANGED <<hostVars, rxVars, guest, mine, handled, jobVars, falls>>

\* The write failed, or there was no memory for the frame (before the lock).
ReplyFails ==
  /\ reader = "reply"
  /\ reader' = "read" /\ current' = 0 /\ reply' = "none"
  /\ UNCHANGED <<hostVars, rxVars, txVars, guest, mine, handled, jobVars, falls>>

-----------------------------------------------------------------------------
(* A command's thread.                                                     *)

\* The command ends and send_result() takes the lock.
ResultBegins(id) ==
  /\ job[id] = "running"
  /\ writer = 0
  /\ \E n \in 1..MaxParts : parts' = n
  /\ writer' = id
  /\ part' = 1
  /\ UNCHANGED <<hostVars, rxVars, txVars, guest, loopVars, job, falls>>

\* There is no memory for the frame, before the lock is taken: the thread ends
\* and nothing is sent.
ResultLost(id) ==
  /\ job[id] = "running"
  /\ writer # id
  /\ job' = [job EXCEPT ![id] = "over"]
  /\ UNCHANGED <<hostVars, rxVars, txVars, guest, loopVars, writer, part, parts, falls>>

\* popen() failed: an ERROR frame instead.
RunFails(id) ==
  /\ job[id] = "running"
  /\ writer = 0
  /\ Write(Frame("error", id))
  /\ job' = [job EXCEPT ![id] = "over"]
  /\ UNCHANGED <<hostVars, rxVars, guest, loopVars, writer, part, parts, falls>>

ResultEnds ==
  /\ job' = [job EXCEPT ![writer] = "over"]
  /\ writer' = 0 /\ part' = 0 /\ parts' = 0

\* Mutant: one frame too many.
WritePartTooMany ==
  /\ writer # 0
  /\ Write([type |-> IF part = 1 THEN "result" ELSE "more", id |-> writer,
            part |-> part, of |-> IF part = 1 THEN parts ELSE 0])
  /\ IF part <= parts
     THEN part' = part + 1 /\ UNCHANGED <<job, writer, parts>>
     ELSE ResultEnds
  /\ UNCHANGED <<hostVars, rxVars, guest, loopVars, falls>>

\* A RESULT frame, then RESULT_MORE frames, without letting go of the lock.
WritePart ==
  /\ writer # 0
  /\ Write([type |-> IF part = 1 THEN "result" ELSE "more", id |-> writer,
            part |-> part, of |-> IF part = 1 THEN parts ELSE 0])
  /\ IF part < parts
     THEN part' = part + 1 /\ UNCHANGED <<job, writer, parts>>
     ELSE ResultEnds
  /\ UNCHANGED <<hostVars, rxVars, guest, loopVars, falls>>

\* Mutant: a frame that could not be written is passed over.
WriteFailsGoesOn ==
  /\ writer # 0
  /\ IF part < parts
     THEN part' = part + 1 /\ UNCHANGED <<job, writer, parts>>
     ELSE ResultEnds
  /\ UNCHANGED <<hostVars, rxVars, txVars, guest, loopVars, falls>>

\* A write failed: the rest of the result is not sent.
WriteFails ==
  /\ writer # 0
  /\ ResultEnds
  /\ UNCHANGED <<hostVars, rxVars, txVars, guest, loopVars, falls>>

-----------------------------------------------------------------------------
(* Falling over and getting up.                                            *)

Killed == [id \in Ids |-> IF job[id] = "running" THEN "over" ELSE job[id]]

\* The daemon dies, between system calls, and its threads with it.
DaemonDies ==
  /\ falls < MaxFalls
  /\ falls' = falls + 1
  /\ reader \in {"read", "handle", "reply"}
  /\ reader' = "gone"
  /\ current' = 0 /\ reply' = "none"
  /\ job' = Killed
  /\ writer' = 0 /\ part' = 0 /\ parts' = 0
  /\ UNCHANGED <<hostVars, rxVars, txVars, guest, mine, handled>>

\* launch_daemon starts the service; it opens the device and says hello.
DaemonStarts ==
  /\ guest = "up"
  /\ reader = "gone"
  /\ reader' = "reply" /\ reply' = "hello"
  /\ UNCHANGED <<hostVars, rxVars, txVars, guest, mine, current, handled, jobVars, falls>>

\* The guest stops: nothing of it runs, the frames it sent may still be taken.
GuestFalls ==
  /\ guest = "up"
  /\ falls < MaxFalls
  /\ falls' = falls + 1
  /\ guest' = "down"
  /\ reader' = "gone" /\ mine' = 0 /\ current' = 0 /\ reply' = "none"
  /\ job' = Killed
  /\ writer' = 0 /\ part' = 0 /\ parts' = 0
  /\ UNCHANGED <<hostVars, rxVars, txVars, handled>>

\* customVirtioDeviceWillReset(): the rings are void, every request fails.
Reset ==
  /\ guest = "down"
  /\ guest' = "reset"
  /\ heard' = FALSE
  /\ elements' = <<>> /\ waiting' = <<>>
  /\ told' = [id \in Ids |-> IF id \in pending THEN "notAnswering" ELSE told[id]]
  /\ pending' = {}
  /\ content' = [b \in Buffers |-> 0]
  /\ rxPosted' = <<>> /\ rxUsed' = <<>> /\ rxFifo' = <<>> /\ rxIrq' = FALSE
  /\ txFree' = 0 /\ txRing' = <<>> /\ txUsed' = 0 /\ txIrq' = FALSE
  /\ UNCHANGED <<askVars, body, total, loopVars, jobVars, falls>>

\* prpt_init_driver(): every request buffer is posted.
DriverStarts ==
  /\ guest = "reset"
  /\ guest' = "up"
  /\ rxPosted' = [i \in Buffers |-> i]
  /\ txFree' = BufferCount
  /\ UNCHANGED <<hostVars, content, rxUsed, rxFifo, rxIrq, txRing, txUsed, txIrq>>
  /\ UNCHANGED <<loopVars, jobVars, falls>>

-----------------------------------------------------------------------------
HostStep == TakeBuffers \/ TakeFrame
LoopStep == ReadTakes \/ ReadCopies \/ Deal \/ Reply \/ DaemonStarts
WriteFailure == ReplyFails \/ WriteFails

Next ==
  \/ \E what \in {"ping", "run"} : Send(what)
  \/ \E id \in Ids : Expire(id)
  \/ HostStep
  \/ RxCallback \/ TxCallback
  \/ LoopStep \/ WritePart \/ WriteFailure
  \/ \E id \in Ids : ResultBegins(id) \/ ResultLost(id) \/ RunFails(id)
  \/ DaemonDies \/ GuestFalls \/ Reset \/ DriverStarts

Spec == Init /\ [][Next]_vars

(***************************************************************************)
(* The host serves its queue, interrupts are delivered, the daemon's       *)
(* threads are scheduled and launch_daemon restarts the service.  A        *)
(* command need not end, a caller need not ask, no write need fail to free *)
(* a thread that waits, and nothing is assumed of a guest that is down.    *)
(***************************************************************************)
FairSpec ==
  /\ Spec
  /\ WF_vars(TakeBuffers) /\ WF_vars(TakeFrame)
  /\ WF_vars(RxCallback) /\ WF_vars(TxCallback)
  /\ WF_vars(LoopStep) /\ WF_vars(WritePart)

-----------------------------------------------------------------------------
(* Properties.                                                             *)

FrameTypes == {"hello", "pong", "error", "result", "more"}
Frames == [type : FrameTypes, id : Ids \cup {0}, part : 0..MaxParts, of : 0..MaxParts]
Promise == INSTANCE PortalPromise WITH
  asked <- 1..(nextID - 1), dealt <- ToSet(handled), told <- told

\* Every variable holds a value of its type.
TypeOK ==
  /\ nextID \in 1..(MaxRequests + 1)
  /\ kind \in [Ids -> {"none", "ping", "run"}]
  /\ pending \subseteq Ids
  /\ body \in [Ids -> Seq(1..MaxParts)]
  /\ total \in [Ids -> 0..MaxParts]
  /\ told \in [Ids -> Promise!Outcomes \cup {"nothing"}]
  /\ waiting \in Seq(Ids) /\ elements \in Seq(Buffers)
  /\ heard \in BOOLEAN
  /\ content \in [Buffers -> Ids \cup {0}]
  /\ rxPosted \in Seq(Buffers) /\ rxUsed \in Seq(Buffers) /\ rxFifo \in Seq(Buffers)
  /\ rxIrq \in BOOLEAN /\ txIrq \in BOOLEAN
  /\ txFree \in 0..BufferCount /\ txUsed \in 0..BufferCount /\ txRing \in Seq(Frames)
  /\ guest \in {"down", "reset", "up"}
  /\ reader \in {"gone", "read", "copy", "handle", "reply"}
  /\ mine \in Buffers \cup {0}
  /\ current \in Ids \cup {0}
  /\ reply \in FrameTypes \cup {"none"}
  /\ job \in [Ids -> {"none", "running", "over"}]
  /\ writer \in Ids \cup {0}
  /\ part \in 0..MaxParts /\ parts \in 0..MaxParts
  /\ handled \in Seq(Ids)
  /\ falls \in 0..MaxFalls

\* While the guest is up, every request buffer is in one place: posted, with the
\* host, filled, in the FIFO or being read; and every reply buffer is free, on
\* the ring or on its way back.  So neither array of the driver can overflow,
\* and no failed or late request costs a buffer.
BuffersConserved ==
  guest = "up" =>
    LET places == rxPosted \o elements \o rxUsed \o rxFifo
                    \o (IF mine = 0 THEN <<>> ELSE <<mine>>)
    IN /\ Len(places) = BufferCount
       /\ ToSet(places) = Buffers
       /\ txFree + Len(txRing) + txUsed = BufferCount

\* Whatever frames were lost with a daemon or a failed write, the body the host
\* has for a request is the start of its own result, and the whole of it when the
\* caller of a command is told it succeeded.
BodyIsPrefix ==
  \A id \in Ids :
    /\ body[id] = [i \in 1..Len(body[id]) |-> i]
    /\ kind[id] = "run" /\ told[id] = "success" => Len(body[id]) = total[id]

\* The daemon deals with requests in the order they were made, and with none twice,
\* through buffers that are filled again and waits for buffers that come late.
HandledInOrder ==
  \A i, j \in DOMAIN handled : i < j => handled[i] < handled[j]

\* The portal keeps its promise.
KeepsPromise == Promise!Spec

\* The request is somewhere between the host and the daemon.
OnItsWay(id) ==
  \/ id \in ToSet(waiting)
  \/ \E b \in ToSet(rxUsed) \cup ToSet(rxFifo) : content[b] = id
  \/ mine # 0 /\ content[mine] = id
  \/ current = id /\ reader = "handle"

\* Requests do not stay on their way, even when their timers have run out, unless the
\* guest or the daemon is down, and while neither has fallen over every one that was
\* sent comes before the daemon: no number of requests and results in both
\* directions leaves everyone waiting for a buffer, a lock or an interrupt.
RequestsGetThrough ==
  []<>(guest = "up" /\ reader # "gone" =>
         /\ \A id \in Ids : ~OnItsWay(id)
         /\ falls = 0 => 1..(nextID - 1) \subseteq ToSet(handled))
=============================================================================
