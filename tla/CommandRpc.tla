----------------------------- MODULE CommandRpc -----------------------------
(***************************************************************************)
(* What the command channel of a Prose device promises its callers, said   *)
(* without rings, pages, semaphores or sequence checks: a command is given *)
(* to the device under a number nobody used before, at most one command is *)
(* the device's at a time, the device carries a command out at most once   *)
(* and only while it holds it, and a caller is told "ok" only when its own *)
(* command was carried out and accepted.  A caller may give up at any      *)
(* time; the command it gave up on may still be carried out later.         *)
(*                                                                         *)
(* CommandPage (the prose_display and prose_chip drivers with the host     *)
(* that serves them) implements this specification.                        *)
(***************************************************************************)
EXTENDS Naturals

CONSTANTS
  Callers,    \* threads that issue commands
  NoCommand   \* "the device holds no command"

VARIABLES
  phase,      \* [Callers -> {"idle", "calling", "issued"}]
  number,     \* [Callers -> Nat], the number of the caller's command
  last,       \* the highest number given out
  held,       \* the command the device holds, or NoCommand
  accepted,   \* numbers of the commands carried out and answered OK
  rejected,   \* numbers of the commands answered with an error
  told        \* [Callers -> {"nothing", "ok", "failed"}], what the caller was told

rpcVars == <<phase, number, last, held, accepted, rejected, told>>

Init ==
  /\ phase = [c \in Callers |-> "idle"]
  /\ number = [c \in Callers |-> 0]
  /\ last = 0
  /\ held = NoCommand
  /\ accepted = {}
  /\ rejected = {}
  /\ told = [c \in Callers |-> "nothing"]

Call(c) ==
  /\ phase[c] = "idle"
  /\ phase' = [phase EXCEPT ![c] = "calling"]
  /\ told' = [told EXCEPT ![c] = "nothing"]
  /\ UNCHANGED <<number, last, held, accepted, rejected>>

\* The command goes to the device, which held none.
Issue(c) ==
  /\ phase[c] = "calling"
  /\ held = NoCommand
  /\ last' = last + 1
  /\ number' = [number EXCEPT ![c] = last + 1]
  /\ held' = last + 1
  /\ phase' = [phase EXCEPT ![c] = "issued"]
  /\ UNCHANGED <<accepted, rejected, told>>

\* The number is used up, and the device never sees the command.
Refuse(c) ==
  /\ phase[c] = "calling"
  /\ held = NoCommand
  /\ last' = last + 1
  /\ number' = [number EXCEPT ![c] = last + 1]
  /\ phase' = [phase EXCEPT ![c] = "idle"]
  /\ told' = [told EXCEPT ![c] = "failed"]
  /\ UNCHANGED <<held, accepted, rejected>>

Execute ==
  /\ held # NoCommand
  /\ held \notin accepted \cup rejected
  /\ \/ accepted' = accepted \cup {held} /\ UNCHANGED rejected
     \/ rejected' = rejected \cup {held} /\ UNCHANGED accepted
  /\ UNCHANGED <<phase, number, last, held, told>>

\* The command comes back from the device, whoever is there to collect it.
Retire ==
  /\ held # NoCommand
  /\ held \in accepted \cup rejected
  /\ held' = NoCommand
  /\ UNCHANGED <<phase, number, last, accepted, rejected, told>>

ReturnOk(c) ==
  /\ phase[c] = "issued"
  /\ number[c] \in accepted
  /\ phase' = [phase EXCEPT ![c] = "idle"]
  /\ told' = [told EXCEPT ![c] = "ok"]
  /\ UNCHANGED <<number, last, held, accepted, rejected>>

GiveUp(c) ==
  /\ phase[c] # "idle"
  /\ phase' = [phase EXCEPT ![c] = "idle"]
  /\ told' = [told EXCEPT ![c] = "failed"]
  /\ UNCHANGED <<number, last, held, accepted, rejected>>

Next ==
  \/ \E c \in Callers :
       Call(c) \/ Issue(c) \/ Refuse(c) \/ ReturnOk(c) \/ GiveUp(c)
  \/ Execute
  \/ Retire

Spec == Init /\ [][Next]_rpcVars
=============================================================================
