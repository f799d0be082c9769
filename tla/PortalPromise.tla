--------------------------- MODULE PortalPromise ---------------------------
(***************************************************************************)
(* What the Prose Portal promises its callers, whatever becomes of the     *)
(* guest, its daemon and the frames between: a request is answered once,   *)
(* with a reply only if the daemon dealt with it, and the daemon deals     *)
(* with no request twice.  It says nothing of a request whose caller was   *)
(* told it failed: the guest may still carry it out later.                 *)
(***************************************************************************)
CONSTANT Ids

Unsuccessful == {"timedOut", "notAnswering", "malformed"}
Replies == {"success", "guestError"}
Outcomes == Unsuccessful \cup Replies

VARIABLES
  asked,   \* requests made
  dealt,   \* requests the daemon has dealt with
  told     \* [Ids -> Outcomes \cup {"nothing"}]: the completion's argument

vars == <<asked, dealt, told>>

Init ==
  /\ asked = {}
  /\ dealt = {}
  /\ told = [id \in Ids |-> "nothing"]

Ask(id) ==
  /\ id \notin asked
  /\ asked' = asked \cup {id}
  /\ UNCHANGED <<dealt, told>>

Deal(id) ==
  /\ id \in asked \ dealt
  /\ dealt' = dealt \cup {id}
  /\ UNCHANGED <<asked, told>>

\* Some requests still open are completed at once (one, but for a reset).
Tell ==
  \E S \in SUBSET {id \in asked : told[id] = "nothing"}, outcome \in Outcomes :
    /\ S # {}
    /\ outcome \in Replies => S \subseteq dealt
    /\ told' = [id \in Ids |-> IF id \in S THEN outcome ELSE told[id]]
    /\ UNCHANGED <<asked, dealt>>

Next == Tell \/ \E id \in Ids : Ask(id) \/ Deal(id)

Spec == Init /\ [][Next]_vars
=============================================================================
