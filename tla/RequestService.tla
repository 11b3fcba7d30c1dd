--------------------------- MODULE RequestService ---------------------------
(***************************************************************************)
(* What the request dispatch promises, whatever the kind of responder:     *)
(* each request that a responder takes is given to exactly one invocation  *)
(* of its slot, and is answered (deleted, which ends the response) only    *)
(* after that invocation began; a request that is refused is never given   *)
(* to a slot, before or after.                                             *)
(***************************************************************************)
EXTENDS Naturals

CONSTANT MaxRequests

VARIABLE phase

Requests == 1..MaxRequests

Init == phase = [r \in Requests |-> "absent"]

Move(r, from, to) ==
  /\ phase[r] \in from
  /\ phase' = [phase EXCEPT ![r] = to]

Accept(r)  == Move(r, {"absent"}, "accepted")
Respond(r) == Move(r, {"accepted"}, "responding")
Answer(r)  == Move(r, {"responding"}, "answered")

\* No responder for it, or the process is shutting down: any number at a time.
Refuse ==
  \E R \in SUBSET Requests :
    /\ \A r \in R : phase[r] \in {"absent", "accepted"}
    /\ phase' = [r \in Requests |-> IF r \in R THEN "refused" ELSE phase[r]]

Next == Refuse \/ \E r \in Requests : Accept(r) \/ Respond(r) \/ Answer(r)

Spec == Init /\ [][Next]_phase
=============================================================================
