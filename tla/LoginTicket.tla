----------------------------- MODULE LoginTicket -----------------------------
(***************************************************************************)
(* What the login flow of the warded proxy promises about the `state`      *)
(* parameter it hands to a browser: it is a ticket that is offered once,   *)
(* and then either redeemed for one exchange with the platform or dropped. *)
(* Neither a redeemed nor a dropped ticket ever comes back.                *)
(* ProxySession implements this specification.                             *)
(***************************************************************************)
CONSTANT LoginStates

VARIABLE ticket

TicketStatus == {"unused", "offered", "redeemed", "dropped"}

Move(s, from, to) ==
  /\ ticket[s] = from
  /\ ticket' = [ticket EXCEPT ![s] = to]

Offer(s)  == Move(s, "unused", "offered")
Redeem(s) == Move(s, "offered", "redeemed")

\* Expiry, the loss of the server's memory, or a rejected callback; one
\* sweep or one restart may drop several tickets together.
Drop(S) ==
  /\ S # {}
  /\ \A s \in S : ticket[s] = "offered"
  /\ ticket' = [s \in LoginStates |-> IF s \in S THEN "dropped" ELSE ticket[s]]

Init == ticket = [s \in LoginStates |-> "unused"]

Next ==
  \/ \E s \in LoginStates : Offer(s) \/ Redeem(s)
  \/ \E S \in SUBSET LoginStates : Drop(S)

Spec == Init /\ [][Next]_ticket
==============================================================================
