------------------------------ MODULE Delivery ------------------------------
(***************************************************************************)
(* What the transactional outbox promises to the rest of the system, with  *)
(* no word of transactions, row locks or publisher confirms: an event is   *)
(* recorded once, may be handed to the broker any number of times while it *)
(* is open, and is closed for good, never before the broker stored or      *)
(* returned it and never to be handed over again.  What was handed over    *)
(* the broker stores once, or returns, or neither; it may do so late, when *)
(* the event has long been closed.                                         *)
(***************************************************************************)
EXTENDS Naturals

CONSTANT Events

VARIABLES
  stage,      \* stage[e]: "none", then "open", then "closed"
  sending,    \* sending[e]: messages of e handed over and not settled
  delivered,  \* delivered[e]: copies of e the queue has accepted
  bounced     \* events of which a message was returned

vars == <<stage, sending, delivered, bounced>>

TypeOK ==
  /\ stage \in [Events -> {"none", "open", "closed"}]
  /\ sending \in [Events -> Nat]
  /\ delivered \in [Events -> Nat]
  /\ bounced \subseteq Events

Init ==
  /\ stage = [e \in Events |-> "none"]
  /\ sending = [e \in Events |-> 0]
  /\ delivered = [e \in Events |-> 0]
  /\ bounced = {}

Record(e) ==
  /\ stage[e] = "none"
  /\ stage' = [stage EXCEPT ![e] = "open"]
  /\ UNCHANGED <<sending, delivered, bounced>>

Send(e) ==
  /\ stage[e] = "open"
  /\ sending' = [sending EXCEPT ![e] = @ + 1]
  /\ UNCHANGED <<stage, delivered, bounced>>

Deliver(e) ==
  /\ sending[e] > 0
  /\ sending' = [sending EXCEPT ![e] = @ - 1]
  /\ delivered' = [delivered EXCEPT ![e] = @ + 1]
  /\ UNCHANGED <<stage, bounced>>

Bounce(e) ==
  /\ sending[e] > 0
  /\ sending' = [sending EXCEPT ![e] = @ - 1]
  /\ bounced' = bounced \cup {e}
  /\ UNCHANGED <<stage, delivered>>

Close(e) ==
  /\ stage[e] = "open"
  /\ delivered[e] > 0 \/ e \in bounced
  /\ stage' = [stage EXCEPT ![e] = "closed"]
  /\ UNCHANGED <<sending, delivered, bounced>>

Next == \E e \in Events : Record(e) \/ Send(e) \/ Deliver(e) \/ Bounce(e) \/ Close(e)

Spec == Init /\ [][Next]_vars
=============================================================================
