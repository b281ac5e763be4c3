-------------------------- MODULE DeliveryContract --------------------------
(***************************************************************************)
(* What the outbox promises about one notification, with every table, lease *)
(* and worker hidden.  A delivery is created once, stays open while direct  *)
(* messages may still be sent for it, and closes once: delivered, which     *)
(* takes at least one message that reached the messenger, or dropped.       *)
(* Nothing is sent for a delivery that is not open, and at most Budget      *)
(* messages are ever sent for it.                                          *)
(***************************************************************************)
EXTENDS Naturals

CONSTANTS
    Deliveries,   \* the delivery keys
    Budget        \* how many messages one delivery may cost

VARIABLES
    stage,        \* Deliveries -> Stages
    sent          \* Deliveries -> number of messages the messenger accepted

Stages == {"none", "open", "delivered", "dropped"}

contractVars == <<stage, sent>>

Init ==
    /\ stage \in [Deliveries -> {"none", "open", "dropped"}]
    /\ sent = [d \in Deliveries |-> 0]

\* One commit may create several deliveries.
Create(D) ==
    /\ \A d \in D : stage[d] = "none"
    /\ stage' = [d \in Deliveries |-> IF d \in D THEN "open" ELSE stage[d]]
    /\ UNCHANGED sent

Send(d) ==
    /\ stage[d] = "open"
    /\ sent[d] < Budget
    /\ sent' = [sent EXCEPT ![d] = @ + 1]
    /\ UNCHANGED stage

Deliver(d) ==
    /\ stage[d] = "open"
    /\ sent[d] > 0
    /\ stage' = [stage EXCEPT ![d] = "delivered"]
    /\ UNCHANGED sent

Drop(d) ==
    /\ stage[d] = "open"
    /\ stage' = [stage EXCEPT ![d] = "dropped"]
    /\ UNCHANGED sent

Next ==
    \/ \E D \in SUBSET Deliveries : Create(D)
    \/ \E d \in Deliveries : Send(d) \/ Deliver(d) \/ Drop(d)

Spec == Init /\ [][Next]_contractVars
=============================================================================
