------------------------- MODULE MessengerContract -------------------------
(***************************************************************************)
(* What the delivery worker relies on when it calls messenger.Send: the     *)
(* call puts at most one message before its recipient, it reports success   *)
(* only if it did, and an error says whether another attempt may help.  An  *)
(* error leaves open whether the message is out: Outbox counts it as lost.  *)
(***************************************************************************)
EXTENDS Naturals

CONSTANTS Callers

VARIABLES
    busy,         \* callers inside a call
    sent,         \* messages the messenger took, per caller's last call
    outcome       \* how that call ended

contractVars == <<busy, sent, outcome>>

Outcomes == {"none", "accepted", "retryable", "permanent"}

Init ==
    /\ busy = [c \in Callers |-> FALSE]
    /\ sent = [c \in Callers |-> 0]
    /\ outcome = [c \in Callers |-> "none"]

Begin(c) ==
    /\ ~busy[c]
    /\ busy' = [busy EXCEPT ![c] = TRUE]
    /\ sent' = [sent EXCEPT ![c] = 0]
    /\ outcome' = [outcome EXCEPT ![c] = "none"]

Accept(c) ==
    /\ busy[c]
    /\ sent[c] = 0
    /\ sent' = [sent EXCEPT ![c] = 1]
    /\ UNCHANGED <<busy, outcome>>

Return(c) ==
    /\ busy[c]
    /\ \E o \in Outcomes \ {"none"} :
          /\ o = "accepted" => sent[c] = 1
          /\ outcome' = [outcome EXCEPT ![c] = o]
    /\ busy' = [busy EXCEPT ![c] = FALSE]
    /\ UNCHANGED sent

\* The call is refused before anything is asked of the messenger.
Reject(c) ==
    /\ ~busy[c]
    /\ \E o \in {"retryable", "permanent"} :
          outcome' = [outcome EXCEPT ![c] = o]
    /\ sent' = [sent EXCEPT ![c] = 0]
    /\ UNCHANGED busy

Next == \E c \in Callers : Begin(c) \/ Accept(c) \/ Return(c) \/ Reject(c)

Spec == Init /\ [][Next]_contractVars
=============================================================================
