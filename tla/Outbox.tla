------------------------------- MODULE Outbox -------------------------------
(***************************************************************************)
(* The persistent outbox: the events and deliveries tables of the SQLite    *)
(* store, the webhook handler that fills them in one transaction and then   *)
(* answers GitLab, and the one delivery worker the program starts, which    *)
(* claims rows under a lease, calls the messenger and records the result.   *)
(*                                                                         *)
(* The process may stop between any two steps and start again; only the     *)
(* tables survive.  A statement of the worker may fail, and the messenger   *)
(* may accept a message whose answer is lost.                               *)
(*                                                                         *)
(* Timestamps are modelled by the time left until they are reached, which   *)
(* Tick counts down.  The claim query orders rows by next_attempt_at; here  *)
(* any choice among the due rows may fill a batch.                          *)
(***************************************************************************)
EXTENDS Integers, FiniteSets

CONSTANTS
    Events,         \* event keys of the webhooks
    Deliveries,     \* delivery keys
    DeliveriesOf,   \* the deliveries the router derives from each event
    Allowed,        \* deliveries whose recipient the allowlist admits
    Legacy,         \* rows that may have failed before column retryable existed
    MaxAttempts,    \* Config.MaxAttempts
    BatchSize,      \* DeliveryWorkerConfig.BatchSize
    LeaseDuration,  \* Config.LeaseDuration
    RetryDelay,     \* Config.RetryDelay
    RetryCap,       \* the hour at which the backoff stops doubling
    Backoff,        \* the delay after the n-th failed attempt
    None            \* no delivery in hand

ASSUME KeysAssumption ==
    /\ DeliveriesOf \in [Events -> SUBSET Deliveries]
    /\ Allowed \subseteq Deliveries
    /\ Legacy \subseteq Deliveries
    /\ None \notin Deliveries

ASSUME LimitsAssumption ==
    /\ MaxAttempts \in Nat \ {0}
    /\ BatchSize \in Nat \ {0}
    /\ LeaseDuration \in Nat \ {0}
    /\ RetryDelay \in Nat \ {0}
    /\ RetryCap \in Nat \ {0}

(* RetryDelay after the first attempt, then doubled until it reaches the cap. *)
Doubling(f) ==
    /\ f[1] = RetryDelay
    /\ \A n \in 2 .. MaxAttempts :
          f[n] = IF 2 * f[n - 1] >= RetryCap THEN RetryCap ELSE 2 * f[n - 1]

ASSUME BackoffAssumption ==
    /\ Backoff \in [1 .. MaxAttempts -> Nat]
    /\ Doubling(Backoff)

VARIABLES
    (* table deliveries, column by column *)
    status, attempts, retryable,
    due,            \* next_attempt_at: time left until the row is due
    lease,          \* lease_until: time left, NoLease for NULL
    (* table events *)
    events,
    (* the process *)
    up,             \* the process runs
    handler,        \* per event: the state of the webhook handler working on it
    batch,          \* claimed deliveries the worker has not reached yet
    current,        \* the delivery the worker holds, or None
    outcome,        \* what happened to current, still only in memory
    (* what an observer outside the process knows *)
    acked,          \* events GitLab received a 2xx for
    copies,         \* messages the messenger accepted, per delivery
    lost,           \* those whose acceptance was never recorded
    faulty          \* the process has stopped or a statement has failed

rows     == <<status, attempts, retryable, due, lease>>
worker   == <<batch, current, outcome>>
ingress  == <<events, handler, acked>>
observed == <<copies, lost>>
vars     == <<rows, worker, ingress, observed, up, faulty>>

Statuses == {"absent", "pending", "processing", "delivered", "failed"}
Outcomes == {"none", "accepted", "retryable", "permanent"}
NoLease  == -1

TypeOK ==
    /\ status \in [Deliveries -> Statuses]
    /\ attempts \in [Deliveries -> 0 .. MaxAttempts]
    /\ retryable \in [Deliveries -> BOOLEAN]
    /\ due \in [Deliveries -> Nat]
    /\ lease \in [Deliveries -> Nat \cup {NoLease}]
    /\ events \in SUBSET Events
    /\ up \in BOOLEAN
    /\ handler \in [Events -> {"none", "stored"}]
    /\ batch \in SUBSET Deliveries
    /\ current \in Deliveries \cup {None}
    /\ outcome \in Outcomes
    /\ acked \in SUBSET Events
    /\ copies \in [Deliveries -> Nat]
    /\ lost \in [Deliveries -> Nat]
    /\ faulty \in BOOLEAN

-----------------------------------------------------------------------------
Exhausted(d) == attempts[d] >= MaxAttempts

(* Mutants of Claimable: the attempts test is dropped; a NULL lease counts   *)
(* as expired whatever the status; expired leases are not reclaimed.         *)
ClaimableForever(d) ==
    \/ status[d] = "pending" /\ due[d] = 0
    \/ status[d] = "failed" /\ retryable[d] /\ due[d] = 0
    \/ status[d] = "processing" /\ lease[d] = 0

ClaimableByLease(d) ==
    /\ ~Exhausted(d)
    /\ status[d] # "absent"
    /\ lease[d] <= 0

ClaimableUnleased(d) ==
    /\ ~Exhausted(d)
    /\ status[d] \in {"pending", "failed"} /\ retryable[d]
    /\ due[d] = 0

(* The WHERE clause of the claim query. *)
Claimable(d) ==
    /\ ~Exhausted(d)
    /\ \/ status[d] = "pending" /\ due[d] = 0
       \/ status[d] = "failed" /\ retryable[d] /\ due[d] = 0
       \/ status[d] = "processing" /\ lease[d] = 0

Held(d) == d \in batch \/ d = current

(* Lowering a running timer by one unit of time. *)
Sooner(t) == IF t > 0 THEN t - 1 ELSE t

-----------------------------------------------------------------------------
Init ==
    /\ \E old \in SUBSET Legacy :
          /\ status = [d \in Deliveries |-> IF d \in old THEN "failed" ELSE "absent"]
          /\ attempts \in [Deliveries -> 0 .. MaxAttempts]
          /\ \A d \in Deliveries : d \in old <=> attempts[d] > 0
    /\ retryable = [d \in Deliveries |-> TRUE]
    /\ due = [d \in Deliveries |-> 0]
    /\ lease = [d \in Deliveries |-> NoLease]
    /\ events = {}
    /\ up = TRUE
    /\ handler = [e \in Events |-> "none"]
    /\ batch = {} /\ current = None /\ outcome = "none"
    /\ acked = {}
    /\ copies = [d \in Deliveries |-> 0]
    /\ lost = [d \in Deliveries |-> 0]
    /\ faulty = FALSE

(* INSERT OR IGNORE: the delivery keys that have no row yet. *)
NewRows(e) == {d \in DeliveriesOf[e] : status[d] = "absent"}

(* The transaction of the webhook handler: the event row and every delivery  *)
(* row that does not exist yet.  GitLab may send the same event many times,  *)
(* and two events may lead to the same delivery key.  A transaction that     *)
(* fails is rolled back and leaves no trace.                                 *)
Enqueue(e) ==
    LET new == NewRows(e) IN
    /\ up
    /\ handler[e] = "none"
    /\ handler' = [handler EXCEPT ![e] = "stored"]
    /\ events' = events \cup {e}
    /\ status' = [d \in Deliveries |-> IF d \in new THEN "pending" ELSE status[d]]
    /\ attempts' = [d \in Deliveries |-> IF d \in new THEN 0 ELSE attempts[d]]
    /\ due' = [d \in Deliveries |-> IF d \in new THEN 0 ELSE due[d]]
    /\ UNCHANGED <<retryable, lease, worker, acked, observed, up, faulty>>

(* Mutant of Acknowledge: the answer does not wait for the commit. *)
AcknowledgeEarly(e) ==
    /\ up
    /\ handler' = [handler EXCEPT ![e] = "none"]
    /\ acked' = acked \cup {e}
    /\ UNCHANGED <<rows, worker, events, observed, up, faulty>>

(* The 2xx answer, written after the transaction has committed. *)
Acknowledge(e) ==
    /\ up
    /\ handler[e] = "stored"
    /\ handler' = [handler EXCEPT ![e] = "none"]
    /\ acked' = acked \cup {e}
    /\ UNCHANGED <<rows, worker, events, observed, up, faulty>>

-----------------------------------------------------------------------------
Idle == up /\ batch = {} /\ current = None

(* One poll: a transaction marks up to BatchSize due rows as processing. *)
Claim ==
    LET eligible == {d \in Deliveries : Claimable(d)}
        size     == IF Cardinality(eligible) < BatchSize
                    THEN Cardinality(eligible) ELSE BatchSize IN
    /\ Idle
    /\ eligible # {}
    /\ \E B \in SUBSET eligible :
          /\ Cardinality(B) = size
          /\ batch' = B
          /\ status' = [d \in Deliveries |-> IF d \in B THEN "processing" ELSE status[d]]
          /\ attempts' = [d \in Deliveries |-> IF d \in B THEN attempts[d] + 1 ELSE attempts[d]]
          /\ lease' = [d \in Deliveries |-> IF d \in B THEN LeaseDuration ELSE lease[d]]
    /\ UNCHANGED <<retryable, due, current, outcome, ingress, observed, up, faulty>>

(* Mutant of TakeNext: only the first delivery of a batch is worked on. *)
TakeOnly(d) ==
    /\ up
    /\ current = None
    /\ d \in batch
    /\ current' = d
    /\ batch' = {}

(* The worker takes the next delivery of its batch. *)
TakeNext(d) ==
    /\ up
    /\ current = None
    /\ d \in batch
    /\ current' = d
    /\ batch' = batch \ {d}

(* The allowlist refuses the recipient: failed for good, nothing is sent. *)
Block(d) ==
    /\ TakeNext(d)
    /\ d \notin Allowed
    /\ outcome' = "permanent"
    /\ UNCHANGED <<rows, ingress, observed, up, faulty>>

(* Mutant of Refusals: HTTP 200 with an application error counts as success. *)
RefusalsByStatus == {"accepted", "retryable", "permanent"}

(* How the worker classifies an error of the messenger. *)
Refusals == {"retryable", "permanent"}

(* The messenger accepts the message; the answer may still be lost, and the  *)
(* worker then sees a transport error, which it may retry, or unreadable,    *)
(* which it may not.                                                        *)
SendAccepted(d) ==
    /\ TakeNext(d)
    /\ d \in Allowed
    /\ copies' = [copies EXCEPT ![d] = @ + 1]
    /\ \/ outcome' = "accepted" /\ UNCHANGED lost
       \/ outcome' \in {"retryable", "permanent"} /\ lost' = [lost EXCEPT ![d] = @ + 1]
    /\ UNCHANGED <<rows, ingress, up, faulty>>

SendRefused(d) ==
    /\ TakeNext(d)
    /\ d \in Allowed
    /\ outcome' \in Refusals
    /\ UNCHANGED <<rows, ingress, observed, up, faulty>>

Release == current' = None /\ outcome' = "none"

MarkDelivered(d) ==
    /\ up
    /\ current = d
    /\ outcome = "accepted"
    /\ status' = [status EXCEPT ![d] = "delivered"]
    /\ lease' = [lease EXCEPT ![d] = NoLease]
    /\ Release
    /\ UNCHANGED <<attempts, retryable, due, batch, ingress, observed, up, faulty>>

(* Mutant of RetriesLeft: off by one at the limit. *)
OneRetryMore(d) == outcome = "retryable" /\ attempts[d] <= MaxAttempts

RetriesLeft(d) == outcome = "retryable" /\ ~Exhausted(d)

MarkFailed(d) ==
    LET again == RetriesLeft(d) IN
    /\ up
    /\ current = d
    /\ outcome \in {"retryable", "permanent"}
    /\ status' = [status EXCEPT ![d] = IF again THEN "pending" ELSE "failed"]
    /\ retryable' = [retryable EXCEPT ![d] = again]
    /\ due' = [due EXCEPT ![d] = IF again THEN Backoff[attempts[d]] ELSE 0]
    /\ lease' = [lease EXCEPT ![d] = NoLease]
    /\ Release
    /\ UNCHANGED <<attempts, batch, ingress, observed, up, faulty>>

(* The acceptance of the delivery in hand is forgotten. *)
ForgetCurrent ==
    lost' = IF outcome = "accepted" THEN [lost EXCEPT ![current] = @ + 1] ELSE lost

(* Recording the result fails: process returns and drops the whole batch. *)
MarkError ==
    /\ up
    /\ current # None
    /\ Release
    /\ batch' = {}
    /\ ForgetCurrent
    /\ faulty' = TRUE
    /\ UNCHANGED <<rows, ingress, copies, up>>

-----------------------------------------------------------------------------
(* The process stops, by a crash or a shutdown, between any two steps. *)
Crash ==
    /\ up
    /\ up' = FALSE
    /\ handler' = [e \in Events |-> "none"]
    /\ batch' = {}
    /\ Release
    /\ ForgetCurrent
    /\ faulty' = TRUE
    /\ UNCHANGED <<rows, events, acked, copies>>

Restart ==
    /\ ~up
    /\ up' = TRUE
    /\ UNCHANGED <<rows, worker, ingress, observed, faulty>>

Tick ==
    /\ \E d \in Deliveries : due[d] > 0 \/ lease[d] > 0
    /\ due' = [d \in Deliveries |-> Sooner(due[d])]
    /\ lease' = [d \in Deliveries |-> Sooner(lease[d])]
    /\ UNCHANGED <<status, attempts, retryable, worker, ingress, observed, up, faulty>>

-----------------------------------------------------------------------------
Send(d) == Block(d) \/ SendAccepted(d) \/ SendRefused(d)
Mark == MarkError \/ \E d \in Deliveries : MarkDelivered(d) \/ MarkFailed(d)

Next ==
    \/ \E e \in Events : Enqueue(e) \/ Acknowledge(e)
    \/ Claim
    \/ \E d \in Deliveries : Send(d)
    \/ Mark
    \/ Crash
    \/ Restart
    \/ Tick

Spec == Init /\ [][Next]_vars

(* The worker loop polls for ever, every call it makes returns, time passes, *)
(* and a stopped process is started again.                                   *)
Fairness ==
    /\ WF_vars(Claim)
    /\ WF_vars(\E d \in Deliveries : Send(d))
    /\ WF_vars(Mark)
    /\ WF_vars(Restart)
    /\ WF_vars(Tick)

FairSpec == Spec /\ Fairness
-----------------------------------------------------------------------------
(* The delivery is finished, and nothing in the program will touch it again. *)
Delivered(d) == status[d] = "delivered"
Dropped(d) == status[d] = "failed" /\ (Exhausted(d) \/ ~retryable[d])
Closed(d) == Delivered(d) \/ Dropped(d)

(* A row whose last attempt nobody will ever record: the claim query skips  *)
(* it because its attempts are used up.                                      *)
Stranded(d) == status[d] = "processing" /\ Exhausted(d) /\ ~Held(d)

(* Nobody has the row, but the claim query takes it once its timer has run   *)
(* down: an attempt is left, and it waits for its turn or under a lease.     *)
Waiting(d) ==
    /\ ~Exhausted(d)
    /\ \/ status[d] = "pending"
       \/ status[d] = "failed" /\ retryable[d]
       \/ status[d] = "processing" /\ lease[d] # NoLease

(* No row is forgotten but the stranded ones: every other row is finished,   *)
(* in the hands of the running worker, or will be claimed when its backoff   *)
(* or its lease has run out.  And the worker holds processing rows only.     *)
OnlyStrandedAreForgotten ==
    \A d \in Deliveries :
        /\ Held(d) => up /\ status[d] = "processing"
        /\ status[d] # "absent" => Closed(d) \/ Held(d) \/ Waiting(d) \/ Stranded(d)

(* A recipient gets the same notification again only when an earlier         *)
(* acceptance was lost: its answer, its record, or the process that had it.  *)
DuplicatesAreLosses ==
    \A d \in Deliveries :
        /\ copies[d] <= attempts[d]
        /\ copies[d] = lost[d] + (IF Delivered(d) \/ (d = current /\ outcome = "accepted")
                                  THEN 1 ELSE 0)

(* A webhook that was answered with a 2xx has its event row and a delivery   *)
(* row for each notification, whatever stopped in between.                   *)
AckedIsStored ==
    \A e \in acked : e \in events /\ \A d \in DeliveriesOf[e] : status[d] # "absent"

(* Without a crash or a failed statement every processing row is in the     *)
(* worker's hands, so none is stranded.                                      *)
OnlyFaultsAbandon ==
    \A d \in Deliveries : ~faulty /\ status[d] = "processing" => Held(d)

(* A closed delivery stays closed and nothing more is sent for it, however   *)
(* often its webhook is redelivered.                                         *)
ClosedIsFinal ==
    [][\A d \in Deliveries :
          Closed(d) => Closed(d)' /\ status'[d] = status[d] /\ copies'[d] = copies[d]]_vars

(* A stranded row is never touched again: the store has no way out of it.    *)
StrandedIsForever ==
    [][\A d \in Deliveries : Stranded(d) => Stranded(d)' /\ copies'[d] = copies[d]]_vars

(* If the process eventually stays up, every stored delivery is closed or    *)
(* stranded in the end.                                                      *)
EveryDeliverySettles ==
    <>[]up => \A d \in Deliveries : status[d] # "absent" ~> (Closed(d) \/ Stranded(d))

(* Without faults it is closed.                                              *)
EveryDeliveryCloses ==
    []~faulty => \A d \in Deliveries : status[d] # "absent" ~> Closed(d)

(* docs/TESTING.md: "Deliveries become terminally failed after the maximum   *)
(* attempt count."  A row whose attempts are used up and that the worker no  *)
(* longer holds would then be delivered or failed.                           *)
ExhaustedIsClosed ==
    \A d \in Deliveries :
        status[d] # "absent" /\ Exhausted(d) /\ ~Held(d) => Closed(d)

(* The contract this module implements: a row is open until it is closed.    *)
StageOf(d) ==
    CASE status[d] = "absent" -> "none"
      [] Delivered(d) -> "delivered"
      [] Dropped(d) -> "dropped"
      [] OTHER -> "open"

Contract == INSTANCE DeliveryContract WITH
    Budget <- MaxAttempts,
    stage <- [d \in Deliveries |-> StageOf(d)],
    sent <- copies

ImplementsContract == Contract!Spec
=============================================================================
