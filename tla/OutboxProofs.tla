---------------------------- MODULE OutboxProofs ----------------------------
(***************************************************************************)
(* Theorems about Outbox for every set of events and deliveries and every   *)
(* setting of the limits.  All of them rest on one inductive invariant: the *)
(* type invariant, two of the safety invariants the model-checking runs     *)
(* check, and RowsAreSound, WorkerIsSound and StoreIsSound, which tie the   *)
(* columns of a row to each other and the worker's memory and the handlers' *)
(* state to the rows.                                                       *)
(***************************************************************************)
EXTENDS Outbox, TLAPS

(* The columns of a row fit together: a pending row has an attempt left, a   *)
(* processing row has a lease, only the migration leaves a failed row        *)
(* retryable; and what the worker holds is processing.                       *)
RowsAreSound ==
    \A d \in Deliveries :
        /\ status[d] = "pending" => ~Exhausted(d)
        /\ Held(d) => status[d] = "processing"
        /\ status[d] = "processing" => lease[d] # NoLease
        /\ status[d] = "failed" /\ ~Dropped(d) => d \in Legacy

(* What the worker remembers agrees with the row it remembers it about: an   *)
(* outcome belongs to a delivery in hand, a delivery is in hand or waiting   *)
(* but not both, a claimed attempt has not been used yet.                    *)
WorkerIsSound ==
    /\ outcome = "none" <=> current = None
    /\ current \notin batch
    /\ ~up => batch = {} /\ current = None
    /\ \A d \in batch : copies[d] < attempts[d]

(* Only a claim makes a row processing, only a row carries copies, and an    *)
(* event row never appears without its deliveries.                           *)
StoreIsSound ==
    /\ \A d \in Deliveries :
          /\ status[d] = "processing" => attempts[d] >= 1
          /\ status[d] = "absent" => copies[d] = 0
    /\ \A e \in events : \A d \in DeliveriesOf[e] : status[d] # "absent"
    /\ \A e \in Events : handler[e] = "stored" => e \in events
    /\ acked \subseteq events

Inductive ==
    /\ TypeOK
    /\ RowsAreSound
    /\ DuplicatesAreLosses
    /\ OnlyFaultsAbandon
    /\ WorkerIsSound
    /\ StoreIsSound

-----------------------------------------------------------------------------
LEMMA InitInductive == Init => Inductive
<1> SUFFICES ASSUME Init PROVE Inductive
  OBVIOUS
<1>1. TypeOK
  BY DEF Init, TypeOK, Statuses, Outcomes
<1>2. RowsAreSound
  BY KeysAssumption DEF Init, RowsAreSound, Held
<1>3. DuplicatesAreLosses
  BY DEF Init, DuplicatesAreLosses, Delivered
<1>4. OnlyFaultsAbandon /\ WorkerIsSound /\ StoreIsSound
  BY DEF Init, OnlyFaultsAbandon, WorkerIsSound, StoreIsSound
<1> QED
  BY <1>1, <1>2, <1>3, <1>4 DEF Inductive

LEMMA EnqueueInductive ==
  ASSUME Inductive, NEW e \in Events, Enqueue(e)
  PROVE  Inductive'
<1> USE DEF Inductive
<1>1. TypeOK'
  BY LimitsAssumption DEF Enqueue, worker, observed, TypeOK, Statuses
<1>2. RowsAreSound'
  BY LimitsAssumption DEF Enqueue, NewRows, worker, RowsAreSound, Held, Dropped, Exhausted
<1>3. DuplicatesAreLosses'
  BY DEF Enqueue, NewRows, worker, observed, DuplicatesAreLosses, Delivered, StoreIsSound
<1>4. OnlyFaultsAbandon'
  BY DEF Enqueue, worker, OnlyFaultsAbandon, Held
<1>5. WorkerIsSound'
  BY DEF Enqueue, NewRows, worker, observed, TypeOK, WorkerIsSound, RowsAreSound, Held
<1>6. StoreIsSound'
  BY KeysAssumption DEF Enqueue, NewRows, observed, TypeOK, StoreIsSound
<1> QED
  BY <1>1, <1>2, <1>3, <1>4, <1>5, <1>6

LEMMA AcknowledgeInductive ==
  ASSUME Inductive, NEW e \in Events, Acknowledge(e)
  PROVE  Inductive'
<1> USE DEF Inductive
<1>1. TypeOK'
  BY DEF Acknowledge, rows, worker, observed, TypeOK
<1>2. StoreIsSound'
  BY DEF Acknowledge, rows, observed, StoreIsSound
<1>3. (RowsAreSound /\ DuplicatesAreLosses /\ OnlyFaultsAbandon /\ WorkerIsSound)'
  BY DEF Acknowledge, rows, worker, observed, RowsAreSound, Held, Dropped, Exhausted,
         DuplicatesAreLosses, Delivered, OnlyFaultsAbandon, WorkerIsSound
<1> QED
  BY <1>1, <1>2, <1>3

LEMMA ClaimInductive ==
  ASSUME Inductive, Claim
  PROVE  Inductive'
<1> USE DEF Inductive
<1>1. PICK B \in SUBSET Deliveries :
        /\ \A d \in B : Claimable(d)
        /\ batch' = B
        /\ status' = [d \in Deliveries |-> IF d \in B THEN "processing" ELSE status[d]]
        /\ attempts' = [d \in Deliveries |-> IF d \in B THEN attempts[d] + 1 ELSE attempts[d]]
        /\ lease' = [d \in Deliveries |-> IF d \in B THEN LeaseDuration ELSE lease[d]]
  BY DEF Claim
<1>2. /\ batch = {} /\ current = None /\ up
      /\ UNCHANGED <<retryable, due, current, outcome, events, handler, acked, copies, lost,
                      up, faulty>>
  BY DEF Claim, Idle, ingress, observed
<1>3. \A d \in B : attempts[d] < MaxAttempts /\ status[d] \in {"pending", "failed",
"processing"}
  BY <1>1, LimitsAssumption DEF Claimable, Exhausted, TypeOK
<1>4. TypeOK'
  BY <1>1, <1>2, <1>3, LimitsAssumption DEF TypeOK, Statuses
<1>5. RowsAreSound'
  BY <1>1, <1>2, LimitsAssumption
     DEF TypeOK, RowsAreSound, Held, Dropped, Exhausted, NoLease
<1>6. DuplicatesAreLosses'
  BY <1>1, <1>2, <1>3 DEF TypeOK, DuplicatesAreLosses, Delivered
<1>7. OnlyFaultsAbandon'
  BY <1>1, <1>2 DEF OnlyFaultsAbandon, Held
<1>8. WorkerIsSound'
  BY <1>1, <1>2, KeysAssumption DEF TypeOK, WorkerIsSound, DuplicatesAreLosses
<1>9. StoreIsSound'
  BY <1>1, <1>2, KeysAssumption DEF TypeOK, StoreIsSound
<1> QED
  BY <1>4, <1>5, <1>6, <1>7, <1>8, <1>9

LEMMA BlockInductive ==
  ASSUME Inductive, NEW d \in Deliveries, Block(d)
  PROVE  Inductive'
<1> USE DEF Inductive
<1>1. TypeOK'
  BY DEF Block, TakeNext, rows, ingress, observed, TypeOK, Outcomes
<1>2. RowsAreSound'
  BY DEF Block, TakeNext, rows, RowsAreSound, Held, Dropped, Exhausted
<1>3. DuplicatesAreLosses'
  BY KeysAssumption DEF Block, TakeNext, rows, observed, DuplicatesAreLosses, Delivered
<1>4. OnlyFaultsAbandon'
  BY KeysAssumption DEF Block, TakeNext, rows, OnlyFaultsAbandon, Held
<1>5. WorkerIsSound'
  BY DEF Block, TakeNext, rows, observed, WorkerIsSound
<1>6. StoreIsSound'
  BY DEF Block, rows, ingress, observed, StoreIsSound
<1> QED
  BY <1>1, <1>2, <1>3, <1>4, <1>5, <1>6

LEMMA SendAcceptedInductive ==
  ASSUME Inductive, NEW d \in Deliveries, SendAccepted(d)
  PROVE  Inductive'
<1> USE DEF Inductive
<1>1. TypeOK'
  BY DEF SendAccepted, TakeNext, rows, ingress, TypeOK, Outcomes
<1>2. RowsAreSound'
  BY DEF SendAccepted, TakeNext, rows, RowsAreSound, Held, Dropped, Exhausted
<1>3. DuplicatesAreLosses'
  BY DEF SendAccepted, TakeNext, rows, TypeOK, DuplicatesAreLosses, Delivered, WorkerIsSound,
         RowsAreSound, Held
<1>4. OnlyFaultsAbandon'
  BY KeysAssumption DEF SendAccepted, TakeNext, rows, OnlyFaultsAbandon, Held
<1>5. WorkerIsSound'
  BY DEF SendAccepted, TakeNext, rows, WorkerIsSound
<1>6. StoreIsSound'
  BY DEF SendAccepted, TakeNext, rows, ingress, StoreIsSound, RowsAreSound, Held
<1> QED
  BY <1>1, <1>2, <1>3, <1>4, <1>5, <1>6

LEMMA SendRefusedInductive ==
  ASSUME Inductive, NEW d \in Deliveries, SendRefused(d)
  PROVE  Inductive'
<1> USE DEF Inductive
<1>1. TypeOK'
  BY DEF SendRefused, TakeNext, Refusals, rows, ingress, observed, TypeOK, Outcomes
<1>2. RowsAreSound'
  BY DEF SendRefused, TakeNext, rows, RowsAreSound, Held, Dropped, Exhausted
<1>3. DuplicatesAreLosses'
  BY KeysAssumption DEF SendRefused, TakeNext, Refusals, rows, observed, DuplicatesAreLosses,
         Delivered
<1>4. OnlyFaultsAbandon'
  BY KeysAssumption DEF SendRefused, TakeNext, rows, OnlyFaultsAbandon, Held
<1>5. WorkerIsSound'
  BY DEF SendRefused, TakeNext, Refusals, rows, observed, WorkerIsSound
<1>6. StoreIsSound'
  BY DEF SendRefused, rows, ingress, observed, StoreIsSound
<1> QED
  BY <1>1, <1>2, <1>3, <1>4, <1>5, <1>6

LEMMA MarkDeliveredInductive ==
  ASSUME Inductive, NEW d \in Deliveries, MarkDelivered(d)
  PROVE  Inductive'
<1> USE DEF Inductive
<1>1. TypeOK'
  BY DEF MarkDelivered, Release, ingress, observed, TypeOK, Statuses, Outcomes
<1>2. RowsAreSound'
  BY KeysAssumption DEF MarkDelivered, Release, TypeOK, RowsAreSound, Held, Dropped,
         Exhausted, WorkerIsSound
<1>3. DuplicatesAreLosses'
  BY DEF MarkDelivered, Release, observed, TypeOK, DuplicatesAreLosses, Delivered
<1>4. OnlyFaultsAbandon'
  BY DEF MarkDelivered, TypeOK, OnlyFaultsAbandon, Held
<1>5. WorkerIsSound'
  BY KeysAssumption DEF MarkDelivered, Release, observed, TypeOK, WorkerIsSound
<1>6. StoreIsSound'
  BY DEF MarkDelivered, ingress, observed, StoreIsSound
<1> QED
  BY <1>1, <1>2, <1>3, <1>4, <1>5, <1>6

LEMMA MarkFailedInductive ==
  ASSUME Inductive, NEW d \in Deliveries, MarkFailed(d)
  PROVE  Inductive'
<1> USE DEF Inductive
<1>1. TypeOK'
  BY BackoffAssumption DEF MarkFailed, Release, RetriesLeft, ingress, observed, TypeOK,
         Statuses, Outcomes, StoreIsSound, RowsAreSound, Held
<1>2. RowsAreSound'
  BY KeysAssumption DEF MarkFailed, Release, RetriesLeft, TypeOK, RowsAreSound, Held, Dropped,
         Exhausted, WorkerIsSound
<1>3. DuplicatesAreLosses'
  BY DEF MarkFailed, Release, observed, DuplicatesAreLosses, Delivered, RowsAreSound, Held
<1>4. OnlyFaultsAbandon'
  BY DEF MarkFailed, TypeOK, OnlyFaultsAbandon, Held
<1>5. WorkerIsSound'
  BY KeysAssumption DEF MarkFailed, Release, observed, TypeOK, WorkerIsSound
<1>6. StoreIsSound'
  BY DEF MarkFailed, ingress, observed, StoreIsSound
<1> QED
  BY <1>1, <1>2, <1>3, <1>4, <1>5, <1>6

LEMMA MarkErrorInductive ==
  ASSUME Inductive, MarkError
  PROVE  Inductive'
<1> USE DEF Inductive
<1>1. TypeOK'
  BY DEF MarkError, Release, ForgetCurrent, rows, ingress, TypeOK, Outcomes
<1>2. RowsAreSound'
  BY KeysAssumption DEF MarkError, Release, rows, RowsAreSound, Held, Dropped, Exhausted
<1>3. DuplicatesAreLosses'
  BY DEF MarkError, Release, ForgetCurrent, rows, TypeOK, DuplicatesAreLosses, Delivered,
         RowsAreSound, Held
<1>4. OnlyFaultsAbandon'
  BY DEF MarkError, OnlyFaultsAbandon
<1>5. WorkerIsSound'
  BY DEF MarkError, Release, WorkerIsSound
<1>6. StoreIsSound'
  BY DEF MarkError, rows, ingress, StoreIsSound
<1> QED
  BY <1>1, <1>2, <1>3, <1>4, <1>5, <1>6

LEMMA CrashInductive ==
  ASSUME Inductive, Crash
  PROVE  Inductive'
<1> USE DEF Inductive
<1>1. TypeOK'
  <2>1. lost' \in [Deliveries -> Nat]
    BY DEF Crash, ForgetCurrent, TypeOK, WorkerIsSound
  <2>2. handler' \in [Events -> {"none", "stored"}]
    BY DEF Crash
  <2> QED
    BY <2>1 DEF Crash, Release, rows, TypeOK, Outcomes
<1>2. RowsAreSound'
  BY KeysAssumption DEF Crash, Release, rows, RowsAreSound, Held, Dropped, Exhausted
<1>3. DuplicatesAreLosses'
  BY DEF Crash, Release, ForgetCurrent, rows, TypeOK, DuplicatesAreLosses, Delivered,
         RowsAreSound, Held
<1>4. OnlyFaultsAbandon'
  BY DEF Crash, OnlyFaultsAbandon
<1>5. WorkerIsSound'
  BY DEF Crash, Release, WorkerIsSound
<1>6. StoreIsSound'
  BY DEF Crash, rows, StoreIsSound
<1> QED
  BY <1>1, <1>2, <1>3, <1>4, <1>5, <1>6

LEMMA RestartInductive ==
  ASSUME Inductive, Restart
  PROVE  Inductive'
<1> USE DEF Inductive
<1>1. TypeOK'
  BY DEF Restart, rows, worker, ingress, observed, TypeOK
<1>2. WorkerIsSound'
  BY DEF Restart, worker, WorkerIsSound
<1>3. (RowsAreSound /\ DuplicatesAreLosses /\ OnlyFaultsAbandon /\ StoreIsSound)'
  BY DEF Restart, rows, worker, ingress, observed, RowsAreSound, Held, Dropped, Exhausted,
         DuplicatesAreLosses, Delivered, OnlyFaultsAbandon, StoreIsSound
<1> QED
  BY <1>1, <1>2, <1>3

LEMMA TickInductive ==
  ASSUME Inductive, Tick
  PROVE  Inductive'
<1> USE DEF Inductive
<1>1. /\ \A t \in Nat : Sooner(t) \in Nat
      /\ Sooner(NoLease) = NoLease
      /\ \A t \in Nat : Sooner(t) # NoLease
  BY DEF Sooner, NoLease
<1>2. TypeOK'
  BY <1>1 DEF Tick, TypeOK, worker, ingress, observed
<1>3. RowsAreSound'
  BY <1>1 DEF Tick, TypeOK, RowsAreSound, Held, Dropped, Exhausted, worker
<1>4. (DuplicatesAreLosses /\ OnlyFaultsAbandon /\ WorkerIsSound /\ StoreIsSound)'
  BY DEF Tick, DuplicatesAreLosses, OnlyFaultsAbandon, WorkerIsSound, StoreIsSound,
         Delivered, Held, worker, ingress, observed
<1> QED
  BY <1>2, <1>3, <1>4

-----------------------------------------------------------------------------
LEMMA NextInductive == Inductive /\ [Next]_vars => Inductive'
<1> SUFFICES ASSUME Inductive, [Next]_vars PROVE Inductive'
  OBVIOUS
<1>1. CASE \E e \in Events : Enqueue(e) \/ Acknowledge(e)
  BY <1>1, EnqueueInductive, AcknowledgeInductive
<1>2. CASE Claim
  BY <1>2, ClaimInductive
<1>3. CASE \E d \in Deliveries : Send(d)
  BY <1>3, BlockInductive, SendAcceptedInductive, SendRefusedInductive DEF Send
<1>4. CASE Mark
  BY <1>4, MarkErrorInductive, MarkDeliveredInductive, MarkFailedInductive DEF Mark
<1>5. CASE Crash
  BY <1>5, CrashInductive
<1>6. CASE Restart
  BY <1>6, RestartInductive
<1>7. CASE Tick
  BY <1>7, TickInductive
<1>8. CASE UNCHANGED vars
  BY <1>8 DEF Inductive, TypeOK, RowsAreSound, DuplicatesAreLosses, OnlyFaultsAbandon,
              WorkerIsSound, StoreIsSound, Held, Dropped, Delivered, Exhausted,
              vars, rows, worker, ingress, observed
<1> QED
  BY <1>1, <1>2, <1>3, <1>4, <1>5, <1>6, <1>7, <1>8 DEF Next

LEMMA Invariance == Spec => []Inductive
<1> QED
  BY InitInductive, NextInductive, PTL DEF Spec

(* Every table, the worker and the handlers keep their types; in particular  *)
(* no row ever uses more than MaxAttempts attempts.                          *)
THEOREM TypeCorrect == Spec => []TypeOK
<1>1. Inductive => TypeOK
  BY DEF Inductive
<1> QED
  BY <1>1, Invariance, PTL

(* Whatever stops or fails, a stored row is finished, in the worker's hands, *)
(* or waits for its backoff or lease with an attempt left; the one exception *)
(* is a row abandoned on its last attempt.                                   *)
THEOREM OnlyLastAttemptsAreForgotten == Spec => []OnlyStrandedAreForgotten
<1>1. ASSUME Inductive PROVE OnlyStrandedAreForgotten
  <2> SUFFICES ASSUME NEW d \in Deliveries
               PROVE  /\ Held(d) => up /\ status[d] = "processing"
                      /\ status[d] # "absent" =>
                            Closed(d) \/ Held(d) \/ Waiting(d) \/ Stranded(d)
    BY DEF OnlyStrandedAreForgotten
  <2>1. Held(d) => up /\ status[d] = "processing"
    BY <1>1, KeysAssumption DEF Inductive, RowsAreSound, WorkerIsSound, Held
  <2>2. CASE status[d] = "pending"
    <3>1. ~Exhausted(d)
      BY <1>1, <2>2 DEF Inductive, RowsAreSound
    <3> QED
      BY <2>1, <2>2, <3>1 DEF Waiting
  <2>3. CASE status[d] = "processing"
    <3>1. lease[d] # NoLease
      BY <1>1, <2>3 DEF Inductive, RowsAreSound
    <3> QED
      BY <2>1, <2>3, <3>1 DEF Waiting, Stranded
  <2>4. CASE status[d] = "failed"
    BY <2>1, <2>4 DEF Waiting, Closed, Dropped
  <2>5. CASE status[d] \in {"absent", "delivered"}
    BY <2>1, <2>5 DEF Closed, Delivered
  <2>6. status[d] \in Statuses
    BY <1>1 DEF Inductive, TypeOK
  <2> QED
    BY <2>1, <2>2, <2>3, <2>4, <2>5, <2>6 DEF Statuses
<1>2. Inductive => OnlyStrandedAreForgotten
  BY <1>1
<1> QED
  BY <1>2, Invariance, PTL

(* The worker sends a notification twice only after an acceptance was lost,  *)
(* and never more often than it has claimed the row.                         *)
THEOREM DuplicatesNeedLosses == Spec => []DuplicatesAreLosses
<1>1. Inductive => DuplicatesAreLosses
  BY DEF Inductive
<1> QED
  BY <1>1, Invariance, PTL

(* A webhook answered with a 2xx is in the tables, deliveries included.      *)
THEOREM AckImpliesStored == Spec => []AckedIsStored
<1>1. Inductive => AckedIsStored
  BY DEF Inductive, StoreIsSound, AckedIsStored
<1> QED
  BY <1>1, Invariance, PTL

(* A row is processing outside the worker's hands only after a fault.        *)
THEOREM AbandonedOnlyByFaults == Spec => []OnlyFaultsAbandon
<1>1. Inductive => OnlyFaultsAbandon
  BY DEF Inductive
<1> QED
  BY <1>1, Invariance, PTL

-----------------------------------------------------------------------------
(* The delivery in hand or in the batch is open: the worker never touches a  *)
(* closed row.                                                               *)
LEMMA HeldIsOpen ==
  ASSUME Inductive, NEW d \in Deliveries, Held(d)
  PROVE  ~Closed(d) /\ ~Stranded(d) /\ StageOf(d) = "open"
BY DEF Inductive, RowsAreSound, Closed, Delivered, Dropped, Stranded, StageOf

LEMMA ClaimableIsOpen ==
  ASSUME Inductive, NEW d \in Deliveries, Claimable(d)
  PROVE  ~Closed(d) /\ ~Stranded(d) /\ StageOf(d) = "open"
BY DEF Inductive, TypeOK, Claimable, Closed, Delivered, Dropped, Stranded, StageOf

(* What each step may do to a delivery that the worker does not hold, has    *)
(* just not claimed, and that has a row.                                     *)
LEMMA UntouchedRow ==
  ASSUME Inductive, [Next]_vars, NEW d \in Deliveries,
         ~Held(d), ~Claimable(d), status[d] # "absent"
  PROVE  /\ status'[d] = status[d]
         /\ attempts'[d] = attempts[d]
         /\ retryable'[d] = retryable[d]
         /\ copies'[d] = copies[d]
         /\ ~Held(d)'
<1> USE DEF Inductive, TypeOK, Held
<1>1. CASE \E e \in Events : Enqueue(e) \/ Acknowledge(e)
  BY <1>1 DEF Enqueue, Acknowledge, NewRows, rows, worker, observed
<1>2. CASE Claim
  BY <1>2, KeysAssumption DEF Claim, observed
<1>3. CASE \E c \in Deliveries : Send(c)
  BY <1>3 DEF Send, Block, SendAccepted, SendRefused, TakeNext, rows, observed
<1>4. CASE Mark
  BY <1>4, KeysAssumption DEF Mark, MarkError, MarkDelivered, MarkFailed, Release, rows,
         observed
<1>5. CASE Crash \/ Restart \/ Tick
  BY <1>5, KeysAssumption DEF Crash, Restart, Tick, Release, rows, worker, observed
<1>6. CASE UNCHANGED vars
  BY <1>6 DEF vars, rows, worker, observed
<1> QED
  BY <1>1, <1>2, <1>3, <1>4, <1>5, <1>6 DEF Next

(* A delivered or dropped notification stays as it is and is never sent      *)
(* again, however often its webhook is redelivered.                          *)
THEOREM ClosedStaysClosed == Spec => ClosedIsFinal
<1>1. ASSUME Inductive, [Next]_vars, NEW d \in Deliveries, Closed(d)
      PROVE  status'[d] = status[d] /\ copies'[d] = copies[d] /\ Closed(d)'
  <2>1. ~Held(d) /\ ~Claimable(d) /\ status[d] # "absent"
    BY <1>1, HeldIsOpen, ClaimableIsOpen DEF Closed, Delivered, Dropped
  <2> QED
    BY <1>1, <2>1, UntouchedRow DEF Closed, Delivered, Dropped, Exhausted
<1>2. Inductive /\ [Next]_vars =>
        [\A d \in Deliveries :
            Closed(d) => Closed(d)' /\ status'[d] = status[d] /\ copies'[d] = copies[d]]_vars
  BY <1>1
<1> QED
  BY <1>2, Invariance, PTL DEF Spec, ClosedIsFinal

(* A stranded row, abandoned on its last attempt, stays stranded for ever.   *)
THEOREM StrandedStaysStranded == Spec => StrandedIsForever
<1>1. ASSUME Inductive, [Next]_vars, NEW d \in Deliveries, Stranded(d)
      PROVE  Stranded(d)' /\ copies'[d] = copies[d]
  <2>1. ~Held(d) /\ ~Claimable(d) /\ status[d] # "absent"
    BY <1>1, ClaimableIsOpen DEF Stranded
  <2> QED
    BY <1>1, <2>1, UntouchedRow DEF Stranded, Exhausted
<1>2. Inductive /\ [Next]_vars =>
        [\A d \in Deliveries : Stranded(d) => Stranded(d)' /\ copies'[d] = copies[d]]_vars
  BY <1>1
<1> QED
  BY <1>2, Invariance, PTL DEF Spec, StrandedIsForever

-----------------------------------------------------------------------------
(* Refinement.  A claim, a lease running out or a crash is invisible to the  *)
(* contract; an enqueue creates, a send that is accepted sends, and a mark   *)
(* delivers, drops or leaves the delivery open.                              *)
LEMMA InitRefines == Init => Contract!Init
<1> SUFFICES ASSUME Init PROVE Contract!Init
  OBVIOUS
<1>1. \A d \in Deliveries : StageOf(d) \in {"none", "open", "dropped"}
  BY DEF Init, StageOf, Delivered
<1> QED
  BY <1>1 DEF Init, Contract!Init

(* A step that changes the stage of no delivery and sends nothing stutters.  *)
LEMMA Stutters ==
  ASSUME UNCHANGED copies, \A d \in Deliveries : StageOf(d)' = StageOf(d)
  PROVE  UNCHANGED Contract!contractVars
BY DEF Contract!contractVars

LEMMA StageKept ==
  ASSUME NEW d \in Deliveries,
         status'[d] = status[d], attempts'[d] = attempts[d], retryable'[d] = retryable[d]
  PROVE  StageOf(d)' = StageOf(d)
BY DEF StageOf, Delivered, Dropped, Exhausted

LEMMA EnqueueRefines ==
  ASSUME Inductive, NEW e \in Events, Enqueue(e)
  PROVE  Contract!Create(NewRows(e))
<1>1. /\ NewRows(e) \subseteq Deliveries
      /\ \A d \in NewRows(e) : StageOf(d) = "none"
  BY KeysAssumption DEF NewRows, StageOf, Delivered, Dropped
<1>2. \A d \in NewRows(e) : StageOf(d)' = "open"
  BY <1>1 DEF Enqueue, StageOf, Delivered, Dropped
<1>3. \A d \in Deliveries \ NewRows(e) : StageOf(d)' = StageOf(d)
  BY StageKept DEF Enqueue, Inductive, TypeOK
<1> QED
  BY <1>1, <1>2, <1>3 DEF Contract!Create, Enqueue, observed

LEMMA ClaimRefines ==
  ASSUME Inductive, Claim
  PROVE  UNCHANGED Contract!contractVars
<1>1. PICK B \in SUBSET Deliveries :
        /\ \A d \in B : Claimable(d)
        /\ status' = [d \in Deliveries |-> IF d \in B THEN "processing" ELSE status[d]]
        /\ attempts' = [d \in Deliveries |-> IF d \in B THEN attempts[d] + 1 ELSE attempts[d]]
  BY DEF Claim
<1>2. \A d \in B : StageOf(d)' = StageOf(d)
  BY <1>1, ClaimableIsOpen DEF StageOf, Delivered, Dropped
<1>3. \A d \in Deliveries \ B : StageOf(d)' = StageOf(d)
  BY <1>1, StageKept DEF Claim, Inductive, TypeOK
<1> QED
  BY <1>2, <1>3, Stutters DEF Claim, observed

LEMMA SendRefines ==
  ASSUME Inductive, NEW d \in Deliveries, SendAccepted(d)
  PROVE  Contract!Send(d)
<1>1. \A c \in Deliveries : StageOf(c)' = StageOf(c)
  BY StageKept DEF SendAccepted, rows
<1>2. StageOf(d) = "open"
  BY HeldIsOpen DEF SendAccepted, TakeNext, Held
<1>3. copies[d] < MaxAttempts
  BY LimitsAssumption DEF SendAccepted, TakeNext, Inductive, TypeOK, WorkerIsSound
<1> QED
  BY <1>1, <1>2, <1>3 DEF SendAccepted, Contract!Send

LEMMA MarkDeliveredRefines ==
  ASSUME Inductive, NEW d \in Deliveries, MarkDelivered(d)
  PROVE  Contract!Deliver(d)
<1>1. \A c \in Deliveries \ {d} : StageOf(c)' = StageOf(c)
  BY StageKept DEF MarkDelivered, Inductive, TypeOK
<1>2. StageOf(d) = "open" /\ StageOf(d)' = "delivered"
  BY HeldIsOpen DEF MarkDelivered, Held, StageOf, Delivered, Dropped, Inductive, TypeOK
<1>3. copies[d] > 0
  BY DEF MarkDelivered, Inductive, TypeOK, DuplicatesAreLosses
<1> QED
  BY <1>1, <1>2, <1>3 DEF MarkDelivered, observed, Contract!Deliver

LEMMA MarkFailedRefines ==
  ASSUME Inductive, NEW d \in Deliveries, MarkFailed(d)
  PROVE  Contract!Drop(d) \/ UNCHANGED Contract!contractVars
<1>1. \A c \in Deliveries \ {d} : StageOf(c)' = StageOf(c)
  BY StageKept DEF MarkFailed, Inductive, TypeOK
<1>2. StageOf(d) = "open"
  BY HeldIsOpen DEF MarkFailed, Held
<1>3. CASE RetriesLeft(d)
  <2>1. StageOf(d)' = "open"
    BY <1>3 DEF MarkFailed, StageOf, Delivered, Dropped, Inductive, TypeOK
  <2> QED
    BY <1>1, <1>2, <2>1, Stutters DEF MarkFailed, observed
<1>4. CASE ~RetriesLeft(d)
  <2>1. StageOf(d)' = "dropped"
    BY <1>4 DEF MarkFailed, StageOf, Delivered, Dropped, Inductive, TypeOK
  <2> QED
    BY <1>1, <1>2, <2>1 DEF MarkFailed, observed, Contract!Drop
<1> QED
  BY <1>3, <1>4

(* The outbox implements the delivery contract: whatever crashes, expires or *)
(* is redelivered, a notification is created once, is sent at most           *)
(* MaxAttempts times and only while open, and closes at most once.           *)
THEOREM Refinement == Spec => ImplementsContract
<1>1. ASSUME Inductive, [Next]_vars PROVE [Contract!Next]_(Contract!contractVars)
  <2>1. ASSUME UNCHANGED rows, UNCHANGED copies PROVE UNCHANGED Contract!contractVars
    BY <2>1, StageKept, Stutters DEF rows
  <2>2. CASE \E e \in Events : Enqueue(e)
    BY <1>1, <2>2, EnqueueRefines, KeysAssumption DEF Contract!Next, NewRows
  <2>3. CASE Claim
    BY <2>3, <1>1, ClaimRefines
  <2>4. CASE \E d \in Deliveries : SendAccepted(d)
    BY <2>4, <1>1, SendRefines DEF Contract!Next
  <2>5. CASE \E d \in Deliveries : MarkDelivered(d)
    BY <2>5, <1>1, MarkDeliveredRefines DEF Contract!Next
  <2>6. CASE \E d \in Deliveries : MarkFailed(d)
    BY <2>6, <1>1, MarkFailedRefines DEF Contract!Next
  <2>7. CASE \/ \E e \in Events : Acknowledge(e)
             \/ \E d \in Deliveries : Block(d) \/ SendRefused(d)
             \/ MarkError \/ Crash \/ Restart \/ UNCHANGED vars
    BY <2>7, <2>1 DEF Acknowledge, Block, SendRefused, MarkError, Crash, Restart, observed, vars
  <2>8. CASE Tick
    BY <2>8, StageKept, Stutters DEF Tick, observed
  <2> QED
    BY <1>1, <2>2, <2>3, <2>4, <2>5, <2>6, <2>7, <2>8 DEF Next, Send, Mark
<1> QED
  BY <1>1, InitRefines, Invariance, PTL DEF Spec, ImplementsContract, Contract!Spec
=============================================================================
