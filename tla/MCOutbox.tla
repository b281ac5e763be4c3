------------------------------ MODULE MCOutbox ------------------------------
(* A small outbox: two webhooks that share a delivery key, a recipient the   *)
(* allowlist refuses, and a row an older version of the program left failed. *)
EXTENDS Outbox, TLC

CONSTANTS opened, updated, shared, blocked

MCDeliveriesOf == (opened :> {shared, blocked}) @@ (updated :> {shared})
MCBackoff[n \in 1 .. MaxAttempts] ==
    IF n = 1 THEN RetryDelay
    ELSE IF 2 * MCBackoff[n - 1] >= RetryCap THEN RetryCap ELSE 2 * MCBackoff[n - 1]

MCOneEvent == opened :> {shared, blocked}
=============================================================================
