--------------------------- MODULE MCFeishuClient ---------------------------
(* A send and a lookup of two batches share a client.                        *)
EXTENDS FeishuClient, TLC

CONSTANTS worker, lookup

MCParts == (worker :> 1) @@ (lookup :> 2)

(* An answer of every kind the client tells apart. *)
MCAnswers == {
    [status |-> "other",   code |-> "token"],
    [status |-> "limited", code |-> "other"],
    [status |-> "denied",  code |-> "garbled"]}
=============================================================================
