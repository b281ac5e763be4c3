-------------------------- MODULE PipelineRecovery --------------------------
(***************************************************************************)
(* Failure and recovery notices for the pipelines of one branch or merge    *)
(* request.  A handler first routes: it reads the recipient's preference    *)
(* and, for a success, the pipeline_states row.  Only later does it write   *)
(* the notices and the row in one transaction.  Handlers run concurrently,  *)
(* GitLab may deliver webhooks out of order or more than once, and a        *)
(* handler may stop between the two steps.                                  *)
(***************************************************************************)
EXTENDS Naturals

CONSTANTS
    Branches,       \* correlation keys: a merge request or a ref
    Users,          \* addresses
    Nobody,         \* a commit author no address is known for
    Last,           \* webhooks are numbered 1 .. Last as GitLab produced them
    Branch,         \* the correlation key of a webhook
    Status,         \* the pipeline status it reports
    Author          \* the commit author, or the actor when there is none

Webhooks == 1 .. Last
Decisive == {"failed", "success"}

ASSUME WebhooksAssumption ==
    /\ Last \in Nat
    /\ Branch \in [Webhooks -> Branches]
    /\ Status \in [Webhooks -> Decisive \cup {"running"}]
    /\ Author \in [Webhooks -> Users \cup {Nobody}]
    /\ Nobody \notin Users

VARIABLES
    pipeline,       \* table pipeline_states: Branches -> [status, recipients]
    notices,        \* table deliveries: <<webhook, user, reason>>
    optedOut,       \* users whose preferences refuse pipeline notices
    routed,         \* per webhook: the result of Route not yet committed
    (* history *)
    handled,        \* the webhooks routed at least once
    silenced,       \* users who were opted out at some time
    orderly         \* so far each branch's webhooks came once, in order, one at a time

vars == <<pipeline, notices, optedOut, routed, handled, silenced, orderly>>

Reasons == {"ci_failed", "ci_recovered"}
NotRouted == [busy |-> FALSE, reason |-> "ci_failed", to |-> {}]

PipelineState == [status : {"none"} \cup Decisive, recipients : SUBSET Users]
RouteResult == [busy : BOOLEAN, reason : Reasons, to : SUBSET Users]

TypeOK ==
    /\ pipeline \in [Branches -> PipelineState]
    /\ notices \in SUBSET (Webhooks \X Users \X Reasons)
    /\ optedOut \in SUBSET Users
    /\ routed \in [Webhooks -> RouteResult]
    /\ handled \in SUBSET Webhooks
    /\ silenced \in SUBSET Users
    /\ orderly \in BOOLEAN

Init ==
    /\ pipeline = [b \in Branches |-> [status |-> "none", recipients |-> {}]]
    /\ notices = {}
    /\ optedOut \in SUBSET Users
    /\ routed = [w \in Webhooks |-> NotRouted]
    /\ handled = {}
    /\ silenced = optedOut
    /\ orderly = TRUE

-----------------------------------------------------------------------------
(* Mutant of Candidates: a success always informs the recorded recipients.   *)
CandidatesUnchecked(w) ==
    CASE Status[w] = "failed"  -> {Author[w]} \ {Nobody}
      [] Status[w] = "success" -> pipeline[Branch[w]].recipients
      [] OTHER                 -> {}

(* routePipeline: the author of a failure; the recipients of the failure the *)
(* row still shows.                                                          *)
Candidates(w) ==
    CASE Status[w] = "failed" -> {Author[w]} \ {Nobody}
      [] Status[w] = "success" /\ pipeline[Branch[w]].status = "failed" ->
            pipeline[Branch[w]].recipients
      [] OTHER -> {}

ReasonOf(w) == IF Status[w] = "success" THEN "ci_recovered" ELSE "ci_failed"

Route(w) ==
    /\ ~routed[w].busy
    /\ routed' = [routed EXCEPT ![w] =
            [busy |-> TRUE, reason |-> ReasonOf(w), to |-> Candidates(w) \ optedOut]]
    /\ handled' = handled \cup {w}
    /\ orderly' = (/\ orderly
                   /\ \A v \in handled : Branch[v] = Branch[w] => v < w /\ ~routed[v].busy)
    /\ UNCHANGED <<pipeline, notices, optedOut, silenced>>

(* Mutants of NextState: every status is recorded; the author of a failure   *)
(* is recorded whether or not a notice went out.                             *)
NextStateAlways(w) == [status |-> Status[w], recipients |-> routed[w].to]

NextStateUnfiltered(w) ==
    IF Status[w] \in Decisive
    THEN [status |-> Status[w], recipients |-> routed[w].to \cup ({Author[w]} \ {Nobody})]
    ELSE pipeline[Branch[w]]

(* pipelineStateFor: the recipients are those of the notices just written.   *)
NextState(w) ==
    IF Status[w] \in Decisive
    THEN [status |-> Status[w], recipients |-> routed[w].to]
    ELSE pipeline[Branch[w]]

(* EnqueueWithPipelineState: INSERT OR IGNORE the notices, overwrite the row. *)
Commit(w) ==
    /\ routed[w].busy
    /\ notices' = notices \cup ({w} \X routed[w].to \X {routed[w].reason})
    /\ pipeline' = [pipeline EXCEPT ![Branch[w]] = NextState(w)]
    /\ routed' = [routed EXCEPT ![w] = NotRouted]
    /\ UNCHANGED <<optedOut, handled, silenced, orderly>>

(* The handler fails or the process stops before the transaction commits.    *)
Abort(w) ==
    /\ routed[w].busy
    /\ routed' = [routed EXCEPT ![w] = NotRouted]
    /\ orderly' = FALSE
    /\ UNCHANGED <<pipeline, notices, optedOut, handled, silenced>>

(* The recipient mutes or unmutes notices.                                   *)
SetPreference(u) ==
    /\ optedOut' = IF u \in optedOut THEN optedOut \ {u} ELSE optedOut \cup {u}
    /\ silenced' = silenced \cup optedOut'
    /\ UNCHANGED <<pipeline, notices, routed, handled, orderly>>

Next ==
    \/ \E w \in Webhooks : Route(w) \/ Commit(w) \/ Abort(w)
    \/ \E u \in Users : SetPreference(u)

Spec == Init /\ [][Next]_vars

-----------------------------------------------------------------------------
(* The decisive webhook of w's branch handled last before w.                 *)
Before(w) == {v \in handled : v < w /\ Branch[v] = Branch[w] /\ Status[v] \in Decisive}
Precedes(v, w) == v \in Before(w) /\ \A x \in Before(w) : x <= v

Told(v, u) == <<v, u, "ci_failed">> \in notices
Recovered(w, u) == <<w, u, "ci_recovered">> \in notices

(* Nobody hears of a recovery without having been sent a failure notice for  *)
(* the same branch, in whatever order webhooks and handlers interleave.      *)
NoSpuriousRecovery ==
    \A w \in Webhooks, u \in Users :
        Recovered(w, u) => \E v \in Webhooks : Branch[v] = Branch[w] /\ Told(v, u)

(* While webhooks come in order and one at a time, a recovery goes only to   *)
(* those told of the failure just before it: one failure, one recovery.      *)
OneRecoveryPerFailure ==
    orderly => \A w \in Webhooks, u \in Users :
        Recovered(w, u) =>
            \E v \in Webhooks : Precedes(v, w) /\ Status[v] = "failed" /\ Told(v, u)

(* ... and everyone told of that failure hears of the recovery, unless they  *)
(* have refused pipeline notices at some time.                               *)
NoRecoveryMissed ==
    orderly => \A v, w \in handled, u \in Users \ silenced :
        /\ Precedes(v, w) /\ Status[v] = "failed" /\ Told(v, u)
        /\ Status[w] = "success" /\ ~routed[w].busy
        => Recovered(w, u)
=============================================================================
