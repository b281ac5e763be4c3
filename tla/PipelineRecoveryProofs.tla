----------------------- MODULE PipelineRecoveryProofs -----------------------
(***************************************************************************)
(* Theorems about PipelineRecovery for every set of branches, users and     *)
(* webhooks.  A recovery notice is written one transaction after the row it *)
(* is derived from was read, so the invariant has to follow the recipients  *)
(* from the notices into the row, from there into a handler's memory, and   *)
(* back into the notices.                                                   *)
(***************************************************************************)
EXTENDS PipelineRecovery, TLAPS

ToldOn(b, u) == \E v \in Webhooks : Branch[v] = b /\ Told(v, u)

(* A row that shows a failure lists only people who were told of one.        *)
RowsAreTold ==
    \A b \in Branches : pipeline[b].status = "failed" =>
        \A u \in pipeline[b].recipients : ToldOn(b, u)

(* What a handler is about to write: its reason is that of its webhook, and  *)
(* whoever it will tell of a recovery was told of a failure.                 *)
ResultsAreTold ==
    \A w \in Webhooks : routed[w].busy =>
        /\ routed[w].reason = ReasonOf(w)
        /\ routed[w].reason = "ci_recovered" => \A u \in routed[w].to : ToldOn(Branch[w], u)

Inductive == TypeOK /\ RowsAreTold /\ ResultsAreTold /\ NoSpuriousRecovery

-----------------------------------------------------------------------------
(* Route finds only addresses, and tells of a recovery only those listed by  *)
(* a row that shows a failure.                                               *)
LEMMA CandidatesAreTold ==
  ASSUME TypeOK, RowsAreTold, NEW w \in Webhooks
  PROVE  /\ Candidates(w) \subseteq Users
         /\ Status[w] = "success" => \A u \in Candidates(w) : ToldOn(Branch[w], u)
<1>1. /\ Branch[w] \in Branches
      /\ Author[w] \in Users \cup {Nobody}
      /\ pipeline[Branch[w]].recipients \subseteq Users
  BY WebhooksAssumption DEF TypeOK, PipelineState
<1> QED
  BY <1>1 DEF Candidates, RowsAreTold

LEMMA InitInductive == Init => Inductive
BY DEF Init, Inductive, TypeOK, PipelineState, RouteResult, NotRouted, Reasons,
       RowsAreTold, ResultsAreTold, NoSpuriousRecovery, Recovered

LEMMA RouteInductive ==
  ASSUME Inductive, NEW w \in Webhooks, Route(w)
  PROVE  Inductive'
<1>1. TypeOK'
  BY CandidatesAreTold DEF Inductive, Route, TypeOK, RouteResult, ReasonOf, Reasons
<1>2. (RowsAreTold /\ NoSpuriousRecovery)'
  BY DEF Inductive, Route, RowsAreTold, NoSpuriousRecovery, ToldOn, Told, Recovered
<1>3. ResultsAreTold'
  <2> SUFFICES ASSUME NEW x \in Webhooks, routed'[x].busy
               PROVE  /\ routed'[x].reason = ReasonOf(x)
                      /\ routed'[x].reason = "ci_recovered" =>
                            \A u \in routed'[x].to : ToldOn(Branch[x], u)'
    BY DEF ResultsAreTold, ReasonOf
  <2>1. CASE x = w
    BY <2>1, CandidatesAreTold DEF Inductive, Route, TypeOK, ReasonOf, ToldOn, Told
  <2>2. CASE x # w
    BY <2>2 DEF Inductive, Route, TypeOK, ResultsAreTold, ToldOn, Told
  <2> QED
    BY <2>1, <2>2
<1> QED
  BY <1>1, <1>2, <1>3 DEF Inductive

LEMMA CommitInductive ==
  ASSUME Inductive, NEW w \in Webhooks, Commit(w)
  PROVE  Inductive'
<1> USE DEF Inductive
<1>1. /\ Branch[w] \in Branches
      /\ routed[w].busy
      /\ routed[w] \in RouteResult
      /\ routed[w].reason = ReasonOf(w)
      /\ notices' = notices \cup ({w} \X routed[w].to \X {routed[w].reason})
      /\ pipeline' = [pipeline EXCEPT ![Branch[w]] = NextState(w)]
      /\ routed' = [routed EXCEPT ![w] = NotRouted]
  BY WebhooksAssumption DEF Commit, TypeOK, ResultsAreTold
<1>2. TypeOK'
  <2>1. NextState(w) \in PipelineState
    BY <1>1 DEF NextState, PipelineState, RouteResult, TypeOK, Decisive
  <2>2. NotRouted \in RouteResult
    BY DEF NotRouted, RouteResult, Reasons
  <2> QED
    BY <1>1, <2>1, <2>2 DEF Commit, TypeOK, RouteResult
<1>3. \A b \in Branches, u \in Users : ToldOn(b, u) => ToldOn(b, u)'
  BY <1>1 DEF ToldOn, Told
<1>4. RowsAreTold'
  <2> SUFFICES ASSUME NEW b \in Branches, pipeline'[b].status = "failed",
                      NEW u \in pipeline'[b].recipients
               PROVE  ToldOn(b, u)'
    BY DEF RowsAreTold
  <2>1. u \in Users
    BY <1>2 DEF TypeOK, PipelineState
  <2>2. CASE b = Branch[w] /\ Status[w] \in Decisive
    <3>1. Status[w] = "failed" /\ u \in routed[w].to
      BY <1>1, <2>2 DEF NextState, TypeOK
    <3>2. <<w, u, "ci_failed">> \in notices'
      BY <1>1, <3>1 DEF ReasonOf
    <3> QED
      BY <2>2, <3>2 DEF ToldOn, Told
  <2>3. CASE ~(b = Branch[w] /\ Status[w] \in Decisive)
    <3>1. pipeline'[b] = pipeline[b]
      BY <1>1, <2>3 DEF NextState, TypeOK
    <3> QED
      BY <1>3, <2>1, <3>1 DEF RowsAreTold
  <2> QED
    BY <2>2, <2>3
<1>5. ResultsAreTold'
  BY <1>1, <1>3, WebhooksAssumption DEF ResultsAreTold, TypeOK, RouteResult, NotRouted, ReasonOf
<1>6. NoSpuriousRecovery'
  <2> SUFFICES ASSUME NEW x \in Webhooks, NEW u \in Users, Recovered(x, u)'
               PROVE  ToldOn(Branch[x], u)'
    BY DEF NoSpuriousRecovery, ToldOn
  <2>1. Branch[x] \in Branches
    BY WebhooksAssumption
  <2>2. CASE Recovered(x, u)
    BY <1>3, <2>1, <2>2 DEF NoSpuriousRecovery, ToldOn
  <2>3. CASE ~Recovered(x, u)
    <3>1. x = w /\ u \in routed[w].to /\ routed[w].reason = "ci_recovered"
      BY <1>1, <2>3 DEF Recovered
    <3> QED
      BY <1>1, <1>3, <2>1, <3>1 DEF ResultsAreTold
  <2> QED
    BY <2>2, <2>3
<1> QED
  BY <1>2, <1>4, <1>5, <1>6

LEMMA AbortInductive ==
  ASSUME Inductive, NEW w \in Webhooks, Abort(w)
  PROVE  Inductive'
<1>1. NotRouted \in RouteResult /\ ~NotRouted.busy
  BY DEF NotRouted, RouteResult, Reasons
<1>2. TypeOK'
  BY <1>1 DEF Inductive, Abort, TypeOK
<1>3. (RowsAreTold /\ NoSpuriousRecovery)'
  BY DEF Inductive, Abort, RowsAreTold, NoSpuriousRecovery, ToldOn, Told, Recovered
<1>4. ResultsAreTold'
  <2> SUFFICES ASSUME NEW x \in Webhooks, routed'[x].busy
               PROVE  /\ routed'[x].reason = ReasonOf(x)
                      /\ routed'[x].reason = "ci_recovered" =>
                            \A u \in routed'[x].to : ToldOn(Branch[x], u)'
    BY DEF ResultsAreTold, ReasonOf
  <2>1. x # w /\ routed'[x] = routed[x]
    BY <1>1 DEF Inductive, Abort, TypeOK
  <2> QED
    BY <2>1 DEF Inductive, Abort, ResultsAreTold, ToldOn, Told
<1> QED
  BY <1>2, <1>3, <1>4 DEF Inductive

LEMMA NextInductive == Inductive /\ [Next]_vars => Inductive'
<1> SUFFICES ASSUME Inductive, [Next]_vars PROVE Inductive'
  OBVIOUS
<1>1. CASE \E w \in Webhooks : Route(w) \/ Commit(w) \/ Abort(w)
  BY <1>1, RouteInductive, CommitInductive, AbortInductive
<1>2. CASE (\E u \in Users : SetPreference(u)) \/ UNCHANGED vars
  <2>1. /\ UNCHANGED <<pipeline, notices, routed, handled>>
        /\ optedOut' \in SUBSET Users /\ silenced' \in SUBSET Users /\ orderly' \in BOOLEAN
    BY <1>2 DEF SetPreference, vars, Inductive, TypeOK
  <2>2. TypeOK'
    BY <2>1 DEF Inductive, TypeOK
  <2>3. RowsAreTold' /\ ResultsAreTold'
    BY <2>1 DEF Inductive, RowsAreTold, ResultsAreTold, ToldOn, Told, ReasonOf
  <2>4. NoSpuriousRecovery'
    BY <2>1 DEF Inductive, NoSpuriousRecovery, ToldOn, Told, Recovered
  <2> QED
    BY <2>2, <2>3, <2>4 DEF Inductive
<1> QED
  BY <1>1, <1>2 DEF Next

LEMMA Invariance == Spec => []Inductive
BY InitInductive, NextInductive, PTL DEF Spec

(* Table pipeline_states, the notices and the handlers keep their types.     *)
THEOREM TypeCorrect == Spec => []TypeOK
<1>1. Inductive => TypeOK
  BY DEF Inductive
<1> QED
  BY <1>1, Invariance, PTL

(* A recovery notice follows a failure notice to the same person about the   *)
(* same branch, however webhooks and handlers are ordered.                   *)
THEOREM RecoveryNeedsFailure == Spec => []NoSpuriousRecovery
<1>1. Inductive => NoSpuriousRecovery
  BY DEF Inductive
<1> QED
  BY <1>1, Invariance, PTL

-----------------------------------------------------------------------------
(* While webhooks come in order and one at a time, three facts tie the row    *)
(* to the webhooks: nothing of a webhook has been written before it is done,  *)
(* the row shows the last decisive webhook that is done, with exactly those   *)
(* told of it, and what a handler is about to write comes from the webhook    *)
(* that precedes its own.                                                     *)
Done(b) == {v \in handled : Branch[v] = b /\ Status[v] \in Decisive /\ ~routed[v].busy}

OneAtATime ==
    \A w \in Webhooks : routed[w].busy =>
        w \in handled /\ \A x \in handled : Branch[x] = Branch[w] => x <= w

WrittenWhenDone ==
    \A w \in Webhooks, u \in Users, r \in Reasons :
        <<w, u, r>> \in notices => w \in handled /\ ~routed[w].busy

RowShowsLast ==
    \A b \in Branches :
        /\ pipeline[b].status = "none" => Done(b) = {}
        /\ pipeline[b].status # "none" => \E v \in Done(b) :
              /\ \A x \in Done(b) : x <= v
              /\ pipeline[b].status = Status[v]
              /\ Status[v] = "failed" => \A u \in Users : u \in pipeline[b].recipients <=> Told(v, u)

FailureBefore(w, u) == \E v \in Webhooks : Precedes(v, w) /\ Status[v] = "failed" /\ Told(v, u)

ResultsFollow ==
    \A w \in Webhooks : routed[w].busy /\ Status[w] = "success" =>
        /\ \A u \in routed[w].to : FailureBefore(w, u)
        /\ \A u \in Users \ silenced : FailureBefore(w, u) => u \in routed[w].to

RecoveriesFollow ==
    \A w \in Webhooks, u \in Users : Recovered(w, u) => FailureBefore(w, u)

FailuresAreFollowed ==
    \A w \in handled, u \in Users \ silenced :
        FailureBefore(w, u) /\ Status[w] = "success" /\ ~routed[w].busy => Recovered(w, u)

InOrder ==
    /\ OneAtATime
    /\ WrittenWhenDone
    /\ RowShowsLast
    /\ ResultsFollow
    /\ RecoveriesFollow
    /\ FailuresAreFollowed

Ordered == Inductive /\ optedOut \subseteq silenced /\ (orderly => InOrder)

LEMMA InitOrdered == Init => Ordered
<1> SUFFICES ASSUME Init PROVE Ordered
  OBVIOUS
<1>1. Inductive
  BY InitInductive
<1>2. InOrder
  BY <1>1 DEF Init, InOrder, OneAtATime, WrittenWhenDone, RowShowsLast, ResultsFollow, RecoveriesFollow,
     FailuresAreFollowed, NotRouted, Done, Recovered, Inductive, TypeOK
<1> QED
  BY <1>1, <1>2 DEF Init, Ordered

(* A webhook that comes in order is preceded by the one the row shows, and    *)
(* changes nothing about what precedes the others.                            *)
LEMMA RouteOrdered ==
  ASSUME Ordered, NEW w \in Webhooks, Route(w)
  PROVE  Ordered'
<1>1. Inductive' /\ (optedOut \subseteq silenced)'
  BY RouteInductive DEF Ordered, Route
<1> SUFFICES ASSUME orderly' PROVE InOrder'
  BY <1>1 DEF Ordered
<1> DEFINE result == [busy |-> TRUE, reason |-> ReasonOf(w), to |-> Candidates(w) \ optedOut]
           b == Branch[w]
<1>2. /\ TypeOK /\ InOrder /\ ~routed[w].busy
      /\ \A v \in handled : Branch[v] = Branch[w] => v < w /\ ~routed[v].busy
      /\ handled' = handled \cup {w}
      /\ UNCHANGED <<pipeline, notices, optedOut, silenced>>
      /\ b \in Branches
  BY WebhooksAssumption DEF Ordered, Inductive, Route
<1>3. /\ routed'[w] = result /\ w \in handled' /\ w \notin handled
      /\ \A x \in Webhooks \ {w} : routed'[x] = routed[x]
      /\ w \in Nat /\ \A x \in handled : x \in Webhooks /\ x \in Nat
  BY <1>2 DEF Route, TypeOK, Webhooks
<1>4. \A x \in handled' : Before(x)' = Before(x)
  BY <1>2, <1>3 DEF Before
<1>5. \A x \in handled' : \A v : Precedes(v, x)' <=> Precedes(v, x)
  BY <1>4 DEF Precedes
<1>6. \A x \in handled' : \A u : FailureBefore(x, u)' <=> FailureBefore(x, u)
  BY <1>2, <1>5 DEF FailureBefore, Told
<1>7. \A a \in Branches : Done(a)' = Done(a)
  <2>1. routed'[w].busy /\ \A v \in handled : v # w /\ routed'[v] = routed[v]
    BY <1>3
  <2>2. ASSUME NEW a \in Branches
        PROVE  Done(a)' = {v \in handled' : Branch[v] = a /\ Status[v] \in Decisive /\ ~routed'[v].busy}
    BY DEF Done
  <2> QED
    BY <1>2, <2>1, <2>2 DEF Done
<1>8. Done(b) = Before(w)
  BY <1>2, <1>3 DEF Done, Before
<1>9. OneAtATime'
  BY <1>2, <1>3 DEF InOrder, OneAtATime
<1>10. WrittenWhenDone'
  BY <1>2, <1>3 DEF InOrder, WrittenWhenDone
<1>11. RowShowsLast'
  BY <1>2, <1>7 DEF InOrder, RowShowsLast, Told
<1>12. RecoveriesFollow'
  BY <1>2, <1>3, <1>6 DEF InOrder, RecoveriesFollow, Recovered, WrittenWhenDone, Reasons
<1>13. FailuresAreFollowed'
  BY <1>2, <1>3, <1>6 DEF InOrder, FailuresAreFollowed, Recovered
<1>14. ASSUME Status[w] = "success"
       PROVE  \A u \in Users : u \in Candidates(w) <=> FailureBefore(w, u)
  <2>1. ASSUME NEW u \in Users, u \in Candidates(w)
        PROVE  FailureBefore(w, u)
    <3>1. pipeline[b].status = "failed" /\ u \in pipeline[b].recipients
      BY <1>14, <2>1 DEF Candidates
    <3>2. PICK v \in Done(b) : /\ \A x \in Done(b) : x <= v
                               /\ Status[v] = "failed" /\ Told(v, u)
      BY <1>2, <3>1 DEF InOrder, RowShowsLast
    <3> QED
      BY <1>3, <1>8, <3>2 DEF FailureBefore, Precedes, Done
  <2>2. ASSUME NEW u \in Users, FailureBefore(w, u)
        PROVE  u \in Candidates(w)
    <3>1. PICK v \in Webhooks : Precedes(v, w) /\ Status[v] = "failed" /\ Told(v, u)
      BY <2>2 DEF FailureBefore
    <3>2. v \in Done(b) /\ \A x \in Done(b) : x <= v
      BY <1>8, <3>1 DEF Precedes
    <3>3. pipeline[b].status # "none"
      BY <1>2, <3>2 DEF InOrder, RowShowsLast
    <3>4. PICK y \in Done(b) : /\ \A x \in Done(b) : x <= y
                               /\ pipeline[b].status = Status[y]
                               /\ Status[y] = "failed" =>
                                     \A z \in Users : z \in pipeline[b].recipients <=> Told(y, z)
      BY <1>2, <3>3 DEF InOrder, RowShowsLast
    <3>5. y = v
      <4>1. y \in Nat /\ v \in Nat /\ y <= v /\ v <= y
        BY <1>3, <3>2, <3>4 DEF Done
      <4> QED
        BY <4>1
    <3> QED
      BY <1>14, <3>1, <3>4, <3>5 DEF Candidates
  <2> QED
    BY <2>1, <2>2
<1>15. ResultsFollow'
  <2> SUFFICES ASSUME NEW x \in Webhooks, routed'[x].busy, Status[x] = "success"
               PROVE  /\ \A u \in routed'[x].to : FailureBefore(x, u)'
                      /\ \A u \in Users \ silenced : FailureBefore(x, u)' => u \in routed'[x].to
    BY <1>2 DEF ResultsFollow
  <2>1. CASE x = w
    <3>1. Candidates(w) \subseteq Users /\ optedOut \subseteq silenced
      BY CandidatesAreTold DEF Ordered, Inductive
    <3> QED
      BY <1>3, <1>6, <1>14, <2>1, <3>1
  <2>2. CASE x # w
    <3>1. routed'[x] = routed[x] /\ x \in handled'
      BY <1>2, <1>3, <2>2 DEF InOrder, OneAtATime
    <3> QED
      BY <1>2, <1>6, <3>1 DEF InOrder, ResultsFollow
  <2> QED
    BY <2>1, <2>2
<1> QED
  BY <1>9, <1>10, <1>11, <1>12, <1>13, <1>15 DEF InOrder

(* A webhook that is done was the last of its branch, so the row it leaves    *)
(* shows it.                                                                  *)
LEMMA CommitOrdered ==
  ASSUME Ordered, NEW w \in Webhooks, Commit(w)
  PROVE  Ordered'
<1>1. Inductive' /\ (optedOut \subseteq silenced)'
  BY CommitInductive DEF Ordered, Commit
<1> SUFFICES ASSUME orderly' PROVE InOrder'
  BY <1>1 DEF Ordered
<1> DEFINE b == Branch[w]
           to == routed[w].to
<1>2. /\ TypeOK /\ InOrder /\ routed[w].busy /\ routed[w].reason = ReasonOf(w)
      /\ UNCHANGED <<optedOut, handled, silenced, orderly>>
      /\ notices' = notices \cup ({w} \X to \X {ReasonOf(w)})
      /\ b \in Branches /\ to \subseteq Users
      /\ \A a \in Branches \ {b} : pipeline'[a] = pipeline[a]
      /\ pipeline'[b] = NextState(w)
  BY WebhooksAssumption DEF Ordered, Inductive, ResultsAreTold, Commit, TypeOK, RouteResult
<1>3. /\ ~routed'[w].busy /\ w \in handled
      /\ \A x \in Webhooks \ {w} : routed'[x] = routed[x]
      /\ \A x \in handled : x \in Webhooks /\ x \in Nat
      /\ \A x \in handled : Branch[x] = b => x <= w
  BY <1>2 DEF Commit, TypeOK, NotRouted, Webhooks, InOrder, OneAtATime
<1>4. \A v \in Webhooks : \A u : v # w => (Told(v, u)' <=> Told(v, u)) /\ (Recovered(v, u)' <=> Recovered(v, u))
  BY <1>2 DEF Told, Recovered
<1>5. \A u \in Users : /\ Told(w, u)' <=> Status[w] # "success" /\ u \in to
                       /\ Recovered(w, u)' <=> Status[w] = "success" /\ u \in to
  <2>1. \A u \in Users : ~Told(w, u) /\ ~Recovered(w, u)
    BY <1>2 DEF InOrder, WrittenWhenDone, Told, Recovered, Reasons
  <2> QED
    BY <1>2, <2>1 DEF Told, Recovered, ReasonOf
<1>6. \A x \in Webhooks : \A v :
         /\ Precedes(v, x)' <=> Precedes(v, x)
         /\ Precedes(v, x) => v \in Webhooks
  BY <1>2, <1>3 DEF Precedes, Before
<1>7. \A x \in handled : ~Precedes(w, x)
  <2> SUFFICES ASSUME NEW x \in handled, Precedes(w, x) PROVE FALSE
    OBVIOUS
  <2>1. w < x /\ Branch[x] = b /\ x <= w /\ x \in Nat /\ w \in Nat
    BY <1>3 DEF Precedes, Before
  <2> QED
    BY <2>1
<1>8. \A x \in handled : \A u : FailureBefore(x, u)' <=> FailureBefore(x, u)
  BY <1>3, <1>4, <1>6, <1>7 DEF FailureBefore
<1>9. OneAtATime'
  BY <1>2, <1>3 DEF InOrder, OneAtATime
<1>10. WrittenWhenDone'
  BY <1>2, <1>3 DEF InOrder, WrittenWhenDone
<1>11. RowShowsLast'
  <2> SUFFICES ASSUME NEW a \in Branches
               PROVE  /\ pipeline'[a].status = "none" => Done(a)' = {}
                      /\ pipeline'[a].status # "none" => \E v \in Done(a)' :
                            /\ \A x \in Done(a)' : x <= v
                            /\ pipeline'[a].status = Status[v]
                            /\ Status[v] = "failed" =>
                                  \A u \in Users : u \in pipeline'[a].recipients <=> Told(v, u)'
    BY DEF RowShowsLast
  <2>1. CASE a # b \/ Status[w] \notin Decisive
    <3>1. Done(a)' = Done(a) /\ w \notin Done(a) /\ Done(a) \subseteq Webhooks
      BY <1>2, <1>3, <2>1 DEF Done
    <3>2. pipeline'[a] = pipeline[a]
      BY <1>2, <2>1 DEF NextState
    <3> QED
      BY <1>2, <1>4, <3>1, <3>2 DEF InOrder, RowShowsLast
  <2>2. CASE a = b /\ Status[w] \in Decisive
    <3>1. w \in Done(a)' /\ \A x \in Done(a)' : x <= w
      BY <1>2, <1>3, <2>2 DEF Done
    <3>2. pipeline'[a] = [status |-> Status[w], recipients |-> to] /\ Status[w] # "none"
      BY <1>2, <2>2 DEF NextState, Decisive
    <3> QED
      BY <1>5, <3>1, <3>2
  <2> QED
    BY <2>1, <2>2
<1>12. ResultsFollow'
  <2> SUFFICES ASSUME NEW x \in Webhooks, routed'[x].busy, Status[x] = "success"
               PROVE  /\ \A u \in routed'[x].to : FailureBefore(x, u)'
                      /\ \A u \in Users \ silenced : FailureBefore(x, u)' => u \in routed'[x].to
    BY <1>2 DEF ResultsFollow
  <2>1. routed'[x] = routed[x] /\ x \in handled
    BY <1>2, <1>3 DEF InOrder, OneAtATime
  <2> QED
    BY <1>2, <1>8, <2>1 DEF InOrder, ResultsFollow
<1>13. RecoveriesFollow'
  <2> SUFFICES ASSUME NEW x \in Webhooks, NEW u \in Users, Recovered(x, u)'
               PROVE  FailureBefore(x, u)'
    BY DEF RecoveriesFollow
  <2>1. CASE x = w
    BY <1>2, <1>3, <1>5, <1>8, <2>1 DEF InOrder, ResultsFollow
  <2>2. CASE x # w
    <3>1. Recovered(x, u) /\ x \in handled
      BY <1>2, <1>4, <2>2 DEF InOrder, WrittenWhenDone, Recovered, Reasons
    <3> QED
      BY <1>2, <1>8, <3>1 DEF InOrder, RecoveriesFollow
  <2> QED
    BY <2>1, <2>2
<1>14. FailuresAreFollowed'
  <2> SUFFICES ASSUME NEW x \in handled, NEW u \in Users \ silenced, FailureBefore(x, u)',
                      Status[x] = "success", ~routed'[x].busy
               PROVE  Recovered(x, u)'
    BY <1>2 DEF FailuresAreFollowed
  <2>1. FailureBefore(x, u) /\ x \in Webhooks
    BY <1>3, <1>8
  <2>2. CASE x = w
    BY <1>2, <1>5, <2>1, <2>2 DEF InOrder, ResultsFollow
  <2>3. CASE x # w
    BY <1>2, <1>3, <1>4, <2>1, <2>3 DEF InOrder, FailuresAreFollowed
  <2> QED
    BY <2>2, <2>3
<1> QED
  BY <1>9, <1>10, <1>11, <1>12, <1>13, <1>14 DEF InOrder

LEMMA NextOrdered == Ordered /\ [Next]_vars => Ordered'
<1> SUFFICES ASSUME Ordered, [Next]_vars PROVE Ordered'
  OBVIOUS
<1>1. Inductive'
  BY NextInductive DEF Ordered
<1>2. CASE \E w \in Webhooks : Route(w) \/ Commit(w)
  BY <1>2, RouteOrdered, CommitOrdered
<1>3. CASE \E w \in Webhooks : Abort(w)
  BY <1>1, <1>3 DEF Abort, Ordered
<1>4. CASE (\E u \in Users : SetPreference(u)) \/ UNCHANGED vars
  <2>1. /\ UNCHANGED <<pipeline, notices, routed, handled, orderly>>
        /\ silenced \subseteq silenced' /\ (optedOut \subseteq silenced)'
    BY <1>4 DEF SetPreference, vars, Ordered
  <2>2. \A w, u : /\ FailureBefore(w, u)' <=> FailureBefore(w, u)
                  /\ Told(w, u)' <=> Told(w, u)
                  /\ Recovered(w, u)' <=> Recovered(w, u)
    BY <2>1 DEF FailureBefore, Precedes, Before, Told, Recovered
  <2>3. (OneAtATime /\ WrittenWhenDone /\ RowShowsLast) => (OneAtATime /\ WrittenWhenDone /\ RowShowsLast)'
    BY <2>1, <2>2 DEF OneAtATime, WrittenWhenDone, RowShowsLast, Done
  <2>4. (ResultsFollow /\ RecoveriesFollow /\ FailuresAreFollowed)
            => (ResultsFollow /\ RecoveriesFollow /\ FailuresAreFollowed)'
    BY <2>1, <2>2 DEF ResultsFollow, RecoveriesFollow, FailuresAreFollowed
  <2> QED
    BY <1>1, <2>1, <2>3, <2>4 DEF Ordered, InOrder
<1> QED
  BY <1>2, <1>3, <1>4 DEF Next

LEMMA OrderedInvariance == Spec => []Ordered
BY InitOrdered, NextOrdered, PTL DEF Spec

(* While webhooks come in order and one at a time, a recovery goes only to    *)
(* people told of the failure right before it.                                *)
THEOREM OneRecoveryEach == Spec => []OneRecoveryPerFailure
<1>1. Ordered => OneRecoveryPerFailure
  BY DEF Ordered, InOrder, RecoveriesFollow, FailureBefore, OneRecoveryPerFailure
<1> QED
  BY <1>1, OrderedInvariance, PTL

(* ... and to everyone told of it who never refused pipeline notices.         *)
THEOREM NobodyMissesRecovery == Spec => []NoRecoveryMissed
<1>1. Ordered => NoRecoveryMissed
  BY DEF Ordered, Inductive, TypeOK, InOrder, FailuresAreFollowed, FailureBefore, NoRecoveryMissed
<1> QED
  BY <1>1, OrderedInvariance, PTL
=============================================================================
