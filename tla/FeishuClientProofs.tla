------------------------- MODULE FeishuClientProofs -------------------------
(***************************************************************************)
(* Proofs about FeishuClient, for every set of callers and answers and      *)
(* every timeout, margin and lifetime.                                      *)
(***************************************************************************)
EXTENDS FeishuClient, TLAPS

(* tokenMu is held exactly by the caller that is requesting a token. *)
LockIsHeld == \A c \in Callers : call[c].step = "fetch" <=> holder = c

(* Tokens are received in the order in which they were issued. *)
InOrder(c) ==
    /\ call[c].step \in {"idle", "lock"} => call[c].token = 0
    /\ call[c].step = "fetch" /\ call[c].token # 0
          => request[c].reply = OK /\ call[c].token = issued
    /\ call[c].step = "request" => call[c].token # 0 /\ call[c].token <= cached

TokensInOrder == cached <= issued /\ \A c \in Callers : InOrder(c)

(* How much is left of a token in the cache, of one on its way here, and of  *)
(* one that a request is made with.                                          *)
CachedLasts ==
    cached # 0 /\ usable > 0 /\ cached \notin unkept
        => life[cached] + Timeout >= usable + Margin

GrantLasts(c) ==
    call[c].step = "fetch" /\ call[c].token # 0 /\ call[c].token \notin unkept
        => /\ request[c].grant > Margin
           /\ life[call[c].token] + request[c].age >= request[c].grant

RequestLasts(c) ==
    call[c].step = "request"
        => /\ call[c].part \in 1 .. Parts[c]
           /\ call[c].token \notin unkept
                 => life[call[c].token] + Timeout * call[c].part + request[c].age > Margin

TokensLast == CachedLasts /\ \A c \in Callers : GrantLasts(c) /\ RequestLasts(c)

(* A second attempt is made with a token the call has asked for. *)
RefreshesAsk ==
    \A c \in Callers :
        /\ ~result[c].stale
        /\ call[c].force /\ call[c].step = "request" => call[c].asked

(* A send has put its message before Feishu only if the answer says so or    *)
(* cannot be read.                                                           *)
SendOnce(c) ==
    /\ result[c].accepted \in {0, 1}
    /\ call[c].step # "idle" => result[c].outcome = "none"
    /\ call[c].step \in {"lock", "fetch"} => result[c].accepted = 0
    /\ call[c].step = "request" /\ result[c].accepted = 1
          => request[c].reply \in Garbled \cup {OK}
    /\ call[c].step = "request" /\ request[c].reply = OK => result[c].accepted = 1

SendsOnce == \A c \in Sends : SendOnce(c)

Inductive ==
    /\ TypeOK
    /\ LockIsHeld
    /\ TokensInOrder
    /\ TokensLast
    /\ RefreshesAsk
    /\ SendsOnce

-----------------------------------------------------------------------------
LEMMA RepliesDiffer == OK # NoReply /\ OK \notin Answers /\ NoReply \notin Answers
BY CallersAssumption DEF OK, NoReply, Answer, Statuses, Codes

LEMMA TypesOfSteps ==
  /\ Idle \in Call
  /\ NoRequest \in Request
  /\ NoResult \in Result
  /\ \A f \in BOOLEAN, a \in BOOLEAN : Waiting(f, a) \in Call
  /\ \A k \in Call, t \in 0 .. MaxTokens, p \in Nat : Using(k, t, p) \in Call
BY TimesAssumption DEF Idle, Call, NoRequest, Request, NoResult, Result, Waiting, Using

LEMMA ErrorsAreClassed ==
  ASSUME NEW a, NEW r \in BOOLEAN
  PROVE  /\ ErrorOf(a, r).retryable \in BOOLEAN
         /\ a.code = "garbled" => ~IsTokenError(ErrorOf(a, r))
<1>1. CASE a.code = "garbled"
  <2>1. ErrorOf(a, r) = [class |-> "invalid_response", retryable |-> a.status = "failed"]
    BY <1>1 DEF ErrorOf
  <2>2. (a.status = "failed") \in BOOLEAN
    OBVIOUS
  <2> QED
    BY <2>1, <2>2 DEF IsTokenError
<1>2. CASE a.code # "garbled"
  <2>1. ErrorOf(a, r) = [class |-> Class(a, r), retryable |-> Retryable(a)]
    BY <1>2 DEF ErrorOf
  <2>2. Retryable(a) \in BOOLEAN
    BY DEF Retryable
  <2> QED
    BY <1>2, <2>1, <2>2
<1> QED
  BY <1>1, <1>2

LEMMA ShelfIsNat ==
  ASSUME NEW n \in Nat
  PROVE  Shelf(n) \in Nat
BY TimesAssumption DEF Shelf

LEMMA InitInductive == Init => Inductive
<1> SUFFICES ASSUME Init PROVE Inductive
  OBVIOUS
<1>1. TypeOK
  BY TypesOfSteps, TimesAssumption DEF Init, TypeOK, Tokens
<1>2. LockIsHeld /\ TokensInOrder /\ TokensLast /\ RefreshesAsk
  BY CallersAssumption DEF Init, Idle, NoResult, LockIsHeld, TokensInOrder, InOrder,
     TokensLast, CachedLasts, GrantLasts, RequestLasts, RefreshesAsk
<1>3. SendsOnce
  BY CallersAssumption DEF Init, Idle, NoResult, SendsOnce, SendOnce
<1> QED
  BY <1>1, <1>2, <1>3 DEF Inductive

-----------------------------------------------------------------------------
(* A call that goes back to idle or to the lock keeps what is about tokens. *)
LEMMA WaitsInductive ==
  ASSUME Inductive, NEW c \in Callers, NEW k \in Call,
         k.step \in {"idle", "lock"}, k.token = 0,
         Goes(c, k), UNCHANGED <<cache, feishu>>,
         holder' = IF call[c].step = "fetch" THEN None ELSE holder
  PROVE  /\ call' \in [Callers -> Call] /\ request' \in [Callers -> Request]
         /\ holder' \in Callers \cup {None}
         /\ LockIsHeld' /\ TokensInOrder' /\ TokensLast'
<1> USE DEF Inductive
<1>1. call' \in [Callers -> Call] /\ request' \in [Callers -> Request] /\ holder' \in Callers \cup {None}
  BY TypesOfSteps DEF Goes, TypeOK
<1>2. LockIsHeld'
  BY CallersAssumption DEF Goes, LockIsHeld, TypeOK
<1>3. TokensInOrder'
  BY DEF Goes, TokensInOrder, InOrder, cache, feishu, TypeOK
<1>4. TokensLast'
  BY DEF Goes, TokensLast, CachedLasts, GrantLasts, RequestLasts, cache, feishu, TypeOK
<1> QED
  BY <1>1, <1>2, <1>3, <1>4

(* A call returns. *)
LEMMA ReturnInductive ==
  ASSUME Inductive, NEW c \in Callers,
         NEW o \in {"accepted", "retryable", "permanent"},
         Return(c, o, FALSE), UNCHANGED <<cache, feishu>>,
         holder' = IF call[c].step = "fetch" THEN None ELSE holder
  PROVE  Inductive'
<1> USE DEF Inductive
<1>1. /\ call' \in [Callers -> Call] /\ request' \in [Callers -> Request]
      /\ holder' \in Callers \cup {None}
      /\ LockIsHeld' /\ TokensInOrder' /\ TokensLast'
  BY WaitsInductive, TypesOfSteps DEF Return, Idle
<1>2. TypeOK'
  BY <1>1 DEF Return, cache, feishu, TypeOK, Result
<1>3. RefreshesAsk'
  BY DEF Return, Goes, RefreshesAsk, Idle, TypeOK
<1>4. SendsOnce'
  BY CallersAssumption DEF Return, Goes, SendsOnce, SendOnce, Idle, TypeOK, Result
<1> QED
  BY <1>1, <1>2, <1>3, <1>4

(* A call asks for a new token after its token was refused. *)
LEMMA RetryInductive ==
  ASSUME Inductive, NEW c \in Callers, NEW asked \in BOOLEAN,
         Goes(c, Waiting(TRUE, asked)), UNCHANGED <<cache, feishu, result>>,
         holder' = IF call[c].step = "fetch" THEN None ELSE holder,
         call[c].step # "idle", c \in Sends => result[c].accepted = 0
  PROVE  Inductive'
<1> USE DEF Inductive
<1>1. /\ call' \in [Callers -> Call] /\ request' \in [Callers -> Request]
      /\ holder' \in Callers \cup {None}
      /\ LockIsHeld' /\ TokensInOrder' /\ TokensLast'
  <2>1. Waiting(TRUE, asked).step = "lock" /\ Waiting(TRUE, asked).token = 0
    BY DEF Waiting
  <2> QED
    BY <2>1, WaitsInductive, TypesOfSteps
<1>2. TypeOK'
  BY <1>1 DEF cache, feishu, TypeOK
<1>3. RefreshesAsk'
  BY DEF Goes, RefreshesAsk, Waiting, TypeOK
<1>4. SendsOnce'
  BY CallersAssumption DEF Goes, SendsOnce, SendOnce, Waiting, TypeOK
<1> QED
  BY <1>1, <1>2, <1>3, <1>4

LEMMA AfterErrorInductive ==
  ASSUME Inductive, NEW c \in Callers, NEW e, NEW asked \in BOOLEAN,
         AfterError(c, e, asked), UNCHANGED <<cache, feishu>>,
         holder' = IF call[c].step = "fetch" THEN None ELSE holder,
         e.retryable \in BOOLEAN, call[c].step # "idle", call[c].force => asked,
         c \in Sends /\ IsTokenError(e) => result[c].accepted = 0
  PROVE  Inductive'
<1>1. CASE IsTokenError(e) /\ ~call[c].force
  BY <1>1, RetryInductive DEF AfterError
<1>2. CASE ~(IsTokenError(e) /\ ~call[c].force)
  <2>1. (IsTokenError(e) /\ ~asked) = FALSE
    BY <1>2
  <2>2. Return(c, IF e.retryable THEN "retryable" ELSE "permanent", FALSE)
    BY <1>2, <2>1 DEF AfterError, Fail
  <2> QED
    BY <2>2, ReturnInductive
<1> QED
  BY <1>1, <1>2

(* A request with a token of the cache starts with enough of it left. *)
LEMMA CachedStarts ==
  ASSUME Inductive, Fresh, NEW c \in Callers
  PROVE  /\ 1 \in 1 .. Parts[c]
         /\ cached \notin unkept => life[cached] + Timeout * 1 + 0 > Margin
<1>1. 1 \in 1 .. Parts[c]
  BY CallersAssumption
<1>2. life[cached] \in Nat
  BY DEF Inductive, TypeOK, Fresh, Tokens
<1>3. cached \notin unkept => life[cached] + Timeout >= usable + Margin
  BY DEF Inductive, TokensLast, CachedLasts, Fresh
<1> QED
  BY <1>1, <1>2, <1>3, TimesAssumption DEF Inductive, TypeOK, Fresh

LEMMA RejectInductive ==
  ASSUME Inductive, NEW c \in Callers, Reject(c)
  PROVE  Inductive'
<1> USE DEF Inductive
<1>1. PICK o \in {"retryable", "permanent"} :
         result' = [result EXCEPT ![c] = [outcome |-> o, accepted |-> 0, stale |-> FALSE]]
  BY DEF Reject
<1>2. TypeOK'
  BY <1>1 DEF Reject, cache, feishu, TypeOK, Result
<1>3. LockIsHeld' /\ TokensInOrder' /\ TokensLast'
  BY DEF Reject, cache, feishu, LockIsHeld, TokensInOrder, InOrder, TokensLast, CachedLasts,
     GrantLasts, RequestLasts
<1>4. RefreshesAsk'
  BY <1>1 DEF Reject, RefreshesAsk, TypeOK
<1>5. SendsOnce'
  BY <1>1, CallersAssumption DEF Reject, SendsOnce, SendOnce, TypeOK
<1> QED
  BY <1>2, <1>3, <1>4, <1>5

LEMMA BeginInductive ==
  ASSUME Inductive, NEW c \in Callers, Begin(c)
  PROVE  Inductive'
<1> USE DEF Inductive
<1>1. DEFINE k == IF Fresh THEN Using(Idle, cached, 1) ELSE Waiting(FALSE, FALSE)
<1>2. k \in Call
  BY TypesOfSteps DEF TypeOK
<1>3. TypeOK'
  BY <1>2, TypesOfSteps DEF Begin, Goes, cache, feishu, TypeOK
<1>4. LockIsHeld'
  BY DEF Begin, Goes, LockIsHeld, Using, Waiting, TypeOK
<1>5. TokensInOrder'
  BY DEF Begin, Goes, cache, feishu, TokensInOrder, InOrder, Using, Waiting, TypeOK, Fresh
<1>6. TokensLast'
  <2>1. CachedLasts'
    BY DEF Begin, cache, feishu, TokensLast, CachedLasts
  <2>2. ASSUME NEW d \in Callers PROVE GrantLasts(d)'
    BY DEF Begin, Goes, cache, feishu, TokensLast, GrantLasts, Using, Waiting, TypeOK
  <2>3. ASSUME NEW d \in Callers, d # c PROVE RequestLasts(d)'
    BY <2>3 DEF Begin, Goes, cache, feishu, TokensLast, RequestLasts, TypeOK
  <2>4. RequestLasts(c)'
    <3>1. CASE Fresh
      BY <3>1, CachedStarts DEF Begin, Goes, cache, feishu, RequestLasts, Using, NoRequest, TypeOK
    <3>2. CASE ~Fresh
      BY <3>2 DEF Begin, Goes, RequestLasts, Waiting, TypeOK
    <3> QED
      BY <3>1, <3>2
  <2> QED
    BY <2>1, <2>2, <2>3, <2>4 DEF TokensLast
<1>7. RefreshesAsk'
  BY DEF Begin, Goes, RefreshesAsk, Using, Waiting, Idle, NoResult, TypeOK
<1>8. SendsOnce'
  BY RepliesDiffer, CallersAssumption DEF Begin, Goes, SendsOnce, SendOnce, Using, Waiting, Idle,
     NoResult, NoRequest, TypeOK
<1> QED
  BY <1>3, <1>4, <1>5, <1>6, <1>7, <1>8

LEMMA LockInductive ==
  ASSUME Inductive, NEW c \in Callers, Lock(c)
  PROVE  Inductive'
<1> USE DEF Inductive
<1>1. CASE Reusable(c)
  <2>1. Goes(c, Using(call[c], cached, 1)) /\ UNCHANGED <<cache, holder, result, feishu>>
    BY <1>1 DEF Lock
  <2>2. TypeOK'
    BY <2>1, TypesOfSteps DEF Goes, cache, feishu, TypeOK
  <2>3. LockIsHeld'
    BY <2>1 DEF Lock, Goes, LockIsHeld, Using, TypeOK
  <2>4. TokensInOrder'
    BY <2>1, <1>1 DEF Goes, cache, feishu, TokensInOrder, InOrder, Using, TypeOK, Reusable, Fresh
  <2>5. CachedLasts'
    BY <2>1 DEF cache, feishu, TokensLast, CachedLasts
  <2>6. ASSUME NEW d \in Callers PROVE GrantLasts(d)'
    BY <2>1 DEF Goes, cache, feishu, TokensLast, GrantLasts, Using, TypeOK
  <2>7. ASSUME NEW d \in Callers PROVE RequestLasts(d)'
    <3>1. CASE d = c
      BY <3>1, <2>1, <1>1, CachedStarts DEF Goes, cache, feishu, RequestLasts, Using, NoRequest,
         Reusable, TypeOK
    <3>2. CASE d # c
      BY <3>2, <2>1 DEF Goes, cache, feishu, TokensLast, RequestLasts, TypeOK
    <3> QED
      BY <3>1, <3>2
  <2>8. RefreshesAsk'
    BY <2>1, <1>1 DEF Goes, RefreshesAsk, Using, Reusable, TypeOK
  <2>9. SendsOnce'
    BY <2>1, RepliesDiffer, CallersAssumption DEF Lock, Goes, SendsOnce, SendOnce, Using, NoRequest, TypeOK
  <2> QED
    BY <2>2, <2>3, <2>4, <2>5, <2>6, <2>7, <2>8, <2>9 DEF TokensLast
<1>2. CASE ~Reusable(c)
  <2>1. /\ call' = [call EXCEPT ![c] = [call[c] EXCEPT !.step = "fetch"]]
        /\ request' = [request EXCEPT ![c] = NoRequest]
        /\ holder = None /\ holder' = c
        /\ UNCHANGED <<cache, result, feishu>>
    BY <1>2 DEF Lock, Goes, Free
  <2>2. TypeOK'
    BY <2>1, TypesOfSteps DEF cache, feishu, TypeOK, Call
  <2>3. LockIsHeld'
    BY <2>1, CallersAssumption DEF LockIsHeld, TypeOK, Call
  <2>4. TokensInOrder'
    BY <2>1 DEF Lock, cache, feishu, TokensInOrder, InOrder, TypeOK, Call
  <2>5. TokensLast'
    BY <2>1 DEF Lock, cache, feishu, TokensLast, CachedLasts, GrantLasts, RequestLasts,
       TokensInOrder, InOrder, TypeOK, Call
  <2>6. RefreshesAsk'
    BY <2>1 DEF RefreshesAsk, TypeOK, Call
  <2>7. SendsOnce'
    BY <2>1, CallersAssumption DEF Lock, SendsOnce, SendOnce, TypeOK, Call
  <2> QED
    BY <2>2, <2>3, <2>4, <2>5, <2>6, <2>7
<1> QED
  BY <1>1, <1>2

-----------------------------------------------------------------------------
(* Feishu handles a request. *)
LEMMA GrantInductive ==
  ASSUME Inductive, NEW c \in Callers, Issue(c) \/ Reissue(c)
  PROVE  Inductive'
<1> USE DEF Inductive
<1>1. PICK left \in Nat \ {0} :
         /\ issued' \in 1 .. MaxTokens /\ issued' >= issued
         /\ Grant(c, issued', left)
         /\ life' = [life EXCEPT ![issued'] = left]
         /\ issued' # issued \/ life[issued] = left
  <2>1. CASE Issue(c)
    <3>1. PICK left \in Lifetimes :
             /\ issued' = issued + 1
             /\ life' = [life EXCEPT ![issued + 1] = left]
             /\ Grant(c, issued + 1, left)
      BY <2>1 DEF Issue
    <3>2. issued < MaxTokens /\ issued \in Nat
      BY <2>1 DEF Issue, TypeOK
    <3>3. left \in Nat \ {0} /\ MaxTokens \in Nat
      BY TimesAssumption
    <3>4. issued' \in 1 .. MaxTokens /\ issued' >= issued /\ issued' # issued
      BY <3>1, <3>2, <3>3
    <3> QED
      BY <3>1, <3>3, <3>4
  <2>2. CASE Reissue(c)
    <3>1. life[issued] \in Nat \ {0} /\ issued \in 1 .. MaxTokens
      BY <2>2 DEF Reissue, TypeOK, Tokens
    <3>2. life = [life EXCEPT ![issued] = life[issued]]
      BY DEF TypeOK
    <3> QED
      BY <2>2, <3>1, <3>2 DEF Reissue
  <2> QED
    BY <2>1, <2>2
<1>2. /\ Out(c, "fetch")
      /\ UNCHANGED <<cache, holder, result>>
  BY DEF Issue, Reissue
<1>3. TypeOK'
  <2>1. call' \in [Callers -> Call]
    BY <1>1 DEF Grant, TypeOK, Call
  <2>2. request' \in [Callers -> Request]
    BY <1>1 DEF Grant, TypeOK, Request
  <2>3. life' \in [Tokens -> Nat] /\ unkept' \subseteq Tokens /\ issued' \in 0 .. MaxTokens
    BY <1>1 DEF Grant, TypeOK, Tokens
  <2> QED
    BY <1>2, <2>1, <2>2, <2>3 DEF TypeOK, cache
<1>4. LockIsHeld'
  BY <1>1, <1>2 DEF Grant, LockIsHeld, TypeOK, Call
<1>5. TokensInOrder'
  BY <1>1, <1>2 DEF Grant, cache, TokensInOrder, InOrder, LockIsHeld, TypeOK, Call, Request, Out
<1>6. TokensLast'
  <2>1. CachedLasts'
    BY <1>1, <1>2, TimesAssumption DEF Grant, cache, TokensLast, CachedLasts, TokensInOrder, TypeOK, Tokens
  <2>2. ASSUME NEW d \in Callers PROVE GrantLasts(d)'
    <3>1. CASE d = c
      BY <1>1, <1>2, <2>2, <3>1, TimesAssumption DEF Grant, GrantLasts, TypeOK, Call, Request, Tokens
    <3>2. CASE d # c
      BY <1>1, <1>2, <2>2, <3>2 DEF Grant, TokensLast, GrantLasts, LockIsHeld, Out, TypeOK, Call, Request, Tokens
    <3> QED
      BY <3>1, <3>2
  <2>3. ASSUME NEW d \in Callers PROVE RequestLasts(d)'
    <3>1. CASE call[d].step = "request"
      <4>1. d # c
        BY <3>1, <1>2 DEF Out
      <4>2. call'[d] = call[d] /\ request'[d] = request[d]
        BY <4>1, <1>1 DEF Grant, TypeOK
      <4>3. call[d].token <= issued /\ call[d].token \in Tokens
        BY <3>1 DEF TokensInOrder, InOrder, TypeOK, Call, Tokens
      <4>4. life'[call[d].token] = life[call[d].token]
        BY <4>3, <1>1 DEF TypeOK
      <4>5. unkept \subseteq unkept'
        BY <1>1 DEF Grant
      <4> QED
        BY <4>2, <4>4, <4>5 DEF TokensLast, RequestLasts
    <3>2. CASE call[d].step # "request"
      BY <3>2, <1>1, <1>2 DEF Grant, RequestLasts, Out, TypeOK, Call
    <3> QED
      BY <3>1, <3>2
  <2> QED
    BY <2>1, <2>2, <2>3 DEF TokensLast
<1>7. RefreshesAsk'
  BY <1>1, <1>2 DEF Grant, RefreshesAsk, TypeOK, Call
<1>8. SendsOnce'
  BY <1>1, <1>2, CallersAssumption DEF Grant, SendsOnce, SendOnce, Out, TypeOK, Call, Request
<1> QED
  BY <1>3, <1>4, <1>5, <1>6, <1>7, <1>8

LEMMA ReplyInductive ==
  ASSUME Inductive, NEW c \in Callers, Withhold(c) \/ Serve(c) \/ Refuse(c) \/ RefuseToken(c)
  PROVE  Inductive'
<1> USE DEF Inductive
<1>1. PICK a \in Answers \cup {OK} : Reply(c, a)
  BY DEF Withhold, Serve, Refuse, RefuseToken, Garbled
<1>2. /\ UNCHANGED <<cache, holder, call, feishu>>
      /\ request[c].reply = NoReply
      /\ request' \in [Callers -> Request]
      /\ request'[c].reply = a
      /\ \A d \in Callers : /\ request'[d].age = request[d].age
                            /\ request'[d].grant = request[d].grant
                            /\ d # c => request'[d] = request[d]
  BY <1>1 DEF Reply, Withhold, Serve, Refuse, RefuseToken, Out, TypeOK, Request
<1>3. result' \in [Callers -> Result]
  BY DEF Withhold, Serve, Refuse, RefuseToken, TypeOK, Result
<1>4. TypeOK'
  BY <1>2, <1>3 DEF cache, feishu, TypeOK
<1>5. LockIsHeld' /\ TokensLast'
  BY <1>2 DEF cache, feishu, LockIsHeld, TokensLast, CachedLasts, GrantLasts, RequestLasts
<1>6. TokensInOrder'
  BY <1>2, RepliesDiffer DEF cache, feishu, TokensInOrder, InOrder, TypeOK
<1>7. RefreshesAsk'
  BY <1>2 DEF RefreshesAsk, Withhold, Serve, Refuse, RefuseToken, TypeOK, Result
<1>8. SendsOnce'
  <2>1. ASSUME NEW d \in Sends, d # c PROVE SendOnce(d)'
    BY <1>2, <2>1, CallersAssumption DEF Withhold, Serve, Refuse, RefuseToken, SendsOnce, SendOnce, TypeOK, Result
  <2>2. ASSUME c \in Sends PROVE SendOnce(c)'
    <3>1. CASE Serve(c)
      BY <3>1, <1>2, <2>2, RepliesDiffer DEF Serve, Reply, Out, SendsOnce, SendOnce, TypeOK, Result, Request, Garbled
    <3>2. CASE Withhold(c) \/ Refuse(c) \/ RefuseToken(c)
      BY <3>2, <1>2, <2>2, RepliesDiffer DEF Withhold, Refuse, RefuseToken, Reply, Out, SendsOnce, SendOnce, TypeOK, Result, Request, Garbled
    <3> QED
      BY <3>1, <3>2
  <2> QED
    BY <2>1, <2>2 DEF SendsOnce
<1> QED
  BY <1>4, <1>5, <1>6, <1>7, <1>8

LEMMA RevokeInductive ==
  ASSUME Inductive, NEW t \in Tokens, Revoke(t)
  PROVE  Inductive'
<1> USE DEF Inductive
<1>1. TypeOK'
  BY DEF Revoke, cache, calls, TypeOK
<1>2. LockIsHeld' /\ TokensInOrder' /\ RefreshesAsk' /\ SendsOnce'
  BY DEF Revoke, cache, calls, LockIsHeld, TokensInOrder, InOrder, RefreshesAsk, SendsOnce, SendOnce
<1>3. TokensLast'
  BY DEF Revoke, cache, calls, TokensLast, CachedLasts, GrantLasts, RequestLasts, TypeOK
<1> QED
  BY <1>1, <1>2, <1>3

LEMMA TickInductive ==
  ASSUME Inductive, Tick
  PROVE  Inductive'
<1> USE DEF Inductive
<1>1. \A d \in Callers :
         /\ request'[d].reply = request[d].reply
         /\ request'[d].grant = request[d].grant
         /\ request'[d].age = IF Underway(d) THEN request[d].age + 1 ELSE request[d].age
         /\ request'[d] \in Request
  BY TimesAssumption DEF Tick, TypeOK, Request
<1>2. TypeOK'
  BY <1>1 DEF Tick, Sooner, TypeOK
<1>3. LockIsHeld' /\ TokensInOrder' /\ RefreshesAsk' /\ SendsOnce'
  BY <1>1, CallersAssumption DEF Tick, LockIsHeld, TokensInOrder, InOrder, RefreshesAsk, SendsOnce, SendOnce
<1>4. \A t \in Tokens : life'[t] + 1 >= life[t] /\ life'[t] \in Nat
  BY DEF Tick, Sooner, TypeOK
<1>5. CachedLasts'
  BY <1>4, TimesAssumption DEF Tick, Sooner, TokensLast, CachedLasts, TypeOK, Tokens
<1>6. ASSUME NEW d \in Callers PROVE GrantLasts(d)'
  <2>1. SUFFICES ASSUME call[d].step = "fetch", call[d].token # 0, call[d].token \notin unkept
                 PROVE  /\ request'[d].grant > Margin
                        /\ life'[call[d].token] + request'[d].age >= request'[d].grant
    BY DEF Tick, GrantLasts
  <2>2. /\ request[d].grant > Margin
        /\ life[call[d].token] + request[d].age >= request[d].grant
        /\ call[d].token \in Tokens
    BY <2>1 DEF TokensLast, GrantLasts, TypeOK, Call, Tokens
  <2>3. Underway(d)
    BY <2>1 DEF Underway
  <2>4. /\ life[call[d].token] \in Nat /\ life'[call[d].token] \in Nat
        /\ life'[call[d].token] + 1 >= life[call[d].token]
    BY <1>4, <2>2 DEF TypeOK
  <2>5. request[d].age \in Nat /\ request[d].grant \in Nat
    BY DEF TypeOK, Request
  <2> QED
    BY <1>1, <2>2, <2>3, <2>4, <2>5
<1>7. ASSUME NEW d \in Callers PROVE RequestLasts(d)'
  <2>1. SUFFICES ASSUME call[d].step = "request", call[d].token \notin unkept
                 PROVE  life'[call[d].token] + Timeout * call[d].part + request'[d].age > Margin
    BY DEF Tick, TokensLast, RequestLasts
  <2>2. Timeout * call[d].part \in Nat
    BY TimesAssumption DEF TypeOK, Call
  <2>3. call[d].token \in Tokens
    BY <2>1 DEF TokensInOrder, InOrder, TypeOK, Call, Tokens
  <2> QED
    BY <1>1, <1>4, <2>1, <2>2, <2>3, TimesAssumption DEF Underway, TokensLast, RequestLasts, TypeOK, Request
<1> QED
  BY <1>2, <1>3, <1>5, <1>6, <1>7 DEF TokensLast

-----------------------------------------------------------------------------
(* The client hears of an answer, or gives up. *)
LEMMA ReceiveTokenInductive ==
  ASSUME Inductive, NEW c \in Callers, ReceiveToken(c)
  PROVE  Inductive'
<1> USE DEF Inductive
<1>0. /\ call[c].step = "fetch"
      /\ holder' = IF call[c].step = "fetch" THEN None ELSE holder
      /\ UNCHANGED feishu
  BY DEF ReceiveToken, HolderAfter
<1>1. CASE Granted(c)
  <2> DEFINE k == Using([call[c] EXCEPT !.asked = TRUE], call[c].token, 1)
  <2>1. k = [step |-> "request", force |-> call[c].force, token |-> call[c].token, part |-> 1, asked |-> TRUE]
    BY DEF Using, TypeOK, Call
  <2>2. /\ call' = [call EXCEPT ![c] = k]
        /\ request' = [request EXCEPT ![c] = NoRequest]
        /\ cached' = call[c].token /\ usable' = Shelf(request[c].grant)
        /\ UNCHANGED result
    BY <1>1 DEF ReceiveToken, Goes
  <2>3. k \in Call
    <3>1. [call[c] EXCEPT !.asked = TRUE] \in Call /\ call[c].token \in 0 .. MaxTokens
      BY DEF TypeOK, Call
    <3> QED
      BY <3>1, TypesOfSteps
  <2> HIDE DEF k
  <2>4. TypeOK'
    BY <2>2, <2>3, <1>0, TypesOfSteps, ShelfIsNat DEF feishu, TypeOK, Call, Request
  <2>5. LockIsHeld'
    BY <2>1, <2>2, <1>0, CallersAssumption DEF LockIsHeld, TypeOK
  <2>6. TokensInOrder'
    BY <2>1, <2>2, <1>0, <1>1 DEF feishu, TokensInOrder, InOrder, Granted, TypeOK, Call
  <2>7. call[c].token \in Tokens /\ life[call[c].token] \in Nat
    BY <1>0, <1>1 DEF Granted, TypeOK, Call, Tokens
  <2>8. call[c].token \notin unkept
           => /\ life[call[c].token] + Timeout >= request[c].grant
              /\ request[c].grant > Margin
    BY <1>0, <1>1, <2>7, TimesAssumption DEF TokensLast, GrantLasts, Granted, TypeOK, Request
  <2>9. CachedLasts'
    BY <2>2, <2>7, <2>8, <1>0, TimesAssumption DEF feishu, CachedLasts, Shelf, TypeOK, Request
  <2>10. ASSUME NEW d \in Callers PROVE GrantLasts(d)'
    BY <2>1, <2>2, <1>0 DEF feishu, TokensLast, GrantLasts, TypeOK
  <2>11. RequestLasts(c)'
    <3>1. call'[c] = k /\ request'[c].age = 0
      BY <2>2 DEF NoRequest, TypeOK
    <3>2. 1 \in 1 .. Parts[c]
      BY CallersAssumption
    <3>3. call[c].token \notin unkept => life[call[c].token] + Timeout * 1 + 0 > Margin
      BY <2>7, <2>8, TimesAssumption DEF TypeOK, Request
    <3> QED
      BY <2>1, <3>1, <3>2, <3>3, <1>0 DEF feishu, RequestLasts
  <2>12. ASSUME NEW d \in Callers, d # c PROVE RequestLasts(d)'
    BY <2>2, <2>12, <1>0 DEF feishu, TokensLast, RequestLasts, TypeOK
  <2>13. RefreshesAsk'
    BY <2>1, <2>2 DEF RefreshesAsk, TypeOK
  <2>14. SendsOnce'
    BY <2>1, <2>2, <1>0, RepliesDiffer, CallersAssumption DEF SendsOnce, SendOnce, NoRequest, TypeOK
  <2> QED
    BY <2>4, <2>5, <2>6, <2>9, <2>10, <2>11, <2>12, <2>13, <2>14 DEF TokensLast
<1>2. CASE ~Granted(c)
  <2> DEFINE e == ErrorOf(request[c].reply, TRUE)
  <2>1. AfterFetchError(c, e) /\ UNCHANGED cache
    BY <1>2 DEF ReceiveToken
  <2>2. e.retryable \in BOOLEAN
    BY ErrorsAreClassed
  <2>3. c \in Sends => result[c].accepted = 0
    BY <1>0 DEF SendsOnce, SendOnce
  <2> HIDE DEF e
  <2>4. CASE c \in Sends
    <3>1. (IsTokenError(e) /\ ~TRUE) = FALSE
      OBVIOUS
    <3>2. Return(c, IF e.retryable THEN "retryable" ELSE "permanent", FALSE)
      BY <2>1, <2>4, <3>1 DEF AfterFetchError, Fail
    <3> QED
      BY <3>2, <2>1, <1>0, ReturnInductive
  <2>5. CASE c \notin Sends
    <3>1. AfterError(c, e, TRUE)
      BY <2>1, <2>5 DEF AfterFetchError
    <3> QED
      BY <3>1, <2>1, <2>2, <2>5, <1>0, AfterErrorInductive
  <2> QED
    BY <2>4, <2>5
<1> QED
  BY <1>1, <1>2

LEMMA ReceiveInductive ==
  ASSUME Inductive, NEW c \in Callers, Receive(c)
  PROVE  Inductive'
<1> USE DEF Inductive
<1>0. /\ call[c].step = "request" /\ request[c].reply # NoReply
      /\ holder' = IF call[c].step = "fetch" THEN None ELSE holder
      /\ UNCHANGED <<cache, feishu, holder>>
  BY DEF Receive
<1>1. CASE request[c].reply # OK
  <2> DEFINE e == ErrorOf(request[c].reply, FALSE)
  <2>1. AfterError(c, e, call[c].asked)
    BY <1>1 DEF Receive
  <2>2. e.retryable \in BOOLEAN
    BY ErrorsAreClassed
  <2>3. c \in Sends /\ IsTokenError(e) => result[c].accepted = 0
    <3>1. c \in Sends /\ result[c].accepted # 0 => request[c].reply.code = "garbled"
      BY <1>0, <1>1 DEF SendsOnce, SendOnce, Garbled
    <3> QED
      BY <3>1, ErrorsAreClassed
  <2>4. call[c].force => call[c].asked
    BY <1>0 DEF RefreshesAsk
  <2>5. call[c].asked \in BOOLEAN
    BY DEF TypeOK, Call
  <2> HIDE DEF e
  <2> QED
    BY <2>1, <2>2, <2>3, <2>4, <2>5, <1>0, AfterErrorInductive
<1>2. CASE request[c].reply = OK /\ call[c].part < Parts[c]
  <2> DEFINE k == Using(call[c], call[c].token, call[c].part + 1)
  <2>1. k = [step |-> "request", force |-> call[c].force, token |-> call[c].token,
             part |-> call[c].part + 1, asked |-> call[c].asked]
    BY DEF Using
  <2>2. /\ call' = [call EXCEPT ![c] = k]
        /\ request' = [request EXCEPT ![c] = NoRequest]
        /\ UNCHANGED result
    BY <1>2 DEF Receive, Goes
  <2>3. k \in Call
    BY <2>1 DEF TypeOK, Call
  <2> HIDE DEF k
  <2>4. TypeOK'
    BY <2>2, <2>3, <1>0, TypesOfSteps DEF cache, feishu, TypeOK
  <2>5. LockIsHeld' /\ TokensInOrder' /\ RefreshesAsk'
    BY <2>1, <2>2, <1>0 DEF cache, feishu, LockIsHeld, TokensInOrder, InOrder, RefreshesAsk, TypeOK
  <2>6. CachedLasts'
    BY <1>0 DEF cache, feishu, TokensLast, CachedLasts
  <2>7. ASSUME NEW d \in Callers PROVE GrantLasts(d)'
    BY <2>1, <2>2, <1>0 DEF feishu, TokensLast, GrantLasts, TypeOK
  <2>8. RequestLasts(c)'
    <3>1. /\ call[c].part \in 1 .. Parts[c] /\ Parts[c] \in Nat
          /\ call[c].token \notin unkept
                => life[call[c].token] + Timeout * call[c].part + request[c].age > Margin
      BY <1>0, CallersAssumption DEF TokensLast, RequestLasts
    <3>2. Timeout * (call[c].part + 1) = Timeout * call[c].part + Timeout
      BY <3>1, TimesAssumption
    <3>3. Timeout * call[c].part \in Nat
      BY <3>1, TimesAssumption
    <3>4. life[call[c].token] \in Nat /\ request[c].age \in 0 .. Timeout
      BY <1>0 DEF TokensInOrder, InOrder, TypeOK, Call, Request, Tokens
    <3>5. call'[c] = k /\ request'[c].age = 0
      BY <2>2 DEF NoRequest, TypeOK
    <3>6. call[c].token \notin unkept
             => life[call[c].token] + Timeout * (call[c].part + 1) + 0 > Margin
      BY <3>1, <3>2, <3>3, <3>4, TimesAssumption
    <3>7. call[c].part + 1 \in 1 .. Parts[c]
      BY <3>1, <1>2
    <3> QED
      BY <2>1, <3>5, <3>6, <3>7, <1>0 DEF feishu, RequestLasts
  <2>9. ASSUME NEW d \in Callers, d # c PROVE RequestLasts(d)'
    BY <2>2, <2>9, <1>0 DEF feishu, TokensLast, RequestLasts, TypeOK
  <2>10. SendsOnce'
    BY <2>2, <1>2, <1>0, CallersAssumption DEF SendsOnce, SendOnce, TokensLast, RequestLasts, TypeOK
  <2> QED
    BY <2>4, <2>5, <2>6, <2>7, <2>8, <2>9, <2>10 DEF TokensLast
<1>3. CASE request[c].reply = OK /\ ~(call[c].part < Parts[c])
  BY <1>3, <1>0, ReturnInductive DEF Receive
<1> QED
  BY <1>1, <1>2, <1>3

LEMMA LoseInductive ==
  ASSUME Inductive, NEW c \in Callers, Lose(c)
  PROVE  Inductive'
<1>1. /\ holder' = IF call[c].step = "fetch" THEN None ELSE holder
      /\ UNCHANGED <<cache, feishu>>
  BY DEF Lose, HolderAfter
<1>2. Return(c, "retryable", FALSE)
  <2>1. Transport.retryable = TRUE /\ ~IsTokenError(Transport)
    BY DEF Transport, IsTokenError
  <2>2. (IsTokenError(Transport) /\ ~call[c].asked) = FALSE
    BY <2>1
  <2> QED
    BY <2>1, <2>2 DEF Lose, Fail
<1> QED
  BY <1>1, <1>2, ReturnInductive

LEMMA InductiveIsInvariant == Spec => []Inductive
<1>1. Inductive /\ [Next]_vars => Inductive'
  <2> SUFFICES ASSUME Inductive, [Next]_vars PROVE Inductive'
    OBVIOUS
  <2>1. ASSUME NEW c \in Callers, Reject(c) \/ Begin(c) \/ Lock(c) PROVE Inductive'
    BY <2>1, RejectInductive, BeginInductive, LockInductive
  <2>2. ASSUME NEW c \in Callers, Answered(c) PROVE Inductive'
    BY <2>2, ReceiveTokenInductive, ReceiveInductive, LoseInductive DEF Answered
  <2>3. ASSUME NEW c \in Callers, Issue(c) \/ Reissue(c) PROVE Inductive'
    BY <2>3, GrantInductive
  <2>4. ASSUME NEW c \in Callers, Withhold(c) \/ Serve(c) \/ Refuse(c) \/ RefuseToken(c)
        PROVE  Inductive'
    BY <2>4, ReplyInductive
  <2>5. ASSUME NEW t \in Tokens, Revoke(t) PROVE Inductive'
    BY <2>5, RevokeInductive
  <2>6. CASE Tick
    BY <2>6, TickInductive
  <2>7. CASE UNCHANGED vars
    BY <2>7 DEF vars, cache, calls, feishu, Inductive, TypeOK, LockIsHeld, TokensInOrder, InOrder,
       TokensLast, CachedLasts, GrantLasts, RequestLasts, RefreshesAsk, SendsOnce, SendOnce
  <2> QED
    BY <2>1, <2>2, <2>3, <2>4, <2>5, <2>6, <2>7 DEF Next
<1> QED
  BY InitInductive, <1>1, PTL DEF Spec

(* Types of the cache, the calls and Feishu's tokens. *)
THEOREM TypeCorrect == Spec => []TypeOK
<1>1. Inductive => TypeOK
  BY DEF Inductive
<1> QED
  BY <1>1, InductiveIsInvariant, PTL

(* No request made within the margin meets a token that has run out. *)
THEOREM MarginSuffices == Spec => []MarginCoversRequests
<1>1. Inductive => MarginCoversRequests
  <2> SUFFICES ASSUME Inductive, NEW c \in Callers, WithinMargin(c),
                      call[c].step = "request", call[c].token \notin unkept
               PROVE  life[call[c].token] > 0
    BY DEF MarginCoversRequests
  <2>1. /\ call[c].part \in 1 .. Parts[c] /\ Parts[c] \in Nat
        /\ life[call[c].token] + Timeout * call[c].part + request[c].age > Margin
    BY CallersAssumption DEF Inductive, TokensLast, RequestLasts
  <2>2. Timeout * call[c].part <= Timeout * Parts[c]
    BY <2>1, TimesAssumption
  <2>3. (Parts[c] + 1) * Timeout = Timeout * Parts[c] + Timeout
    BY <2>1, TimesAssumption
  <2>4. life[call[c].token] \in Nat /\ request[c].age \in 0 .. Timeout
    BY DEF Inductive, TokensInOrder, InOrder, TypeOK, Call, Request, Tokens
  <2>5. Timeout * Parts[c] \in Nat /\ Timeout * call[c].part \in Nat
    BY <2>1, TimesAssumption
  <2> QED
    BY <2>1, <2>2, <2>3, <2>4, <2>5, TimesAssumption DEF WithinMargin
<1> QED
  BY <1>1, InductiveIsInvariant, PTL

(* A late answer never puts an older token in the place of a newer one. *)
THEOREM NewestStaysCached == Spec => []NewestTokenCached
<1>1. Inductive => NewestTokenCached
  BY DEF Inductive, TokensInOrder, InOrder, NewestTokenCached
<1> QED
  BY <1>1, InductiveIsInvariant, PTL

(* A call fails over its token only after it has asked for a new one. *)
THEOREM RefusedOnlyWhenRenewed == Spec => []StaleTokensAreRenewed
<1>1. Inductive => StaleTokensAreRenewed
  BY DEF Inductive, RefreshesAsk, StaleTokensAreRenewed
<1> QED
  BY <1>1, InductiveIsInvariant, PTL

-----------------------------------------------------------------------------
(* The client implements the messenger's contract. *)
LEMMA ContractStutters ==
  ASSUME UNCHANGED result, \A c \in Sends : call'[c].step = "idle" <=> call[c].step = "idle"
  PROVE  UNCHANGED Contract!contractVars
BY DEF Contract!contractVars

LEMMA OtherCallsKept ==
  ASSUME Inductive, NEW c \in Callers, NEW k, Goes(c, k)
  PROVE  /\ call'[c] = k
         /\ \A d \in Callers \ {c} : call'[d] = call[d]
BY DEF Goes, Inductive, TypeOK

LEMMA ReturnRefines ==
  ASSUME Inductive, NEW c \in Callers,
         NEW o \in {"accepted", "retryable", "permanent"}, NEW stale,
         Return(c, o, stale), call[c].step # "idle",
         c \in Sends /\ o = "accepted" => result[c].accepted = 1
  PROVE  [Contract!Next]_Contract!contractVars
<1>1. /\ call'[c].step = "idle"
      /\ \A d \in Callers \ {c} : call'[d] = call[d] /\ result'[d] = result[d]
      /\ result'[c].outcome = o /\ result'[c].accepted = result[c].accepted
  BY OtherCallsKept DEF Return, Idle, Inductive, TypeOK
<1>2. CASE c \in Sends
  <2>1. Contract!Return(c)
    BY <1>1, <1>2, CallersAssumption DEF Contract!Return, Contract!Outcomes
  <2> QED
    BY <2>1, <1>2 DEF Contract!Next
<1>3. CASE c \notin Sends
  BY <1>1, <1>3, CallersAssumption DEF Contract!contractVars
<1> QED
  BY <1>2, <1>3

LEMMA AfterErrorRefines ==
  ASSUME Inductive, NEW c \in Callers, NEW e, NEW asked \in BOOLEAN,
         AfterError(c, e, asked) \/ Fail(c, e, asked), call[c].step # "idle"
  PROVE  [Contract!Next]_Contract!contractVars
<1>1. CASE Goes(c, Waiting(TRUE, asked)) /\ UNCHANGED result
  BY <1>1, OtherCallsKept, ContractStutters, CallersAssumption DEF Waiting
<1>2. CASE Fail(c, e, asked)
  BY <1>2, ReturnRefines DEF Fail
<1> QED
  BY <1>1, <1>2 DEF AfterError

LEMMA BeginRefines ==
  ASSUME Inductive, NEW c \in Callers, Begin(c)
  PROVE  [Contract!Next]_Contract!contractVars
<1>1. /\ call[c].step = "idle" /\ call'[c].step # "idle"
      /\ result'[c].outcome = "none" /\ result'[c].accepted = 0
      /\ \A d \in Callers \ {c} : call'[d] = call[d] /\ result'[d] = result[d]
  BY DEF Begin, Goes, Using, Waiting, NoResult, Inductive, TypeOK
<1>2. CASE c \in Sends
  <2>1. Contract!Begin(c)
    BY <1>1, <1>2, CallersAssumption DEF Contract!Begin
  <2> QED
    BY <2>1, <1>2 DEF Contract!Next
<1>3. CASE c \notin Sends
  BY <1>1, <1>3, CallersAssumption DEF Contract!contractVars
<1> QED
  BY <1>2, <1>3

LEMMA RejectRefines ==
  ASSUME Inductive, NEW c \in Callers, Reject(c)
  PROVE  [Contract!Next]_Contract!contractVars
<1>1. PICK o \in {"retryable", "permanent"} :
         result' = [result EXCEPT ![c] = [outcome |-> o, accepted |-> 0, stale |-> FALSE]]
  BY DEF Reject
<1>2. /\ c \in Sends /\ call[c].step = "idle" /\ UNCHANGED call
      /\ result'[c].outcome = o /\ result'[c].accepted = 0
      /\ \A d \in Callers \ {c} : result'[d] = result[d]
  BY <1>1 DEF Reject, Inductive, TypeOK
<1>3. Contract!Reject(c)
  BY <1>2, CallersAssumption DEF Contract!Reject
<1> QED
  BY <1>2, <1>3 DEF Contract!Next

LEMMA ServeRefines ==
  ASSUME Inductive, NEW c \in Callers, Serve(c)
  PROVE  [Contract!Next]_Contract!contractVars
<1>1. CASE c \in Sends
  <2>1. result[c].accepted = 0
    BY <1>1, RepliesDiffer DEF Serve, Out, Inductive, SendsOnce, SendOnce, Garbled
  <2>2. /\ result'[c].accepted = 1 /\ result'[c].outcome = result[c].outcome
        /\ \A d \in Callers \ {c} : result'[d] = result[d]
        /\ UNCHANGED call
    BY <1>1, <2>1 DEF Serve, Inductive, TypeOK, Result
  <2>3. call[c].step # "idle"
    BY DEF Serve, Out
  <2>4. [d \in Sends |-> result'[d].accepted] = [[d \in Sends |-> result[d].accepted] EXCEPT ![c] = 1]
    BY <2>2, CallersAssumption
  <2>5. [d \in Sends |-> result'[d].outcome] = [d \in Sends |-> result[d].outcome]
    BY <2>2, CallersAssumption
  <2>6. Contract!Accept(c)
    BY <1>1, <2>1, <2>2, <2>3, <2>4, <2>5 DEF Contract!Accept
  <2> QED
    BY <1>1, <2>6 DEF Contract!Next
<1>2. CASE c \notin Sends
  BY <1>2, ContractStutters DEF Serve
<1> QED
  BY <1>1, <1>2

LEMMA AnsweredRefines ==
  ASSUME Inductive, NEW c \in Callers, Answered(c)
  PROVE  [Contract!Next]_Contract!contractVars
<1>1. CASE ReceiveToken(c)
  <2>1. CASE Granted(c)
    <3>1. /\ Goes(c, Using([call[c] EXCEPT !.asked = TRUE], call[c].token, 1))
          /\ UNCHANGED result
      BY <1>1, <2>1 DEF ReceiveToken
    <3> QED
      BY <3>1, <1>1, OtherCallsKept, ContractStutters, CallersAssumption DEF ReceiveToken, Using
  <2>2. CASE ~Granted(c)
    BY <1>1, <2>2, AfterErrorRefines DEF ReceiveToken, AfterFetchError
  <2> QED
    BY <2>1, <2>2
<1>2. CASE Receive(c)
  <2>1. CASE request[c].reply # OK
    <3>1. call[c].asked \in BOOLEAN
      BY DEF Inductive, TypeOK, Call
    <3> QED
      BY <3>1, <1>2, <2>1, AfterErrorRefines DEF Receive
  <2>2. CASE request[c].reply = OK /\ call[c].part < Parts[c]
    <3>1. Goes(c, Using(call[c], call[c].token, call[c].part + 1)) /\ UNCHANGED result
      BY <1>2, <2>2 DEF Receive
    <3> QED
      BY <3>1, <1>2, OtherCallsKept, ContractStutters, CallersAssumption DEF Receive, Using
  <2>3. CASE request[c].reply = OK /\ ~(call[c].part < Parts[c])
    <3>1. c \in Sends => result[c].accepted = 1
      BY <1>2, <2>3 DEF Receive, Inductive, SendsOnce, SendOnce
    <3> QED
      BY <3>1, <1>2, <2>3, ReturnRefines DEF Receive
  <2> QED
    BY <2>1, <2>2, <2>3
<1>3. CASE Lose(c)
  <2>1. call[c].asked \in BOOLEAN
    BY DEF Inductive, TypeOK, Call
  <2> QED
    BY <2>1, <1>3, AfterErrorRefines DEF Lose, Underway
<1> QED
  BY <1>1, <1>2, <1>3 DEF Answered

LEMMA LockRefines ==
  ASSUME Inductive, NEW c \in Callers, Lock(c)
  PROVE  [Contract!Next]_Contract!contractVars
<1>1. PICK k : Goes(c, k) /\ k.step # "idle"
  <2>1. [call[c] EXCEPT !.step = "fetch"].step = "fetch"
    BY DEF Inductive, TypeOK, Call
  <2>2. Using(call[c], cached, 1).step = "request"
    BY DEF Using
  <2>3. CASE Reusable(c)
    BY <2>2, <2>3 DEF Lock
  <2>4. CASE ~Reusable(c)
    BY <2>1, <2>4 DEF Lock
  <2> QED
    BY <2>3, <2>4
<1>2. UNCHANGED result /\ call[c].step = "lock"
  BY DEF Lock
<1> QED
  BY <1>1, <1>2, OtherCallsKept, ContractStutters, CallersAssumption

LEMMA GrantRefines ==
  ASSUME Inductive, NEW c \in Callers, Issue(c) \/ Reissue(c)
  PROVE  [Contract!Next]_Contract!contractVars
<1>1. \A d \in Callers : call'[d].step = call[d].step
  BY DEF Issue, Reissue, Grant, Inductive, TypeOK, Call
<1> QED
  BY <1>1, ContractStutters, CallersAssumption DEF Issue, Reissue

(* What the delivery worker relies on: a send puts at most one message before *)
(* its recipient, and reports success only if it did.                         *)
THEOREM Refinement == Spec => ImplementsContract
<1>1. Init => Contract!Init
  <2> SUFFICES ASSUME Init PROVE Contract!Init
    OBVIOUS
  <2>1. \A c \in Sends : /\ (call[c].step # "idle") = FALSE
                         /\ result[c].accepted = 0 /\ result[c].outcome = "none"
    BY CallersAssumption DEF Init, Idle, NoResult
  <2> QED
    BY <2>1 DEF Contract!Init
<1>2. Inductive /\ [Next]_vars => [Contract!Next]_Contract!contractVars
  <2> SUFFICES ASSUME Inductive, [Next]_vars PROVE [Contract!Next]_Contract!contractVars
    OBVIOUS
  <2>1. ASSUME NEW c \in Callers, Reject(c) \/ Begin(c) \/ Lock(c)
        PROVE  [Contract!Next]_Contract!contractVars
    BY <2>1, RejectRefines, BeginRefines, LockRefines
  <2>2. ASSUME NEW c \in Callers, Answered(c) \/ Serve(c)
        PROVE  [Contract!Next]_Contract!contractVars
    BY <2>2, AnsweredRefines, ServeRefines
  <2>3. ASSUME NEW c \in Callers, Issue(c) \/ Reissue(c)
        PROVE  [Contract!Next]_Contract!contractVars
    BY <2>3, GrantRefines
  <2>4. ASSUME NEW c \in Callers, Withhold(c) \/ Refuse(c) \/ RefuseToken(c)
        PROVE  [Contract!Next]_Contract!contractVars
    BY <2>4, ContractStutters DEF Withhold, Refuse, RefuseToken
  <2>5. ASSUME NEW t \in Tokens, Revoke(t)
        PROVE  [Contract!Next]_Contract!contractVars
    BY <2>5, ContractStutters DEF Revoke, calls
  <2>6. CASE Tick \/ UNCHANGED vars
    BY <2>6, ContractStutters DEF Tick, vars, calls
  <2> QED
    BY <2>1, <2>2, <2>3, <2>4, <2>5, <2>6 DEF Next
<1> QED
  BY <1>1, <1>2, InductiveIsInvariant, PTL DEF Spec, ImplementsContract, Contract!Spec
=============================================================================
