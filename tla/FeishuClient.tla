---------------------------- MODULE FeishuClient ----------------------------
(***************************************************************************)
(* The Feishu client: the cached tenant token with its expiry, the lock     *)
(* that lets one caller at a time ask for a new token, sends and email      *)
(* lookups that use the token, and the classes of errors.                   *)
(*                                                                         *)
(* Feishu handles a request at one time and the client hears of it at a     *)
(* later one, or never; meanwhile tokens run out or are revoked.  Times are *)
(* modelled by the time left until they are reached.  A request is over     *)
(* after Timeout, and the client's own steps take no time.                  *)
(***************************************************************************)
EXTENDS Integers, FiniteSets

CONSTANTS
    Callers,        \* goroutines that use the client
    Sends,          \* those that call Send; the others call LookupEmails
    Parts,          \* requests per call: 1, or the batches of a lookup
    Answers,        \* error answers of Feishu
    Lifetimes,      \* how long Feishu's tokens live
    Timeout,        \* Config.Timeout
    Margin,         \* Config.TokenMargin
    MaxTokens,      \* bound: tokens Feishu issues
    None            \* nobody holds the lock

Statuses == {"ok", "denied", "limited", "failed", "missing", "other"}
Codes    == {"zero", "token", "permission", "other", "garbled"}
Answer   == [status : Statuses, code : Codes]
OK       == [status |-> "ok", code |-> "zero"]
NoReply  == [status |-> "none", code |-> "zero"]

ASSUME CallersAssumption ==
    /\ None \notin Callers
    /\ Sends \subseteq Callers
    /\ Parts \in [Callers -> Nat \ {0}]
    /\ \A c \in Sends : Parts[c] = 1
    /\ Answers \subseteq Answer \ {OK}

ASSUME TimesAssumption ==
    /\ Timeout \in Nat \ {0}
    /\ Margin \in Nat \ {0}
    /\ Lifetimes \subseteq Nat \ {0}
    /\ MaxTokens \in Nat

VARIABLES
    (* the client *)
    cached,         \* Client.token: a serial number, 0 for none
    usable,         \* Client.tokenExpires: time left
    holder,         \* who has tokenMu
    call,           \* what each caller is doing
    request,        \* the request it has out, if any
    (* Feishu *)
    issued,         \* the last token issued
    life,           \* time left for each token, 0 when it is refused
    (* what an observer knows *)
    result,         \* what came of each caller's last call
    unkept          \* tokens revoked, or handed out for no longer than the margin

cache  == <<cached, usable>>
feishu == <<issued, life, unkept>>
calls  == <<call, request, result>>
vars   == <<cache, holder, calls, feishu>>

Tokens == 1 .. MaxTokens

(* A caller is idle, waits for tokenMu, or has a request out: for a token or *)
(* with one.                                                                 *)
Call == [
    step  : {"idle", "lock", "fetch", "request"},
    force : BOOLEAN,            \* the second attempt, with a new token
    token : 0 .. MaxTokens,     \* the token in use, or on its way here
    part  : Nat,                \* the batch of the lookup
    asked : BOOLEAN]            \* the call has had an answer to a token request

Request == [
    age   : 0 .. Timeout,
    reply : Answers \cup {OK, NoReply},
    grant : Nat]                \* how long the token it brings is valid

Result == [
    outcome  : {"none", "accepted", "retryable", "permanent"},
    accepted : Nat,             \* messages Feishu took
    stale    : BOOLEAN]         \* it failed over a token it had not asked for

Idle      == [step |-> "idle", force |-> FALSE, token |-> 0, part |-> 1, asked |-> FALSE]
NoRequest == [age |-> 0, reply |-> NoReply, grant |-> 0]
NoResult  == [outcome |-> "none", accepted |-> 0, stale |-> FALSE]

TypeOK ==
    /\ cached \in 0 .. MaxTokens
    /\ usable \in Nat
    /\ holder \in Callers \cup {None}
    /\ call \in [Callers -> Call]
    /\ request \in [Callers -> Request]
    /\ result \in [Callers -> Result]
    /\ issued \in 0 .. MaxTokens
    /\ life \in [Tokens -> Nat]
    /\ unkept \subseteq Tokens

-----------------------------------------------------------------------------
(* classifyError and the errors of postJSON.                                 *)
Class(a, tokenRequest) ==
    CASE a.code = "token" \/ a.status = "denied" -> "authentication"
      [] a.status = "limited" -> "rate_limit"
      [] a.status = "failed"  -> "server"
      [] a.status = "missing" -> "recipient_not_found"
      [] a.code = "permission" -> "permission"
      [] tokenRequest -> "authentication"
      [] OTHER -> "application"

Retryable(a) == a.status \in {"limited", "failed"}

(* Mutant of ErrorOf: an answer that is no JSON is classed by its status. *)
ErrorByStatus(a, tokenRequest) ==
    [class |-> Class(a, tokenRequest), retryable |-> Retryable(a)]

ErrorOf(a, tokenRequest) ==
    LET unreadable == a.code = "garbled" IN
    [class     |-> IF unreadable THEN "invalid_response" ELSE Class(a, tokenRequest),
     retryable |-> IF unreadable THEN a.status = "failed" ELSE Retryable(a)]

Transport == [class |-> "transport", retryable |-> TRUE]

IsTokenError(e) == e.class = "authentication"

(* Mutants of Shelf: the margin is not kept, or kept of a shorter time too. *)
ShelfToTheEnd(expire) == expire
ShelfAlways(expire) == expire - Margin

(* How long a token that is valid for expire is used. *)
Shelf(expire) == IF expire > Margin THEN expire - Margin ELSE expire

Fresh == cached # 0 /\ usable > 0

-----------------------------------------------------------------------------
Init ==
    /\ cached = 0 /\ usable = 0
    /\ holder = None
    /\ call = [c \in Callers |-> Idle]
    /\ request = [c \in Callers |-> NoRequest]
    /\ result = [c \in Callers |-> NoResult]
    /\ issued = 0
    /\ life = [t \in Tokens |-> 0]
    /\ unkept = {}

(* The caller goes on as k; what it had out is answered or given up. *)
Goes(c, k) ==
    /\ call' = [call EXCEPT ![c] = k]
    /\ request' = [request EXCEPT ![c] = NoRequest]

Using(k, token, part) ==
    [step |-> "request", force |-> k.force, token |-> token, part |-> part, asked |-> k.asked]

Waiting(force, asked) ==
    [step |-> "lock", force |-> force, token |-> 0, part |-> 1, asked |-> asked]

Return(c, outcome, stale) ==
    /\ Goes(c, Idle)
    /\ result' = [result EXCEPT ![c] =
                     [outcome |-> outcome, accepted |-> @.accepted, stale |-> stale]]

Fail(c, e, asked) ==
    Return(c, IF e.retryable THEN "retryable" ELSE "permanent", IsTokenError(e) /\ ~asked)

(* A send whose notification has no valid address or cannot be rendered. *)
Reject(c) ==
    /\ c \in Sends
    /\ call[c].step = "idle"
    /\ \E o \in {"retryable", "permanent"} :
          result' = [result EXCEPT ![c] = [outcome |-> o, accepted |-> 0, stale |-> FALSE]]
    /\ UNCHANGED <<cache, holder, call, request, feishu>>

(* Send or LookupEmails begins: accessToken finds a token that has not       *)
(* expired, or goes for the lock.                                            *)
Begin(c) ==
    /\ call[c].step = "idle"
    /\ Goes(c, IF Fresh THEN Using(Idle, cached, 1) ELSE Waiting(FALSE, FALSE))
    /\ result' = [result EXCEPT ![c] = NoResult]
    /\ UNCHANGED <<cache, holder, feishu>>

(* Mutants of Free and Reusable: the lock is left out; what another caller   *)
(* has put into the cache also serves a forced refresh.                      *)
FreeAlways == TRUE
ReusableAlways(c) == Fresh

Free == holder = None
Reusable(c) == ~call[c].force /\ Fresh

(* Under the lock the cache is looked at again, unless a refresh is forced; *)
(* then the token is requested with the lock held.                           *)
Lock(c) ==
    /\ call[c].step = "lock"
    /\ Free
    /\ IF Reusable(c)
       THEN /\ Goes(c, Using(call[c], cached, 1))
            /\ UNCHANGED holder
       ELSE /\ Goes(c, [call[c] EXCEPT !.step = "fetch"])
            /\ holder' = c
    /\ UNCHANGED <<cache, result, feishu>>

-----------------------------------------------------------------------------
(* Feishu.  It hands out a new token, or the last one again while it lives.  *)
Out(c, step) == call[c].step = step /\ request[c].reply = NoReply

Reply(c, a) == request' = [request EXCEPT ![c].reply = a]

Grant(c, token, left) ==
    /\ call' = [call EXCEPT ![c].token = token]
    /\ request' = [request EXCEPT ![c].reply = OK, ![c].grant = left]
    /\ unkept' = IF left > Margin THEN unkept ELSE unkept \cup {token}

Issue(c) ==
    /\ Out(c, "fetch")
    /\ issued < MaxTokens
    /\ \E left \in Lifetimes :
          /\ issued' = issued + 1
          /\ life' = [life EXCEPT ![issued + 1] = left]
          /\ Grant(c, issued + 1, left)
    /\ UNCHANGED <<cache, holder, result>>

Reissue(c) ==
    /\ Out(c, "fetch")
    /\ issued > 0 /\ life[issued] > 0
    /\ Grant(c, issued, life[issued])
    /\ UNCHANGED <<cache, holder, result, issued, life>>

(* The token request is refused, or its answer holds no token. *)
Withhold(c) ==
    /\ Out(c, "fetch")
    /\ \E a \in Answers \cup {OK} : Reply(c, a)
    /\ UNCHANGED <<cache, holder, call, result, feishu>>

(* A request with a valid token is done, whether or not the answer can be    *)
(* read, or refused for any reason.                                          *)
Garbled == {a \in Answers : a.code = "garbled"}

Serve(c) ==
    /\ Out(c, "request")
    /\ life[call[c].token] > 0
    /\ \E a \in Garbled \cup {OK} : Reply(c, a)
    /\ result' = IF c \in Sends THEN [result EXCEPT ![c].accepted = @ + 1] ELSE result
    /\ UNCHANGED <<cache, holder, call, feishu>>

Refuse(c) ==
    /\ Out(c, "request")
    /\ life[call[c].token] > 0
    /\ \E a \in Answers : Reply(c, a)
    /\ UNCHANGED <<cache, holder, call, result, feishu>>

(* A token that is no longer valid is refused as such. *)
RefuseToken(c) ==
    /\ Out(c, "request")
    /\ life[call[c].token] = 0
    /\ \E a \in Answers : (a.code = "token" \/ a.status = "denied") /\ Reply(c, a)
    /\ UNCHANGED <<cache, holder, call, result, feishu>>

Revoke(t) ==
    /\ life[t] > 0
    /\ life' = [life EXCEPT ![t] = 0]
    /\ unkept' = unkept \cup {t}
    /\ UNCHANGED <<cache, holder, calls, issued>>

-----------------------------------------------------------------------------
(* A refused token is renewed once, with everything done so far of a lookup  *)
(* done again.  A send does this for an error of its own request only, a     *)
(* lookup also for an error of the request for the token.                    *)
AfterError(c, e, asked) ==
    IF IsTokenError(e) /\ ~call[c].force
    THEN Goes(c, Waiting(TRUE, asked)) /\ UNCHANGED result
    ELSE Fail(c, e, asked)

AfterFetchError(c, e) ==
    IF c \in Sends THEN Fail(c, e, TRUE) ELSE AfterError(c, e, TRUE)

(* Mutant of HolderAfter: the lock is kept when the request fails. *)
HolderAfterSuccess(c) == IF request[c].reply = OK THEN None ELSE c

(* tokenMu is released on every way out of accessToken. *)
HolderAfter(c) == None

Granted(c) == request[c].reply = OK /\ call[c].token # 0

ReceiveToken(c) ==
    /\ call[c].step = "fetch"
    /\ request[c].reply # NoReply
    /\ IF Granted(c)
       THEN /\ cached' = call[c].token
            /\ usable' = Shelf(request[c].grant)
            /\ Goes(c, Using([call[c] EXCEPT !.asked = TRUE], call[c].token, 1))
            /\ UNCHANGED result
       ELSE /\ AfterFetchError(c, ErrorOf(request[c].reply, TRUE))
            /\ UNCHANGED cache
    /\ holder' = HolderAfter(c)
    /\ UNCHANGED feishu

Receive(c) ==
    /\ call[c].step = "request"
    /\ request[c].reply # NoReply
    /\ IF request[c].reply # OK
       THEN AfterError(c, ErrorOf(request[c].reply, FALSE), call[c].asked)
       ELSE IF call[c].part < Parts[c]
       THEN /\ Goes(c, Using(call[c], call[c].token, call[c].part + 1))
            /\ UNCHANGED result
       ELSE Return(c, "accepted", FALSE)
    /\ UNCHANGED <<cache, holder, feishu>>

Underway(c) == call[c].step \in {"fetch", "request"}

(* The request fails or takes too long, whether or not Feishu has seen it. *)
Lose(c) ==
    /\ Underway(c)
    /\ Fail(c, Transport, call[c].asked)
    /\ holder' = IF call[c].step = "fetch" THEN HolderAfter(c) ELSE holder
    /\ UNCHANGED <<cache, feishu>>

-----------------------------------------------------------------------------
Sooner(t) == IF t > 0 THEN t - 1 ELSE 0

Tick ==
    /\ \A c \in Callers : Underway(c) => request[c].age < Timeout
    /\ usable > 0 \/ \E t \in Tokens : life[t] > 0
    /\ usable' = Sooner(usable)
    /\ life' = [t \in Tokens |-> Sooner(life[t])]
    /\ request' = [c \in Callers |->
                      IF Underway(c) THEN [request[c] EXCEPT !.age = @ + 1] ELSE request[c]]
    /\ UNCHANGED <<cached, holder, call, result, issued, unkept>>

Answered(c) == ReceiveToken(c) \/ Receive(c) \/ Lose(c)

Next ==
    \/ \E c \in Callers :
          \/ Reject(c) \/ Begin(c) \/ Lock(c) \/ Answered(c)
          \/ Issue(c) \/ Reissue(c) \/ Withhold(c)
          \/ Serve(c) \/ Refuse(c) \/ RefuseToken(c)
    \/ \E t \in Tokens : Revoke(t)
    \/ Tick

Spec == Init /\ [][Next]_vars

(* Every request is answered or fails within its timeout.  sync.Mutex hands  *)
(* the lock to a waiter that has been passed over for long enough, so a      *)
(* caller for whom it is free again and again gets it.                       *)
Fairness ==
    \A c \in Callers : SF_vars(Lock(c)) /\ WF_vars(Answered(c))

FairSpec == Spec /\ Fairness
-----------------------------------------------------------------------------
(* docs/PLAN.md: tokens are cached "with an expiry safety margin".  A token  *)
(* taken from the cache or just received is still valid when the request     *)
(* reaches Feishu, unless it was revoked, was handed out for no longer than  *)
(* the margin, or serves a lookup of more batches than the margin has room.  *)
WithinMargin(c) == (Parts[c] + 1) * Timeout <= Margin

MarginCoversRequests ==
    \A c \in Callers :
        LET k == call[c] IN
        WithinMargin(c) /\ k.step = "request" /\ k.token \notin unkept
            => life[k.token] > 0

(* No answer puts an older token in the place of a newer one: whoever sends  *)
(* with a token finds it, or a later one, in the cache.                      *)
NewestTokenCached ==
    \A c \in Callers : call[c].step = "request" => call[c].token <= cached

(* docs/PLAN.md: "a single retry on token expiry".  A call fails over its    *)
(* token only after it has asked for a new one itself: what the cache held   *)
(* is never the reason, however many callers refresh it meanwhile.           *)
StaleTokensAreRenewed ==
    \A c \in Callers : ~result[c].stale

(* Every call comes back, whatever Feishu does: no way out of it leaves the  *)
(* lock behind.                                                              *)
EveryCallReturns ==
    \A c \in Callers : call[c].step # "idle" ~> call[c].step = "idle"

(* What the delivery worker relies on.                                       *)
Contract == INSTANCE MessengerContract WITH
    Callers <- Sends,
    busy    <- [c \in Sends |-> call[c].step # "idle"],
    sent    <- [c \in Sends |-> result[c].accepted],
    outcome <- [c \in Sends |-> result[c].outcome]

ImplementsContract == Contract!Spec
=============================================================================
