--------------------------- MODULE HookReconciler ---------------------------
(***************************************************************************)
(* The hook reconciler: for the instance's system hooks, and then for the   *)
(* hooks of every project, it reads the hooks, looks for the one with its   *)
(* own name, and updates it, creates it or leaves it.  The scheduler and    *)
(* the reconcile command may run at the same time, GitLab's administrators  *)
(* edit hooks meanwhile, a request may fail, and a request whose answer is  *)
(* lost has done its work.                                                  *)
(*                                                                         *)
(* A hook's ID is its position in the sequence of its place, a deleted one  *)
(* stays there as "deleted"; GitLab lists hooks in order of ID.  "fit" says *)
(* that URL, event flags and SSL verification are those of the              *)
(* configuration.  Hooks keep their names.                                  *)
(***************************************************************************)
EXTENDS Integers, Sequences, FiniteSets

CONSTANTS
    Projects,
    System,         \* the place of the instance's own hooks
    Runs,           \* reconcilers: the scheduler's and the command's
    PageSize,       \* hooks GitLab returns for a request that names no page
    MaxHooks,       \* hooks GitLab lets a place have, deleted ones counted
    MaxEdits,       \* bound: edits of hooks by GitLab's administrators
    MaxRotations    \* bound: changes of the configured webhook token

Places == {System} \cup Projects

ASSUME PlacesAssumption ==
    /\ System \notin Projects
    /\ IsFiniteSet(Projects)
    /\ PageSize \in Nat \ {0} /\ MaxHooks \in Nat
    /\ MaxEdits \in Nat /\ MaxRotations \in Nat

VARIABLES
    hooks,          \* per place: the hooks GitLab has, by ID
    token,          \* the configured webhook token, by version
    job,            \* per run: its step and its local variables
    (* history *)
    calm,           \* per run: no administrator and no other run acted since it began
    raced,          \* two runs have been under way at the same time
    edits           \* how often administrators have edited hooks

vars == <<hooks, token, job, calm, raced, edits>>

Hook == [name : {"own", "foreign", "deleted"}, fit : BOOLEAN, token : 0..MaxRotations]
Foreign == [name |-> "foreign", fit |-> FALSE, token |-> 0]
Outdated == [name |-> "own", fit |-> FALSE, token |-> 0]
Job == [step : {"idle", "read", "put", "post", "list", "next"}, place : Places,
        todo : SUBSET Projects, target : Nat, token : 0..MaxRotations, failed : BOOLEAN]
Idle == [step |-> "idle", place |-> System, todo |-> {}, target |-> 0, token |-> 0,
         failed |-> FALSE]

TypeOK ==
    /\ hooks \in [Places -> Seq(Hook)]
    /\ token \in 0..MaxRotations
    /\ job \in [Runs -> Job]
    /\ \A r \in Runs : /\ job[r].place \notin job[r].todo
                       /\ job[r].step = "put" => job[r].target \in DOMAIN hooks[job[r].place]
    /\ calm \in [Runs -> BOOLEAN]
    /\ raced \in BOOLEAN
    /\ edits \in 0..MaxEdits

(* A new installation, one whose webhook URL was changed since, or a new one *)
(* with a project that has a page of hooks already.                          *)
Init ==
    /\ \/ \E h \in {<<>>, <<Foreign, Outdated>>} : hooks = [p \in Places |-> h]
       \/ \E q \in Projects :
             hooks = [p \in Places |-> IF p = q THEN [i \in 1..PageSize |-> Foreign] ELSE <<>>]
    /\ token = 0
    /\ job = [r \in Runs |-> Idle]
    /\ calm = [r \in Runs |-> FALSE]
    /\ raced = FALSE
    /\ edits = 0

-----------------------------------------------------------------------------
(* What GET returns: the first page. *)
Present(p) == {i \in DOMAIN hooks[p] : hooks[p][i].name # "deleted"}
Page(p) == {i \in Present(p) : Cardinality({j \in Present(p) : j < i}) < PageSize}

(* Mutant of Owned: any hook may be taken over. *)
OwnedByAnyName(p) == Page(p)

(* The hooks the code takes for its own: those of the configured name. *)
Owned(p) == {i \in Page(p) : hooks[p][i].name = "own"}

IsFirst(i, S) == i \in S /\ \A j \in S : i <= j

(* Mutant of Matches: the name is all that is compared. *)
MatchesByName(h) == TRUE

(* systemHookMatches, projectHookMatches; GitLab never returns a token. *)
Matches(h) == h.fit

(* What systemHookRequest and projectHookRequest ask for. *)
Requested(r) == [name |-> "own", fit |-> TRUE, token |-> job[r].token]

-----------------------------------------------------------------------------
Others(r) == [q \in Runs |-> calm[q] /\ q = r]

Begin(r) ==
    /\ job[r] = Idle
    /\ job' = [job EXCEPT ![r] = [Idle EXCEPT !.step = "read", !.token = token]]
    /\ calm' = [Others(r) EXCEPT ![r] = \A q \in Runs \ {r} : job[q] = Idle]
    /\ raced' = (raced \/ \E q \in Runs \ {r} : job[q] # Idle)
    /\ UNCHANGED <<hooks, token, edits>>

(* The step and error after a place is done: an error at the system hook     *)
(* ends the run, one at a project is remembered.                             *)
Settle(r, success) ==
    job' = [job EXCEPT ![r] =
        IF job[r].place # System
        THEN [job[r] EXCEPT !.step = "next", !.target = 0, !.failed = job[r].failed \/ ~success]
        ELSE IF success THEN [job[r] EXCEPT !.step = "list", !.target = 0] ELSE Idle]

(* GET, and what follows from it; it fails for good after three attempts.    *)
Read(r) ==
    LET p == job[r].place IN
    /\ job[r].step = "read"
    /\ \/ Settle(r, FALSE)
       \/ \E i \in Owned(p) :
             /\ IsFirst(i, Owned(p))
             /\ IF Matches(hooks[p][i]) THEN Settle(r, TRUE)
                ELSE job' = [job EXCEPT ![r].step = "put", ![r].target = i]
       \/ Owned(p) = {} /\ job' = [job EXCEPT ![r].step = "post"]
    /\ UNCHANGED <<hooks, token, calm, raced, edits>>

(* PUT, up to three times: it may do its work and still report an error.     *)
Put(r) ==
    LET p == job[r].place IN
    /\ job[r].step = "put"
    /\ \/ UNCHANGED hooks /\ Settle(r, FALSE)
       \/ /\ hooks[p][job[r].target].name # "deleted"
          /\ hooks' = [hooks EXCEPT ![p][job[r].target] = Requested(r)]
          /\ \E success \in BOOLEAN : Settle(r, success)
    /\ UNCHANGED <<token, calm, raced, edits>>

(* Mutant of Created: POST is tried again like GET and PUT. *)
CreatedAgain(h) == {<<h>>, <<h, h>>}

(* What one POST leaves behind when it arrives. *)
Created(h) == {<<h>>}

(* POST, once; GitLab refuses it to a place that is full.                    *)
Post(r) ==
    LET p == job[r].place IN
    /\ job[r].step = "post"
    /\ \/ UNCHANGED hooks /\ Settle(r, FALSE)
       \/ /\ Len(hooks[p]) < MaxHooks
          /\ \E new \in Created(Requested(r)) : hooks' = [hooks EXCEPT ![p] = @ \o new]
          /\ \E success \in BOOLEAN : Settle(r, success)
    /\ UNCHANGED <<token, calm, raced, edits>>

(* listProjects. *)
List(r) ==
    /\ job[r].step = "list"
    /\ \/ job' = [job EXCEPT ![r] = Idle]
       \/ job' = [job EXCEPT ![r].step = "next", ![r].todo = Projects]
    /\ UNCHANGED <<hooks, token, calm, raced, edits>>

(* Mutant of Take: the project stays on the list. *)
TakeAgain(r, p) ==
    /\ job[r].step = "next"
    /\ p \in job[r].todo
    /\ job' = [job EXCEPT ![r].step = "read", ![r].place = p]
    /\ UNCHANGED <<hooks, token, calm, raced, edits>>

(* The next project of the list. *)
Take(r, p) ==
    /\ job[r].step = "next"
    /\ p \in job[r].todo
    /\ job' = [job EXCEPT ![r].step = "read", ![r].place = p, ![r].todo = job[r].todo \ {p}]
    /\ UNCHANGED <<hooks, token, calm, raced, edits>>

(* The run ends and reports. *)
End(r) ==
    /\ job[r].step = "next"
    /\ job[r].todo = {}
    /\ job' = [job EXCEPT ![r] = Idle]
    /\ UNCHANGED <<hooks, token, calm, raced, edits>>

(* The process of a run stops. *)
Stop(r) ==
    /\ job[r] # Idle
    /\ job' = [job EXCEPT ![r] = Idle]
    /\ UNCHANGED <<hooks, token, calm, raced, edits>>

Act(r) ==
    Begin(r) \/ Read(r) \/ Put(r) \/ Post(r) \/ List(r) \/ End(r) \/ Stop(r)
    \/ \E p \in Projects : Take(r, p)

-----------------------------------------------------------------------------
(* GitLab's administrators add a hook, or change or delete one.              *)
Edit(p) ==
    /\ edits < MaxEdits
    /\ edits' = edits + 1
    /\ \/ hooks' = [hooks EXCEPT ![p] = Append(@, Foreign)]
       \/ \E i \in Present(p) : \E h \in {[hooks[p][i] EXCEPT !.fit = FALSE],
                                          [hooks[p][i] EXCEPT !.name = "deleted"]} :
              hooks' = [hooks EXCEPT ![p][i] = h]
    /\ calm' = [r \in Runs |-> FALSE]
    /\ UNCHANGED <<token, job, raced>>

(* The configuration gets another webhook token; runs that begin use it.     *)
Rotate ==
    /\ token < MaxRotations
    /\ token' = token + 1
    /\ UNCHANGED <<hooks, job, calm, raced, edits>>

Next ==
    \/ \E r \in Runs : Act(r)
    \/ \E p \in Places : Edit(p)
    \/ Rotate

Spec == Init /\ [][Next]_vars
-----------------------------------------------------------------------------
Own(p) == {i \in DOMAIN hooks[p] : hooks[p][i].name = "own"}

(* "Never deletes or modifies other hooks" (docs/ARCHITECTURE.md:207): a     *)
(* run changes only hooks of its own name and only adds such, also when the  *)
(* hook it read was deleted before it could update it.                       *)
ForeignHooksUntouched ==
    [][\A r \in Runs, p \in Places : job'[r] # job[r] =>
          /\ Len(hooks'[p]) >= Len(hooks[p])
          /\ \A i \in DOMAIN hooks[p] :
                hooks[p][i].name # "own" => hooks'[p][i] = hooks[p][i]]_vars

(* A run that nobody disturbs and that reports no error leaves, at every     *)
(* place, a hook of its own that GitLab will call as configured.             *)
CleanRunsEnsureHooks ==
    [][\A r \in Runs : End(r) /\ calm[r] /\ ~job[r].failed =>
          \A p \in Places : \E i \in Own(p) : hooks[p][i].fit]_vars

(* Duplicates come only from runs at the same time, or where a place has had *)
(* more hooks than a page, so that its own was not read: a lost answer, a    *)
(* failed request or a stopped run is made up for by a later run, which      *)
(* finds the hook that was created after all.                                *)
DuplicatesNeedRaces ==
    ~raced => \A p \in Places : Cardinality(Own(p)) <= 1 \/ Len(hooks[p]) > PageSize

(* "Updates Crowsnest hooks whose settings differ" (docs/ARCHITECTURE.md:    *)
(* 206), the token being one of them (docs/SETUP.md:51): after a clean run   *)
(* every hook of its own has the configured token.                           *)
CleanRunsDistributeTokens ==
    [][\A r \in Runs : End(r) /\ calm[r] /\ ~job[r].failed =>
          \A p \in Places : \A i \in Own(p) : hooks[p][i].token = job[r].token]_vars
=============================================================================
