------------------------ MODULE HookReconcilerProofs ------------------------
(***************************************************************************)
(* Theorems about HookReconciler for any number of projects, runs and       *)
(* edits.  A run updates the hook it read some time ago, so what has to be  *)
(* known is that this hook can have been deleted, but not have become       *)
(* somebody else's.                                                         *)
(***************************************************************************)
EXTENDS HookReconciler, FiniteSetTheorems, TLAPS

(* The hook a run is about to update is its own, or gone. *)
TargetsAreOwn ==
    \A r \in Runs : job[r].step = "put" => hooks[job[r].place][job[r].target].name # "foreign"

(* Projects are listed after the system hook is done, and nowhere else.      *)
ListsAfterSystem == \A r \in Runs : job[r].step = "list" => job[r].place = System

Inductive == TypeOK /\ TargetsAreOwn /\ ListsAfterSystem

(* What these say of one run. *)
Aims(j, h) ==
    /\ j.place \notin j.todo
    /\ j.step = "list" => j.place = System
    /\ j.step = "put" => /\ j.target \in DOMAIN h[j.place]
                         /\ h[j.place][j.target].name # "foreign"

(* No hook disappears or changes hands. *)
HooksStay ==
    /\ hooks' \in [Places -> Seq(Hook)]
    /\ \A p \in Places :
          /\ Len(hooks'[p]) >= Len(hooks[p])
          /\ \A i \in DOMAIN hooks[p] :
                hooks[p][i].name # "foreign" => hooks'[p][i].name # "foreign"

(* No hook but those of the code's name changes. *)
OthersStay ==
    \A p \in Places :
        /\ Len(hooks'[p]) >= Len(hooks[p])
        /\ \A i \in DOMAIN hooks[p] :
              hooks[p][i].name # "own" => hooks'[p][i] = hooks[p][i]

-----------------------------------------------------------------------------
LEMMA IdleAims == Idle \in Job /\ \A h : Aims(Idle, h)
BY PlacesAssumption DEF Idle, Job, Aims, Places

LEMMA SystemIsPlace == System \in Places /\ System \notin Projects /\ Projects \subseteq Places
BY PlacesAssumption DEF Places

(* Where hooks stay and one run moves, that run is all there is to look at. *)
LEMMA OneRunMoves ==
  ASSUME Inductive, HooksStay, NEW r \in Runs, NEW j \in Job, Aims(j, hooks'),
         job' = [job EXCEPT ![r] = j],
         token' \in 0..MaxRotations, calm' \in [Runs -> BOOLEAN], raced' \in BOOLEAN,
         edits' \in 0..MaxEdits
  PROVE  Inductive'
<1>1. job' \in [Runs -> Job] /\ \A q \in Runs : q # r => job'[q] = job[q]
  BY DEF Inductive, TypeOK
<1>2. job'[r] = j
  BY DEF Inductive, TypeOK
<1>3. \A q \in Runs : Aims(job'[q], hooks')
  <2> TAKE q \in Runs
  <2>1. CASE q = r
    BY <2>1, <1>2
  <2>2. CASE q # r
    <3>1. job'[q] = job[q] /\ job[q] \in Job /\ job[q].place \in Places
      BY <2>2, <1>1 DEF Inductive, TypeOK, Job
    <3>2. Aims(job[q], hooks)
      BY DEF Inductive, TypeOK, TargetsAreOwn, ListsAfterSystem, Aims
    <3>3. hooks[job[q].place] \in Seq(Hook) /\ hooks'[job[q].place] \in Seq(Hook)
      BY <3>1 DEF HooksStay, Inductive, TypeOK
    <3> QED
      BY <3>1, <3>2, <3>3 DEF Aims, HooksStay
  <2> QED
    BY <2>1, <2>2
<1> QED
  BY <1>1, <1>3 DEF Inductive, TypeOK, TargetsAreOwn, ListsAfterSystem, Aims, HooksStay

(* Settle leaves a run that does not aim at any hook. *)
LEMMA SettleAims ==
  ASSUME Inductive, NEW r \in Runs, NEW b \in BOOLEAN, Settle(r, b)
  PROVE  \E j \in Job : job' = [job EXCEPT ![r] = j] /\ \A h : Aims(j, h)
<1> DEFINE next == [job[r] EXCEPT !.step = "next", !.target = 0, !.failed = job[r].failed \/ ~b]
           list == [job[r] EXCEPT !.step = "list", !.target = 0]
<1>1. job[r] \in Job /\ job[r].place \notin job[r].todo
  BY DEF Inductive, TypeOK
<1>2. next \in Job /\ \A h : Aims(next, h)
  BY <1>1 DEF Job, Aims
<1>3. job[r].place = System => list \in Job /\ \A h : Aims(list, h)
  BY <1>1 DEF Job, Aims
<1>4. \/ job' = [job EXCEPT ![r] = next]
      \/ job[r].place = System /\ job' = [job EXCEPT ![r] = list]
      \/ job' = [job EXCEPT ![r] = Idle]
  BY DEF Settle
<1> HIDE DEF next, list
<1> QED
  BY <1>2, <1>3, <1>4, IdleAims

-----------------------------------------------------------------------------
LEMMA InitInductive == Init => Inductive
<1> SUFFICES ASSUME Init PROVE Inductive
  OBVIOUS
<1>1. Foreign \in Hook /\ Outdated \in Hook
  BY PlacesAssumption DEF Foreign, Outdated, Hook
<1>2. hooks \in [Places -> Seq(Hook)]
  <2>1. <<>> \in Seq(Hook) /\ <<Foreign, Outdated>> \in Seq(Hook)
    BY <1>1
  <2>2. [i \in 1..PageSize |-> Foreign] \in Seq(Hook)
    BY <1>1, PlacesAssumption
  <2>3. CASE \E h \in {<<>>, <<Foreign, Outdated>>} : hooks = [p \in Places |-> h]
    BY <2>1, <2>3
  <2>4. CASE \E q \in Projects : hooks =
               [p \in Places |-> IF p = q THEN [i \in 1..PageSize |-> Foreign] ELSE <<>>]
    BY <2>1, <2>2, <2>4
  <2> QED
    BY <2>3, <2>4 DEF Init
<1>3. \A r \in Runs : /\ job[r] \in Job /\ job[r].step = "idle"
                      /\ job[r].place \notin job[r].todo
  BY PlacesAssumption DEF Init, Idle, Job, Places
<1>4. job \in [Runs -> Job]
  BY IdleAims DEF Init
<1>5. /\ calm \in [Runs -> BOOLEAN] /\ raced \in BOOLEAN
      /\ token \in 0..MaxRotations /\ edits \in 0..MaxEdits
  <2>1. calm \in [Runs -> BOOLEAN] /\ raced \in BOOLEAN
    BY DEF Init
  <2>2. token = 0 /\ edits = 0
    BY DEF Init
  <2>3. 0 \in 0..MaxRotations /\ 0 \in 0..MaxEdits
    BY PlacesAssumption
  <2> QED
    BY <2>1, <2>2, <2>3
<1>6. TypeOK
  BY <1>2, <1>3, <1>4, <1>5 DEF TypeOK
<1> QED
  BY <1>3, <1>6 DEF Inductive, TargetsAreOwn, ListsAfterSystem

(* Every step of a run keeps the invariant and leaves the others' hooks.     *)
LEMMA ActInductive ==
  ASSUME Inductive, NEW r \in Runs, Act(r)
  PROVE  Inductive' /\ OthersStay
<1> DEFINE p == job[r].place
           at == job[r].target
           mine == Requested(r)
<1>1. /\ hooks \in [Places -> Seq(Hook)] /\ token \in 0..MaxRotations
      /\ job[r] \in Job /\ p \in Places /\ p \notin job[r].todo /\ job[r].todo \subseteq Projects
      /\ job \in [Runs -> Job]
  BY DEF Inductive, TypeOK, Job
<1>2. UNCHANGED hooks => HooksStay /\ OthersStay
  BY <1>1 DEF HooksStay, OthersStay
<1>3. mine \in Hook /\ mine.name = "own"
  BY <1>1 DEF Requested, Hook, Job
<1>4. CASE Begin(r)
  <2> DEFINE j == [Idle EXCEPT !.step = "read", !.token = token]
  <2>1. j \in Job /\ \A h : Aims(j, h)
    BY <1>1 DEF Idle, Job, Aims, Places
  <2>2. /\ job' = [job EXCEPT ![r] = j] /\ UNCHANGED <<hooks, token, edits>>
        /\ calm' \in [Runs -> BOOLEAN] /\ raced' \in BOOLEAN
    BY <1>4 DEF Begin, Others, Inductive, TypeOK
  <2> HIDE DEF j
  <2> QED
    BY <1>2, <2>1, <2>2, OneRunMoves DEF Inductive, TypeOK
<1>5. CASE Read(r)
  <2> DEFINE put(i) == [job[r] EXCEPT !.step = "put", !.target = i]
             post == [job[r] EXCEPT !.step = "post"]
  <2>1. UNCHANGED <<hooks, token, calm, raced, edits>>
    BY <1>5 DEF Read
  <2>2. CASE \E b \in BOOLEAN : Settle(r, b)
    BY <1>2, <2>1, <2>2, SettleAims, OneRunMoves DEF Inductive, TypeOK
  <2>3. ASSUME NEW i \in Owned(p), job' = [job EXCEPT ![r].step = "put", ![r].target = i]
        PROVE  Inductive' /\ OthersStay
    <3>1. i \in DOMAIN hooks[p] /\ hooks[p][i].name = "own" /\ i \in Nat
      BY <1>1 DEF Owned, Page, Present
    <3>2. put(i) \in Job /\ Aims(put(i), hooks')
      BY <1>1, <2>1, <3>1 DEF Job, Aims
    <3>3. job' = [job EXCEPT ![r] = put(i)]
      BY <1>1, <2>3 DEF Job
    <3> HIDE DEF put
    <3> QED
      BY <1>2, <2>1, <3>2, <3>3, OneRunMoves DEF Inductive, TypeOK
  <2>4. CASE job' = [job EXCEPT ![r].step = "post"]
    <3>1. post \in Job /\ Aims(post, hooks')
      BY <1>1 DEF Job, Aims
    <3>2. job' = [job EXCEPT ![r] = post]
      BY <1>1, <2>4 DEF Job
    <3> HIDE DEF post
    <3> QED
      BY <1>2, <2>1, <3>1, <3>2, OneRunMoves DEF Inductive, TypeOK
  <2> QED
    BY <1>5, <2>2, <2>3, <2>4 DEF Read
<1>6. CASE Put(r)
  <2>1. UNCHANGED <<token, calm, raced, edits>>
    BY <1>6 DEF Put
  <2>2. \E b \in BOOLEAN : Settle(r, b)
    BY <1>6 DEF Put
  <2>3. HooksStay /\ OthersStay
    <3>1. CASE UNCHANGED hooks
      BY <1>2, <3>1
    <3>2. CASE /\ hooks[p][at].name # "deleted"
               /\ hooks' = [hooks EXCEPT ![p][at] = mine]
      <4>1. at \in DOMAIN hooks[p] /\ hooks[p][at].name = "own"
        <5>1. at \in DOMAIN hooks[p] /\ hooks[p][at].name # "foreign"
          BY <1>6 DEF Put, Inductive, TypeOK, TargetsAreOwn
        <5>2. hooks[p][at] \in Hook
          BY <1>1, <5>1
        <5> QED
          BY <3>2, <5>1, <5>2 DEF Hook
      <4>2. [hooks[p] EXCEPT ![at] = mine] \in Seq(Hook)
        BY <1>1, <1>3, <4>1
      <4>3. /\ hooks'[p] = [hooks[p] EXCEPT ![at] = mine]
            /\ \A q \in Places : q # p => hooks'[q] = hooks[q]
            /\ hooks' \in [Places -> Seq(Hook)]
        BY <1>1, <3>2, <4>2
      <4>4. /\ Len(hooks'[p]) = Len(hooks[p]) /\ Len(hooks[p]) \in Nat
            /\ hooks'[p][at] = mine
            /\ \A i \in DOMAIN hooks[p] : i # at => hooks'[p][i] = hooks[p][i]
        BY <1>1, <4>1, <4>2, <4>3
      <4>5. ASSUME NEW q \in Places
            PROVE  /\ Len(hooks'[q]) >= Len(hooks[q])
                   /\ \A i \in DOMAIN hooks[q] :
                         /\ hooks[q][i].name # "foreign" => hooks'[q][i].name # "foreign"
                         /\ hooks[q][i].name # "own" => hooks'[q][i] = hooks[q][i]
        <5>1. CASE q = p
          BY <1>3, <4>1, <4>4, <5>1
        <5>2. CASE q # p
          <6>1. hooks'[q] = hooks[q] /\ Len(hooks[q]) \in Nat
            BY <1>1, <4>3, <5>2
          <6> QED
            BY <6>1
        <5> QED
          BY <5>1, <5>2
      <4> QED
        BY <4>3, <4>5 DEF HooksStay, OthersStay
    <3> QED
      BY <1>6, <3>1, <3>2 DEF Put
  <2> QED
    BY <2>1, <2>2, <2>3, SettleAims, OneRunMoves DEF Inductive, TypeOK
<1>7. CASE Post(r)
  <2>1. UNCHANGED <<token, calm, raced, edits>>
    BY <1>7 DEF Post
  <2>2. \E b \in BOOLEAN : Settle(r, b)
    BY <1>7 DEF Post
  <2>3. HooksStay /\ OthersStay
    <3>1. CASE UNCHANGED hooks
      BY <1>2, <3>1
    <3>2. CASE hooks' = [hooks EXCEPT ![p] = hooks[p] \o <<mine>>]
      <4>1. /\ hooks[p] \o <<mine>> \in Seq(Hook)
            /\ Len(hooks[p] \o <<mine>>) = Len(hooks[p]) + 1
            /\ \A i \in DOMAIN hooks[p] : (hooks[p] \o <<mine>>)[i] = hooks[p][i]
        BY <1>1, <1>3
      <4> QED
        BY <1>1, <3>2, <4>1 DEF HooksStay, OthersStay
    <3> QED
      BY <1>7, <3>1, <3>2 DEF Post, Created
  <2> QED
    BY <2>1, <2>2, <2>3, SettleAims, OneRunMoves DEF Inductive, TypeOK
<1>8. CASE List(r)
  <2> DEFINE next == [job[r] EXCEPT !.step = "next", !.todo = Projects]
  <2>1. UNCHANGED <<hooks, token, calm, raced, edits>>
    BY <1>8 DEF List
  <2>2. CASE job' = [job EXCEPT ![r] = Idle]
    BY <1>2, <2>1, <2>2, IdleAims, OneRunMoves DEF Inductive, TypeOK
  <2>3. CASE job' = [job EXCEPT ![r].step = "next", ![r].todo = Projects]
    <3>1. p = System
      BY <1>8 DEF List, Inductive, ListsAfterSystem
    <3>2. next \in Job /\ Aims(next, hooks')
      BY <1>1, <3>1, SystemIsPlace DEF Job, Aims
    <3>3. job' = [job EXCEPT ![r] = next]
      BY <1>1, <2>3 DEF Job
    <3> HIDE DEF next
    <3> QED
      BY <1>2, <2>1, <3>2, <3>3, OneRunMoves DEF Inductive, TypeOK
  <2> QED
    BY <1>8, <2>2, <2>3 DEF List
<1>9. CASE End(r) \/ Stop(r)
  <2>1. /\ UNCHANGED <<hooks, token, calm, raced, edits>>
        /\ job' = [job EXCEPT ![r] = Idle]
    BY <1>9 DEF End, Stop
  <2> QED
    BY <1>2, <2>1, IdleAims, OneRunMoves DEF Inductive, TypeOK
<1>10. ASSUME NEW q \in Projects, Take(r, q)
       PROVE  Inductive' /\ OthersStay
  <2> DEFINE read == [job[r] EXCEPT !.step = "read", !.place = q, !.todo = job[r].todo \ {q}]
  <2>1. UNCHANGED <<hooks, token, calm, raced, edits>>
    BY <1>10 DEF Take
  <2>2. read \in Job /\ Aims(read, hooks')
    BY <1>1, SystemIsPlace DEF Job, Aims
  <2>3. job' = [job EXCEPT ![r] = read]
    BY <1>1, <1>10 DEF Take, Job
  <2> HIDE DEF read
  <2> QED
    BY <1>2, <2>1, <2>2, <2>3, OneRunMoves DEF Inductive, TypeOK
<1> QED
  BY <1>4, <1>5, <1>6, <1>7, <1>8, <1>9, <1>10 DEF Act

LEMMA EditInductive ==
  ASSUME Inductive, NEW p \in Places, Edit(p)
  PROVE  Inductive'
<1>1. /\ hooks \in [Places -> Seq(Hook)]
      /\ UNCHANGED <<token, job, raced>>
      /\ calm' \in [Runs -> BOOLEAN]
      /\ edits' \in 0..MaxEdits
  BY PlacesAssumption DEF Edit, Inductive, TypeOK
<1>2. HooksStay
  <2>1. CASE hooks' = [hooks EXCEPT ![p] = Append(hooks[p], Foreign)]
    <3>1. Foreign \in Hook
      BY PlacesAssumption DEF Foreign, Hook
    <3> QED
      BY <1>1, <2>1, <3>1 DEF HooksStay
  <2>2. ASSUME NEW i \in Present(p),
               NEW h \in {[hooks[p][i] EXCEPT !.fit = FALSE],
                          [hooks[p][i] EXCEPT !.name = "deleted"]},
               hooks' = [hooks EXCEPT ![p][i] = h]
        PROVE  HooksStay
    <3>1. i \in DOMAIN hooks[p] /\ hooks[p][i] \in Hook
      BY <1>1 DEF Present
    <3>2. h \in Hook /\ (h.name = hooks[p][i].name \/ h.name = "deleted")
      BY <3>1 DEF Hook
    <3>3. /\ [hooks[p] EXCEPT ![i] = h] \in Seq(Hook)
          /\ Len([hooks[p] EXCEPT ![i] = h]) = Len(hooks[p])
      BY <1>1, <3>1, <3>2
    <3> QED
      BY <1>1, <2>2, <3>1, <3>2, <3>3 DEF HooksStay
  <2> QED
    BY <2>1, <2>2 DEF Edit
<1>3. TypeOK' /\ TargetsAreOwn'
  <2>1. ASSUME NEW r \in Runs
        PROVE  Aims(job[r], hooks')
    <3>1. Aims(job[r], hooks) /\ job[r].place \in Places
      BY DEF Inductive, TypeOK, TargetsAreOwn, ListsAfterSystem, Aims, Job
    <3>2. hooks[job[r].place] \in Seq(Hook) /\ hooks'[job[r].place] \in Seq(Hook)
      BY <1>1, <1>2, <3>1 DEF HooksStay
    <3> QED
      BY <1>2, <3>1, <3>2 DEF Aims, HooksStay
  <2> QED
    BY <1>1, <1>2, <2>1 DEF Inductive, TypeOK, TargetsAreOwn, Aims, HooksStay
<1> QED
  BY <1>1, <1>3 DEF Inductive, ListsAfterSystem

LEMMA NextInductive == Inductive /\ [Next]_vars => Inductive'
<1> SUFFICES ASSUME Inductive, [Next]_vars PROVE Inductive'
  OBVIOUS
<1>1. CASE Rotate
  BY <1>1, PlacesAssumption DEF Rotate, Inductive, TypeOK, TargetsAreOwn, ListsAfterSystem
<1>2. CASE UNCHANGED vars
  BY <1>2 DEF vars, Inductive, TypeOK, TargetsAreOwn, ListsAfterSystem
<1> QED
  BY <1>1, <1>2, ActInductive, EditInductive DEF Next

LEMMA Invariance == Spec => []Inductive
BY InitInductive, NextInductive, PTL DEF Spec

-----------------------------------------------------------------------------
(* Types of the hooks and the runs; the hook a run is about to update exists,*)
(* and no run is at a project that is still ahead of it.                     *)
THEOREM TypeCorrect == Spec => []TypeOK
<1>1. Inductive => TypeOK
  BY DEF Inductive
<1> QED
  BY <1>1, Invariance, PTL

(* A run never changes or deletes a hook of another name, however the hooks  *)
(* are edited between its reads and its writes.                              *)
THEOREM ForeignStayUntouched == Spec => ForeignHooksUntouched
<1>1. ASSUME Inductive, Next, NEW r \in Runs, job'[r] # job[r]
      PROVE  OthersStay
  <2>1. \E q \in Runs : Act(q)
    BY <1>1 DEF Next, Edit, Rotate
  <2> QED
    BY <1>1, <2>1, ActInductive
<1>2. Inductive /\ [Next]_vars =>
        [\A r \in Runs, p \in Places : job'[r] # job[r] =>
            /\ Len(hooks'[p]) >= Len(hooks[p])
            /\ \A i \in DOMAIN hooks[p] :
                  hooks[p][i].name # "own" => hooks'[p][i] = hooks[p][i]]_vars
  BY <1>1 DEF OthersStay
<1> QED
  BY <1>2, Invariance, PTL DEF Spec, ForeignHooksUntouched

-----------------------------------------------------------------------------
(***************************************************************************)
(* Duplicates.  While no two runs have met, there is one run at most, and    *)
(* when it is about to create a hook at a place that fits on a page, there   *)
(* is none of its own: it has seen them all, and nobody else adds such.      *)
(***************************************************************************)
Spacious(p) == Len(hooks[p]) <= PageSize

Alone == ~raced => \A q, r \in Runs : job[q] # Idle /\ job[r] # Idle => q = r

CreatesFirst ==
    ~raced => \A r \in Runs :
        job[r].step = "post" /\ Spacious(job[r].place) => Own(job[r].place) = {}

OwnIsSingle == ~raced => \A p \in Places : Spacious(p) => \A i, j \in Own(p) : i = j

Counted == Inductive /\ Alone /\ CreatesFirst /\ OwnIsSingle

(* A step that adds no hook of the code's name to p. *)
NoneAppears(p) ==
    /\ Len(hooks'[p]) >= Len(hooks[p])
    /\ \A i \in DOMAIN hooks'[p] : hooks'[p][i].name = "own" =>
          i \in DOMAIN hooks[p] /\ hooks[p][i].name = "own"

(* Where all hooks fit on a page, the page has them all. *)
LEMMA PageHasAll ==
  ASSUME Inductive, NEW p \in Places, Spacious(p)
  PROVE  Owned(p) = Own(p)
<1>1. hooks[p] \in Seq(Hook) /\ Len(hooks[p]) \in Nat /\ PageSize \in Nat
  BY PlacesAssumption DEF Inductive, TypeOK
<1>2. ASSUME NEW i \in Present(p)
      PROVE  Cardinality({j \in Present(p) : j < i}) < PageSize
  <2> DEFINE before == {j \in Present(p) : j < i}
  <2>1. i \in 1..Len(hooks[p]) /\ before \subseteq 1..(i - 1)
    BY <1>1 DEF Present
  <2>2. IsFiniteSet(1..(i - 1)) /\ Cardinality(1..(i - 1)) = i - 1
    BY <2>1, FS_Interval
  <2>3. Cardinality(before) <= i - 1 /\ Cardinality(before) \in Nat
    BY <2>1, <2>2, FS_Subset, FS_CardinalityType
  <2> QED
    BY <1>1, <2>1, <2>3 DEF Spacious
<1>3. Page(p) = Present(p)
  BY <1>2 DEF Page
<1> QED
  BY <1>3 DEF Owned, Own, Present

LEMMA UnchangedNoneAppears ==
  ASSUME Inductive, UNCHANGED hooks
  PROVE  \A p \in Places : NoneAppears(p)
BY DEF NoneAppears, Inductive, TypeOK

(* Steps that add no such hook, and start no creation, keep what is counted. *)
LEMMA NoneAppearsCounted ==
  ASSUME Counted, Inductive', raced' \in {raced, TRUE},
         \A p \in Places : NoneAppears(p), Alone',
         \A r \in Runs, p \in Places : job'[r].step = "post" /\ job'[r].place = p =>
             \/ job[r].step = "post" /\ job[r].place = p
             \/ Spacious(p) => Own(p) = {}
  PROVE  Counted'
<1>1. ASSUME NEW p \in Places
      PROVE  (Spacious(p)' => Spacious(p)) /\ Own(p)' \subseteq Own(p)
  <2>1. Len(hooks[p]) \in Nat /\ Len(hooks'[p]) \in Nat /\ PageSize \in Nat
    BY PlacesAssumption DEF Counted, Inductive, TypeOK
  <2> QED
    BY <2>1 DEF NoneAppears, Spacious, Own
<1>2. OwnIsSingle'
  BY <1>1 DEF Counted, OwnIsSingle
<1>3. CreatesFirst'
  <2>1. ASSUME ~raced', NEW r \in Runs, NEW p \in Places,
               job'[r].step = "post", job'[r].place = p, Spacious(p)'
        PROVE  Own(p)' = {}
    <3>1. Spacious(p)
      BY <1>1, <2>1
    <3>2. Own(p) = {}
      BY <2>1, <3>1 DEF Counted, CreatesFirst
    <3> QED
      BY <1>1, <3>2
  <2>2. \A r \in Runs : job'[r].place \in Places
    BY DEF Inductive, TypeOK, Job
  <2> QED
    BY <2>1, <2>2 DEF CreatesFirst, Spacious, Own
<1> QED
  BY <1>2, <1>3 DEF Counted

LEMMA InitCounted == Init => Counted
<1> SUFFICES ASSUME Init PROVE Counted
  OBVIOUS
<1>1. Inductive
  BY InitInductive
<1>2. Alone /\ CreatesFirst
  BY DEF Init, Alone, CreatesFirst, Idle
<1>3. OwnIsSingle
  <2> SUFFICES ASSUME NEW p \in Places, NEW i \in Own(p), NEW j \in Own(p) PROVE i = j
    BY DEF OwnIsSingle
  <2>1. CASE hooks[p] = <<>>
    BY <2>1 DEF Own
  <2>2. CASE hooks[p] = <<Foreign, Outdated>>
    <3>1. i \in 1..2 /\ j \in 1..2 /\ hooks[p][1].name # "own"
      BY <2>2 DEF Own, Foreign
    <3> QED
      BY <3>1 DEF Own
  <2>3. CASE hooks[p] = [k \in 1..PageSize |-> Foreign]
    BY <2>3 DEF Own, Foreign
  <2> QED
    BY <2>1, <2>2, <2>3 DEF Init
<1> QED
  BY <1>1, <1>2, <1>3 DEF Counted

LEMMA SettleMoves ==
  ASSUME Inductive, NEW r \in Runs, NEW b \in BOOLEAN, Settle(r, b)
  PROVE  job'[r].step # "post" /\ \A q \in Runs : q # r => job'[q] = job[q]
BY DEF Settle, Inductive, TypeOK, Job, Idle

(* A run that acts while no two have met is the only one under way. *)
LEMMA ActAlone ==
  ASSUME Counted, NEW r \in Runs, Act(r)
  PROVE  /\ raced' \in {raced, TRUE}
         /\ \A q \in Runs : q # r => job'[q] = job[q]
         /\ ~raced' => \A q \in Runs : q # r => job[q] = Idle
<1>1. raced \in BOOLEAN /\ job \in [Runs -> Job]
  BY DEF Counted, Inductive, TypeOK
<1>2. CASE Begin(r)
  BY <1>1, <1>2 DEF Begin
<1>3. CASE ~Begin(r)
  <2>1. job[r] # Idle /\ raced' = raced
    <3>1. Idle.step = "idle"
      BY DEF Idle
    <3>2. job[r] # Idle \/ job[r].step # "idle"
      BY <1>3 DEF Act, Read, Put, Post, List, Take, End, Stop
    <3>3. raced' = raced
      BY <1>3 DEF Act, Read, Put, Post, List, Take, End, Stop
    <3> QED
      BY <3>1, <3>2, <3>3
  <2>2. \A q \in Runs : q # r => job'[q] = job[q]
    <3>1. CASE Read(r) \/ Put(r) \/ Post(r)
      BY <1>1, <3>1, SettleMoves DEF Read, Put, Post, Counted
    <3>2. CASE List(r) \/ End(r) \/ Stop(r) \/ \E p \in Projects : Take(r, p)
      BY <1>1, <3>2 DEF List, End, Stop, Take
    <3> QED
      BY <1>3, <3>1, <3>2 DEF Act
  <2> QED
    BY <2>1, <2>2 DEF Counted, Alone
<1> QED
  BY <1>2, <1>3

LEMMA ActCounted ==
  ASSUME Counted, NEW r \in Runs, Act(r)
  PROVE  Counted'
<1> DEFINE p == job[r].place
           at == job[r].target
           mine == Requested(r)
<1>1. Inductive'
  BY ActInductive DEF Counted
<1>2. /\ raced' \in {raced, TRUE}
      /\ \A q \in Runs : q # r => job'[q] = job[q]
      /\ ~raced' => \A q \in Runs : q # r => job'[q] = Idle
  BY ActAlone
<1>3. Alone'
  BY <1>2 DEF Alone
<1>4. /\ hooks \in [Places -> Seq(Hook)] /\ job \in [Runs -> Job] /\ p \in Places
  BY DEF Counted, Inductive, TypeOK, Job
<1>5. CASE UNCHANGED hooks
  <2>1. ASSUME job'[r].step = "post", NEW q \in Places, job'[r].place = q
        PROVE  Spacious(q) => Own(q) = {}
    <3>1. CASE Read(r) /\ Owned(p) = {} /\ job' = [job EXCEPT ![r].step = "post"]
      BY <1>4, <2>1, <3>1, PageHasAll DEF Counted, Job
    <3>2. CASE \E b \in BOOLEAN : Settle(r, b)
      BY <2>1, <3>2, SettleMoves DEF Counted
    <3>3. CASE Read(r) /\ \E i \in Owned(p) :
                 job' = [job EXCEPT ![r].step = "put", ![r].target = i]
      BY <1>4, <2>1, <3>3 DEF Job
    <3>4. CASE Begin(r)
      BY <1>4, <2>1, <3>4 DEF Begin, Idle
    <3>5. CASE List(r) \/ End(r) \/ Stop(r)
      BY <1>4, <2>1, <3>5 DEF List, End, Stop, Idle, Job
    <3>6. CASE \E x \in Projects : Take(r, x)
      BY <1>4, <2>1, <3>6 DEF Take, Job
    <3> QED
      BY <3>1, <3>2, <3>3, <3>4, <3>5, <3>6 DEF Act, Read, Put, Post
  <2>2. \A q \in Runs, x \in Places : job'[q].step = "post" /\ job'[q].place = x =>
            \/ job[q].step = "post" /\ job[q].place = x
            \/ Spacious(x) => Own(x) = {}
    BY <1>2, <2>1
  <2> QED
    BY <1>1, <1>2, <1>3, <1>5, <2>2, UnchangedNoneAppears, NoneAppearsCounted DEF Counted
<1>6. CASE Put(r) /\ hooks' = [hooks EXCEPT ![p][at] = mine] /\ hooks[p][at].name # "deleted"
  <2>1. at \in DOMAIN hooks[p] /\ hooks[p][at].name = "own"
    <3>1. at \in DOMAIN hooks[p] /\ hooks[p][at].name # "foreign"
      BY <1>6 DEF Put, Counted, Inductive, TypeOK, TargetsAreOwn
    <3>2. hooks[p][at] \in Hook
      BY <1>4, <3>1
    <3> QED
      BY <1>6, <3>1, <3>2 DEF Hook
  <2>2. ASSUME NEW x \in Places
        PROVE  NoneAppears(x)
    <3>1. CASE x # p
      <4>1. hooks'[x] = hooks[x] /\ Len(hooks[x]) \in Nat
        BY <1>4, <1>6, <3>1
      <4> QED
        BY <4>1 DEF NoneAppears
    <3>2. CASE x = p
      <4>1. hooks'[x] = [hooks[x] EXCEPT ![at] = mine]
        BY <1>4, <1>6, <3>2
      <4>2. hooks[x] \in Seq(Hook) /\ hooks'[x] \in Seq(Hook)
        BY <1>1, <1>4 DEF Inductive, TypeOK
      <4>3. DOMAIN hooks'[x] = DOMAIN hooks[x] /\ Len(hooks'[x]) = Len(hooks[x])
        BY <4>1, <4>2
      <4>4. Len(hooks[x]) \in Nat
        BY <4>2
      <4> QED
        BY <2>1, <3>2, <4>1, <4>3, <4>4 DEF NoneAppears
    <3> QED
      BY <3>1, <3>2
  <2>3. job'[r].step # "post"
    BY <1>6, SettleMoves DEF Put, Counted
  <2>4. \A q \in Runs, x \in Places : job'[q].step = "post" /\ job'[q].place = x =>
            \/ job[q].step = "post" /\ job[q].place = x
            \/ Spacious(x) => Own(x) = {}
    BY <1>2, <2>3
  <2> QED
    BY <1>1, <1>2, <1>3, <2>2, <2>4, NoneAppearsCounted DEF Counted
<1>7. CASE Post(r) /\ hooks' = [hooks EXCEPT ![p] = hooks[p] \o <<mine>>]
  <2>1. job'[r].step # "post" /\ raced' = raced
    BY <1>7, SettleMoves DEF Post, Counted
  <2>2. CreatesFirst'
    BY <1>2, <2>1 DEF CreatesFirst, Idle
  <2>3. ASSUME ~raced', NEW x \in Places, Spacious(x)', NEW i \in Own(x)', NEW j \in Own(x)'
        PROVE  i = j
    <3>1. CASE x # p
      <4>1. hooks'[x] = hooks[x]
        BY <1>4, <1>7, <3>1
      <4> QED
        BY <2>1, <2>3, <4>1 DEF Counted, OwnIsSingle, Own, Spacious
    <3>2. CASE x = p
      <4>1. hooks'[x] = hooks[x] \o <<mine>>
        BY <1>4, <1>7, <3>2
      <4>2. hooks[x] \in Seq(Hook) /\ Len(hooks[x]) \in Nat /\ PageSize \in Nat
        BY <1>4, PlacesAssumption
      <4>3. /\ Len(hooks'[x]) = Len(hooks[x]) + 1
            /\ DOMAIN hooks'[x] = 1..(Len(hooks[x]) + 1)
            /\ \A k \in DOMAIN hooks[x] : hooks'[x][k] = hooks[x][k]
            /\ DOMAIN hooks[x] = 1..Len(hooks[x])
        BY <4>1, <4>2
      <4>4. Spacious(x)
        BY <2>3, <4>2, <4>3 DEF Spacious
      <4>5. Own(x) = {}
        <5>1. job[r].step = "post"
          BY <1>7 DEF Post
        <5>2. job[r].place = x /\ ~raced
          BY <2>1, <2>3, <3>2
        <5> QED
          BY <4>4, <5>1, <5>2 DEF Counted, CreatesFirst
      <4>6. \A k \in Own(x)' : k = Len(hooks[x]) + 1
        <5>1. \A k \in DOMAIN hooks[x] : k \notin Own(x)'
          BY <4>3, <4>5 DEF Own
        <5>2. \A k \in Own(x)' : k \in 1..(Len(hooks[x]) + 1) /\ k \notin 1..Len(hooks[x])
          BY <4>3, <5>1 DEF Own
        <5> QED
          BY <4>2, <5>2
      <4> QED
        BY <2>3, <4>6
    <3> QED
      BY <3>1, <3>2
  <2> QED
    BY <1>1, <1>3, <2>2, <2>3 DEF Counted, OwnIsSingle
<1> QED
  BY <1>5, <1>6, <1>7 DEF Act, Begin, Read, Put, Post, Created, List, End, Stop, Take

LEMMA EditCounted ==
  ASSUME Counted, NEW p \in Places, Edit(p)
  PROVE  Counted'
<1>1. Inductive' /\ UNCHANGED <<job, raced>> /\ hooks \in [Places -> Seq(Hook)]
  BY EditInductive DEF Counted, Edit, Inductive, TypeOK
<1>2. ASSUME NEW x \in Places
      PROVE  NoneAppears(x)
  <2>1. /\ hooks[x] \in Seq(Hook) /\ Len(hooks[x]) \in Nat
        /\ hooks'[x] \in Seq(Hook) /\ Len(hooks'[x]) \in Nat
    BY <1>1 DEF Inductive, TypeOK
  <2>2. CASE hooks'[x] = hooks[x]
    BY <2>1, <2>2 DEF NoneAppears
  <2>3. CASE hooks'[x] = Append(hooks[x], Foreign)
    BY <2>1, <2>3 DEF NoneAppears, Foreign
  <2>4. ASSUME NEW i \in Present(x),
               NEW h \in {[hooks[x][i] EXCEPT !.fit = FALSE],
                          [hooks[x][i] EXCEPT !.name = "deleted"]},
               hooks'[x] = [hooks[x] EXCEPT ![i] = h]
        PROVE  NoneAppears(x)
    <3>1. i \in DOMAIN hooks[x] /\ hooks[x][i] \in Hook
      BY <2>1 DEF Present
    <3>2. h.name = hooks[x][i].name \/ h.name = "deleted"
      BY <3>1 DEF Hook
    <3>3. DOMAIN hooks'[x] = DOMAIN hooks[x] /\ Len(hooks'[x]) = Len(hooks[x])
      BY <2>1, <2>4
    <3> QED
      BY <2>1, <2>4, <3>1, <3>2, <3>3 DEF NoneAppears
  <2>5. \/ hooks'[x] = hooks[x]
        \/ hooks'[x] = Append(hooks[x], Foreign)
        \/ \E i \in Present(x) : \E h \in {[hooks[x][i] EXCEPT !.fit = FALSE],
                                           [hooks[x][i] EXCEPT !.name = "deleted"]} :
              hooks'[x] = [hooks[x] EXCEPT ![i] = h]
    <3>1. CASE x = p
      BY <1>1, <3>1 DEF Edit
    <3>2. CASE x # p
      BY <1>1, <3>2 DEF Edit
    <3> QED
      BY <3>1, <3>2
  <2> QED
    BY <2>2, <2>3, <2>4, <2>5
<1> QED
  BY <1>1, <1>2, NoneAppearsCounted DEF Counted, Alone

LEMMA NextCounted == Counted /\ [Next]_vars => Counted'
<1> SUFFICES ASSUME Counted, [Next]_vars PROVE Counted'
  OBVIOUS
<1>1. CASE Rotate \/ UNCHANGED vars
  <2>1. Inductive' /\ UNCHANGED <<hooks, job, raced>>
    BY <1>1, NextInductive DEF Counted, Rotate, vars
  <2> QED
    BY <2>1 DEF Counted, Alone, CreatesFirst, OwnIsSingle, Own, Spacious
<1> QED
  BY <1>1, ActCounted, EditCounted DEF Next

(* Without two runs at a time, and while its hooks have always fitted on a   *)
(* page, no place has two hooks of the reconciler's, however often answers   *)
(* are lost, runs stop and administrators edit.                              *)
THEOREM DuplicatesAreExplained == Spec => []DuplicatesNeedRaces
<1>1. ASSUME Counted, ~raced, NEW p \in Places, ~(Len(hooks[p]) > PageSize)
      PROVE  Cardinality(Own(p)) <= 1
  <2>1. hooks[p] \in Seq(Hook) /\ Len(hooks[p]) \in Nat /\ PageSize \in Nat
    BY <1>1, PlacesAssumption DEF Counted, Inductive, TypeOK
  <2>2. \A i, j \in Own(p) : i = j
    BY <1>1, <2>1 DEF Counted, OwnIsSingle, Spacious
  <2>3. CASE Own(p) = {}
    BY <2>3, FS_EmptySet
  <2>4. CASE Own(p) # {}
    <3>1. PICK i \in Own(p) : Own(p) = {i}
      BY <2>2, <2>4
    <3> QED
      BY <3>1, FS_Singleton
  <2> QED
    BY <2>3, <2>4
<1>2. Counted => DuplicatesNeedRaces
  BY <1>1 DEF DuplicatesNeedRaces
<1> QED
  BY <1>2, InitCounted, NextCounted, PTL DEF Spec

-----------------------------------------------------------------------------
(* What a run has done: the system hook, then the projects it has taken.      *)
IsDone(j, p) ==
    \/ j.step = "list" /\ p = System
    \/ j.step = "next" /\ p \notin j.todo
    \/ j.step \in {"read", "put", "post"} /\ j.place # System /\ p \notin j.todo \cup {j.place}

Fits(p) == \E i \in Own(p) : hooks[p][i].fit

(* While nobody else acts, what a run has done without an error stays done.   *)
CalmRunsEnsure ==
    \A r \in Runs : calm[r] =>
        /\ \A q \in Runs : q # r => job[q] = Idle
        /\ ~job[r].failed => \A p \in Places : IsDone(job[r], p) => Fits(p)

Ensured == Inductive /\ CalmRunsEnsure

LEMMA InitEnsured == Init => Ensured
BY InitInductive DEF Init, Ensured, CalmRunsEnsure

LEMMA IdleIsNotDone == Idle.step = "idle" /\ \A p : ~IsDone(Idle, p)
BY DEF Idle, IsDone

(* A place counts as done only if the run settled it without an error.        *)
LEMMA SettleDone ==
  ASSUME Inductive, NEW r \in Runs, NEW b \in BOOLEAN, Settle(r, b),
         job[r].step \in {"read", "put", "post"},
         NEW p \in Places, IsDone(job'[r], p), ~job'[r].failed
  PROVE  b /\ ~job[r].failed /\ (IsDone(job[r], p) \/ p = job[r].place)
<1> DEFINE next == [job[r] EXCEPT !.step = "next", !.target = 0, !.failed = job[r].failed \/ ~b]
           list == [job[r] EXCEPT !.step = "list", !.target = 0]
<1>1. job \in [Runs -> Job] /\ job[r] \in Job
  BY DEF Inductive, TypeOK
<1>2. CASE job[r].place # System
  <2>1. job'[r] = next
    BY <1>1, <1>2 DEF Settle
  <2>2. next.step = "next" /\ next.todo = job[r].todo /\ next.failed = (job[r].failed \/ ~b)
    BY <1>1 DEF Job
  <2>3. b /\ ~job[r].failed
    BY <2>1, <2>2
  <2>4. p \notin job[r].todo
    BY <2>1, <2>2 DEF IsDone
  <2> QED
    BY <1>2, <2>3, <2>4 DEF IsDone
<1>3. CASE job[r].place = System /\ b
  <2>1. job'[r] = list
    BY <1>1, <1>3 DEF Settle
  <2>2. list.step = "list" /\ list.failed = job[r].failed
    BY <1>1 DEF Job
  <2> QED
    BY <1>3, <2>1, <2>2 DEF IsDone
<1>4. CASE job[r].place = System /\ ~b
  <2>1. job'[r] = Idle
    BY <1>1, <1>4 DEF Settle
  <2> QED
    BY <2>1, IdleIsNotDone
<1> QED
  BY <1>2, <1>3, <1>4

(* What a run writes fits, and takes no fitting hook away.                    *)
LEMMA WritesFit ==
  ASSUME Inductive, NEW r \in Runs, NEW x \in Places, job[r].place = x,
         \/ /\ job[r].step = "put"
            /\ hooks' = [hooks EXCEPT ![x][job[r].target] = Requested(r)]
         \/ hooks' = [hooks EXCEPT ![x] = hooks[x] \o <<Requested(r)>>]
  PROVE  Fits(x)' /\ \A p \in Places : Fits(p) => Fits(p)'
<1> DEFINE mine == Requested(r)
           at == job[r].target
<1>1. /\ hooks \in [Places -> Seq(Hook)] /\ hooks[x] \in Seq(Hook)
      /\ mine.name = "own" /\ mine.fit
  BY DEF Inductive, TypeOK, Job, Requested
<1>2. CASE job[r].step = "put" /\ hooks' = [hooks EXCEPT ![x][at] = mine]
  <2>1. at \in DOMAIN hooks[x]
    BY <1>2 DEF Inductive, TypeOK
  <2>2. /\ hooks'[x] = [hooks[x] EXCEPT ![at] = mine]
        /\ \A p \in Places \ {x} : hooks'[p] = hooks[p]
    BY <1>1, <1>2
  <2>3. at \in DOMAIN hooks'[x] /\ hooks'[x][at] = mine
    BY <2>1, <2>2
  <2>4. Fits(x)'
    BY <1>1, <2>3 DEF Fits, Own
  <2> QED
    BY <2>2, <2>4 DEF Fits, Own
<1>3. CASE hooks' = [hooks EXCEPT ![x] = hooks[x] \o <<mine>>]
  <2>1. /\ hooks'[x] = hooks[x] \o <<mine>>
        /\ \A p \in Places \ {x} : hooks'[p] = hooks[p]
    BY <1>1, <1>3
  <2>2. /\ Len(hooks[x]) \in Nat
        /\ Len(hooks[x]) + 1 \in DOMAIN hooks'[x] /\ hooks'[x][Len(hooks[x]) + 1] = mine
    BY <1>1, <2>1
  <2>3. Fits(x)'
    BY <1>1, <2>2 DEF Fits, Own
  <2> QED
    BY <2>1, <2>3 DEF Fits, Own
<1> QED
  BY <1>2, <1>3

(* Every step of a calm run adds to what is done only what fits.              *)
LEMMA ActDone ==
  ASSUME Ensured, NEW r \in Runs, Act(r), ~Begin(r), calm[r],
         NEW p \in Places, IsDone(job'[r], p), ~job'[r].failed
  PROVE  Fits(p)'
<1> PICK x \in Places : job[r].place = x
  BY DEF Ensured, Inductive, TypeOK, Job
<1>1. /\ job \in [Runs -> Job] /\ job[r] \in Job
      /\ \A y \in Places : ~job[r].failed /\ IsDone(job[r], y) => Fits(y)
  BY DEF Ensured, Inductive, TypeOK, CalmRunsEnsure
<1>2. ASSUME NEW b \in BOOLEAN, Settle(r, b), job[r].step \in {"read", "put", "post"},
             \A y \in Places : Fits(y) => Fits(y)', b => Fits(x)'
      PROVE  Fits(p)'
  BY <1>1, <1>2, SettleDone DEF Ensured
<1>3. CASE Read(r)
  <2>1. UNCHANGED hooks /\ \A y : Fits(y)' <=> Fits(y)
    BY <1>3 DEF Read, Fits, Own
  <2>2. CASE Settle(r, FALSE)
    BY <1>2, <1>3, <2>1, <2>2 DEF Read
  <2>3. CASE \E i \in Owned(x) : Matches(hooks[x][i]) /\ Settle(r, TRUE)
    <3>1. Fits(x)
      BY <2>3 DEF Matches, Owned, Page, Present, Own, Fits
    <3> QED
      BY <1>2, <1>3, <2>1, <2>3, <3>1 DEF Read
  <2>4. CASE \/ \E i \in Owned(x) : job' = [job EXCEPT ![r].step = "put", ![r].target = i]
             \/ job' = [job EXCEPT ![r].step = "post"]
    <3>1. /\ job'[r].step \in {"put", "post"} /\ job'[r].place = x
          /\ job'[r].todo = job[r].todo /\ job'[r].failed = job[r].failed
      BY <1>1, <2>4 DEF Job
    <3>2. IsDone(job[r], p)
      BY <1>3, <3>1 DEF IsDone, Read
    <3> QED
      BY <1>1, <2>1, <3>1, <3>2
  <2> QED
    BY <1>3, <2>2, <2>3, <2>4 DEF Read
<1>4. CASE Put(r) \/ Post(r)
  <2>1. CASE UNCHANGED hooks /\ Settle(r, FALSE)
    <3>1. \A y : Fits(y)' <=> Fits(y)
      BY <2>1 DEF Fits, Own
    <3> QED
      BY <1>2, <1>4, <2>1, <3>1 DEF Put, Post
  <2>2. CASE ~(UNCHANGED hooks /\ Settle(r, FALSE))
    <3>1. /\ \/ /\ job[r].step = "put"
                /\ hooks' = [hooks EXCEPT ![x][job[r].target] = Requested(r)]
             \/ hooks' = [hooks EXCEPT ![x] = hooks[x] \o <<Requested(r)>>]
          /\ \E b \in BOOLEAN : Settle(r, b)
      BY <1>4, <2>2 DEF Put, Post, Created
    <3>2. Fits(x)' /\ \A y \in Places : Fits(y) => Fits(y)'
      BY <3>1, WritesFit DEF Ensured
    <3> QED
      BY <1>2, <1>4, <3>1, <3>2 DEF Put, Post
  <2> QED
    BY <2>1, <2>2
<1>5. CASE List(r)
  <2>1. UNCHANGED hooks /\ \A y : Fits(y)' <=> Fits(y)
    BY <1>5 DEF List, Fits, Own
  <2>2. CASE job' = [job EXCEPT ![r] = Idle]
    BY <1>1, <2>2, IdleIsNotDone
  <2>3. CASE job' = [job EXCEPT ![r].step = "next", ![r].todo = Projects]
    <3>1. job'[r].step = "next" /\ job'[r].todo = Projects /\ job'[r].failed = job[r].failed
      BY <1>1, <2>3 DEF Job
    <3>2. p = System /\ IsDone(job[r], p)
      BY <1>5, <3>1 DEF List, IsDone, Places
    <3> QED
      BY <1>1, <2>1, <3>1, <3>2
  <2> QED
    BY <1>5, <2>2, <2>3 DEF List
<1>6. ASSUME NEW q \in Projects, Take(r, q)
      PROVE  Fits(p)'
  <2>1. UNCHANGED hooks /\ \A y : Fits(y)' <=> Fits(y)
    BY <1>6 DEF Take, Fits, Own
  <2>2. /\ job'[r].step = "read" /\ job'[r].place = q /\ job'[r].todo = job[r].todo \ {q}
        /\ job'[r].failed = job[r].failed
    BY <1>1, <1>6 DEF Take, Job
  <2>3. IsDone(job[r], p)
    BY <1>6, <2>2 DEF Take, IsDone
  <2> QED
    BY <1>1, <2>1, <2>2, <2>3
<1>7. CASE End(r) \/ Stop(r)
  BY <1>1, <1>7, IdleIsNotDone DEF End, Stop
<1> QED
  BY <1>3, <1>4, <1>5, <1>6, <1>7 DEF Act

LEMMA ActEnsured ==
  ASSUME Ensured, NEW r \in Runs, Act(r)
  PROVE  Ensured'
<1>1. Inductive' /\ job \in [Runs -> Job] /\ calm \in [Runs -> BOOLEAN]
  BY ActInductive DEF Ensured, Inductive, TypeOK
<1>2. CASE Begin(r)
  <2>1. /\ job'[r].step = "read" /\ job'[r].place = System
        /\ \A q \in Runs : q # r => job'[q] = job[q]
        /\ \A q \in Runs : calm'[q] => q = r /\ \A o \in Runs \ {r} : job[o] = Idle
    BY <1>1, <1>2 DEF Begin, Others, Idle
  <2>2. \A p : ~IsDone(job'[r], p)
    BY <2>1 DEF IsDone
  <2> QED
    BY <1>1, <2>1, <2>2 DEF Ensured, CalmRunsEnsure
<1>3. CASE ~Begin(r)
  <2>1. calm' = calm /\ job[r] # Idle
    <3>1. job[r] # Idle \/ job[r].step # "idle"
      BY <1>3 DEF Act, Read, Put, Post, List, Take, End, Stop
    <3>2. calm' = calm
      BY <1>3 DEF Act, Read, Put, Post, List, Take, End, Stop
    <3> QED
      BY <3>1, <3>2, IdleIsNotDone
  <2>2. \A q \in Runs : calm[q] => q = r
    BY <2>1 DEF Ensured, CalmRunsEnsure
  <2>3. \A q \in Runs : q # r => job'[q] = job[q]
    <3>1. CASE Read(r) \/ Put(r) \/ Post(r)
      BY <1>1, <3>1, SettleMoves DEF Read, Put, Post, Ensured
    <3>2. CASE List(r) \/ End(r) \/ Stop(r) \/ \E p \in Projects : Take(r, p)
      BY <1>1, <3>2 DEF List, End, Stop, Take
    <3> QED
      BY <1>3, <3>1, <3>2 DEF Act
  <2>4. ASSUME calm[r], ~job'[r].failed, NEW p \in Places, IsDone(job'[r], p)
        PROVE  Fits(p)'
    BY <1>3, <2>4, ActDone
  <2> QED
    BY <1>1, <2>1, <2>2, <2>3, <2>4 DEF Ensured, CalmRunsEnsure
<1> QED
  BY <1>2, <1>3

LEMMA NextEnsured == Ensured /\ [Next]_vars => Ensured'
<1> SUFFICES ASSUME Ensured, [Next]_vars PROVE Ensured'
  OBVIOUS
<1>1. Inductive'
  BY NextInductive DEF Ensured
<1>2. CASE \E r \in Runs : Act(r)
  BY <1>2, ActEnsured
<1>3. CASE \E p \in Places : Edit(p)
  BY <1>1, <1>3 DEF Edit, Ensured, CalmRunsEnsure
<1>4. CASE Rotate \/ UNCHANGED vars
  BY <1>1, <1>4 DEF Rotate, vars, Ensured, CalmRunsEnsure, Fits, Own
<1> QED
  BY <1>2, <1>3, <1>4 DEF Next

(* A run that reports no error, and that nobody disturbed, leaves a hook as   *)
(* configured at every place, the instance's own included.                   *)
THEOREM CleanRunsLeaveHooks == Spec => CleanRunsEnsureHooks
<1>1. ASSUME Ensured, NEW r \in Runs, End(r), calm[r], ~job[r].failed, NEW p \in Places
      PROVE  \E i \in Own(p) : hooks[p][i].fit
  <2>1. IsDone(job[r], p)
    BY <1>1 DEF End, IsDone
  <2>2. Fits(p)
    BY <1>1, <2>1 DEF Ensured, CalmRunsEnsure
  <2> QED
    BY <2>2 DEF Fits
<1>2. Ensured => \A r \in Runs : End(r) /\ calm[r] /\ ~job[r].failed =>
                    \A p \in Places : \E i \in Own(p) : hooks[p][i].fit
  BY <1>1
<1> QED
  BY <1>2, InitEnsured, NextEnsured, PTL DEF Spec, CleanRunsEnsureHooks
=============================================================================
