-------------------------- MODULE IdentitiesProofs --------------------------
(***************************************************************************)
(* Table identities, for any number of people, names, synchronisations and  *)
(* handlers: its types, its unique indexes, and that no interleaving of     *)
(* upserts mixes up two people.  A write replaces a whole row, so what has  *)
(* to be shown is that no writer ever holds an identity that was never      *)
(* somebody's.                                                              *)
(***************************************************************************)
EXTENDS Identities, TLAPS

(* The ID, if any, is the address's owner's, and the name was theirs once. *)
Own(c) == c \in Identity /\ c.pid \in {NoId, c.email} /\ c.name \in held[c.email]

Upserting(j) == j.step \in {"byId", "byName", "write"}

(* A writer holds identities that were somebody's. *)
HoldsOwn(j) == (Upserting(j) => Own(j.who)) /\ \A c \in j.todo : Own(c)

(* A sync knows everybody's ID. *)
HasIds(j) == (Upserting(j) => j.who.pid \in People) /\ \A c \in j.todo : c.pid \in People

NamesAreHeld == \A p \in Listed(gitlab) : gitlab[p].name \in held[p]
JobsAreOwn == \A w \in Writers : HoldsOwn(job[w])
SyncsHaveIds == \A s \in Syncs : HasIds(job[s])

Inductive ==
    /\ TypeOK
    /\ MappingsAreOwn
    /\ NamesAreHeld
    /\ JobsAreOwn
    /\ SyncsHaveIds

(* What an action must say of the writers. *)
JobsAreSound ==
    /\ job \in [Writers -> Job]
    /\ \A w \in Writers : job[w].byId \in 0..Len(rows) /\ job[w].byName \in 0..Len(rows)
    /\ JobsAreOwn
    /\ SyncsHaveIds

-----------------------------------------------------------------------------
LEMMA IdleIsSound == Idle \in Job /\ HoldsOwn(Idle) /\ HasIds(Idle) /\ Idle.byId = 0 /\ Idle.byName = 0
BY DEF Idle, Job, HoldsOwn, HasIds, Upserting

LEMMA InitInductive == Init => Inductive
<1> SUFFICES ASSUME Init PROVE Inductive
  OBVIOUS
<1>1. gitlab \in [People -> [state : States, name : Names \cup {NoName}]]
  BY DEF Init, States
<1>2. held \in [People -> SUBSET Names]
  BY DEF Init
<1>3. job \in [Writers -> Job] /\ \A w \in Writers : job[w].byId \in 0..0 /\ job[w].byName \in 0..0
  BY IdleIsSound DEF Init
<1>4. rows \in Seq(Identity) /\ KeysAreUnique(rows) /\ Len(rows) = 0
  BY DEF Init, KeysAreUnique
<1>5. TypeOK
  BY <1>1, <1>2, <1>3, <1>4, SizesAssumption DEF Init, TypeOK, Listed
<1>6. MappingsAreOwn /\ NamesAreHeld
  BY DEF Init, MappingsAreOwn, NamesAreHeld, Listed
<1>7. JobsAreOwn /\ SyncsHaveIds
  BY IdleIsSound DEF Init, JobsAreOwn, SyncsHaveIds, Writers
<1> QED
  BY <1>5, <1>6, <1>7 DEF Inductive

(* One writer moves on, to a sound state; the table does not shrink.         *)
LEMMA OneWriterMoves ==
  ASSUME TypeOK, JobsAreOwn, SyncsHaveIds, UNCHANGED held,
         NEW w \in Writers, job' \in [Writers -> Job], \A v \in Writers : v # w => job'[v] = job[v],
         HoldsOwn(job'[w]), w \in Syncs => HasIds(job'[w]),
         Len(rows') \in Nat, Len(rows') >= Len(rows),
         job'[w].byId \in 0..Len(rows'), job'[w].byName \in 0..Len(rows')
  PROVE  JobsAreSound'
<1>1. Len(rows) \in Nat
  BY DEF TypeOK
<1>2. \A v \in Writers : job'[v].byId \in 0..Len(rows') /\ job'[v].byName \in 0..Len(rows')
  BY <1>1 DEF TypeOK
<1>3. JobsAreOwn'
  BY DEF JobsAreOwn, HoldsOwn, Own
<1>4. SyncsHaveIds'
  BY DEF SyncsHaveIds, HasIds, Writers
<1> QED
  BY <1>2, <1>3, <1>4 DEF JobsAreSound

(* With the table untouched, that is all. *)
LEMMA TableKept ==
  ASSUME Inductive, UNCHANGED <<world, rows>>, JobsAreSound',
         calm' \in [Syncs -> BOOLEAN], remembered' \in 0..MaxRemembered
  PROVE  Inductive'
BY DEF Inductive, JobsAreSound, TypeOK, MappingsAreOwn, NamesAreHeld, world

-----------------------------------------------------------------------------
LEMMA ChangeInductive ==
  ASSUME Inductive, NEW p \in People, NEW state \in States, NEW name \in Names \cup {NoName},
         Change(p, state, name)
  PROVE  Inductive'
<1> USE DEF Inductive
<1>1. gitlab' = [gitlab EXCEPT ![p] = [state |-> state, name |-> name]]
  BY DEF Change
<1>2. gitlab' \in [People -> [state : States, name : Names \cup {NoName}]]
  BY <1>1 DEF TypeOK
<1>3. \A q, r \in Listed(gitlab') : gitlab'[q].name = gitlab'[r].name => q = r
  BY <1>1 DEF Change, TypeOK, Listed
<1>4. /\ held' \in [People -> SUBSET Names] /\ name \in held'[p] \cup {NoName}
      /\ \A q \in People : held[q] \subseteq held'[q]
  BY SizesAssumption DEF Change, TypeOK
<1>5. TypeOK'
  <2>1. changed' \in 0..MaxChanges /\ calm' \in [Syncs -> BOOLEAN]
    BY SizesAssumption DEF Change, TypeOK
  <2> QED
    BY <1>2, <1>3, <1>4, <2>1 DEF Change, TypeOK
<1>6. MappingsAreOwn'
  <2>1. rows \in Seq(Identity)
    BY DEF TypeOK
  <2>2. \A i \in DOMAIN rows : rows[i] \in Identity
    BY <2>1
  <2>3. \A i \in DOMAIN rows : rows[i].email \in People
    BY <2>2 DEF Identity
  <2> QED
    BY <1>4, <2>3 DEF Change, MappingsAreOwn
<1>7. NamesAreHeld'
  <2> SUFFICES ASSUME NEW q \in Listed(gitlab') PROVE gitlab'[q].name \in held'[q]
    BY DEF NamesAreHeld
  <2>1. CASE q = p
    BY <1>1, <1>4, <2>1 DEF Change, TypeOK, Listed
  <2>2. CASE q # p
    BY <1>1, <1>4, <2>2 DEF Change, TypeOK, Listed, NamesAreHeld
  <2> QED
    BY <2>1, <2>2
<1>8. JobsAreOwn' /\ SyncsHaveIds'
  <2>1. \A c : Own(c) => Own(c)'
    BY <1>4 DEF Own, Identity
  <2> QED
    BY <2>1 DEF Change, JobsAreOwn, SyncsHaveIds, HoldsOwn
<1> QED
  BY <1>5, <1>6, <1>7, <1>8

LEMMA ListInductive ==
  ASSUME Inductive, NEW s \in Syncs, List(s)
  PROVE  Inductive'
<1> USE DEF Inductive
<1>1. \A c \in Candidates : Own(c) /\ c.pid \in People
  <2> SUFFICES ASSUME NEW p \in Listed(gitlab)
               PROVE  LET c == [pid |-> p, name |-> gitlab[p].name, email |-> p, enabled |-> Wanted(p)]
                      IN  Own(c) /\ c.pid \in People
    BY DEF Candidates
  <2>1. p \in People /\ gitlab[p].name \in Names /\ gitlab[p].name \in held[p]
    BY DEF TypeOK, NamesAreHeld, Listed
  <2>2. Wanted(p) \in BOOLEAN
    BY DEF Wanted
  <2> QED
    BY <2>1, <2>2 DEF Own, Identity
<1> DEFINE j == [job[s] EXCEPT !.step = "next", !.todo = Candidates]
<1>2. /\ job[s] \in Job /\ s \in Writers /\ Len(rows) \in Nat
      /\ job[s].byId \in 0..Len(rows) /\ job[s].byName \in 0..Len(rows)
  BY DEF TypeOK, Writers
<1>3. Candidates \subseteq Identity
  BY <1>1 DEF Own
<1>4. /\ j \in Job /\ HoldsOwn(j) /\ HasIds(j)
      /\ j.byId = job[s].byId /\ j.byName = job[s].byName
  BY <1>1, <1>2, <1>3 DEF Job, HoldsOwn, HasIds, Upserting
<1>5. job' = [job EXCEPT ![s] = j] /\ UNCHANGED <<rows, held>>
  BY DEF List, world
<1> HIDE DEF j
<1>6. JobsAreSound'
  <2>1. /\ job' \in [Writers -> Job] /\ job'[s] = j
        /\ \A v \in Writers : v # s => job'[v] = job[v]
    BY <1>2, <1>4, <1>5 DEF TypeOK
  <2> QED
    BY <1>2, <1>4, <1>5, <2>1, OneWriterMoves
<1> QED
  BY <1>6, TableKept DEF List, TypeOK

LEMMA TakeInductive ==
  ASSUME Inductive, NEW s \in Syncs, NEW c \in job[s].todo, Take(s, c)
  PROVE  Inductive'
<1> USE DEF Inductive
<1> DEFINE j == [job[s] EXCEPT !.step = "byId", !.who = c, !.todo = job[s].todo \ {c}]
<1>1. /\ job[s] \in Job /\ s \in Writers /\ Len(rows) \in Nat
      /\ job[s].byId \in 0..Len(rows) /\ job[s].byName \in 0..Len(rows)
  BY DEF TypeOK, Writers
<1>2. /\ \A d \in job[s].todo : Own(d) /\ d.pid \in People
      /\ c \in Identity
  BY <1>1 DEF JobsAreOwn, SyncsHaveIds, HoldsOwn, HasIds, Own
<1>3. /\ j \in Job /\ HoldsOwn(j) /\ HasIds(j)
      /\ j.byId = job[s].byId /\ j.byName = job[s].byName
  BY <1>1, <1>2 DEF Job, HoldsOwn, HasIds, Upserting
<1>4. job' = [job EXCEPT ![s] = j] /\ UNCHANGED <<rows, held>>
  BY DEF Take, world
<1> HIDE DEF j
<1>5. JobsAreSound'
  <2>1. /\ job' \in [Writers -> Job] /\ job'[s] = j
        /\ \A v \in Writers : v # s => job'[v] = job[v]
    BY <1>1, <1>3, <1>4 DEF TypeOK
  <2> QED
    BY <1>1, <1>3, <1>4, <2>1, OneWriterMoves
<1> QED
  BY <1>5, TableKept DEF Take, TypeOK

LEMMA RememberInductive ==
  ASSUME Inductive, NEW h \in Handlers, NEW p \in People, NEW name \in Names,
         NEW pid \in People \cup {NoId}, Remember(h, p, name, pid)
  PROVE  Inductive'
<1> USE DEF Inductive
<1> DEFINE c == [pid |-> pid, name |-> name, email |-> p, enabled |-> TRUE]
           j == [job[h] EXCEPT !.step = "byId", !.who = c]
<1>1. Own(c) /\ c \in Identity
  BY DEF Own, Identity, Remember
<1>2. job' = [job EXCEPT ![h] = j] /\ UNCHANGED <<rows, held>>
  BY DEF Remember, world
<1> HIDE DEF c
<1>3. /\ job[h] \in Job /\ h \in Writers /\ h \notin Syncs /\ Len(rows) \in Nat
      /\ job[h].byId \in 0..Len(rows) /\ job[h].byName \in 0..Len(rows)
  BY SizesAssumption DEF TypeOK, Writers
<1>4. /\ j \in Job /\ HoldsOwn(j)
      /\ j.byId = job[h].byId /\ j.byName = job[h].byName
  BY <1>1, <1>3 DEF Job, HoldsOwn, Upserting, JobsAreOwn
<1> HIDE DEF j
<1>5. JobsAreSound'
  <2>1. /\ job' \in [Writers -> Job] /\ job'[h] = j
        /\ \A v \in Writers : v # h => job'[v] = job[v]
    BY <1>2, <1>3, <1>4 DEF TypeOK
  <2> QED
    BY <1>2, <1>3, <1>4, <2>1, OneWriterMoves
<1> QED
  BY <1>5, TableKept, SizesAssumption DEF Remember, TypeOK

-----------------------------------------------------------------------------
(* A SELECT returns a row id of the table or 0. *)
LEMMA RowOfIsRow ==
  ASSUME NEW S \in SUBSET DOMAIN rows, rows \in Seq(Identity)
  PROVE  RowOf(S) \in 0..Len(rows)
BY DEF RowOf

LEMMA SelectByIdInductive ==
  ASSUME Inductive, NEW w \in Writers, SelectById(w)
  PROVE  Inductive'
<1> USE DEF Inductive
<1> DEFINE n == RowOf({i \in DOMAIN rows : rows[i].pid # NoId /\ rows[i].pid = job[w].who.pid})
           j == [job[w] EXCEPT !.step = "byName", !.byId = n]
<1>1. n \in 0..Len(rows) /\ n \in Nat
  BY RowOfIsRow DEF TypeOK
<1>2. job' = [job EXCEPT ![w] = j] /\ UNCHANGED <<rows, held>>
  BY DEF SelectById, world
<1> HIDE DEF n
<1>3. /\ job[w] \in Job /\ Len(rows) \in Nat /\ Upserting(job[w])
      /\ job[w].byId \in 0..Len(rows) /\ job[w].byName \in 0..Len(rows)
  BY DEF TypeOK, SelectById, Upserting
<1>4. /\ j \in Job /\ j.byId = n /\ j.byName = job[w].byName
      /\ j.who = job[w].who /\ j.todo = job[w].todo
  BY <1>1, <1>3 DEF Job
<1>5. HoldsOwn(j) /\ (w \in Syncs => HasIds(j))
  BY <1>3, <1>4 DEF HoldsOwn, HasIds, JobsAreOwn, SyncsHaveIds
<1> HIDE DEF j
<1>6. JobsAreSound'
  <2>1. /\ job' \in [Writers -> Job] /\ job'[w] = j
        /\ \A v \in Writers : v # w => job'[v] = job[v]
    BY <1>2, <1>4 DEF TypeOK
  <2> QED
    BY <1>1, <1>2, <1>3, <1>4, <1>5, <2>1, OneWriterMoves
<1> QED
  BY <1>6, TableKept DEF SelectById, TypeOK

LEMMA SelectByNameInductive ==
  ASSUME Inductive, NEW w \in Writers, SelectByName(w)
  PROVE  Inductive'
<1> USE DEF Inductive
<1> DEFINE n == RowOf({k \in DOMAIN rows : rows[k].name = job[w].who.name})
           o == IF n = 0 THEN NoId ELSE rows[n].pid
           j == [job[w] EXCEPT !.step = "write", !.byName = n, !.owner = o]
<1>1. n \in 0..Len(rows) /\ n \in Nat
  BY RowOfIsRow DEF TypeOK
<1>2. o \in People \cup {NoId}
  <2> HIDE DEF n
  <2>1. \A i \in DOMAIN rows : rows[i] \in Identity
    BY DEF TypeOK
  <2> QED
    BY <1>1, <2>1 DEF TypeOK, Identity
<1>3. job' = [job EXCEPT ![w] = j] /\ UNCHANGED <<rows, held>>
  BY DEF SelectByName, world
<1> HIDE DEF n, o
<1>4. /\ job[w] \in Job /\ Len(rows) \in Nat /\ Upserting(job[w])
      /\ job[w].byId \in 0..Len(rows) /\ job[w].byName \in 0..Len(rows)
  BY DEF TypeOK, SelectByName, Upserting
<1>5. /\ j \in Job /\ j.byId = job[w].byId /\ j.byName = n
      /\ j.who = job[w].who /\ j.todo = job[w].todo
  BY <1>1, <1>2, <1>4 DEF Job
<1>6. HoldsOwn(j) /\ (w \in Syncs => HasIds(j))
  BY <1>4, <1>5 DEF HoldsOwn, HasIds, JobsAreOwn, SyncsHaveIds
<1> HIDE DEF j
<1>7. JobsAreSound'
  <2>1. /\ job' \in [Writers -> Job] /\ job'[w] = j
        /\ \A v \in Writers : v # w => job'[v] = job[v]
    BY <1>3, <1>5 DEF TypeOK
  <2> QED
    BY <1>1, <1>3, <1>4, <1>5, <1>6, <2>1, OneWriterMoves
<1> QED
  BY <1>7, TableKept DEF SelectByName, TypeOK

-----------------------------------------------------------------------------
(* Returning from an Upsert leaves the writer sound. *)
LEMMA ReturnIsSound ==
  ASSUME Inductive, NEW w \in Writers, Upserting(job[w]), NEW b \in BOOLEAN, Return(w, b),
         UNCHANGED held, Len(rows') \in Nat, Len(rows') >= Len(rows)
  PROVE  JobsAreSound'
<1> USE DEF Inductive
<1>1. CASE w \in Handlers
  <2>1. job' = [job EXCEPT ![w] = Idle]
    BY <1>1 DEF Return
  <2>2. /\ job' \in [Writers -> Job] /\ job'[w] = Idle
        /\ \A v \in Writers : v # w => job'[v] = job[v]
    BY <2>1, IdleIsSound DEF TypeOK
  <2> QED
    BY <2>2, IdleIsSound, OneWriterMoves
<1>2. CASE w \notin Handlers
  <2> DEFINE ok == job[w].ok \cup {p \in {job[w].who.pid} : b /\ job[w].who.enabled}
             failed == job[w].failed \/ ~b
             j == [Idle EXCEPT !.step = "next", !.todo = job[w].todo, !.ok = ok, !.failed = failed]
  <2>1. job[w] \in Job /\ w \in Syncs /\ HoldsOwn(job[w]) /\ HasIds(job[w])
    BY <1>2 DEF TypeOK, Writers, JobsAreOwn, SyncsHaveIds
  <2>2. job' = [job EXCEPT ![w] = j]
    BY <1>2 DEF Return
  <2>3. ok \subseteq People
    BY <2>1 DEF Job, HasIds
  <2>4. failed \in BOOLEAN
    OBVIOUS
  <2> HIDE DEF ok, failed
  <2>5. j \in Job /\ j.step = "next" /\ j.todo = job[w].todo /\ j.byId = 0 /\ j.byName = 0
    BY <2>1, <2>3, <2>4, IdleIsSound DEF Job
  <2> HIDE DEF j
  <2>6. HoldsOwn(j) /\ HasIds(j)
    BY <2>1, <2>5 DEF HoldsOwn, HasIds, Upserting
  <2>7. /\ job' \in [Writers -> Job] /\ job'[w] = j
        /\ \A v \in Writers : v # w => job'[v] = job[v]
    BY <2>2, <2>5 DEF TypeOK
  <2> QED
    BY <2>5, <2>6, <2>7, OneWriterMoves
<1> QED
  BY <1>1, <1>2

LEMMA WriteInductive ==
  ASSUME Inductive, NEW w \in Writers, Write(w)
  PROVE  Inductive'
<1> USE DEF Inductive
<1>1. Own(job[w].who) /\ job[w].who \in Identity /\ Upserting(job[w])
  BY DEF Write, JobsAreOwn, HoldsOwn, Upserting, Own
<1>2. /\ rows' \in Seq(Identity) /\ Len(rows') >= Len(rows) /\ KeysAreUnique(rows')
      /\ \A i \in DOMAIN rows' : Own(rows'[i])
  <2>1. rows \in Seq(Identity) /\ \A k \in DOMAIN rows : Own(rows[k])
    BY DEF TypeOK, MappingsAreOwn, Own
  <2>2. CASE UNCHANGED rows
    BY <2>1, <2>2 DEF TypeOK
  <2>3. CASE rows' = Written(job[w]) /\ Fits(Written(job[w]))
    <3> DEFINE i == IF job[w].byId # 0 THEN job[w].byId ELSE job[w].byName
    <3>1. i \in 0..Len(rows)
      BY DEF TypeOK
    <3>2. rows' = IF i = 0 THEN Append(rows, job[w].who) ELSE [rows EXCEPT ![i] = job[w].who]
      BY <2>3 DEF Written
    <3>3. KeysAreUnique(rows')
      BY <2>3 DEF Fits
    <3> DEFINE c == job[w].who
    <3> HIDE DEF i, c
    <3>4. c \in Identity /\ Own(c)
      BY <1>1 DEF c
    <3>5. rows' = IF i = 0 THEN Append(rows, c) ELSE [rows EXCEPT ![i] = c]
      BY <3>2 DEF c
    <3>6. CASE i = 0
      BY <2>1, <3>3, <3>4, <3>5, <3>6
    <3>7. CASE i # 0
      BY <2>1, <3>1, <3>3, <3>4, <3>5, <3>7
    <3> QED
      BY <3>6, <3>7
  <2> QED
    BY <2>2, <2>3 DEF Write
<1>3. Len(rows') \in Nat /\ UNCHANGED held
  BY <1>2 DEF Write, world
<1>4. JobsAreSound'
  BY <1>1, <1>2, <1>3, ReturnIsSound DEF Write
<1>5. TypeOK'
  BY <1>2, <1>4 DEF Write, TypeOK, world, JobsAreSound
<1>6. MappingsAreOwn' /\ NamesAreHeld'
  BY <1>2 DEF Write, MappingsAreOwn, NamesAreHeld, world, Own
<1> QED
  BY <1>4, <1>5, <1>6 DEF JobsAreSound

LEMMA FailInductive ==
  ASSUME Inductive, NEW w \in Writers, Fail(w)
  PROVE  Inductive'
<1>1. Upserting(job[w]) /\ Return(w, FALSE) /\ UNCHANGED held
  BY DEF Fail, Upserting, world
<1>2. Len(rows') \in Nat /\ Len(rows') >= Len(rows)
  BY DEF Fail, Inductive, TypeOK
<1>3. JobsAreSound'
  BY <1>1, <1>2, ReturnIsSound
<1> QED
  BY <1>3, TableKept DEF Fail, Inductive, TypeOK

LEMMA DisableInductive ==
  ASSUME Inductive, NEW s \in Syncs, Disable(s)
  PROVE  Inductive'
<1> USE DEF Inductive
<1>1. /\ rows' \in Seq(Identity) /\ Len(rows') = Len(rows) /\ DOMAIN rows' = DOMAIN rows
      /\ \A i \in DOMAIN rows : /\ rows'[i].pid = rows[i].pid /\ rows'[i].name = rows[i].name
                                /\ rows'[i].email = rows[i].email
  <2> DEFINE f(i) == [rows[i] EXCEPT !.enabled = @ /\ rows[i].pid \in job[s].ok]
  <2>1. \A i \in 1..Len(rows) : rows[i] \in Identity
    BY DEF TypeOK
  <2>2. \A i \in 1..Len(rows) : /\ f(i) \in Identity
                                /\ f(i).pid = rows[i].pid /\ f(i).name = rows[i].name
                                /\ f(i).email = rows[i].email
    BY <2>1 DEF Identity
  <2>3. rows' = [i \in 1..Len(rows) |-> f(i)] /\ DOMAIN rows = 1..Len(rows) /\ Len(rows) \in Nat
    BY DEF Disable, Disabled, TypeOK
  <2> HIDE DEF f
  <2>4. rows' \in Seq(Identity) /\ Len(rows') = Len(rows)
    BY <2>2, <2>3
  <2> QED
    BY <2>2, <2>3, <2>4
<1>2. JobsAreSound'
  <2>1. /\ job' = [job EXCEPT ![s] = Idle] /\ s \in Writers /\ UNCHANGED held
        /\ Len(rows') \in Nat /\ Len(rows) \in Nat
    BY <1>1 DEF Disable, world, Writers, TypeOK
  <2>2. /\ job' \in [Writers -> Job] /\ job'[s] = Idle
        /\ \A v \in Writers : v # s => job'[v] = job[v]
    BY <2>1, IdleIsSound DEF TypeOK
  <2> QED
    BY <1>1, <2>1, <2>2, IdleIsSound, OneWriterMoves
<1>3. TypeOK'
  <2>1. KeysAreUnique(rows')
    BY <1>1 DEF TypeOK, KeysAreUnique
  <2>2. calm' \in [Syncs -> BOOLEAN]
    BY DEF Disable
  <2> QED
    BY <1>1, <1>2, <2>1, <2>2 DEF Disable, TypeOK, world, JobsAreSound
<1>4. MappingsAreOwn' /\ NamesAreHeld'
  BY <1>1 DEF Disable, MappingsAreOwn, NamesAreHeld, world
<1> QED
  BY <1>2, <1>3, <1>4 DEF JobsAreSound

LEMMA StopInductive ==
  ASSUME Inductive, NEW s \in Syncs, Stop(s)
  PROVE  Inductive'
<1>1. /\ job' = [job EXCEPT ![s] = Idle] /\ s \in Writers /\ UNCHANGED <<rows, held>>
      /\ Len(rows) \in Nat
  BY DEF Stop, world, Writers, Inductive, TypeOK
<1>2. /\ job' \in [Writers -> Job] /\ job'[s] = Idle
      /\ \A v \in Writers : v # s => job'[v] = job[v]
  BY <1>1, IdleIsSound DEF Inductive, TypeOK
<1>3. JobsAreSound'
  BY <1>1, <1>2, IdleIsSound, OneWriterMoves DEF Inductive
<1> QED
  BY <1>3, TableKept DEF Stop, Inductive, TypeOK

-----------------------------------------------------------------------------
LEMMA NextInductive == Inductive /\ [Next]_vars => Inductive'
<1> SUFFICES ASSUME Inductive, [Next]_vars PROVE Inductive'
  OBVIOUS
<1>1. CASE UNCHANGED vars
  BY <1>1 DEF vars, Inductive, TypeOK, MappingsAreOwn, NamesAreHeld, JobsAreOwn, SyncsHaveIds,
              HoldsOwn, Own
<1>2. CASE Next
  BY <1>2, ChangeInductive, ListInductive, TakeInductive, RememberInductive, SelectByIdInductive,
     SelectByNameInductive, WriteInductive, FailInductive, DisableInductive, StopInductive DEF Next
<1> QED
  BY <1>1, <1>2

LEMMA Invariance == Spec => []Inductive
BY InitInductive, NextInductive, PTL DEF Spec

(* Types of the table and its writers; the unique indexes hold. *)
THEOREM TypeCorrect == Spec => []TypeOK
<1>1. Inductive => TypeOK
  BY DEF Inductive
<1> QED
  BY <1>1, Invariance, PTL

(* However many syncs and handlers interleave their SELECTs and writes, no   *)
(* row maps an ID, or a name, to the address of somebody it never belonged   *)
(* to.                                                                       *)
THEOREM RowsMapToTheirOwner == Spec => []MappingsAreOwn
<1>1. Inductive => MappingsAreOwn
  BY DEF Inductive
<1> QED
  BY <1>1, Invariance, PTL

-----------------------------------------------------------------------------
(* A sync that nobody disturbs knows the table: what its SELECTs returned    *)
(* stays true until it writes, whoever it has enabled has the row it wrote,  *)
(* and whoever it should enable and did not is still to come or has a reason *)
(* to be missing that no later write of it takes away.                       *)

Mapping(p) == [pid |-> p, name |-> gitlab[p].name, email |-> p, enabled |-> Wanted(p)]

WithId(c) == {i \in DOMAIN rows : rows[i].pid # NoId /\ rows[i].pid = c.pid}
WithName(c) == {i \in DOMAIN rows : rows[i].name = c.name}

Excused(p) ==
    \/ \E q \in People \ {p} : gitlab[p].name \in held[q]
    \/ \E i \in DOMAIN rows : /\ rows[i].email = p /\ rows[i].pid = NoId
                              /\ rows[i].name = gitlab[p].name

Selected(j) ==
    /\ j.step \in {"byName", "write"} => j.byId = RowOf(WithId(j.who))
    /\ j.step = "write" => /\ j.byName = RowOf(WithName(j.who))
                           /\ j.owner = IF j.byName = 0 THEN NoId ELSE rows[j.byName].pid

Enables(j) == \A p \in j.ok : Wanted(p) /\ \E i \in DOMAIN rows : rows[i] = Mapping(p)

Accounted(j, p) ==
    \/ Mapping(p) \in j.todo
    \/ Upserting(j) /\ j.who = Mapping(p)
    \/ p \in j.ok
    \/ j.failed /\ Excused(p)

Undisturbed(j) ==
    /\ j.todo \subseteq Candidates
    /\ Upserting(j) => j.who \in Candidates
    /\ Selected(j)
    /\ Enables(j)
    /\ \A p \in People : Wanted(p) => Accounted(j, p)

CalmSyncsAreAccurate == \A s \in Syncs : calm[s] => Undisturbed(job[s])

LEMMA CandidatesAreListed ==
  ASSUME Inductive, NEW c \in Candidates
  PROVE  /\ c \in Identity /\ c.pid \in Listed(gitlab) /\ c.pid \in People /\ c.pid # NoId
         /\ c = Mapping(c.pid)
         /\ c.name \in held[c.pid] /\ c.name = gitlab[c.pid].name
         /\ c.enabled = Wanted(c.pid)
<1>1. PICK p \in Listed(gitlab) : c = Mapping(p)
  BY DEF Candidates, Mapping
<1>2. p \in People /\ gitlab[p].name \in Names /\ gitlab[p].name \in held[p]
  BY DEF Inductive, TypeOK, NamesAreHeld, Listed
<1>3. Wanted(p) \in BOOLEAN /\ NoId \notin People
  BY SizesAssumption DEF Wanted, People, NoId
<1> QED
  BY <1>1, <1>2, <1>3 DEF Mapping, Identity

LEMMA WantedAreListed ==
  ASSUME NEW p \in People, Wanted(p)
  PROVE  p \in Listed(gitlab) /\ Mapping(p) \in Candidates
<1>1. p \in Listed(gitlab)
  BY DEF Wanted, Listed
<1> QED
  BY <1>1 DEF Candidates, Mapping

LEMMA NamesAreListedOnce ==
  ASSUME TypeOK, NEW p \in Listed(gitlab), NEW q \in Listed(gitlab), gitlab[p].name = gitlab[q].name
  PROVE  p = q
BY DEF TypeOK

(* Accuracy is about the table and GitLab alone. *)
LEMMA SameTable ==
  ASSUME NEW s \in Syncs, UNCHANGED <<gitlab, held, rows>>, Undisturbed(job'[s])
  PROVE  Undisturbed(job[s])'
<1>1. /\ Candidates' = Candidates
      /\ \A p : Mapping(p)' = Mapping(p) /\ Wanted(p)' = Wanted(p)
  BY DEF Candidates, Mapping, Wanted, Listed
<1>2. \A p : Excused(p)' = Excused(p)
  BY DEF Excused
<1>3. Selected(job[s])'
  BY DEF Undisturbed, Selected, WithId, WithName
<1>4. Enables(job[s])'
  BY <1>1 DEF Undisturbed, Enables
<1>5. \A p \in People : Wanted(p)' => Accounted(job[s], p)'
  BY <1>1, <1>2 DEF Undisturbed, Accounted, Upserting
<1> QED
  BY <1>1, <1>3, <1>4, <1>5 DEF Undisturbed, Upserting

(* Whom an action leaves alone stays accurate, if the table does too. *)
LEMMA OthersStayAccurate ==
  ASSUME CalmSyncsAreAccurate, UNCHANGED <<gitlab, held, rows>>, NEW w,
         \A s \in Syncs \ {w} : calm'[s] => calm[s] /\ job'[s] = job[s],
         w \in Syncs /\ calm'[w] => Undisturbed(job[w])'
  PROVE  CalmSyncsAreAccurate'
<1> SUFFICES ASSUME NEW s \in Syncs, calm'[s], s # w
             PROVE  Undisturbed(job[s])'
  BY DEF CalmSyncsAreAccurate
<1>1. Undisturbed(job[s]) /\ job'[s] = job[s]
  BY DEF CalmSyncsAreAccurate
<1> QED
  BY <1>1, SameTable

LEMMA NobodyIsCalm ==
  ASSUME calm' = [s \in Syncs |-> FALSE]
  PROVE  CalmSyncsAreAccurate'
BY DEF CalmSyncsAreAccurate

LEMMA ListAccurate ==
  ASSUME Inductive, CalmSyncsAreAccurate, NEW s \in Syncs, List(s)
  PROVE  CalmSyncsAreAccurate'
<1>1. UNCHANGED <<gitlab, held, rows>> /\ job[s] = Idle
  BY DEF List, world
<1> DEFINE j == [Idle EXCEPT !.step = "next", !.todo = Candidates]
<1>2. /\ job'[s] = j
      /\ \A t \in Syncs \ {s} : calm'[t] => calm[t] /\ job'[t] = job[t]
  BY <1>1 DEF List, Inductive, TypeOK, Writers
<1>3. j.step = "next" /\ j.todo = Candidates /\ j.ok = {}
  BY DEF Idle
<1> HIDE DEF j
<1>4. Undisturbed(j)
  <2>1. ~Upserting(j) /\ Selected(j) /\ Enables(j)
    BY <1>3 DEF Upserting, Selected, Enables
  <2>2. \A p \in People : Wanted(p) => Accounted(j, p)
    BY <1>3, WantedAreListed DEF Accounted
  <2> QED
    BY <1>3, <2>1, <2>2 DEF Undisturbed
<1>5. Undisturbed(job[s])'
  BY <1>1, <1>2, <1>4, SameTable
<1> QED
  BY <1>1, <1>2, <1>5, OthersStayAccurate

LEMMA TakeAccurate ==
  ASSUME Inductive, CalmSyncsAreAccurate, NEW s \in Syncs, NEW c \in job[s].todo, Take(s, c)
  PROVE  CalmSyncsAreAccurate'
<1>1. UNCHANGED <<gitlab, held, rows, calm>> /\ job[s].step = "next"
  BY DEF Take, world
<1> DEFINE j == [job[s] EXCEPT !.step = "byId", !.who = c, !.todo = job[s].todo \ {c}]
<1>2. /\ job'[s] = j
      /\ \A t \in Syncs \ {s} : job'[t] = job[t]
      /\ job[s] \in Job
  BY DEF Take, Inductive, TypeOK, Writers
<1>3. /\ j.step = "byId" /\ j.who = c /\ j.todo = job[s].todo \ {c}
      /\ j.ok = job[s].ok /\ j.failed = job[s].failed
  BY <1>2 DEF Job
<1> HIDE DEF j
<1>4. ASSUME calm[s] PROVE Undisturbed(j)
  <2>1. Undisturbed(job[s]) /\ ~Upserting(job[s])
    BY <1>1, <1>4 DEF CalmSyncsAreAccurate, Upserting
  <2>2. Selected(j) /\ Enables(j)
    BY <1>3, <2>1 DEF Undisturbed, Selected, Enables
  <2>3. \A p \in People : Wanted(p) => Accounted(j, p)
    BY <1>3, <2>1 DEF Undisturbed, Accounted, Upserting
  <2> QED
    BY <1>3, <2>1, <2>2, <2>3 DEF Undisturbed
<1>5. calm'[s] => Undisturbed(job[s])'
  BY <1>1, <1>2, <1>4, SameTable
<1> QED
  BY <1>1, <1>2, <1>5, OthersStayAccurate

LEMMA SelectByIdAccurate ==
  ASSUME Inductive, CalmSyncsAreAccurate, NEW w \in Writers, SelectById(w)
  PROVE  CalmSyncsAreAccurate'
<1>1. UNCHANGED <<gitlab, held, rows, calm>> /\ job[w].step = "byId"
  BY DEF SelectById, world
<1> DEFINE n == RowOf(WithId(job[w].who))
           j == [job[w] EXCEPT !.step = "byName", !.byId = n]
<1>2. job' = [job EXCEPT ![w] = j]
  BY DEF SelectById, WithId
<1>3. /\ job'[w] = j
      /\ \A t \in Syncs \ {w} : job'[t] = job[t]
      /\ job[w] \in Job
  BY <1>2 DEF Inductive, TypeOK, Writers
<1>4. /\ j.step = "byName" /\ j.byId = n /\ j.who = job[w].who /\ j.todo = job[w].todo
      /\ j.ok = job[w].ok /\ j.failed = job[w].failed
  BY <1>3 DEF Job
<1> HIDE DEF j
<1>5. ASSUME w \in Syncs, calm[w] PROVE Undisturbed(j)
  <2>1. Undisturbed(job[w])
    BY <1>5 DEF CalmSyncsAreAccurate
  <2>2. Selected(j) /\ Enables(j)
    BY <1>4, <2>1 DEF Undisturbed, Selected, Enables
  <2>3. Upserting(j) /\ Upserting(job[w])
    BY <1>1, <1>4 DEF Upserting
  <2> QED
    BY <1>4, <2>1, <2>2, <2>3 DEF Undisturbed, Accounted
<1>6. w \in Syncs /\ calm'[w] => Undisturbed(job[w])'
  BY <1>1, <1>3, <1>5, SameTable
<1> QED
  BY <1>1, <1>3, <1>6, OthersStayAccurate

LEMMA SelectByNameAccurate ==
  ASSUME Inductive, CalmSyncsAreAccurate, NEW w \in Writers, SelectByName(w)
  PROVE  CalmSyncsAreAccurate'
<1>1. UNCHANGED <<gitlab, held, rows, calm>> /\ job[w].step = "byName"
  BY DEF SelectByName, world
<1> DEFINE n == RowOf(WithName(job[w].who))
           o == IF n = 0 THEN NoId ELSE rows[n].pid
           j == [job[w] EXCEPT !.step = "write", !.byName = n, !.owner = o]
<1>2. job' = [job EXCEPT ![w] = j]
  BY DEF SelectByName, WithName
<1> HIDE DEF n
<1>3. /\ job'[w] = j
      /\ \A t \in Syncs \ {w} : job'[t] = job[t]
      /\ job[w] \in Job
  BY <1>2 DEF Inductive, TypeOK, Writers
<1>4. /\ j.step = "write" /\ j.byName = n /\ j.owner = o /\ j.who = job[w].who
      /\ j.byId = job[w].byId /\ j.todo = job[w].todo
      /\ j.ok = job[w].ok /\ j.failed = job[w].failed
  BY <1>3 DEF Job
<1> HIDE DEF j
<1>5. ASSUME w \in Syncs, calm[w] PROVE Undisturbed(j)
  <2>1. Undisturbed(job[w])
    BY <1>5 DEF CalmSyncsAreAccurate
  <2>2. Selected(j) /\ Enables(j)
    BY <1>1, <1>4, <2>1 DEF Undisturbed, Selected, Enables, n
  <2>3. Upserting(j) /\ Upserting(job[w])
    BY <1>1, <1>4 DEF Upserting
  <2> QED
    BY <1>4, <2>1, <2>2, <2>3 DEF Undisturbed, Accounted
<1>6. w \in Syncs /\ calm'[w] => Undisturbed(job[w])'
  BY <1>1, <1>3, <1>5, SameTable
<1> QED
  BY <1>1, <1>3, <1>6, OthersStayAccurate

LEMMA FailAccurate ==
  ASSUME Inductive, CalmSyncsAreAccurate, NEW w \in Writers, Fail(w)
  PROVE  CalmSyncsAreAccurate'
<1>1. UNCHANGED <<gitlab, held, rows>>
  BY DEF Fail, world
<1>2. \A v \in Writers \ {w} : job'[v] = job[v]
  BY DEF Fail, Return, Inductive, TypeOK
<1>3. \A s \in Syncs : calm'[s] => calm[s] /\ s # w
  BY DEF Fail
<1> QED
  BY <1>1, <1>2, <1>3, OthersStayAccurate DEF Writers

LEMMA StopAccurate ==
  ASSUME Inductive, CalmSyncsAreAccurate, NEW s \in Syncs, Stop(s)
  PROVE  CalmSyncsAreAccurate'
<1>1. UNCHANGED <<gitlab, held, rows>>
  BY DEF Stop, world
<1>2. \A t \in Syncs \ {s} : job'[t] = job[t] /\ calm'[t] = calm[t]
  BY DEF Stop, Inductive, TypeOK, Writers
<1>3. ~calm'[s]
  BY DEF Stop, Inductive, TypeOK
<1> QED
  BY <1>1, <1>2, <1>3, OthersStayAccurate

(* A SELECT finds the row there is. *)
LEMMA RowOfFinds ==
  ASSUME NEW S \in SUBSET DOMAIN rows, rows \in Seq(Identity)
  PROVE  /\ RowOf(S) = 0 => S = {}
         /\ RowOf(S) # 0 => RowOf(S) \in S
<1>1. 0 \notin DOMAIN rows
  OBVIOUS
<1> QED
  BY <1>1 DEF RowOf

(* The row that an upsert replaces: nobody else's ID and nobody else's name. *)
Target(j) == IF j.byId # 0 THEN j.byId ELSE j.byName

(* Where its row is afterwards. *)
Place(j) == IF Target(j) = 0 THEN Len(rows) + 1 ELSE Target(j)

LEMMA TargetIsKnown ==
  ASSUME Inductive, NEW j, j.step = "write", Selected(j)
  PROVE  /\ j.byId = 0 => WithId(j.who) = {}
         /\ j.byId # 0 => j.byId \in WithId(j.who)
         /\ j.byName = 0 => WithName(j.who) = {} /\ j.owner = NoId
         /\ j.byName # 0 => j.byName \in WithName(j.who) /\ j.owner = rows[j.byName].pid
         /\ Target(j) \in DOMAIN rows \cup {0}
         /\ Target(j) # 0 => Target(j) \in WithId(j.who) \cup WithName(j.who)
<1>1. rows \in Seq(Identity)
  BY DEF Inductive, TypeOK
<1>2. WithId(j.who) \subseteq DOMAIN rows /\ WithName(j.who) \subseteq DOMAIN rows
  BY DEF WithId, WithName
<1>3. /\ j.byId = 0 => WithId(j.who) = {}
      /\ j.byId # 0 => j.byId \in WithId(j.who)
  BY <1>1, <1>2, RowOfFinds DEF Selected
<1>4. /\ j.byName = 0 => WithName(j.who) = {} /\ j.owner = NoId
      /\ j.byName # 0 => j.byName \in WithName(j.who) /\ j.owner = rows[j.byName].pid
  BY <1>1, <1>2, RowOfFinds DEF Selected
<1> QED
  BY <1>2, <1>3, <1>4 DEF Target

(* What Written makes of the table. *)
LEMMA WrittenRows ==
  ASSUME Inductive, NEW j, j.who \in Identity, Target(j) \in DOMAIN rows \cup {0}
  PROVE  /\ DOMAIN Written(j) = DOMAIN rows \cup {Place(j)}
         /\ Written(j)[Place(j)] = j.who
         /\ \A k \in DOMAIN rows : k # Place(j) => Written(j)[k] = rows[k]
<1> DEFINE c == j.who
           t == Target(j)
           r == Written(j)
<1>1. rows \in Seq(Identity)
  BY DEF Inductive, TypeOK
<1>2. r = IF t = 0 THEN Append(rows, c) ELSE [rows EXCEPT ![t] = c]
  BY DEF Written, Target
<1>3. t \in DOMAIN rows \cup {0} /\ 0 \notin DOMAIN rows /\ c \in Identity
  BY <1>1
<1> HIDE DEF c, t, r
<1>4. CASE t = 0
  <2>1. r = Append(rows, c) /\ Len(rows) \in Nat /\ DOMAIN rows = 1..Len(rows)
    BY <1>1, <1>2, <1>4
  <2>2. /\ DOMAIN r = DOMAIN rows \cup {Len(rows) + 1} /\ Len(rows) + 1 \notin DOMAIN rows
        /\ r[Len(rows) + 1] = c
        /\ \A k \in DOMAIN rows : r[k] = rows[k]
    BY <1>1, <1>3, <2>1
  <2> QED
    BY <1>4, <2>2 DEF c, t, r, Place
<1>5. CASE t # 0
  <2>1. /\ DOMAIN r = DOMAIN rows /\ r[t] = c
        /\ \A k \in DOMAIN rows : k # t => r[k] = rows[k]
    BY <1>2, <1>3, <1>5
  <2> QED
    BY <1>3, <1>5, <2>1 DEF c, t, r, Place
<1> QED
  BY <1>4, <1>5

(* Nothing but a conflict keeps an undisturbed upsert from its row: the      *)
(* unique indexes admit it.                                                  *)
LEMMA CalmWriteFits ==
  ASSUME Inductive, NEW j, j.step = "write", Selected(j), j.who \in Candidates, ~Conflict(j)
  PROVE  Fits(Written(j))
<1> DEFINE c == j.who
           t == Target(j)
           i == Place(j)
           r == Written(j)
<1>1. c \in Identity /\ c.pid \in People /\ c.pid # NoId
  BY CandidatesAreListed
<1>2. KeysAreUnique(rows)
  BY DEF Inductive, TypeOK
<1>3. /\ DOMAIN r = DOMAIN rows \cup {i}
      /\ r[i] = c
      /\ \A k \in DOMAIN rows : k # i => r[k] = rows[k]
  <2>1. t \in DOMAIN rows \cup {0}
    BY TargetIsKnown
  <2> QED
    BY <1>1, <2>1, WrittenRows
<1>4. \A k \in DOMAIN rows : k # i => rows[k].name # c.name /\ rows[k].pid # c.pid
  <2> SUFFICES ASSUME NEW k \in DOMAIN rows, k # i
               PROVE  rows[k].name # c.name /\ rows[k].pid # c.pid
    OBVIOUS
  <2>1. CASE j.byId # 0
    <3>1. t = j.byId /\ i = t /\ t \in DOMAIN rows /\ rows[t].pid = c.pid
      BY <2>1, TargetIsKnown DEF Target, Place, WithId
    <3>2. rows[k].pid # c.pid
      BY <1>1, <1>2, <3>1 DEF KeysAreUnique
    <3>3. rows[k].name # c.name
      <4> SUFFICES ASSUME rows[k].name = c.name PROVE FALSE
        OBVIOUS
      <4>1. k \in WithName(c)
        BY DEF WithName
      <4>2. j.byName # 0 /\ j.byName \in DOMAIN rows /\ rows[j.byName].name = c.name
        BY <4>1, TargetIsKnown DEF WithName
      <4>3. j.byName = k
        BY <1>2, <4>2 DEF KeysAreUnique
      <4> QED
        BY <2>1, <3>1, <4>2, <4>3 DEF Conflict
    <3> QED
      BY <3>2, <3>3
  <2>2. CASE j.byId = 0
    <3>1. rows[k].pid # c.pid
      BY <1>1, <2>2, TargetIsKnown DEF WithId
    <3>2. CASE j.byName = 0
      BY <3>1, <3>2, TargetIsKnown DEF WithName
    <3>3. CASE j.byName # 0
      <4>1. t = j.byName /\ i = t /\ t \in DOMAIN rows /\ rows[t].name = c.name
        BY <2>2, <3>3, TargetIsKnown DEF Target, Place, WithName
      <4> QED
        BY <1>2, <3>1, <4>1 DEF KeysAreUnique
    <3> QED
      BY <3>2, <3>3
  <2> QED
    BY <2>1, <2>2
<1> HIDE DEF i, r, c
<1>5. KeysAreUnique(r)
  BY <1>2, <1>3, <1>4 DEF KeysAreUnique
<1> QED
  BY <1>5 DEF Fits, r

(* Another person's row, and the row that excuses somebody, are not the      *)
(* target of a write.                                                        *)
LEMMA OtherRowsStay ==
  ASSUME Inductive, NEW j, j.step = "write", Selected(j), j.who \in Candidates,
         rows' = Written(j), NEW k \in DOMAIN rows, rows[k].pid # j.who.pid, rows[k].name # j.who.name
  PROVE  k \in DOMAIN rows' /\ rows'[k] = rows[k]
<1>1. j.who \in Identity
  BY CandidatesAreListed
<1>2. /\ Target(j) \in DOMAIN rows \cup {0}
      /\ Target(j) # 0 => Target(j) \in WithId(j.who) \cup WithName(j.who)
  BY TargetIsKnown
<1>3. k \notin WithId(j.who) \cup WithName(j.who)
  BY DEF WithId, WithName
<1>4. k # 0 /\ k # Len(rows) + 1
  BY DEF Inductive, TypeOK
<1>5. k # Place(j)
  BY <1>2, <1>3, <1>4 DEF Place
<1> QED
  BY <1>1, <1>2, <1>5, WrittenRows

(* An undisturbed upsert fails on the row of another, or on a second one of  *)
(* the same person.                                                          *)
LEMMA ConflictsAreExcused ==
  ASSUME Inductive, NEW j, j.step = "write", Selected(j), j.who \in Candidates, Conflict(j)
  PROVE  Excused(j.who.pid)
<1> DEFINE c == j.who
           k == j.byName
<1>1. /\ c.pid \in People /\ c.pid # NoId /\ c.name = gitlab[c.pid].name
  BY CandidatesAreListed
<1>2. /\ k # 0 /\ k \in DOMAIN rows /\ rows[k].name = c.name /\ j.owner = rows[k].pid
  BY TargetIsKnown DEF Conflict, WithName
<1>3. /\ rows[k] \in Identity /\ rows[k].pid \in {NoId, rows[k].email}
      /\ rows[k].name \in held[rows[k].email] /\ KeysAreUnique(rows)
  BY <1>2 DEF Inductive, TypeOK, MappingsAreOwn
<1>4. CASE rows[k].email # c.pid
  BY <1>1, <1>2, <1>3, <1>4 DEF Excused, Identity
<1>5. CASE rows[k].email = c.pid
  <2>1. rows[k].pid = NoId
    <3> SUFFICES ASSUME rows[k].pid = c.pid PROVE FALSE
      BY <1>3, <1>5
    <3>1. j.byId # 0 /\ j.byId # k
      BY <1>2 DEF Conflict
    <3>2. j.byId \in DOMAIN rows /\ rows[j.byId].pid = c.pid
      BY <3>1, TargetIsKnown DEF WithId
    <3> QED
      BY <1>1, <1>2, <1>3, <3>1, <3>2 DEF KeysAreUnique
  <2> QED
    BY <1>1, <1>2, <1>5, <2>1 DEF Excused
<1> QED
  BY <1>4, <1>5

LEMMA WriteAccurate ==
  ASSUME Inductive, CalmSyncsAreAccurate, NEW w \in Writers, Write(w)
  PROVE  CalmSyncsAreAccurate'
<1> SUFFICES ASSUME NEW s \in Syncs, calm'[s]
             PROVE  Undisturbed(job[s])'
  BY DEF CalmSyncsAreAccurate
<1> DEFINE j == job[s]
           q == j.who.pid
           ok(success) == j.ok \cup {p \in {q} : success /\ j.who.enabled}
           J(success) == [Idle EXCEPT !.step = "next", !.todo = j.todo, !.ok = ok(success),
                                      !.failed = j.failed \/ ~success]
<1>1. /\ s = w /\ calm[s] /\ s \in Writers /\ s \notin Handlers
      /\ UNCHANGED <<gitlab, held>>
  BY SizesAssumption DEF Write, world, Writers
<1>2. /\ j \in Job /\ j.step = "write" /\ Upserting(j) /\ Undisturbed(j)
      /\ j.who \in Candidates /\ Selected(j)
  BY <1>1 DEF Write, Inductive, TypeOK, CalmSyncsAreAccurate, Undisturbed, Upserting
<1>3. /\ j.who \in Identity /\ q \in Listed(gitlab) /\ q \in People /\ q # NoId
      /\ j.who = Mapping(q) /\ j.who.name = gitlab[q].name /\ j.who.enabled = Wanted(q)
  BY <1>2, CandidatesAreListed
<1>4. ASSUME NEW b, Return(s, b)
      PROVE  job'[s] = J(b)
  BY <1>1, <1>4 DEF Return, Inductive, TypeOK
<1>5. ASSUME NEW b \in BOOLEAN
      PROVE  /\ J(b).step = "next" /\ J(b).todo = j.todo /\ J(b).ok = ok(b)
             /\ J(b).failed = (j.failed \/ ~b)
  BY DEF Idle
<1>6. ASSUME NEW p \in Listed(gitlab), p # q
      PROVE  gitlab[p].name # j.who.name
  BY <1>3, <1>6, NamesAreListedOnce DEF Inductive
<1> HIDE DEF J, ok, q
<1>7. CASE ~Conflict(j)
  <2>1. rows' = Written(j) /\ job'[s] = J(TRUE)
    <3>1. Fits(Written(j))
      BY <1>2, <1>7, CalmWriteFits
    <3> QED
      BY <1>1, <1>4, <1>7, <3>1 DEF Write
  <2>2. /\ job'[s].step = "next" /\ job'[s].todo = j.todo /\ job'[s].ok = ok(TRUE)
        /\ job'[s].failed = j.failed
    BY <1>2, <1>5, <2>1 DEF Job
  <2>3. Place(j) \in DOMAIN rows' /\ rows'[Place(j)] = Mapping(q)
    <3>1. Target(j) \in DOMAIN rows \cup {0}
      BY <1>2, TargetIsKnown
    <3> QED
      BY <1>3, <2>1, <3>1, WrittenRows
  <2>4. ASSUME NEW k \in DOMAIN rows, NEW p \in Listed(gitlab), p # q,
               rows[k].pid \in {NoId, p}, rows[k].name = gitlab[p].name
        PROVE  k \in DOMAIN rows' /\ rows'[k] = rows[k]
    <3>1. rows[k].pid # j.who.pid /\ rows[k].name # j.who.name
      BY <1>3, <1>6, <2>4 DEF q
    <3> QED
      BY <1>2, <2>1, <3>1, OtherRowsStay
  <2>5. \A p \in job'[s].ok : Wanted(p) /\ \E i \in DOMAIN rows' : rows'[i] = Mapping(p)
    <3> SUFFICES ASSUME NEW p \in job'[s].ok
                 PROVE  Wanted(p) /\ \E i \in DOMAIN rows' : rows'[i] = Mapping(p)
      OBVIOUS
    <3>1. p \in j.ok \/ (p = q /\ Wanted(q))
      BY <1>3, <2>2 DEF ok
    <3>2. CASE p = q
      <4>1. p \in j.ok => Wanted(p)
        BY <1>2 DEF Undisturbed, Enables
      <4> QED
        BY <2>3, <3>1, <3>2, <4>1
    <3>3. CASE p # q
      <4>1. p \in j.ok /\ p \in People
        BY <1>2, <3>1, <3>3 DEF Job
      <4>2. PICK k \in DOMAIN rows : rows[k] = Mapping(p)
        BY <1>2, <4>1 DEF Undisturbed, Enables
      <4>3. Wanted(p) /\ p \in Listed(gitlab)
        BY <1>2, <4>1, WantedAreListed DEF Undisturbed, Enables
      <4>4. rows[k].pid = p /\ rows[k].name = gitlab[p].name
        BY <4>2 DEF Mapping
      <4> QED
        BY <2>4, <3>3, <4>2, <4>3, <4>4
    <3> QED
      BY <3>2, <3>3
  <2>6. ASSUME NEW p \in People, Wanted(p)
        PROVE  \/ Mapping(p) \in job'[s].todo
               \/ p \in job'[s].ok
               \/ /\ job'[s].failed
                  /\ \/ \E r \in People \ {p} : gitlab[p].name \in held[r]
                     \/ \E i \in DOMAIN rows' : /\ rows'[i].email = p /\ rows'[i].pid = NoId
                                                /\ rows'[i].name = gitlab[p].name
    <3>1. CASE p = q
      BY <1>3, <2>2, <2>6, <3>1 DEF ok
    <3>2. CASE p # q
      <4>1. Accounted(j, p)
        BY <1>2, <2>6 DEF Undisturbed
      <4>2. j.who # Mapping(p)
        BY <3>2 DEF Mapping, q
      <4>3. j.ok \subseteq job'[s].ok
        BY <2>2 DEF ok
      <4>4. ASSUME NEW i \in DOMAIN rows, rows[i].email = p, rows[i].pid = NoId,
                   rows[i].name = gitlab[p].name
            PROVE  i \in DOMAIN rows' /\ rows'[i] = rows[i]
        BY <2>4, <2>6, <3>2, <4>4, WantedAreListed
      <4> QED
        BY <2>2, <4>1, <4>2, <4>3, <4>4 DEF Accounted, Excused
    <3> QED
      BY <3>1, <3>2
  <2>7. job'[s].todo \subseteq Candidates
    BY <1>2, <2>2 DEF Undisturbed
  <2>8. /\ Candidates' = Candidates
        /\ \A p : Mapping(p)' = Mapping(p) /\ Wanted(p)' = Wanted(p)
    BY <1>1 DEF Candidates, Mapping, Wanted, Listed
  <2>9. Selected(job[s])' /\ ~Upserting(job[s])'
    BY <2>2 DEF Selected, Upserting
  <2>10. Enables(job[s])'
    BY <2>5, <2>8 DEF Enables
  <2>11. \A p \in People : Wanted(p)' => Accounted(job[s], p)'
    <3> SUFFICES ASSUME NEW p \in People, Wanted(p) PROVE Accounted(job[s], p)'
      BY <2>8
    <3>1. Excused(p)' <=> \/ \E r \in People \ {p} : gitlab[p].name \in held[r]
                          \/ \E i \in DOMAIN rows' : /\ rows'[i].email = p /\ rows'[i].pid = NoId
                                                     /\ rows'[i].name = gitlab[p].name
      BY <1>1 DEF Excused
    <3> QED
      BY <2>6, <2>8, <3>1 DEF Accounted
  <2> QED
    BY <2>7, <2>8, <2>9, <2>10, <2>11 DEF Undisturbed
<1>8. CASE Conflict(j)
  <2>1. UNCHANGED rows /\ job'[s] = J(FALSE)
    BY <1>1, <1>4, <1>8 DEF Write
  <2>2. /\ job'[s].step = "next" /\ job'[s].todo = j.todo /\ job'[s].ok = j.ok
        /\ job'[s].failed
    BY <1>5, <2>1 DEF ok
  <2>3. Excused(q)
    BY <1>2, <1>8, ConflictsAreExcused DEF q
  <2>4. ~Upserting(job'[s]) /\ Selected(job'[s])
    BY <2>2 DEF Upserting, Selected
  <2>5. Enables(job'[s])
    BY <1>2, <2>2 DEF Undisturbed, Enables
  <2>6. ASSUME NEW p \in People, Wanted(p) PROVE Accounted(job'[s], p)
    <3>1. CASE p = q
      BY <2>2, <2>3, <3>1 DEF Accounted
    <3>2. CASE p # q
      <4>1. Accounted(j, p) /\ j.who # Mapping(p)
        BY <1>2, <2>6, <3>2 DEF Undisturbed, Mapping, q
      <4> QED
        BY <2>2, <4>1 DEF Accounted
    <3> QED
      BY <3>1, <3>2
  <2>7. job'[s].todo \subseteq Candidates
    BY <1>2, <2>2 DEF Undisturbed
  <2> QED
    BY <1>1, <2>1, <2>4, <2>5, <2>6, <2>7, SameTable DEF Undisturbed, Upserting
<1> QED
  BY <1>7, <1>8

LEMMA AlwaysAccurate == Spec => [](Inductive /\ CalmSyncsAreAccurate)
<1>1. Init => CalmSyncsAreAccurate
  BY DEF Init, CalmSyncsAreAccurate
<1>2. Inductive /\ CalmSyncsAreAccurate /\ [Next]_vars => CalmSyncsAreAccurate'
  <2> SUFFICES ASSUME Inductive, CalmSyncsAreAccurate, [Next]_vars
               PROVE  CalmSyncsAreAccurate'
    OBVIOUS
  <2>1. CASE UNCHANGED vars
    <3>1. \A s \in Syncs : Undisturbed(job[s]) => Undisturbed(job[s])'
      BY <2>1, SameTable DEF vars
    <3> QED
      BY <2>1, <3>1 DEF vars, CalmSyncsAreAccurate
  <2>2. ASSUME NEW p \in People, NEW state \in States, NEW name \in Names \cup {NoName},
               Change(p, state, name)
        PROVE  CalmSyncsAreAccurate'
    BY <2>2, NobodyIsCalm DEF Change
  <2>3. ASSUME NEW h \in Handlers, NEW p \in People, NEW name \in Names,
               NEW pid \in People \cup {NoId}, Remember(h, p, name, pid)
        PROVE  CalmSyncsAreAccurate'
    BY <2>3, NobodyIsCalm DEF Remember
  <2>4. ASSUME NEW s \in Syncs, Disable(s) PROVE CalmSyncsAreAccurate'
    BY <2>4, NobodyIsCalm DEF Disable
  <2> QED
    BY <2>1, <2>2, <2>3, <2>4, ListAccurate, TakeAccurate, SelectByIdAccurate, SelectByNameAccurate,
       WriteAccurate, FailAccurate, StopAccurate DEF Next
<1> QED
  BY <1>1, <1>2, Invariance, PTL DEF Spec

(* An undisturbed sync ends with nothing enabled but the mappings it wrote:  *)
(* of active people with a known address, under their current names.         *)
THEOREM OnlyTheWanted == Spec => SyncEnablesOnlyWanted
<1>1. ASSUME Inductive, CalmSyncsAreAccurate, NEW s \in Syncs, calm[s], Disable(s),
             NEW i \in DOMAIN rows', rows'[i].enabled
      PROVE  /\ rows'[i].pid # NoId
             /\ Wanted(rows'[i].pid)
             /\ rows'[i].name = gitlab[rows'[i].pid].name
  <2> DEFINE p == rows[i].pid
  <2>1. /\ i \in DOMAIN rows /\ rows[i] \in Identity
        /\ rows'[i] = [rows[i] EXCEPT !.enabled = @ /\ rows[i].pid \in job[s].ok]
    BY <1>1 DEF Disable, Disabled, Inductive, TypeOK
  <2>2. rows'[i].pid = p /\ rows'[i].name = rows[i].name /\ p \in job[s].ok
    BY <1>1, <2>1 DEF Identity
  <2>3. p \in People /\ p # NoId
    BY <1>1, <2>2, SizesAssumption DEF Inductive, TypeOK, Job, Writers, People, NoId
  <2>4. Wanted(p) /\ \E k \in DOMAIN rows : rows[k] = Mapping(p)
    BY <1>1, <2>2 DEF CalmSyncsAreAccurate, Undisturbed, Enables
  <2>5. PICK k \in DOMAIN rows : rows[k].pid = p /\ rows[k].name = gitlab[p].name
    BY <2>4 DEF Mapping
  <2>6. k = i
    BY <1>1, <2>1, <2>3, <2>5 DEF Inductive, TypeOK, KeysAreUnique
  <2> QED
    BY <2>2, <2>3, <2>4, <2>5, <2>6
<1>2. Inductive /\ CalmSyncsAreAccurate /\ [Next]_vars =>
        [\A s \in Syncs : calm[s] /\ Disable(s) =>
            \A i \in DOMAIN rows' : rows'[i].enabled =>
                /\ rows'[i].pid # NoId
                /\ Wanted(rows'[i].pid)
                /\ rows'[i].name = gitlab[rows'[i].pid].name]_vars
  BY <1>1
<1> QED
  BY <1>2, AlwaysAccurate, PTL DEF Spec, SyncEnablesOnlyWanted

(* And with everybody enabled whom it wants enabled, but for those whose     *)
(* name was somebody else's, or who have a second row without an ID; then it *)
(* knows that it failed.                                                     *)
THEOREM TheWantedAreEnabled == Spec => SyncEnablesWanted
<1>1. ASSUME Inductive, CalmSyncsAreAccurate, NEW s \in Syncs, calm[s], Disable(s),
             NEW p \in People, Wanted(p)
      PROVE  \/ Enabled(rows', p)
             \/ /\ job[s].failed
                /\ \/ \E q \in People \ {p} : gitlab[p].name \in held[q]
                   \/ \E i \in DOMAIN rows : rows[i].email = p /\ rows[i].pid = NoId
  <2>1. Accounted(job[s], p) /\ Enables(job[s])
    BY <1>1 DEF CalmSyncsAreAccurate, Undisturbed
  <2>2. job[s].todo = {} /\ ~Upserting(job[s])
    BY <1>1 DEF Disable, Upserting
  <2>3. CASE p \in job[s].ok
    <3>1. PICK k \in DOMAIN rows : rows[k] = Mapping(p)
      BY <2>1, <2>3 DEF Enables
    <3>2. /\ k \in DOMAIN rows' /\ rows[k] \in Identity
          /\ rows'[k] = [rows[k] EXCEPT !.enabled = @ /\ rows[k].pid \in job[s].ok]
      BY <1>1 DEF Disable, Disabled, Inductive, TypeOK
    <3>3. rows[k].pid = p /\ rows[k].enabled = Wanted(p) /\ Wanted(p)
      BY <1>1, <3>1 DEF Mapping
    <3>4. rows[k].enabled = TRUE
      <4>1. Wanted(p) \in BOOLEAN
        BY DEF Wanted
      <4> QED
        BY <3>3, <4>1
    <3>5. rows'[k].pid = p /\ rows'[k].enabled
      BY <2>3, <3>2, <3>3, <3>4 DEF Identity
    <3> QED
      BY <3>2, <3>5 DEF Enabled
  <2>4. CASE p \notin job[s].ok
    BY <2>1, <2>2, <2>4 DEF Accounted, Excused
  <2> QED
    BY <2>3, <2>4
<1>2. Inductive /\ CalmSyncsAreAccurate /\ [Next]_vars =>
        [\A s \in Syncs : calm[s] /\ Disable(s) =>
            \A p \in People : Wanted(p) =>
                \/ Enabled(rows', p)
                \/ /\ job[s].failed
                   /\ \/ \E q \in People \ {p} : gitlab[p].name \in held[q]
                      \/ \E i \in DOMAIN rows : rows[i].email = p /\ rows[i].pid = NoId]_vars
  BY <1>1
<1> QED
  BY <1>2, AlwaysAccurate, PTL DEF Spec, SyncEnablesWanted
=============================================================================
