----------------------------- MODULE Identities -----------------------------
(***************************************************************************)
(* Table identities and its writers.  The scheduler and the command line     *)
(* synchronise it with GitLab's user list: upsert every listed person, one   *)
(* at a time, then disable everybody who was not enabled.  Webhook handlers  *)
(* upsert the people a payload names.  An upsert is two SELECTs and a write, *)
(* each a statement of its own on a shared connection, so upserts            *)
(* interleave; meanwhile GitLab renames, blocks and deletes users.           *)
(* A person's address is written as the person: addresses do not change.     *)
(***************************************************************************)
EXTENDS Integers, Sequences

CONSTANTS
    NumPeople,      \* GitLab user IDs are 1..NumPeople
    Names,          \* GitLab user names
    NoName,         \* the name of somebody deleted
    Found,          \* people whose address the Feishu directory knows
    Syncs,          \* identity synchronisations: the scheduler's and sync-users
    Handlers,       \* webhook handlers that remember somebody
    MaxChanges,     \* bound: how often GitLab's users change
    MaxRemembered   \* bound: how many identities the handlers remember

People == 1..NumPeople
NoId == 0
Writers == Syncs \cup Handlers
States == {"active", "blocked", "gone"}

ASSUME SizesAssumption ==
    /\ NumPeople \in Nat \ {0} /\ MaxChanges \in Nat /\ MaxRemembered \in Nat
    /\ NoName \notin Names
    /\ Found \subseteq People
    /\ Syncs \cap Handlers = {}

VARIABLES
    gitlab,         \* per person: state and name
    rows,           \* table identities, in order of row id
    job,            \* per writer: its step and its local variables
    (* history *)
    held,           \* the names each person has had
    calm,           \* per sync: nobody else wrote, nothing changed, nothing failed
    changed,        \* how often GitLab's users have changed
    remembered      \* how many identities the handlers have taken up

vars == <<gitlab, rows, job, held, calm, changed, remembered>>
world == <<gitlab, held, changed>>

NoBody == [pid |-> NoId, name |-> NoName, email |-> NoId, enabled |-> FALSE]
Identity == [pid : People \cup {NoId}, name : Names, email : People, enabled : BOOLEAN]
Job == [step : {"idle", "byId", "byName", "write", "next"}, todo : SUBSET Identity,
        who : Identity \cup {NoBody}, byId : Nat, byName : Nat, owner : People \cup {NoId},
        ok : SUBSET People, failed : BOOLEAN]
Idle == [step |-> "idle", todo |-> {}, who |-> NoBody, byId |-> 0, byName |-> 0,
         owner |-> NoId, ok |-> {}, failed |-> FALSE]

Listed(g) == {p \in People : g[p].state # "gone"}

(* The two unique indexes; a blank provider ID is not in its index.          *)
KeysAreUnique(r) ==
    \A i, j \in DOMAIN r : i # j =>
        /\ r[i].name # r[j].name
        /\ r[i].pid = NoId \/ r[i].pid # r[j].pid

TypeOK ==
    /\ gitlab \in [People -> [state : States, name : Names \cup {NoName}]]
    /\ \A p, q \in Listed(gitlab) : gitlab[p].name = gitlab[q].name => p = q
    /\ rows \in Seq(Identity) /\ KeysAreUnique(rows)
    /\ job \in [Writers -> Job]
    /\ \A w \in Writers : job[w].byId \in 0..Len(rows) /\ job[w].byName \in 0..Len(rows)
    /\ held \in [People -> SUBSET Names]
    /\ calm \in [Syncs -> BOOLEAN]
    /\ changed \in 0..MaxChanges
    /\ remembered \in 0..MaxRemembered

Init ==
    /\ gitlab \in [People -> [state : {"active"}, name : Names]]
    /\ \A p, q \in People : gitlab[p].name = gitlab[q].name => p = q
    /\ rows = <<>>
    /\ job = [w \in Writers |-> Idle]
    /\ held = [p \in People |-> {gitlab[p].name}]
    /\ calm = [s \in Syncs |-> FALSE]
    /\ changed = 0
    /\ remembered = 0

-----------------------------------------------------------------------------
(* GitLab's administrators: rename, block, unblock, delete. *)
Change(p, state, name) ==
    /\ changed < MaxChanges
    /\ gitlab[p].state # "gone"
    /\ gitlab[p] # [state |-> state, name |-> name]
    /\ name = NoName <=> state = "gone"
    /\ \A q \in Listed(gitlab) \ {p} : gitlab[q].name # name
    /\ gitlab' = [gitlab EXCEPT ![p] = [state |-> state, name |-> name]]
    /\ held' = [held EXCEPT ![p] = @ \cup ({name} \ {NoName})]
    /\ changed' = changed + 1
    /\ calm' = [s \in Syncs |-> FALSE]
    /\ UNCHANGED <<rows, job, remembered>>

-----------------------------------------------------------------------------
(* Whom the sync wants enabled. *)
Wanted(p) == gitlab[p].state = "active" /\ p \in Found

(* What the sync makes of the list: everybody with an address it may use,    *)
(* the blocked to be upserted disabled.                                      *)
Candidates ==
    {[pid |-> p, name |-> gitlab[p].name, email |-> p, enabled |-> Wanted(p)] : p \in Listed(gitlab)}

(* ListUsers and LookupEmails; if either fails the run ends without a trace. *)
List(s) ==
    /\ job[s] = Idle
    /\ job' = [job EXCEPT ![s] = [@ EXCEPT !.step = "next", !.todo = Candidates]]
    /\ calm' = [calm EXCEPT ![s] = \A w \in Writers \ {s} : job[w] = Idle]
    /\ UNCHANGED <<world, rows, remembered>>

(* The next candidate's Upsert begins; the list is in order of ID. *)
Take(s, c) ==
    /\ job[s].step = "next" /\ c \in job[s].todo
    /\ \A d \in job[s].todo : c.pid <= d.pid
    /\ job' = [job EXCEPT ![s] = [@ EXCEPT !.step = "byId", !.who = c, !.todo = job[s].todo \ {c}]]
    /\ UNCHANGED <<world, rows, calm, remembered>>

(* rememberIdentities, one identity: the name is the one the payload gave,   *)
(* the ID may be missing from it.                                            *)
Remember(h, p, name, pid) ==
    /\ job[h] = Idle
    /\ remembered < MaxRemembered
    /\ name \in held[p] /\ pid \in {p, NoId}
    /\ remembered' = remembered + 1
    /\ job' = [job EXCEPT ![h] = [@ EXCEPT !.step = "byId",
                !.who = [pid |-> pid, name |-> name, email |-> p, enabled |-> TRUE]]]
    /\ calm' = [s \in Syncs |-> FALSE]
    /\ UNCHANGED <<world, rows>>

-----------------------------------------------------------------------------
(* The row id a SELECT returns, 0 without one. *)
RowOf(matching) == IF matching = {} THEN 0 ELSE CHOOSE i \in matching : TRUE

(* SELECT id ... WHERE provider_id = ? *)
SelectById(w) ==
    LET matching == {i \in DOMAIN rows : rows[i].pid # NoId /\ rows[i].pid = job[w].who.pid} IN
    /\ job[w].step = "byId"
    /\ job' = [job EXCEPT ![w] = [@ EXCEPT !.step = "byName", !.byId = RowOf(matching)]]
    /\ UNCHANGED <<world, rows, calm, remembered>>

(* SELECT id, provider_id ... WHERE username = ? *)
SelectByName(w) ==
    LET i == RowOf({k \in DOMAIN rows : rows[k].name = job[w].who.name}) IN
    /\ job[w].step = "byName"
    /\ job' = [job EXCEPT ![w] = [@ EXCEPT !.step = "write", !.byName = i,
                !.owner = IF i = 0 THEN NoId ELSE rows[i].pid]]
    /\ UNCHANGED <<world, rows, calm, remembered>>

(* "identity mapping conflict". *)
Conflict(j) ==
    \/ j.byName # 0 /\ j.who.pid # NoId /\ j.owner # NoId /\ j.who.pid # j.owner
    \/ j.byId # 0 /\ j.byName # 0 /\ j.byId # j.byName

(* Mutants of Written: the UPDATE leaves the provider ID; only an INSERT     *)
(* looks at enabled.                                                         *)
WrittenKeepingId(j) ==
    LET i == IF j.byId # 0 THEN j.byId ELSE j.byName IN
    IF i = 0 THEN Append(rows, j.who)
    ELSE [rows EXCEPT ![i] = [j.who EXCEPT !.pid = rows[i].pid]]

WrittenEnabledOnce(j) ==
    LET i == IF j.byId # 0 THEN j.byId ELSE j.byName IN
    IF i = 0 THEN Append(rows, j.who)
    ELSE [rows EXCEPT ![i] = [j.who EXCEPT !.enabled = rows[i].enabled]]

(* The UPDATE of the row found, or the INSERT. *)
Written(j) ==
    LET i == IF j.byId # 0 THEN j.byId ELSE j.byName IN
    IF i = 0 THEN Append(rows, j.who) ELSE [rows EXCEPT ![i] = j.who]

(* Upsert returns: a sync counts its successes and goes on after an error.   *)
Return(w, success) ==
    job' = [job EXCEPT ![w] =
        IF w \in Handlers THEN Idle
        ELSE [Idle EXCEPT !.step = "next", !.todo = job[w].todo,
                !.ok = job[w].ok \cup {p \in {job[w].who.pid} : success /\ job[w].who.enabled},
                !.failed = job[w].failed \/ ~success]]

(* Mutant of Fits: the table has no unique indexes. *)
FitsAlways(r) == TRUE

(* The write passes the unique indexes. *)
Fits(r) == KeysAreUnique(r)

Write(w) ==
    /\ job[w].step = "write"
    /\ IF ~Conflict(job[w]) /\ Fits(Written(job[w]))
       THEN rows' = Written(job[w]) /\ Return(w, TRUE)
       ELSE UNCHANGED rows /\ Return(w, FALSE)
    /\ calm' = [s \in Syncs |-> calm[s] /\ s = w]
    /\ UNCHANGED <<world, remembered>>

(* A statement of an Upsert fails. *)
Fail(w) ==
    /\ job[w].step \in {"byId", "byName", "write"}
    /\ Return(w, FALSE)
    /\ calm' = [s \in Syncs |-> calm[s] /\ s # w]
    /\ UNCHANGED <<world, rows, remembered>>

(* Mutant of Disabled: with nobody enabled, nobody is disabled. *)
DisabledIfAny(ok) ==
    IF ok = {} THEN rows
    ELSE [i \in DOMAIN rows |-> [rows[i] EXCEPT !.enabled = @ /\ rows[i].pid \in ok]]

(* DisableExcept. *)
Disabled(ok) == [i \in DOMAIN rows |-> [rows[i] EXCEPT !.enabled = @ /\ rows[i].pid \in ok]]

(* The sync ends with DisableExcept. *)
Disable(s) ==
    /\ job[s].step = "next" /\ job[s].todo = {}
    /\ rows' = Disabled(job[s].ok)
    /\ job' = [job EXCEPT ![s] = Idle]
    /\ calm' = [t \in Syncs |-> FALSE]
    /\ UNCHANGED <<world, remembered>>

(* The run is cut short: the process stops, or DisableExcept fails. *)
Stop(s) ==
    /\ job[s] # Idle
    /\ job' = [job EXCEPT ![s] = Idle]
    /\ calm' = [calm EXCEPT ![s] = FALSE]
    /\ UNCHANGED <<world, rows, remembered>>

Next ==
    \/ \E p \in People, state \in States, name \in Names \cup {NoName} : Change(p, state, name)
    \/ \E s \in Syncs : List(s) \/ Disable(s) \/ Stop(s) \/ \E c \in job[s].todo : Take(s, c)
    \/ \E h \in Handlers, p \in People, name \in Names, pid \in People \cup {NoId} :
          Remember(h, p, name, pid)
    \/ \E w \in Writers : SelectById(w) \/ SelectByName(w) \/ Write(w) \/ Fail(w)

Spec == Init /\ [][Next]_vars

-----------------------------------------------------------------------------
(* However upserts interleave, a row maps an ID and a name to the address of *)
(* the person with that ID, and to a name that person has had.               *)
MappingsAreOwn ==
    \A i \in DOMAIN rows :
        /\ rows[i].pid \in {NoId, rows[i].email}
        /\ rows[i].name \in held[rows[i].email]

Enabled(r, p) == \E i \in DOMAIN r : r[i].pid = p /\ r[i].enabled

(* An undisturbed sync leaves enabled only mappings of active people the     *)
(* directory knows, under their current names, so that no mention reaches    *)
(* whoever had the name before.  Nobody without an ID stays enabled.         *)
SyncEnablesOnlyWanted ==
    [][\A s \in Syncs : calm[s] /\ Disable(s) =>
          \A i \in DOMAIN rows' : rows'[i].enabled =>
              /\ rows'[i].pid # NoId
              /\ Wanted(rows'[i].pid)
              /\ rows'[i].name = gitlab[rows'[i].pid].name]_vars

(* It leaves enabled everybody it wants enabled, except, and then it reports *)
(* an error, somebody whose name another person has had, or who has a row    *)
(* without an ID beside their own.  Rows are never deleted, so a name freed  *)
(* by a rename or a deletion still belongs to its former holder's row, and   *)
(* the new holder's mapping, though valid, is disabled.                      *)
SyncEnablesWanted ==
    [][\A s \in Syncs : calm[s] /\ Disable(s) =>
          \A p \in People : Wanted(p) =>
              \/ Enabled(rows', p)
              \/ /\ job[s].failed
                 /\ \/ \E q \in People \ {p} : gitlab[p].name \in held[q]
                    \/ \E i \in DOMAIN rows : rows[i].email = p /\ rows[i].pid = NoId]_vars
=============================================================================
