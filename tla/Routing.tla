------------------------------ MODULE Routing ------------------------------
(***************************************************************************)
(* From a webhook to delivery rows: Decoder reads it, and then it is about   *)
(* who is a candidate and why, how the people an event names are identified *)
(* through the payload, the GitLab API and the identities table, which      *)
(* reasons survive the recipient's preferences, and which delivery key the  *)
(* merged notice gets.  What a passed pipeline announces is the subject of  *)
(* PipelineRecovery.  A person has one address here, so that the code's      *)
(* notices, merged by normalized address, are one per person.               *)
(***************************************************************************)
EXTENDS Decoder

CONSTANTS
    Inbox,          \* the webhooks GitLab sends
    Directory,      \* people whose email the GitLab API knows
    Refused,        \* <<person, reason>> pairs the person's preferences switch off
    Admitted,       \* people the domain list and the allowlist admit
    MaxHandled      \* bound: webhooks handled, the same again included

MRReasons == {"mr_review_requested", "mr_assigned", "mr_updated", "mr_approved",
              "mr_state_changed", "mr_comment"}
Reasons == MRReasons \cup {"ci_failed", "mention", "issue_assigned", "issue_updated"}

ASSUME RoutingAssumption ==
    /\ Inbox \subseteq Webhooks
    /\ Directory \subseteq People
    /\ Public \subseteq Directory
    /\ Large \subseteq People \ Public
    /\ Admitted \subseteq People
    /\ Refused \subseteq People \X Reasons
    /\ TextLimit \in Nat
    /\ MaxHandled \in Nat

VARIABLES
    mapped,         \* people with an enabled row in table identities
    rows,           \* table deliveries: records [key, hook]
    left,           \* how many more webhooks are handled
    (* history *)
    asked,          \* per webhook: whom GitLab and the table once failed in nothing
    known           \* per webhook: people once mapped before it was handled

vars == <<mapped, rows, left, asked, known>>

-----------------------------------------------------------------------------
(* EnrichEvent: GitLab is asked by ID, or by username where there is no ID;  *)
(* "found" holds the questions it answers, an outage answers none.  It adds  *)
(* what is not known yet (mergeIdentity).                                    *)
Question(i) == <<i.who, i.id>>

Enriched(i, found) ==
    IF i.email \/ Question(i) \notin found THEN i
    ELSE [who |-> i.who, provider |-> TRUE, id |-> IF i.id = "none" THEN "digits" ELSE i.id,
          name |-> TRUE, email |-> i.who \in Directory]

Enrich(S, found) == {Enriched(i, found) : i \in S}

(* Mutant of Resolved: a row is returned without its provider. *)
ResolvedWithoutProvider(i, table) ==
    IF ~i.email /\ i.id # "exponent" /\ i.who \in table
    THEN [who |-> i.who, provider |-> FALSE, id |-> i.id, name |-> i.name, email |-> TRUE]
    ELSE i

(* Store.Resolve: an email of the payload is kept; otherwise the enabled row *)
(* found by provider ID or by username, showing only the fields asked with.  *)
(* Rows have the IDs that GitLab prints.                                     *)
Resolved(i, table) ==
    IF ~i.email /\ i.id # "exponent" /\ i.who \in table
    THEN [who |-> i.who, provider |-> TRUE, id |-> i.id, name |-> i.name, email |-> TRUE]
    ELSE i

(* Mutant of CandidateKey: people are told apart by email as soon as it is    *)
(* known.                                                                    *)
KeyByEmail(i) ==
    IF i.email THEN <<"email", TRUE, i.who>>
    ELSE IF i.id # "none" THEN <<i.id, i.provider, i.who>>
    ELSE <<"username", i.provider, i.who>>

(* candidateKey. *)
CandidateKey(i) ==
    IF i.id # "none" THEN <<i.id, i.provider, i.who>>
    ELSE IF i.name THEN <<"username", i.provider, i.who>>
    ELSE <<"email", TRUE, i.who>>

(* Mutant of SameIdentity: people are compared by email alone. *)
SameEmail(l, r) == l.email /\ r.email /\ l.who = r.who

SameIdentity(l, r) ==
    IF l.id # "none" /\ r.id # "none" /\ l.provider = r.provider
    THEN l.id = r.id /\ l.who = r.who
    ELSE IF l.email /\ r.email THEN l.who = r.who
    ELSE l.name /\ r.name /\ l.provider = r.provider /\ l.who = r.who

-----------------------------------------------------------------------------
(* The candidates of an event: identities with a reason, and when they are   *)
(* added.  Changes come in the order of their fields; the people they name   *)
(* are not among those the API lookup enriches.                              *)
For(S, reason, at) == {[of |-> i, reason |-> reason, at |-> at] : i \in S}
When(P, S) == IF P THEN S ELSE {}

Fields == <<"assignee_ids", "assignees", "description", "draft", "reviewer_ids", "reviewers",
            "source_branch", "state", "target_branch", "title">>
At(field) == 2 * (CHOOSE n \in DOMAIN Fields : Fields[n] = field)
AtLast == 2 * Len(Fields) + 2

MRTexts   == {"title", "description", "source_branch", "target_branch", "draft"}
MRStates  == {"draft", "target_branch"}
Approvals == {"approved", "approval", "unapproved", "unapproval"}
Ends      == {"merge", "close", "reopen"}

(* The author of a failed commit, or else who started the pipeline. *)
PipelineCandidates(e, found) ==
    When(e.status = "failed", For(Else(e.author, Enrich({e.actor}, found)), "ci_failed", 0))

MergeRequestCandidates(e, found) ==
    LET author    == Enrich(e.author, found)
        reviewers == Enrich(e.reviewers, found)
        assignees == Enrich(e.assignees, found)
    IN  When(e.action = "open",
             For(reviewers, "mr_review_requested", 0) \cup For(assignees, "mr_assigned", 1))
        \cup When(e.action = "update", UNION {
                 When(c.field \in Lists.reviewers, For(c.added, "mr_review_requested", At(c.field)))
                 \cup When(c.field \in Lists.assignees, For(c.added, "mr_assigned", At(c.field)))
                 \cup When(c.field \in MRTexts, For(author, "mr_updated", At(c.field)))
                 \cup When(c.field \in MRStates, For(reviewers, "mr_state_changed", At(c.field) + 1))
                 : c \in e.changes})
        \cup When(e.action \in Approvals, For(author, "mr_approved", 0))
        \cup When(e.action \in Ends, For(author, "mr_state_changed", 0))

NoteCandidates(e, found) ==
    LET actor  == Enriched(e.actor, found)
        others == {i \in Enrich(e.author, found) : ~SameIdentity(actor, i)}
    IN  When(e.on = "merge_request", For(others, "mr_comment", 0))
        \cup When(e.on = "issue", For(others, "issue_updated", 0))

IssueCandidates(e, found) ==
    When(e.action = "open", For(Enrich(e.assignees, found), "issue_assigned", 0))
    \cup When(e.action = "update", UNION {
             When(c.field \in Lists.assignees, For(c.added, "issue_assigned", At(c.field)))
             \cup When(c.field \in {"title", "description", "state"},
                       For(Enrich(e.author, found), "issue_updated", At(c.field)))
             : c \in e.changes})

Candidates(e, found) ==
    When(e.kind = "pipeline", PipelineCandidates(e, found))
    \cup When(e.kind = "merge_request", MergeRequestCandidates(e, found))
    \cup When(e.kind = "note" /\ ~e.system, NoteCandidates(e, found))
    \cup When(e.kind = "issue", IssueCandidates(e, found))
    \cup When(~(e.kind = "note" /\ e.system),
              For(Enrich(e.mentions, found), "mention", AtLast))

-----------------------------------------------------------------------------
(* resolveCandidates.  Candidates with one key share their reasons and the   *)
(* identity that was added first; a resolved identity is matched to them by  *)
(* key, else by sameIdentity, and to nothing at all if neither finds one.    *)
Keys(C) == {CandidateKey(c.of) : c \in C}
WithKey(C, k) == {c \in C : CandidateKey(c.of) = k}
ReasonsOf(C, k) == {c.reason : c \in WithKey(C, k)}
First(C, k) == (CHOOSE c \in WithKey(C, k) : \A d \in WithKey(C, k) : c.at <= d.at).of

MatchingKeys(C, i) ==
    IF CandidateKey(i) \in Keys(C) THEN {CandidateKey(i)}
    ELSE {k \in Keys(C) : SameIdentity(First(C, k), i)}

(* The <<person, reason>> pairs an event is announced for.  Only a failed    *)
(* pipeline is announced to the actor as well.                               *)
Notices(e, table, found) ==
    LET C     == Candidates(e, found)
        actor == Enriched(e.actor, found)
        seen  == {i \in {Resolved(First(C, k), table) : k \in Keys(C)} :
                     i.email /\ i.who \in Admitted}
    IN  {n \in (People \X Reasons) \ Refused :
            \E i \in seen :
                /\ i.who = n[1]
                /\ e.kind = "pipeline" \/ ~SameIdentity(actor, i)
                /\ \E k \in MatchingKeys(C, i) : n[2] \in ReasonsOf(C, k)}

-----------------------------------------------------------------------------
(* deliveryKey: a note is known by its ID, a mention in a merge request or   *)
(* an issue by that object, everything else by the event.                    *)
DeliveryKey(e, p, R) ==
    [base |-> IF e.kind = "note" THEN <<"note", e.note>>
              ELSE IF "mention" \in R THEN <<"mention", e.kind, e.iid>>
              ELSE <<"event", e.key>>,
     who |-> p, group |-> R]

(* Mutant of Grouped: a delivery also for people left with no reason. *)
GroupedForAll(N) == {<<p, {n[2] : n \in {x \in N : x[1] = p}}>> : p \in People}

(* All of a person's reasons go into one delivery. *)
Grouped(N) == {<<p, {n[2] : n \in {x \in N : x[1] = p}}>> : p \in {n[1] : n \in N}}

(* The people eventIdentities lists; EnrichEvent asks about those without an *)
(* email, and those with an email afterwards are written to the identities   *)
(* table, enabled, before the event is routed, unless the upsert fails.      *)
(* GitLab has nobody by an ID with an exponent.                              *)
Named(e) == {e.actor} \cup e.author \cup e.reviewers \cup e.assignees \cup e.mentions
Asked(e) == {Question(i) : i \in {x \in Named(e) : ~x.email}}
Answerable(e) == {q \in Asked(e) : q[2] # "exponent"}
Remembered(e, found) ==
    {i.who : i \in {x \in Enrich(Named(e), found) : x.email /\ (x.id # "none" \/ x.name)}}

(* Whose address the payload or GitLab shows, and whom GitLab or the table    *)
(* could not be asked about properly: a question was left unanswered, or a   *)
(* change names them by an ID with an exponent.                              *)
Identified(e, found) == {i.who : i \in {x \in Enrich(Named(e), found) : x.email}}
Unfound(e, found) ==
    {q[1] : q \in Asked(e) \ found}
    \cup {i.who : i \in {x \in UNION {c.added : c \in e.changes} : x.id = "exponent"}}

(* Whom nothing fails: known by address, to the payload or to the table, with *)
(* no question about them unanswered and no upsert of theirs failed.         *)
Served(e, found, kept) ==
    (mapped \cup Identified(e, found)) \ (Unfound(e, found) \cup (Remembered(e, found) \ kept))

Handle(w) ==
    LET e == Decode(w) IN
    \E found \in SUBSET Answerable(e) : \E kept \in SUBSET Remembered(e, found) :
        LET table == mapped \cup kept
            keys  == {DeliveryKey(e, g[1], g[2]) : g \in Grouped(Notices(e, table, found))}
            old   == {row.key : row \in rows}
        IN  /\ ~Ignored(w)
            /\ left > 0
            /\ left' = left - 1
            /\ mapped' = table
            /\ rows' = rows \cup {[key |-> k, hook |-> w] : k \in keys \ old}
            /\ asked' = [asked EXCEPT ![w] = @ \cup Served(e, found, kept)]
            /\ known' = [known EXCEPT ![w] = @ \cup mapped]

Ignore(w) ==
    /\ Ignored(w)
    /\ left > 0
    /\ left' = left - 1
    /\ UNCHANGED <<mapped, rows, asked, known>>

(* The identity sync disables a row. *)
Disable(p) ==
    /\ p \in mapped
    /\ mapped' = mapped \ {p}
    /\ UNCHANGED <<rows, left, asked, known>>

Init ==
    /\ mapped \in SUBSET Directory
    /\ rows = {}
    /\ left = MaxHandled
    /\ asked = [w \in Inbox |-> {}]
    /\ known = [w \in Inbox |-> {}]

Next == (\E w \in Inbox : Handle(w) \/ Ignore(w)) \/ (\E p \in People : Disable(p))

Spec == Init /\ [][Next]_vars

-----------------------------------------------------------------------------
(* Who should hear of a webhook and why, said of people and of the payload   *)
(* alone: no identities, no order, and wherever a payload may name somebody, *)
(* all its places count.                                                     *)
Whose(refs) == {r.who : r \in refs}

AuthorsIn(w) == Whose(Object(w).author \cup w.top.author) \cup Object(w).author_id

ReviewersIn(w) == Whose(Object(w).reviewers \cup w.top.reviewers)

AssigneesIn(w) ==
    LET d == Object(w)
    IN  IF IsIssue(w) THEN Whose(d.assignees \cup d.assignee)
        ELSE Whose(d.assignees \cup w.top.assignees \cup w.top.assignee)

NewIn(w, fields) ==
    UNION {Whose(c.current) \ Whose(c.previous) : c \in {x \in w.changes : x.field \in fields}}

Changed(w, fields) == \E c \in w.changes : c.field \in fields

Committers(w) == Else(w.commit, {w.user})

Within(text) == {n \in DOMAIN text : n <= TextLimit}

MentionedIn(w) ==
    {w.text[n] : n \in {m \in Within(w.text) : w.text[m] \in People /\ ~IsCode(w.text, m)}}
    \cup When(Kind(w) # "note", MentionsIn(w.title))

Concerned(w, r) ==
    LET kind == Kind(w) IN
    CASE r = "ci_failed" -> When(kind = "pipeline" /\ w.status = "failed", Committers(w))
      [] r = "mr_review_requested" -> When(kind = "merge_request",
            When(w.action = "open", ReviewersIn(w))
            \cup When(w.action = "update", NewIn(w, Lists.reviewers)))
      [] r = "mr_assigned" -> When(kind = "merge_request",
            When(w.action = "open", AssigneesIn(w))
            \cup When(w.action = "update", NewIn(w, Lists.assignees)))
      [] r = "mr_updated" -> When(kind = "merge_request" /\ w.action = "update" /\ Changed(w, MRTexts),
            AuthorsIn(w))
      [] r = "mr_state_changed" -> When(kind = "merge_request",
            When(w.action \in Ends, AuthorsIn(w))
            \cup When(w.action = "update" /\ Changed(w, MRStates), ReviewersIn(w)))
      [] r = "mr_approved" -> When(kind = "merge_request" /\ w.action \in Approvals, AuthorsIn(w))
      [] r = "mr_comment" -> When(kind = "note" /\ ~w.system /\ w.on = "merge_request", AuthorsIn(w))
      [] r = "issue_assigned" -> When(kind = "issue",
            When(w.action = "open", AssigneesIn(w))
            \cup When(w.action = "update", NewIn(w, Lists.assignees)))
      [] r = "issue_updated" ->
            When(kind = "note" /\ ~w.system /\ w.on = "issue", AuthorsIn(w))
            \cup When(kind = "issue" /\ w.action = "update" /\ Changed(w, {"title", "description", "state"}),
                      AuthorsIn(w))
      [] r = "mention" -> When(kind \in Kinds \ {"pipeline"} /\ ~(kind = "note" /\ w.system), MentionedIn(w))

(* The reasons a webhook gives somebody who wants to know. *)
Wanted(w, p) == {r \in Reasons : p \in Concerned(w, r) /\ <<p, r>> \notin Refused}

(* What the actor did is news to everybody else, but for a failed pipeline. *)
Entitled(w, p) == When(p = w.user => Kind(w) = "pipeline", Wanted(w, p))

Recipients(w) == {p \in Admitted : Entitled(w, p) # {}}

(* GitLab is assumed to contradict itself nowhere: two places that name      *)
(* people name the same.  And no text is cut off inside of code, where the   *)
(* decoder would take a name in the code for a mention.                      *)
Agree(refs, other) == refs = {} \/ other = {} \/ Whose(refs) = Whose(other)

ASSUME PayloadsAgree ==
    \A w \in Inbox :
        LET d == Object(w)
            t == w.top
            authors == Whose(d.author \cup t.author) \cup d.author_id IN
        /\ \A p, q \in authors : p = q
        /\ Agree(d.reviewers, t.reviewers)
        /\ Agree(d.assignees, t.assignees)
        /\ Agree(d.assignees, t.assignee) /\ Agree(t.assignees, t.assignee)
        /\ Agree(d.assignees, d.assignee)
        /\ \A n \in DOMAIN w.text : n <= TextLimit =>
              IsCode(w.text, n) = IsCode(Read(w.text), n)

-----------------------------------------------------------------------------
TypeOK ==
    /\ mapped \subseteq People
    /\ \A row \in rows : /\ row.hook \in Inbox
                         /\ row.key.who \in People
                         /\ row.key.group \in (SUBSET Reasons) \ {{}}
    /\ left \in 0 .. MaxHandled
    /\ asked \in [Inbox -> SUBSET People]
    /\ known \in [Inbox -> SUBSET People]

(* docs/PLAN.md:63 "Suppress self-notifications": nobody is told of what     *)
(* they did themselves, however little the payload and GitLab say about the  *)
(* actor and however the recipient was identified (the sameIdentity tests of *)
(* routeNote and resolveCandidates).  A pipeline's failure is meant for the  *)
(* committer even so.  People with large IDs are excepted: the payload's ID  *)
(* of such an actor is not the one GitLab gives for a mention of them.       *)
NoSelfNotification ==
    \A row \in rows :
        Kind(row.hook) # "pipeline" /\ row.hook.user \notin Large => row.key.who # row.hook.user

(* A row goes to an admitted person, for reasons the payload gives that      *)
(* person and that person's preferences keep: no fallback of the decoder, no *)
(* merge of identities and no match of a resolved identity to a candidate    *)
(* ever hands one person the reasons of another.                             *)
NoticesAreEntitled ==
    \A row \in rows :
        /\ row.key.who \in Admitted
        /\ row.key.group \subseteq Wanted(row.hook, row.key.who)

(* A webhook that is handled again, or that two handlers split between them, *)
(* may find GitLab and the table in quite another state; whoever it is       *)
(* announced to is still told the same reasons, the mention excepted.  So    *)
(* nobody gets more than two notices of one webhook, one with the mention    *)
(* and one without, and never a part of their reasons: an identity that can  *)
(* be resolved takes all reasons of the person with it, through the key or   *)
(* sameIdentity, however little of the person the others show.               *)
RepeatsDifferByMention ==
    \A r1, r2 \in rows :
        (r1.hook = r2.hook /\ r1.key.who = r2.key.who /\ r1.key.who \notin Large) =>
            r1.key.group \ {"mention"} = r2.key.group \ {"mention"}

(* Whoever a payload names in any of its places, and GitLab and the table    *)
(* could identify, is announced to with all their reasons at once; at worst  *)
(* an older row has the same key.  (By a large ID nobody is found, neither in *)
(* GitLab nor in the table; by name everybody is.)                           *)
EntitledAreNotified ==
    \A w \in Inbox : \A p \in Recipients(w) \cap asked[w] :
        \E row \in rows : row.key = DeliveryKey(Decode(w), p, Entitled(w, p))

(* docs/ARCHITECTURE.md:170 "an existing mapping is used when available": a  *)
(* person with an enabled mapping is announced to even if GitLab answers     *)
(* nothing.  The code loses a mention then, because extractMentions leaves   *)
(* the provider out and the resolved identity matches no candidate.          *)
MappingUsedDuringOutage ==
    \A w \in Inbox : \A p \in Recipients(w) \cap known[w] :
        \E row \in rows : row.key.who = p /\ \E R \in SUBSET Entitled(w, p) :
            row.key = DeliveryKey(Decode(w), p, R)

(* But no more than the mention: by an ID whoever has a mapping is found for *)
(* all other reasons, in whatever order GitLab fails and other identities of *)
(* the person are resolved beside this one.                                  *)
OutageCostsMentionsOnly ==
    \A w \in Inbox : \A p \in (Recipients(w) \cap known[w]) \ Large :
        LET sure == Entitled(w, p) \ {"mention"} IN
        sure # {} =>
            \E R \in SUBSET Entitled(w, p) : /\ sure \subseteq R
                                            /\ \E row \in rows : row.key = DeliveryKey(Decode(w), p, R)

(* docs/ARCHITECTURE.md:196 "A `delivery_key` is derived from the event,     *)
(* normalized email, and reason group": another event has another key, so it *)
(* is announced by a row of its own.  A key with a mention in it is derived  *)
(* from the merge request or issue instead.                                  *)
EachEventHasItsRow ==
    \A w \in Inbox : \A p \in Recipients(w) \cap asked[w] :
        \E row \in rows : row.hook = w /\ row.key.who = p
=============================================================================
