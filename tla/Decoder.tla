------------------------------ MODULE Decoder ------------------------------
(***************************************************************************)
(* From a GitLab webhook to the event the router works on.  A payload names *)
(* people in several places and as completely as it likes: an object with   *)
(* ID, username and perhaps an email, a bare ID, a username in a text.      *)
(*                                                                         *)
(* An identity records which fields are known about whom; the fields of     *)
(* every person are their own, so that comparing a field compares persons.  *)
(* Only an ID may be known in two forms, as GitLab prints it and as the     *)
(* decoder does, which tell persons apart just as well.                     *)
(***************************************************************************)
EXTENDS Integers, Sequences, FiniteSets

CONSTANTS
    People,
    Public,         \* people whose email payloads show
    Large,          \* people whose ID is 10^6 or more
    TextLimit       \* how much of a text is read

Kinds == {"pipeline", "merge_request", "note", "issue"}

Identity ==
    [who : People, provider : BOOLEAN, id : {"none", "digits", "exponent"}, name : BOOLEAN,
     email : BOOLEAN]

(* The parts of a webhook.  Where a list of identities falls back to another *)
(* one, both hold references: a user object or a bare ID.  At most one       *)
(* person is author, assignee or committer.                                  *)
Ref == [who : People, bare : BOOLEAN]

Details == [
    author    : SUBSET Ref,     \* "author"
    author_id : SUBSET People,  \* "author_id"
    reviewers : SUBSET Ref,
    assignees : SUBSET Ref,
    assignee  : SUBSET Ref]

Change == [field : STRING, previous : SUBSET Ref, current : SUBSET Ref]

Nothing == [author |-> {}, author_id |-> {}, reviewers |-> {}, assignees |-> {}, assignee |-> {}]

Webhooks == [
    ids         : Seq(STRING),          \* the headers a key is taken from, "" where absent
    body        : STRING,
    header      : Kinds \cup {"system"},
    object_kind : STRING,
    action      : STRING,
    status      : STRING,
    user        : People,
    attributes  : Details,              \* object_attributes
    nested      : Details,              \* merge_request or issue beside them
    top         : Details,              \* the payload itself
    commit      : SUBSET People,        \* whose usable email the commit shows
    changes     : SUBSET Change,
    title       : Seq(People \cup {"tick"}),
    text        : Seq(People \cup {"tick"}),
    system      : BOOLEAN,
    on          : {"merge_request", "issue", "nothing"},
    note        : STRING,
    iid         : STRING]

-----------------------------------------------------------------------------
(* eventKind: a system hook, or a header nobody knows, leaves it to the body. *)
Kind(w) ==
    IF w.header \in Kinds THEN w.header
    ELSE IF w.object_kind = "work_item" THEN "issue" ELSE w.object_kind

Ignored(w) == Kind(w) \notin Kinds

(* eventKey: the first header there is, else the body's digest. *)
EventKey(w) ==
    LET present == {n \in DOMAIN w.ids : w.ids[n] # ""} IN
    IF present = {} THEN <<"body", w.body>>
    ELSE <<"header", w.ids[CHOOSE n \in present : \A m \in present : n <= m]>>

(* stringValue: JSON numbers are floats and printed with %g, a large one with *)
(* an exponent.                                                              *)
Printed(p) == IF p \in Large THEN "exponent" ELSE "digits"

(* identityFromMap: an object without a usable email has none. *)
Person(p) == [who |-> p, provider |-> TRUE, id |-> Printed(p), name |-> TRUE, email |-> p \in Public]

WithId(p) == [who |-> p, provider |-> TRUE, id |-> Printed(p), name |-> FALSE, email |-> FALSE]

WithEmail(p) == [who |-> p, provider |-> TRUE, id |-> "none", name |-> FALSE, email |-> TRUE]

Mentioned(p) == [who |-> p, provider |-> FALSE, id |-> "none", name |-> TRUE, email |-> FALSE]

(* identitiesFrom *)
IdentitiesFrom(refs) == {IF r.bare THEN WithId(r.who) ELSE Person(r.who) : r \in refs}

Else(refs, fallback) == IF refs # {} THEN refs ELSE fallback

(* Mutant of Author: only objects are looked at. *)
AuthorObject(data, top) == IdentitiesFrom(Else(data.author, top.author))

(* mergeRequestDetails and issueDetails: the object itself, the payload      *)
(* around it, and for the author at last a bare ID.                          *)
Author(data, top) ==
    LET objects == IdentitiesFrom(Else(data.author, top.author))
    IN  Else(objects, {WithId(p) : p \in data.author_id})

Reviewers(data, top) == IdentitiesFrom(Else(data.reviewers, top.reviewers))

MergeRequestAssignees(data, top) ==
    IdentitiesFrom(Else(data.assignees, Else(top.assignees, top.assignee)))

IssueAssignees(data) == IdentitiesFrom(Else(data.assignees, data.assignee))

(* The merge request or issue an event is about. *)
Object(w) ==
    IF Kind(w) = "note" \/ (Kind(w) = "issue" /\ w.nested # Nothing)
    THEN w.nested ELSE w.attributes

IsMergeRequest(w) == Kind(w) = "merge_request" \/ (Kind(w) = "note" /\ w.on = "merge_request")
IsIssue(w) == Kind(w) = "issue" \/ (Kind(w) = "note" /\ w.on = "issue")

-----------------------------------------------------------------------------
(* parseChanges: two spellings of the same list, and fields of one value. *)
Lists == [reviewers |-> {"reviewer_ids", "reviewers"}, assignees |-> {"assignee_ids", "assignees"}]

IsList(c) == c.field \in Lists.reviewers \cup Lists.assignees

(* Mutant of Added: whoever is on the list counts as new. *)
AddedAll(c) == IdentitiesFrom(c.current)

(* identityDiff: identities are told apart by their IDs. *)
Added(c) == {i \in IdentitiesFrom(c.current) : \A r \in c.previous : r.who # i.who}

(* extractMentions: what is left of a text outside of code.  A span of code  *)
(* whose end was cut off is not recognised as one.                           *)
Read(text) == SubSeq(text, 1, IF Len(text) <= TextLimit THEN Len(text) ELSE TextLimit)

Ticks(text, n) == Cardinality({m \in 1 .. n : text[m] = "tick"})

IsCode(text, n) ==
    /\ Ticks(text, n) % 2 = 1
    /\ Ticks(text, n) < Ticks(text, Len(text))

MentionsIn(text) ==
    {text[n] : n \in {m \in DOMAIN text : text[m] \in People /\ ~IsCode(text, m)}}

Mentions(w) ==
    CASE Kind(w) = "note" -> MentionsIn(Read(w.text))
      [] Kind(w) \in {"merge_request", "issue"} -> MentionsIn(w.title) \cup MentionsIn(Read(w.text))
      [] OTHER -> {}

-----------------------------------------------------------------------------
Decode(w) ==
    LET kind == Kind(w)
        data == Object(w) IN
    [key       |-> EventKey(w),
     kind      |-> kind,
     action    |-> w.action,
     status    |-> w.status,
     actor     |-> Person(w.user),
     author    |-> IF kind = "pipeline" THEN {WithEmail(p) : p \in w.commit}
                   ELSE IF IsMergeRequest(w) \/ IsIssue(w) THEN Author(data, w.top) ELSE {},
     reviewers |-> IF IsMergeRequest(w) THEN Reviewers(data, w.top) ELSE {},
     assignees |-> IF IsMergeRequest(w) THEN MergeRequestAssignees(data, w.top)
                   ELSE IF IsIssue(w) THEN IssueAssignees(data) ELSE {},
     changes   |-> {[field |-> c.field, added |-> IF IsList(c) THEN Added(c) ELSE {}] : c \in w.changes},
     mentions  |-> {Mentioned(p) : p \in Mentions(w)},
     system    |-> w.system,
     on        |-> w.on,
     note      |-> w.note,
     iid       |-> w.iid]
=============================================================================
