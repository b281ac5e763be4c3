--------------------------- MODULE RoutingProofs ---------------------------
(***************************************************************************)
(* Proofs about Routing, for every set of webhooks whose payloads agree,    *)
(* every identities table, all preferences and any answers of GitLab.       *)
(***************************************************************************)
EXTENDS Routing, TLAPS, WellFoundedInduction

(* An identity that can be compared with the actor's as soon as its email is *)
(* known.  Only a commit's author is an email without ID and username, and   *)
(* only a large ID has an exponent.                                          *)
Recognisable(i) ==
    /\ i.id # "none" \/ i.name
    /\ i.id # "none" \/ i.email => i.provider
    /\ i.id = "exponent" => i.who \in Large

(* Identities of people in P. *)
AreOf(S, P) == \A i \in S : i \in Identity /\ Recognisable(i) /\ i.who \in P

(* A candidate the webhook is a reason for. *)
IsCandidate(w, c) ==
    /\ c.of \in Identity
    /\ Kind(w) # "pipeline" => Recognisable(c.of)
    /\ c.reason \in Reasons
    /\ c.of.who \in Concerned(w, c.reason)
    /\ c.at \in Nat

-----------------------------------------------------------------------------
(* Reading a payload. *)

LEMMA ObjectIsDetails ==
  ASSUME NEW w \in Webhooks
  PROVE  Object(w) \in Details /\ w.top \in Details
BY DEF Webhooks, Object

LEMMA ReferencesAreRecognisable ==
  ASSUME NEW refs \in SUBSET Ref
  PROVE  AreOf(IdentitiesFrom(refs), Whose(refs))
<1> SUFFICES ASSUME NEW r \in refs,
                    NEW i, i = IF r.bare THEN WithId(r.who) ELSE Person(r.who)
             PROVE  i \in Identity /\ Recognisable(i) /\ i.who = r.who
  BY DEF AreOf, IdentitiesFrom, Whose
<1>1. r.who \in People
  BY DEF Ref
<1> QED
  BY <1>1 DEF WithId, Person, Printed, Identity, Recognisable

LEMMA FallbackIsAmong ==
  ASSUME NEW A, NEW B
  PROVE  Else(A, B) \subseteq A \cup B
BY DEF Else

LEMMA OfMore ==
  ASSUME NEW S, NEW P, NEW Q, AreOf(S, P), P \subseteq Q
  PROVE  AreOf(S, Q)
BY DEF AreOf

LEMMA AuthorsAreOf ==
  ASSUME NEW w \in Webhooks
  PROVE  AreOf(Author(Object(w), w.top), AuthorsIn(w))
<1> DEFINE refs    == Else(Object(w).author, w.top.author)
           objects == IdentitiesFrom(refs)
           bare    == {WithId(p) : p \in Object(w).author_id}
<1>1. refs \subseteq Object(w).author \cup w.top.author
  BY FallbackIsAmong
<1>2. refs \subseteq Ref /\ Object(w).author_id \subseteq People
  BY <1>1, ObjectIsDetails DEF Details
<1>3. AreOf(objects, Whose(refs))
  BY <1>2, ReferencesAreRecognisable
<1>4. Whose(refs) \subseteq AuthorsIn(w)
  BY <1>1 DEF Whose, AuthorsIn
<1>5. AreOf(objects, AuthorsIn(w))
  BY <1>3, <1>4, OfMore
<1>6. AreOf(bare, AuthorsIn(w))
  <2>1. \A p \in Object(w).author_id : WithId(p) \in Identity /\ Recognisable(WithId(p))
    BY <1>2 DEF WithId, Printed, Identity, Recognisable
  <2>2. \A p \in Object(w).author_id : WithId(p).who \in AuthorsIn(w)
    BY DEF WithId, AuthorsIn
  <2> QED
    BY <2>1, <2>2 DEF AreOf
<1> QED
  BY <1>5, <1>6, FallbackIsAmong DEF Author, AreOf

LEMMA ReviewersAreOf ==
  ASSUME NEW w \in Webhooks
  PROVE  AreOf(Reviewers(Object(w), w.top), ReviewersIn(w))
<1> DEFINE refs == Else(Object(w).reviewers, w.top.reviewers)
<1>1. refs \subseteq Object(w).reviewers \cup w.top.reviewers
  BY FallbackIsAmong
<1>2. refs \subseteq Ref
  BY <1>1, ObjectIsDetails DEF Details
<1>3. Whose(refs) \subseteq ReviewersIn(w)
  BY <1>1 DEF Whose, ReviewersIn
<1> QED
  BY <1>2, <1>3, ReferencesAreRecognisable, OfMore DEF Reviewers

LEMMA AssigneesAreOf ==
  ASSUME NEW w \in Webhooks
  PROVE  /\ ~IsIssue(w) => AreOf(MergeRequestAssignees(Object(w), w.top), AssigneesIn(w))
         /\ IsIssue(w) => AreOf(IssueAssignees(Object(w)), AssigneesIn(w))
<1> DEFINE d     == Object(w)
           outer == Else(w.top.assignees, w.top.assignee)
           refs  == Else(d.assignees, outer)
           own   == Else(d.assignees, d.assignee)
<1>1. refs \subseteq d.assignees \cup w.top.assignees \cup w.top.assignee
  BY FallbackIsAmong, outer \subseteq w.top.assignees \cup w.top.assignee
<1>2. own \subseteq d.assignees \cup d.assignee
  BY FallbackIsAmong
<1>3. refs \subseteq Ref /\ own \subseteq Ref
  BY <1>1, <1>2, ObjectIsDetails DEF Details
<1>4. /\ AreOf(IdentitiesFrom(refs), Whose(refs))
      /\ AreOf(IdentitiesFrom(own), Whose(own))
  BY <1>3, ReferencesAreRecognisable
<1>5. ~IsIssue(w) => Whose(refs) \subseteq AssigneesIn(w)
  BY <1>1 DEF Whose, AssigneesIn
<1>6. IsIssue(w) => Whose(own) \subseteq AssigneesIn(w)
  BY <1>2 DEF Whose, AssigneesIn
<1> QED
  BY <1>4, <1>5, <1>6, OfMore DEF MergeRequestAssignees, IssueAssignees

(* Whoever is new in a list is new among the people. *)
LEMMA AddedAreNew ==
  ASSUME NEW w \in Webhooks, NEW c \in w.changes, NEW fields, c.field \in fields
  PROVE  AreOf(Added(c), NewIn(w, fields))
<1>1. c \in Change
  BY DEF Webhooks
<1>2. AreOf(IdentitiesFrom(c.current), Whose(c.current))
  BY <1>1, ReferencesAreRecognisable DEF Change
<1>3. Whose(c.current) \ Whose(c.previous) \subseteq NewIn(w, fields)
  BY DEF NewIn
<1> QED
  BY <1>2, <1>3 DEF AreOf, Added, Whose

LEMMA MentionsAreOf ==
  ASSUME NEW w \in Inbox, Kind(w) \in Kinds \ {"pipeline"}
  PROVE  Mentions(w) \subseteq MentionedIn(w) /\ Mentions(w) \subseteq People
<1> DEFINE text == w.text
           part == Read(text)
<1>1. w \in Webhooks /\ TextLimit \in Nat
  BY RoutingAssumption
<1>2. text \in Seq(People \cup {"tick"})
  BY <1>1 DEF Webhooks
<1>3. /\ DOMAIN part = Within(text)
      /\ \A n \in DOMAIN part : n \in DOMAIN text /\ n <= TextLimit /\ part[n] = text[n]
  BY <1>1, <1>2 DEF Read, Within
<1>4. \A n \in DOMAIN text : n <= TextLimit => IsCode(text, n) = IsCode(part, n)
  BY PayloadsAgree
<1>5. MentionsIn(part) \subseteq MentionedIn(w)
  BY <1>3, <1>4 DEF MentionsIn, MentionedIn
<1>6. Kind(w) # "note" => MentionsIn(w.title) \subseteq MentionedIn(w)
  BY DEF MentionedIn, When
<1>7. MentionsIn(part) \subseteq People /\ MentionsIn(w.title) \subseteq People
  BY DEF MentionsIn
<1> QED
  BY <1>5, <1>6, <1>7 DEF Mentions, Kinds

LEMMA DecodedFields ==
  ASSUME NEW w
  PROVE  /\ Decode(w).key = EventKey(w)
         /\ Decode(w).kind = Kind(w)
         /\ Decode(w).action = w.action
         /\ Decode(w).status = w.status
         /\ Decode(w).actor = Person(w.user)
         /\ Decode(w).system = w.system
         /\ Decode(w).on = w.on
         /\ Decode(w).changes =
               {[field |-> c.field, added |-> IF IsList(c) THEN Added(c) ELSE {}] : c \in w.changes}
         /\ Decode(w).mentions = {Mentioned(p) : p \in Mentions(w)}
BY DEF Decode

LEMMA ActorIsOf ==
  ASSUME NEW w \in Webhooks
  PROVE  AreOf({Decode(w).actor}, {w.user})
<1>1. w.user \in People
  BY DEF Webhooks
<1>2. Person(w.user) \in Identity /\ Recognisable(Person(w.user)) /\ Person(w.user).who = w.user
  BY <1>1 DEF Person, Printed, Identity, Recognisable
<1> QED
  BY <1>2, DecodedFields DEF AreOf

(* Outside of pipelines the people of an event are those its payload names. *)
LEMMA EventIsOf ==
  ASSUME NEW w \in Inbox, Kind(w) \in Kinds \ {"pipeline"}
  PROVE  /\ AreOf(Decode(w).author, AuthorsIn(w))
         /\ AreOf(Decode(w).reviewers, ReviewersIn(w))
         /\ AreOf(Decode(w).assignees, AssigneesIn(w))
         /\ AreOf(Decode(w).mentions, MentionedIn(w))
<1>1. w \in Webhooks
  BY RoutingAssumption
<1>2. \A P : AreOf({}, P)
  BY DEF AreOf
<1>3. IsMergeRequest(w) => ~IsIssue(w)
  BY DEF IsMergeRequest, IsIssue
<1>4. AreOf(Decode(w).author, AuthorsIn(w))
  <2>1. Decode(w).author =
           IF IsMergeRequest(w) \/ IsIssue(w) THEN Author(Object(w), w.top) ELSE {}
    BY DEF Decode
  <2> QED
    BY <1>1, <1>2, <2>1, AuthorsAreOf
<1>5. AreOf(Decode(w).reviewers, ReviewersIn(w))
  <2>1. Decode(w).reviewers = IF IsMergeRequest(w) THEN Reviewers(Object(w), w.top) ELSE {}
    BY DEF Decode
  <2> QED
    BY <1>1, <1>2, <2>1, ReviewersAreOf
<1>6. AreOf(Decode(w).assignees, AssigneesIn(w))
  <2>1. Decode(w).assignees =
           IF IsMergeRequest(w) THEN MergeRequestAssignees(Object(w), w.top)
           ELSE IF IsIssue(w) THEN IssueAssignees(Object(w)) ELSE {}
    BY DEF Decode
  <2> QED
    BY <1>1, <1>2, <1>3, <2>1, AssigneesAreOf
<1>7. AreOf(Decode(w).mentions, MentionedIn(w))
  <2>1. \A p \in People : Mentioned(p) \in Identity /\ Recognisable(Mentioned(p)) /\ Mentioned(p).who = p
    BY DEF Mentioned, Identity, Recognisable
  <2> QED
    BY <2>1, MentionsAreOf, DecodedFields DEF AreOf
<1> QED
  BY <1>4, <1>5, <1>6, <1>7

LEMMA ChangesAreOf ==
  ASSUME NEW w \in Inbox, NEW c \in Decode(w).changes, NEW fields, c.field \in fields
  PROVE  /\ AreOf(c.added, NewIn(w, fields))
         /\ Changed(w, fields)
<1>1. w \in Webhooks
  BY RoutingAssumption
<1> DEFINE Decoded(d) == [field |-> d.field, added |-> IF IsList(d) THEN Added(d) ELSE {}]
<1> HIDE DEF Decoded
<1>2. PICK d \in w.changes : c = Decoded(d)
  <2>1. Decode(w).changes = {Decoded(d) : d \in w.changes}
    BY DecodedFields DEF Decoded
  <2> QED
    BY <2>1
<1>3. c.field = d.field /\ c.added = IF IsList(d) THEN Added(d) ELSE {}
  BY <1>2 DEF Decoded
<1>4. AreOf(Added(d), NewIn(w, fields)) /\ AreOf({}, NewIn(w, fields))
  BY <1>1, <1>3, AddedAreNew DEF AreOf
<1> QED
  BY <1>3, <1>4 DEF Changed

-----------------------------------------------------------------------------
(* Candidates. *)

LEMMA EnrichedKeepsPerson ==
  ASSUME NEW i \in Identity, NEW found
  PROVE  /\ Enriched(i, found) \in Identity
         /\ Enriched(i, found).who = i.who
         /\ Recognisable(i) => Recognisable(Enriched(i, found))
BY DEF Enriched, Identity, Recognisable

LEMMA EnrichIsOf ==
  ASSUME NEW S, NEW P, AreOf(S, P), NEW found
  PROVE  AreOf(Enrich(S, found), P)
BY EnrichedKeepsPerson DEF AreOf, Enrich

LEMMA ResolvedKeepsPerson ==
  ASSUME NEW i \in Identity, NEW table
  PROVE  /\ Resolved(i, table) \in Identity
         /\ Resolved(i, table).who = i.who
         /\ Recognisable(i) => Recognisable(Resolved(i, table))
BY DEF Resolved, Identity, Recognisable

LEMMA OrderIsNat ==
  /\ AtLast \in Nat
  /\ \A f \in MRTexts \cup {"state"} \cup Lists.reviewers \cup Lists.assignees :
        At(f) \in Nat /\ At(f) + 1 \in Nat
<1>1. /\ DOMAIN Fields = 1 .. 10
      /\ Len(Fields) = 10
      /\ Fields[1] = "assignee_ids" /\ Fields[2] = "assignees" /\ Fields[3] = "description"
      /\ Fields[4] = "draft" /\ Fields[5] = "reviewer_ids" /\ Fields[6] = "reviewers"
      /\ Fields[7] = "source_branch" /\ Fields[8] = "state" /\ Fields[9] = "target_branch"
      /\ Fields[10] = "title"
  BY DEF Fields
<1>2. \A f \in MRTexts \cup {"state"} \cup Lists.reviewers \cup Lists.assignees :
         \E n \in 1 .. 10 : Fields[n] = f
  BY <1>1 DEF MRTexts, Lists
<1>3. \A f : (\E n \in 1 .. 10 : Fields[n] = f)
         => (CHOOSE n \in DOMAIN Fields : Fields[n] = f) \in 1 .. 10
  BY <1>1
<1> QED
  BY <1>1, <1>2, <1>3 DEF At, AtLast

AreFor(w, C) == \A c \in C : IsCandidate(w, c)

LEMMA ForIsFor ==
  ASSUME NEW w, NEW S, NEW reason \in Reasons, NEW at \in Nat, AreOf(S, Concerned(w, reason))
  PROVE  AreFor(w, For(S, reason, at))
BY DEF AreOf, AreFor, For, IsCandidate

LEMMA WhenIsFor ==
  ASSUME NEW w, NEW P, NEW C, P => AreFor(w, C)
  PROVE  AreFor(w, When(P, C))
BY DEF AreFor, When

LEMMA MergeRequestCandidatesAreFor ==
  ASSUME NEW w \in Inbox, NEW found, Kind(w) = "merge_request"
  PROVE  AreFor(w, MergeRequestCandidates(Decode(w), found))
<1> DEFINE e         == Decode(w)
           author    == Enrich(e.author, found)
           reviewers == Enrich(e.reviewers, found)
           assignees == Enrich(e.assignees, found)
<1>1. /\ AreOf(author, AuthorsIn(w))
      /\ AreOf(reviewers, ReviewersIn(w))
      /\ AreOf(assignees, AssigneesIn(w))
  BY EventIsOf, EnrichIsOf DEF Kinds
<1>2. e.action = w.action
  BY DecodedFields
<1>3. w.action = "open" => /\ AreFor(w, For(reviewers, "mr_review_requested", 0))
                           /\ AreFor(w, For(assignees, "mr_assigned", 1))
  <2> SUFFICES ASSUME w.action = "open"
               PROVE  /\ AreFor(w, For(reviewers, "mr_review_requested", 0))
                      /\ AreFor(w, For(assignees, "mr_assigned", 1))
    OBVIOUS
  <2>1. /\ ReviewersIn(w) \subseteq Concerned(w, "mr_review_requested")
        /\ AssigneesIn(w) \subseteq Concerned(w, "mr_assigned")
    BY DEF Concerned, When
  <2>2. /\ AreOf(reviewers, Concerned(w, "mr_review_requested"))
        /\ AreOf(assignees, Concerned(w, "mr_assigned"))
    BY <1>1, <2>1, OfMore
  <2> QED
    BY <2>2, ForIsFor DEF Reasons, MRReasons
<1>4. ASSUME w.action = "update", NEW c \in e.changes
      PROVE  /\ c.field \in Lists.reviewers => AreFor(w, For(c.added, "mr_review_requested", At(c.field)))
             /\ c.field \in Lists.assignees => AreFor(w, For(c.added, "mr_assigned", At(c.field)))
             /\ c.field \in MRTexts => AreFor(w, For(author, "mr_updated", At(c.field)))
             /\ c.field \in MRStates => AreFor(w, For(reviewers, "mr_state_changed", At(c.field) + 1))
  <2>1. MRStates \subseteq MRTexts
    BY DEF MRStates, MRTexts
  <2>2. CASE c.field \in Lists.reviewers
    <3>1. AreOf(c.added, NewIn(w, Lists.reviewers))
      BY <2>2, ChangesAreOf
    <3>2. NewIn(w, Lists.reviewers) \subseteq Concerned(w, "mr_review_requested")
      BY <1>4 DEF Concerned, When
    <3>3. AreOf(c.added, Concerned(w, "mr_review_requested"))
      BY <3>1, <3>2, OfMore
    <3>4. AreFor(w, For(c.added, "mr_review_requested", At(c.field)))
      BY <2>2, <3>3, OrderIsNat, ForIsFor DEF Reasons, MRReasons
    <3>5. c.field \notin Lists.assignees \cup MRTexts
      BY <2>2 DEF Lists, MRTexts
    <3> QED
      BY <2>1, <3>4, <3>5
  <2>3. CASE c.field \in Lists.assignees
    <3>1. AreOf(c.added, NewIn(w, Lists.assignees))
      BY <2>3, ChangesAreOf
    <3>2. NewIn(w, Lists.assignees) \subseteq Concerned(w, "mr_assigned")
      BY <1>4 DEF Concerned, When
    <3>3. AreOf(c.added, Concerned(w, "mr_assigned"))
      BY <3>1, <3>2, OfMore
    <3>4. AreFor(w, For(c.added, "mr_assigned", At(c.field)))
      BY <2>3, <3>3, OrderIsNat, ForIsFor DEF Reasons, MRReasons
    <3>5. c.field \notin Lists.reviewers \cup MRTexts
      BY <2>3 DEF Lists, MRTexts
    <3> QED
      BY <2>1, <3>4, <3>5
  <2>4. CASE c.field \in MRTexts
    <3>1. AuthorsIn(w) \subseteq Concerned(w, "mr_updated")
      BY <1>4, <2>4, ChangesAreOf DEF Concerned, When
    <3>2. AreFor(w, For(author, "mr_updated", At(c.field)))
      BY <1>1, <2>4, <3>1, OfMore, OrderIsNat, ForIsFor DEF Reasons, MRReasons
    <3>3. ASSUME c.field \in MRStates
          PROVE  AreFor(w, For(reviewers, "mr_state_changed", At(c.field) + 1))
      <4>1. Changed(w, MRStates)
        BY <3>3, ChangesAreOf
      <4>2. ReviewersIn(w) \subseteq Concerned(w, "mr_state_changed")
        BY <1>4, <4>1 DEF Concerned, When
      <4> QED
        BY <1>1, <2>4, <4>2, OfMore, OrderIsNat, ForIsFor DEF Reasons, MRReasons
    <3>4. c.field \notin Lists.reviewers \cup Lists.assignees
      BY <2>4 DEF Lists, MRTexts
    <3> QED
      BY <3>2, <3>3, <3>4
  <2> QED
    BY <2>1, <2>2, <2>3, <2>4
<1>5. w.action \in Approvals => AreFor(w, For(author, "mr_approved", 0))
  <2>1. w.action \in Approvals => AuthorsIn(w) \subseteq Concerned(w, "mr_approved")
    BY DEF Concerned, When
  <2> QED
    BY <1>1, <2>1, OfMore, ForIsFor DEF Reasons, MRReasons
<1>6. w.action \in Ends => AreFor(w, For(author, "mr_state_changed", 0))
  <2>1. w.action \in Ends => AuthorsIn(w) \subseteq Concerned(w, "mr_state_changed")
    BY DEF Concerned, When
  <2> QED
    BY <1>1, <2>1, OfMore, ForIsFor DEF Reasons, MRReasons
<1> QED
  BY <1>2, <1>3, <1>4, <1>5, <1>6 DEF MergeRequestCandidates, AreFor, When

LEMMA NoteCandidatesAreFor ==
  ASSUME NEW w \in Inbox, NEW found, Kind(w) = "note", ~w.system
  PROVE  AreFor(w, NoteCandidates(Decode(w), found))
<1> DEFINE e      == Decode(w)
           actor  == Enriched(e.actor, found)
           others == {i \in Enrich(e.author, found) : ~SameIdentity(actor, i)}
<1>1. AreOf(others, AuthorsIn(w))
  BY EventIsOf, EnrichIsOf DEF Kinds, AreOf
<1>2. e.on = w.on
  BY DecodedFields
<1>3. w.on = "merge_request" => AuthorsIn(w) \subseteq Concerned(w, "mr_comment")
  BY DEF Concerned, When
<1>4. w.on = "issue" => AuthorsIn(w) \subseteq Concerned(w, "issue_updated")
  BY DEF Concerned, When
<1>5. w.on = "merge_request" => AreFor(w, For(others, "mr_comment", 0))
  BY <1>1, <1>3, OfMore, ForIsFor DEF Reasons, MRReasons
<1>6. w.on = "issue" => AreFor(w, For(others, "issue_updated", 0))
  BY <1>1, <1>4, OfMore, ForIsFor DEF Reasons, MRReasons
<1> QED
  BY <1>2, <1>5, <1>6 DEF NoteCandidates, AreFor, When

LEMMA IssueCandidatesAreFor ==
  ASSUME NEW w \in Inbox, NEW found, Kind(w) = "issue"
  PROVE  AreFor(w, IssueCandidates(Decode(w), found))
<1> DEFINE e         == Decode(w)
           author    == Enrich(e.author, found)
           assignees == Enrich(e.assignees, found)
           texts     == {"title", "description", "state"}
<1>1. AreOf(author, AuthorsIn(w)) /\ AreOf(assignees, AssigneesIn(w))
  BY EventIsOf, EnrichIsOf DEF Kinds
<1>2. e.action = w.action
  BY DecodedFields
<1>3. w.action = "open" => AreFor(w, For(assignees, "issue_assigned", 0))
  <2>1. w.action = "open" => AssigneesIn(w) \subseteq Concerned(w, "issue_assigned")
    BY DEF Concerned, When
  <2> QED
    BY <1>1, <2>1, OfMore, ForIsFor DEF Reasons
<1>4. ASSUME w.action = "update", NEW c \in e.changes
      PROVE  /\ c.field \in Lists.assignees => AreFor(w, For(c.added, "issue_assigned", At(c.field)))
             /\ c.field \in texts => AreFor(w, For(author, "issue_updated", At(c.field)))
  <2>1. CASE c.field \in Lists.assignees
    <3>1. AreOf(c.added, NewIn(w, Lists.assignees))
      BY <2>1, ChangesAreOf
    <3>2. NewIn(w, Lists.assignees) \subseteq Concerned(w, "issue_assigned")
      BY <1>4 DEF Concerned, When
    <3>3. AreOf(c.added, Concerned(w, "issue_assigned"))
      BY <3>1, <3>2, OfMore
    <3>4. c.field \notin texts
      BY <2>1 DEF Lists
    <3> QED
      BY <2>1, <3>3, <3>4, OrderIsNat, ForIsFor DEF Reasons
  <2>2. CASE c.field \in texts
    <3>1. Changed(w, texts)
      BY <2>2, ChangesAreOf
    <3>2. AuthorsIn(w) \subseteq Concerned(w, "issue_updated")
      BY <1>4, <3>1 DEF Concerned, When
    <3>3. c.field \in MRTexts \cup {"state"} /\ c.field \notin Lists.assignees
      BY <2>2 DEF MRTexts, Lists
    <3>4. AreOf(author, Concerned(w, "issue_updated"))
      BY <1>1, <3>2, OfMore
    <3> QED
      BY <3>3, <3>4, OrderIsNat, ForIsFor DEF Reasons
  <2> QED
    BY <2>1, <2>2
<1> QED
  BY <1>2, <1>3, <1>4 DEF IssueCandidates, AreFor, When

LEMMA PipelineCandidatesAreFor ==
  ASSUME NEW w \in Inbox, NEW found, Kind(w) = "pipeline"
  PROVE  AreFor(w, PipelineCandidates(Decode(w), found))
<1> DEFINE e     == Decode(w)
           actor == Enrich({e.actor}, found)
           to    == Else(e.author, actor)
<1>1. w \in Webhooks
  BY RoutingAssumption
<1>2. w.commit \subseteq People
  BY <1>1 DEF Webhooks
<1>3. e.status = w.status /\ e.author = {WithEmail(p) : p \in w.commit}
  BY DEF Decode
<1>4. AreOf(actor, {w.user})
  BY <1>1, ActorIsOf, EnrichIsOf
<1>5. \A p \in w.commit : WithEmail(p) \in Identity /\ WithEmail(p).who = p
  BY <1>2 DEF WithEmail, Identity
<1>6. \A i \in to : i \in Identity /\ i.who \in Committers(w)
  <2>1. CASE w.commit = {}
    BY <1>3, <1>4, <2>1 DEF Else, Committers, AreOf
  <2>2. CASE w.commit # {}
    BY <1>3, <1>5, <2>2 DEF Else, Committers
  <2> QED
    BY <2>1, <2>2
<1>7. w.status = "failed" => Committers(w) \subseteq Concerned(w, "ci_failed")
  BY DEF Concerned, When
<1>8. w.status = "failed" => AreFor(w, For(to, "ci_failed", 0))
  BY <1>6, <1>7 DEF For, AreFor, IsCandidate, Reasons
<1> QED
  BY <1>3, <1>8 DEF PipelineCandidates, AreFor, When

LEMMA CandidatesAreFor ==
  ASSUME NEW w \in Inbox, ~Ignored(w), NEW found
  PROVE  AreFor(w, Candidates(Decode(w), found))
<1> DEFINE e        == Decode(w)
           mentions == For(Enrich(e.mentions, found), "mention", AtLast)
<1>1. Kind(w) \in Kinds
  BY DEF Ignored
<1>2. e.kind = Kind(w) /\ e.system = w.system
  BY DecodedFields
<1>3. ~(Kind(w) = "note" /\ w.system) => AreFor(w, mentions)
  <2>1. CASE Kind(w) = "pipeline"
    <3>1. Enrich(e.mentions, found) = {}
      BY <2>1, DecodedFields DEF Mentions, Enrich
    <3> QED
      BY <3>1 DEF For, AreFor
  <2>2. CASE Kind(w) # "pipeline" /\ ~(Kind(w) = "note" /\ w.system)
    <3>1. AreOf(Enrich(e.mentions, found), MentionedIn(w))
      BY <1>1, <2>2, EventIsOf, EnrichIsOf
    <3>2. MentionedIn(w) \subseteq Concerned(w, "mention")
      BY <1>1, <2>2 DEF Concerned, When
    <3> QED
      BY <3>1, <3>2, OfMore, OrderIsNat, ForIsFor DEF Reasons
  <2> QED
    BY <2>1, <2>2
<1>4. /\ Kind(w) = "pipeline" => AreFor(w, PipelineCandidates(e, found))
      /\ Kind(w) = "merge_request" => AreFor(w, MergeRequestCandidates(e, found))
      /\ Kind(w) = "note" /\ ~w.system => AreFor(w, NoteCandidates(e, found))
      /\ Kind(w) = "issue" => AreFor(w, IssueCandidates(e, found))
  BY PipelineCandidatesAreFor, MergeRequestCandidatesAreFor, NoteCandidatesAreFor,
     IssueCandidatesAreFor
<1> QED
  BY <1>2, <1>3, <1>4 DEF Candidates, AreFor, When

-----------------------------------------------------------------------------
(* Which candidates a resolved identity is matched to. *)

LEMMA EarliestExists ==
  ASSUME NEW T \in SUBSET Nat, T # {}
  PROVE  \E m \in T : \A n \in T : m <= n
<1>1. PICK m \in T : \A n \in T : ~(<<n, m>> \in OpToRel(<, Nat))
  BY NatLessThanWellFounded, WFMin
<1>2. \A n \in T : ~(n < m)
  BY <1>1 DEF OpToRel
<1> QED
  BY <1>2

LEMMA FirstIsOneOfThem ==
  ASSUME NEW C, \A c \in C : c.at \in Nat, NEW k \in Keys(C)
  PROVE  \E c \in WithKey(C, k) : First(C, k) = c.of
<1> DEFINE W == WithKey(C, k)
           T == {c.at : c \in W}
<1>1. W \subseteq C /\ W # {}
  BY DEF Keys, WithKey
<1>2. PICK m \in T : \A n \in T : m <= n
  <2>1. T \in SUBSET Nat /\ T # {}
    BY <1>1
  <2> QED
    BY <2>1, EarliestExists
<1>3. PICK c \in W : c.at = m
  BY <1>2
<1>4. \A d \in W : c.at <= d.at
  BY <1>2, <1>3
<1>5. (CHOOSE x \in W : \A d \in W : x.at <= d.at) \in W
  BY <1>4
<1> QED
  BY <1>5 DEF First

LEMMA KeysTellPeople ==
  ASSUME NEW i, NEW j, CandidateKey(i) = CandidateKey(j)
  PROVE  i.who = j.who
BY DEF CandidateKey

LEMMA SameIsSamePerson ==
  ASSUME NEW i, NEW j, SameIdentity(i, j)
  PROVE  i.who = j.who
BY DEF SameIdentity

(* No match hands anybody the reasons of another person. *)
LEMMA MatchesAreThePerson ==
  ASSUME NEW C, \A c \in C : c.at \in Nat, NEW i, NEW k \in MatchingKeys(C, i),
         NEW c \in WithKey(C, k)
  PROVE  c.of.who = i.who
<1>1. CandidateKey(c.of) = k
  BY DEF WithKey
<1>2. CASE CandidateKey(i) \in Keys(C)
  BY <1>1, <1>2, KeysTellPeople DEF MatchingKeys
<1>3. CASE CandidateKey(i) \notin Keys(C)
  <2>1. k \in Keys(C) /\ SameIdentity(First(C, k), i)
    BY <1>3 DEF MatchingKeys
  <2>2. PICK d \in WithKey(C, k) : First(C, k) = d.of
    BY <2>1, FirstIsOneOfThem
  <2>3. d.of.who = i.who
    BY <2>1, <2>2, SameIsSamePerson
  <2>4. CandidateKey(d.of) = k
    BY DEF WithKey
  <2> QED
    BY <1>1, <2>3, <2>4, KeysTellPeople
<1> QED
  BY <1>2, <1>3

(* An identity with an email is recognised as the actor's, however little is *)
(* known of the actor.                                                       *)
LEMMA ActorIsRecognised ==
  ASSUME NEW w \in Webhooks, NEW found, NEW i \in Identity, Recognisable(i), i.email, i.who = w.user,
         w.user \notin Large
  PROVE  SameIdentity(Enriched(Decode(w).actor, found), i)
<1> DEFINE a == Enriched(Decode(w).actor, found)
<1>1. a.who = w.user /\ a.provider = TRUE /\ a.id = "digits" /\ a.name = TRUE /\ a.email \in BOOLEAN
  <2> DEFINE p == Person(w.user)
  <2>1. p.who = w.user /\ p.provider = TRUE /\ p.id = "digits" /\ p.name = TRUE /\ p.email \in BOOLEAN
    BY DEF Person, Printed
  <2>2. a = Enriched(p, found)
    BY DecodedFields
  <2> HIDE DEF p, a
  <2>3. CASE p.email \/ Question(p) \notin found
    <3>1. a = p
      BY <2>2, <2>3 DEF Enriched
    <3> QED
      BY <2>1, <3>1
  <2>4. CASE ~(p.email \/ Question(p) \notin found)
    <3>1. a = [who |-> p.who, provider |-> TRUE, id |-> "digits", name |-> TRUE,
               email |-> p.who \in Directory]
      BY <2>1, <2>2, <2>4 DEF Enriched
    <3> QED
      BY <2>1, <3>1
  <2> QED
    BY <2>3, <2>4
<1>2. i.provider = TRUE /\ i.email = TRUE /\ i.id \in {"none", "digits"} /\ i.name \in BOOLEAN
  BY DEF Recognisable, Identity
<1>3. i.id = "digits" \/ i.name
  BY <1>2 DEF Recognisable
<1> QED
  BY <1>1, <1>2, <1>3 DEF SameIdentity

(* What may be announced to p of w. *)
MayHear(w, p, r) ==
    /\ p \in Admitted
    /\ r \in Wanted(w, p)
    /\ Kind(w) # "pipeline" /\ w.user \notin Large => p # w.user

LEMMA NoticesAreFor ==
  ASSUME NEW w \in Inbox, ~Ignored(w), NEW table, NEW found,
         NEW n \in Notices(Decode(w), table, found)
  PROVE  MayHear(w, n[1], n[2])
<1> DEFINE e     == Decode(w)
           C     == Candidates(e, found)
           actor == Enriched(e.actor, found)
           seen  == {i \in {Resolved(First(C, k), table) : k \in Keys(C)} :
                         i.email /\ i.who \in Admitted}
<1> HIDE DEF C, actor
<1>1. w \in Webhooks
  BY RoutingAssumption
<1>2. \A c \in C : IsCandidate(w, c)
  BY CandidatesAreFor DEF AreFor, C
<1>3. n \in (People \X Reasons) \ Refused
  BY DEF Notices
<1>4. PICK i \in seen : /\ i.who = n[1]
                        /\ e.kind = "pipeline" \/ ~SameIdentity(actor, i)
                        /\ \E k \in MatchingKeys(C, i) : n[2] \in ReasonsOf(C, k)
  BY DEF Notices, C, actor
<1>5. PICK k \in MatchingKeys(C, i) : n[2] \in ReasonsOf(C, k)
  BY <1>4
<1>6. PICK c \in WithKey(C, k) : n[2] = c.reason
  BY <1>5 DEF ReasonsOf
<1>7. IsCandidate(w, c) /\ \A d \in C : d.at \in Nat
  BY <1>2 DEF WithKey, IsCandidate
<1>8. n[1] \in Concerned(w, n[2])
  BY <1>4, <1>6, <1>7, MatchesAreThePerson DEF IsCandidate
<1>9. Kind(w) # "pipeline" /\ w.user \notin Large => n[1] # w.user
  <2> SUFFICES ASSUME n[1] = w.user, Kind(w) # "pipeline", w.user \notin Large PROVE FALSE
    OBVIOUS
  <2>1. PICK q \in Keys(C) : i = Resolved(First(C, q), table)
    BY <1>4
  <2>2. PICK d \in WithKey(C, q) : First(C, q) = d.of
    BY <1>7, FirstIsOneOfThem
  <2>3. d.of \in Identity /\ Recognisable(d.of)
    BY <1>2 DEF WithKey, IsCandidate
  <2>4. i \in Identity /\ Recognisable(i)
    BY <2>1, <2>2, <2>3, ResolvedKeepsPerson
  <2>5. SameIdentity(actor, i)
    BY <1>1, <1>4, <2>4, ActorIsRecognised DEF actor
  <2> QED
    BY <1>4, <2>5, DecodedFields
<1>10. n[1] \in Admitted
  BY <1>4
<1>11. <<n[1], n[2]>> = n /\ n[2] \in Reasons
  BY <1>3
<1> QED
  BY <1>3, <1>8, <1>9, <1>10, <1>11 DEF Wanted, MayHear

-----------------------------------------------------------------------------
(* The invariant. *)

Inductive ==
    /\ TypeOK
    /\ NoSelfNotification
    /\ NoticesAreEntitled

LEMMA GroupsOfNotices ==
  ASSUME NEW N, NEW g \in Grouped(N)
  PROVE  /\ g[2] # {}
         /\ \A r \in g[2] : \E n \in N : n[1] = g[1] /\ n[2] = r
<1> DEFINE Of(p) == {n[2] : n \in {x \in N : x[1] = p}}
<1>1. \A h \in Grouped(N) : \E p \in {n[1] : n \in N} : h = <<p, Of(p)>>
  BY DEF Grouped
<1>2. PICK p \in {n[1] : n \in N} : g = <<p, Of(p)>>
  BY <1>1
<1>3. g[2] # {}
  BY <1>2
<1>4. \A r \in g[2] : \E n \in N : n[1] = g[1] /\ n[2] = r
  BY <1>2
<1> QED
  BY <1>3, <1>4

LEMMA KeyFields ==
  ASSUME NEW e, NEW p, NEW R
  PROVE  DeliveryKey(e, p, R).who = p /\ DeliveryKey(e, p, R).group = R
BY DEF DeliveryKey

(* What Handle adds. *)
LEMMA NewRowsAreFor ==
  ASSUME NEW w \in Inbox, Handle(w)
  PROVE  /\ \A row \in rows' \ rows :
               /\ row.hook = w
               /\ row.key.who \in Admitted
               /\ row.key.group # {}
               /\ row.key.group \subseteq Wanted(w, row.key.who)
               /\ Kind(w) # "pipeline" /\ w.user \notin Large => row.key.who # w.user
         /\ rows \subseteq rows'
<1> DEFINE e == Decode(w)
<1>1. PICK table, found :
         LET keys == {DeliveryKey(e, g[1], g[2]) : g \in Grouped(Notices(e, table, found))}
             old  == {row.key : row \in rows}
         IN  rows' = rows \cup {[key |-> k, hook |-> w] : k \in keys \ old}
  BY DEF Handle
<1>2. ~Ignored(w)
  BY DEF Handle
<1> DEFINE N == Notices(e, table, found)
<1> HIDE DEF N
<1>3. \A row \in rows' \ rows : \E g \in Grouped(N) :
         row = [key |-> DeliveryKey(e, g[1], g[2]), hook |-> w]
  BY <1>1 DEF N
<1>4. \A n \in N : MayHear(w, n[1], n[2])
  BY <1>2, NoticesAreFor DEF N
<1>5. ASSUME NEW g \in Grouped(N)
      PROVE  /\ g[1] \in Admitted /\ g[2] # {} /\ g[2] \subseteq Wanted(w, g[1])
             /\ Kind(w) # "pipeline" /\ w.user \notin Large => g[1] # w.user
  <2>1. g[2] # {} /\ \A r \in g[2] : MayHear(w, g[1], r)
    BY <1>4, GroupsOfNotices
  <2> QED
    BY <2>1 DEF MayHear
<1>6. ASSUME NEW row \in rows' \ rows
      PROVE  /\ row.hook = w
             /\ row.key.who \in Admitted
             /\ row.key.group # {}
             /\ row.key.group \subseteq Wanted(w, row.key.who)
             /\ Kind(w) # "pipeline" /\ w.user \notin Large => row.key.who # w.user
  BY <1>3, <1>5, KeyFields
<1> QED
  BY <1>1, <1>6

LEMMA NamedArePeople ==
  ASSUME NEW w \in Inbox, ~Ignored(w), NEW i \in Named(Decode(w))
  PROVE  i \in Identity
<1>1. w \in Webhooks
  BY RoutingAssumption
<1>2. Decode(w).actor \in Identity
  BY <1>1, ActorIsOf DEF AreOf
<1>3. CASE Kind(w) = "pipeline"
  <2>1. /\ Decode(w).author = {WithEmail(p) : p \in w.commit}
        /\ Decode(w).reviewers = {} /\ Decode(w).assignees = {}
    BY <1>3 DEF Decode, IsMergeRequest, IsIssue
  <2>2. Decode(w).mentions = {}
    BY <1>3, DecodedFields DEF Mentions
  <2>3. \A p \in w.commit : WithEmail(p) \in Identity
    BY <1>1 DEF Webhooks, WithEmail, Identity
  <2> QED
    BY <1>2, <2>1, <2>2, <2>3 DEF Named
<1>4. CASE Kind(w) # "pipeline"
  <2>1. Kind(w) \in Kinds \ {"pipeline"}
    BY <1>4 DEF Ignored
  <2> QED
    BY <1>2, <2>1, EventIsOf DEF Named, AreOf
<1> QED
  BY <1>3, <1>4

LEMMA RememberedArePeople ==
  ASSUME NEW w \in Inbox, ~Ignored(w), NEW found
  PROVE  Remembered(Decode(w), found) \subseteq People
<1>1. \A i \in Named(Decode(w)) : Enriched(i, found).who \in People
  BY NamedArePeople, EnrichedKeepsPerson DEF Identity
<1> QED
  BY <1>1 DEF Remembered, Enrich

LEMMA IdentifiedArePeople ==
  ASSUME NEW w \in Inbox, ~Ignored(w), NEW found
  PROVE  Identified(Decode(w), found) \subseteq People
<1>1. \A i \in Named(Decode(w)) : Enriched(i, found).who \in People
  BY NamedArePeople, EnrichedKeepsPerson DEF Identity
<1> QED
  BY <1>1 DEF Identified, Enrich

LEMMA InitInductive == Init => Inductive
<1> SUFFICES ASSUME Init PROVE Inductive
  OBVIOUS
<1>1. MaxHandled \in Nat /\ Directory \subseteq People
  BY RoutingAssumption
<1>2. TypeOK
  BY <1>1 DEF Init, TypeOK
<1>3. rows = {}
  BY DEF Init
<1> QED
  BY <1>2, <1>3 DEF Inductive, NoSelfNotification, NoticesAreEntitled

LEMMA HandleInductive ==
  ASSUME Inductive, NEW w \in Inbox, Handle(w)
  PROVE  Inductive'
<1>1. /\ MaxHandled \in Nat /\ Directory \subseteq People /\ Admitted \subseteq People
      /\ ~Ignored(w)
  BY RoutingAssumption DEF Handle
<1>2. left' \in 0 .. MaxHandled
  <2>1. left \in 0 .. MaxHandled /\ left > 0 /\ left' = left - 1
    BY DEF Handle, Inductive, TypeOK
  <2> QED
    BY <1>1, <2>1
<1>3. PICK found, kept :
         /\ kept \subseteq Remembered(Decode(w), found)
         /\ mapped' = mapped \cup kept
         /\ asked' = [asked EXCEPT ![w] = @ \cup Served(Decode(w), found, kept)]
         /\ known' = [known EXCEPT ![w] = @ \cup mapped]
  BY DEF Handle
<1>4. mapped' \subseteq People /\ asked' \in [Inbox -> SUBSET People] /\ known' \in [Inbox -> SUBSET People]
  <2>1. mapped \subseteq People /\ asked \in [Inbox -> SUBSET People] /\ known \in [Inbox -> SUBSET People]
    BY DEF Inductive, TypeOK
  <2>2. mapped' \subseteq People
    BY <1>1, <1>3, <2>1, RememberedArePeople
  <2>3. Served(Decode(w), found, kept) \subseteq People
    BY <1>1, <2>1, IdentifiedArePeople DEF Served
  <2>4. asked[w] \cup Served(Decode(w), found, kept) \in SUBSET People
    BY <2>1, <2>3
  <2>5. known[w] \cup mapped \in SUBSET People
    BY <2>1
  <2> QED
    BY <1>3, <2>1, <2>2, <2>4, <2>5
<1>5. NoSelfNotification' /\ NoticesAreEntitled'
  <2>1. ASSUME NEW row \in rows' \ rows
        PROVE  /\ Kind(row.hook) # "pipeline" /\ row.hook.user \notin Large
                     => row.key.who # row.hook.user
               /\ row.key.who \in Admitted
               /\ row.key.group \subseteq Wanted(row.hook, row.key.who)
    BY NewRowsAreFor
  <2> QED
    BY <2>1 DEF Inductive, NoSelfNotification, NoticesAreEntitled
<1>6. \A row \in rows' : /\ row.hook \in Inbox
                         /\ row.key.who \in People
                         /\ row.key.group \in (SUBSET Reasons) \ {{}}
  <2>1. ASSUME NEW row \in rows' \ rows
        PROVE  /\ row.hook \in Inbox
               /\ row.key.who \in People
               /\ row.key.group \in (SUBSET Reasons) \ {{}}
    <3>1. /\ row.hook = w /\ row.key.who \in Admitted /\ row.key.group # {}
          /\ row.key.group \subseteq Wanted(w, row.key.who)
      BY NewRowsAreFor
    <3>2. Wanted(w, row.key.who) \subseteq Reasons
      BY DEF Wanted
    <3>3. row.key.group \subseteq Reasons
      BY <3>1, <3>2
    <3>4. row.key.group \in SUBSET Reasons /\ row.key.group \notin {{}}
      BY <3>1, <3>3
    <3>5. row.key.who \in People /\ row.hook \in Inbox
      BY <1>1, <3>1
    <3> QED
      BY <3>4, <3>5
  <2> QED
    BY <2>1 DEF Inductive, TypeOK
<1> QED
  BY <1>2, <1>4, <1>5, <1>6 DEF Inductive, TypeOK

LEMMA StepInductive == Inductive /\ [Next]_vars => Inductive'
<1> SUFFICES ASSUME Inductive, [Next]_vars PROVE Inductive'
  OBVIOUS
<1>1. ASSUME NEW w \in Inbox, Handle(w) PROVE Inductive'
  BY <1>1, HandleInductive
<1>2. ASSUME NEW w \in Inbox, Ignore(w) PROVE Inductive'
  <2>1. left' = left - 1 /\ left > 0 /\ UNCHANGED <<mapped, rows, asked, known>>
    BY <1>2 DEF Ignore
  <2>2. MaxHandled \in Nat
    BY RoutingAssumption
  <2>3. left' \in 0 .. MaxHandled
    BY <2>1, <2>2 DEF Inductive, TypeOK
  <2> QED
    BY <2>1, <2>3 DEF Inductive, TypeOK, NoSelfNotification, NoticesAreEntitled
<1>3. ASSUME NEW p \in People, Disable(p) PROVE Inductive'
  <2>1. mapped' \subseteq mapped /\ UNCHANGED <<rows, left, asked, known>>
    BY <1>3 DEF Disable
  <2> QED
    BY <2>1 DEF Inductive, TypeOK, NoSelfNotification, NoticesAreEntitled
<1>4. CASE UNCHANGED vars
  BY <1>4 DEF vars, Inductive, TypeOK, NoSelfNotification, NoticesAreEntitled
<1> QED
  BY <1>1, <1>2, <1>3, <1>4 DEF Next

LEMMA AlwaysInductive == Spec => []Inductive
BY InitInductive, StepInductive, PTL DEF Spec

(* Tables and bounds keep their types, and no row is for no reason. *)
THEOREM TypeCorrect == Spec => []TypeOK
<1>1. Inductive => TypeOK
  BY DEF Inductive
<1> QED
  BY <1>1, AlwaysInductive, PTL

(* sameIdentity recognises the actor among the recipients of an event,       *)
(* whatever the payload, GitLab and the identities table tell of them, if    *)
(* the payload prints the actor's ID as GitLab does.                         *)
THEOREM SelfIsSuppressed == Spec => []NoSelfNotification
<1>1. Inductive => NoSelfNotification
  BY DEF Inductive
<1> QED
  BY <1>1, AlwaysInductive, PTL

(* Nobody gets reasons that the payload does not give for that very person,  *)
(* or that the person's preferences refuse.                                  *)
THEOREM OnlyTheEntitled == Spec => []NoticesAreEntitled
<1>1. Inductive => NoticesAreEntitled
  BY DEF Inductive
<1> QED
  BY <1>1, AlwaysInductive, PTL
=============================================================================
