------------------------ MODULE RoutingCompleteness ------------------------
(***************************************************************************)
(* The other half of RoutingProofs: nobody is lost on the way.  Whoever a   *)
(* payload names in any place becomes a candidate for every reason there    *)
(* is, and if neither GitLab nor the identities table failed them, the      *)
(* resolved identity finds its way back to all of these candidates.  And if *)
(* something did fail them, it costs nothing but the mention.               *)
(***************************************************************************)
EXTENDS RoutingProofs

(* Identities of everybody in P. *)
Cover(S, P) == \A p \in P : \E i \in S : i.who = p

(* Candidates for everybody with the reason. *)
Reach(C, P, reason) == \A p \in P : \E c \in C : c.of.who = p /\ c.reason = reason

-----------------------------------------------------------------------------
(* Reading a payload. *)

LEMMA ReferencesCover ==
  ASSUME NEW refs
  PROVE  Cover(IdentitiesFrom(refs), Whose(refs))
<1> SUFFICES ASSUME NEW r \in refs
             PROVE  \E i \in IdentitiesFrom(refs) : i.who = r.who
  BY DEF Cover, Whose
<1> DEFINE i == IF r.bare THEN WithId(r.who) ELSE Person(r.who)
<1>1. i \in IdentitiesFrom(refs)
  BY DEF IdentitiesFrom
<1>2. i.who = r.who
  BY DEF WithId, Person
<1> QED
  BY <1>1, <1>2

LEMMA CoverLess ==
  ASSUME NEW S, NEW P, NEW Q, Cover(S, P), Q \subseteq P
  PROVE  Cover(S, Q)
BY DEF Cover

(* Where two places agree, the fallback of one to the other loses nobody. *)
LEMMA AgreeingFallback ==
  ASSUME NEW A, NEW B, Agree(A, B)
  PROVE  Whose(A) \cup Whose(B) \subseteq Whose(Else(A, B))
<1>1. Whose({}) = {}
  BY DEF Whose
<1>2. CASE A = {}
  BY <1>1, <1>2 DEF Else
<1>3. CASE A # {} /\ B = {}
  BY <1>1, <1>3 DEF Else
<1>4. CASE A # {} /\ B # {}
  BY <1>4 DEF Else, Agree
<1> QED
  BY <1>2, <1>3, <1>4

LEMMA AuthorsCovered ==
  ASSUME NEW w \in Inbox
  PROVE  Cover(Author(Object(w), w.top), AuthorsIn(w))
<1> DEFINE d       == Object(w)
           t       == w.top
           refs    == Else(d.author, t.author)
           objects == IdentitiesFrom(refs)
           bare    == {WithId(p) : p \in d.author_id}
<1>1. Author(d, t) = IF objects # {} THEN objects ELSE bare
  BY DEF Author, Else
<1>2. \A p, q \in AuthorsIn(w) : p = q
  BY PayloadsAgree DEF AuthorsIn
<1>3. CASE refs # {}
  <2>1. PICK r \in refs : TRUE
    BY <1>3
  <2>2. r.who \in AuthorsIn(w)
    BY <2>1, FallbackIsAmong DEF Whose, AuthorsIn
  <2>3. PICK i \in objects : i.who = r.who
    <3>1. r.who \in Whose(refs)
      BY DEF Whose
    <3> QED
      BY <3>1, ReferencesCover DEF Cover
  <2>4. \A p \in AuthorsIn(w) : p = r.who
    BY <1>2, <2>2
  <2> HIDE DEF objects, bare
  <2> QED
    BY <1>1, <2>3, <2>4 DEF Cover
<1>4. CASE refs = {}
  <2>1. d.author = {} /\ t.author = {}
    BY <1>4 DEF Else
  <2>2. AuthorsIn(w) = d.author_id
    BY <2>1 DEF AuthorsIn, Whose
  <2>3. objects = {}
    BY <1>4 DEF IdentitiesFrom
  <2>4. Author(d, t) = bare
    BY <1>1, <2>3
  <2>5. \A p \in d.author_id : WithId(p) \in bare /\ WithId(p).who = p
    BY DEF WithId
  <2> HIDE DEF bare
  <2> QED
    BY <2>2, <2>4, <2>5 DEF Cover
<1> QED
  BY <1>3, <1>4

LEMMA ReviewersCovered ==
  ASSUME NEW w \in Inbox
  PROVE  Cover(Reviewers(Object(w), w.top), ReviewersIn(w))
<1> DEFINE d == Object(w)
           t == w.top
<1>1. Agree(d.reviewers, t.reviewers)
  BY PayloadsAgree
<1>2. ReviewersIn(w) \subseteq Whose(Else(d.reviewers, t.reviewers))
  <2>1. ReviewersIn(w) \subseteq Whose(d.reviewers) \cup Whose(t.reviewers)
    BY DEF ReviewersIn, Whose
  <2> QED
    BY <1>1, <2>1, AgreeingFallback
<1> QED
  BY <1>2, ReferencesCover, CoverLess DEF Reviewers

LEMMA AssigneesCovered ==
  ASSUME NEW w \in Inbox
  PROVE  /\ ~IsIssue(w) => Cover(MergeRequestAssignees(Object(w), w.top), AssigneesIn(w))
         /\ IsIssue(w) => Cover(IssueAssignees(Object(w)), AssigneesIn(w))
<1> DEFINE d     == Object(w)
           t     == w.top
           outer == Else(t.assignees, t.assignee)
<1>1. /\ Agree(d.assignees, t.assignees)
      /\ Agree(d.assignees, t.assignee) /\ Agree(t.assignees, t.assignee)
      /\ Agree(d.assignees, d.assignee)
  BY PayloadsAgree
<1>2. ASSUME ~IsIssue(w)
      PROVE  Cover(MergeRequestAssignees(d, t), AssigneesIn(w))
  <2>1. AssigneesIn(w) \subseteq Whose(d.assignees) \cup (Whose(t.assignees) \cup Whose(t.assignee))
    BY <1>2 DEF AssigneesIn, Whose
  <2>2. Whose(t.assignees) \cup Whose(t.assignee) \subseteq Whose(outer)
    BY <1>1, AgreeingFallback
  <2>3. Agree(d.assignees, outer)
    BY <1>1 DEF Else
  <2>4. AssigneesIn(w) \subseteq Whose(Else(d.assignees, outer))
    BY <2>1, <2>2, <2>3, AgreeingFallback
  <2> QED
    BY <2>4, ReferencesCover, CoverLess DEF MergeRequestAssignees
<1>3. ASSUME IsIssue(w)
      PROVE  Cover(IssueAssignees(d), AssigneesIn(w))
  <2>1. AssigneesIn(w) \subseteq Whose(d.assignees) \cup Whose(d.assignee)
    BY <1>3 DEF AssigneesIn, Whose
  <2>2. AssigneesIn(w) \subseteq Whose(Else(d.assignees, d.assignee))
    BY <1>1, <2>1, AgreeingFallback
  <2> QED
    BY <2>2, ReferencesCover, CoverLess DEF IssueAssignees
<1> QED
  BY <1>2, <1>3

(* Cutting a text off recognises no more code than there is. *)
LEMMA MentionsCovered ==
  ASSUME NEW w \in Inbox, Kind(w) \in Kinds \ {"pipeline"}
  PROVE  Cover(Decode(w).mentions, MentionedIn(w))
<1> DEFINE text == w.text
           part == Read(text)
<1>1. w \in Webhooks /\ TextLimit \in Nat
  BY RoutingAssumption
<1>2. text \in Seq(People \cup {"tick"})
  BY <1>1 DEF Webhooks
<1>3. /\ DOMAIN part = Within(text)
      /\ \A n \in DOMAIN part : n \in DOMAIN text /\ n <= TextLimit /\ part[n] = text[n]
  BY <1>1, <1>2 DEF Read, Within
<1>4. \A n \in DOMAIN text : n <= TextLimit => IsCode(text, n) = IsCode(part, n)
  BY PayloadsAgree
<1>5. {text[n] : n \in {m \in Within(text) : text[m] \in People /\ ~IsCode(text, m)}}
         \subseteq MentionsIn(part)
  BY <1>3, <1>4 DEF MentionsIn
<1>6. MentionedIn(w) \subseteq Mentions(w)
  BY <1>5 DEF MentionedIn, Mentions, Kinds, When
<1>7. \A p : Mentioned(p).who = p
  BY DEF Mentioned
<1>8. Decode(w).mentions = {Mentioned(p) : p \in Mentions(w)}
  BY DecodedFields
<1> QED
  BY <1>6, <1>7, <1>8 DEF Cover

(* The event of a webhook that is not a pipeline names everybody. *)
LEMMA EventCovers ==
  ASSUME NEW w \in Inbox
  PROVE  /\ Kind(w) # "pipeline" /\ (IsMergeRequest(w) \/ IsIssue(w))
              => Cover(Decode(w).author, AuthorsIn(w))
         /\ IsMergeRequest(w) => Cover(Decode(w).reviewers, ReviewersIn(w))
         /\ IsMergeRequest(w) \/ IsIssue(w) => Cover(Decode(w).assignees, AssigneesIn(w))
<1>1. IsMergeRequest(w) => ~IsIssue(w)
  BY DEF IsMergeRequest, IsIssue
<1>2. /\ Kind(w) # "pipeline" /\ (IsMergeRequest(w) \/ IsIssue(w))
            => Decode(w).author = Author(Object(w), w.top)
      /\ IsMergeRequest(w) => Decode(w).reviewers = Reviewers(Object(w), w.top)
      /\ IsMergeRequest(w) => Decode(w).assignees = MergeRequestAssignees(Object(w), w.top)
      /\ IsIssue(w) /\ ~IsMergeRequest(w) => Decode(w).assignees = IssueAssignees(Object(w))
  BY DEF Decode
<1> QED
  BY <1>1, <1>2, AuthorsCovered, ReviewersCovered, AssigneesCovered

(* Everybody new in a list is added by one of the event's changes. *)
LEMMA ChangesCover ==
  ASSUME NEW w \in Inbox, NEW fields,
         fields \subseteq Lists.reviewers \cup Lists.assignees,
         NEW p \in NewIn(w, fields)
  PROVE  \E c \in Decode(w).changes : c.field \in fields /\ \E i \in c.added : i.who = p
<1> DEFINE Decoded(d) == [field |-> d.field, added |-> IF IsList(d) THEN Added(d) ELSE {}]
<1>1. PICK d \in w.changes : d.field \in fields /\ p \in Whose(d.current) \ Whose(d.previous)
  BY DEF NewIn
<1>2. IsList(d)
  BY <1>1 DEF IsList
<1>3. Decoded(d) \in Decode(w).changes
  BY DecodedFields
<1>4. PICK i \in IdentitiesFrom(d.current) : i.who = p
  BY <1>1, ReferencesCover DEF Cover
<1>5. i \in Added(d)
  BY <1>1, <1>4 DEF Added, Whose
<1>6. Decoded(d).field = d.field /\ Decoded(d).added = Added(d)
  BY <1>2
<1> HIDE DEF Decoded
<1> QED
  BY <1>1, <1>3, <1>4, <1>5, <1>6

LEMMA ChangedHere ==
  ASSUME NEW w \in Inbox, NEW fields, Changed(w, fields)
  PROVE  \E c \in Decode(w).changes : c.field \in fields
<1> DEFINE Decoded(d) == [field |-> d.field, added |-> IF IsList(d) THEN Added(d) ELSE {}]
<1>1. PICK d \in w.changes : d.field \in fields
  BY DEF Changed
<1>2. Decoded(d) \in Decode(w).changes /\ Decoded(d).field = d.field
  BY DecodedFields
<1> HIDE DEF Decoded
<1> QED
  BY <1>1, <1>2

-----------------------------------------------------------------------------
(* Candidates. *)

LEMMA EnrichCovers ==
  ASSUME NEW S, NEW P, Cover(S, P), NEW found
  PROVE  Cover(Enrich(S, found), P)
<1>1. \A i : Enriched(i, found).who = i.who
  BY DEF Enriched
<1> QED
  BY <1>1 DEF Cover, Enrich

LEMMA ForReaches ==
  ASSUME NEW S, NEW P, Cover(S, P), NEW reason, NEW at
  PROVE  Reach(For(S, reason, at), P, reason)
<1> SUFFICES ASSUME NEW p \in P
             PROVE  \E c \in For(S, reason, at) : c.of.who = p /\ c.reason = reason
  BY DEF Reach
<1>1. PICK i \in S : i.who = p
  BY DEF Cover
<1> DEFINE c == [of |-> i, reason |-> reason, at |-> at]
<1>2. c \in For(S, reason, at) /\ c.of = i /\ c.reason = reason
  BY DEF For
<1> QED
  BY <1>1, <1>2

LEMMA ReachMore ==
  ASSUME NEW C, NEW D, NEW P, NEW reason, Reach(C, P, reason), C \subseteq D
  PROVE  Reach(D, P, reason)
BY DEF Reach

LEMMA MergeRequestReaches ==
  ASSUME NEW w \in Inbox, NEW found, Kind(w) = "merge_request", NEW r \in MRReasons \ {"mr_comment"}
  PROVE  Reach(MergeRequestCandidates(Decode(w), found), Concerned(w, r), r)
<1> DEFINE e         == Decode(w)
           C         == MergeRequestCandidates(e, found)
           author    == Enrich(e.author, found)
           reviewers == Enrich(e.reviewers, found)
           assignees == Enrich(e.assignees, found)
<1>1. /\ Cover(author, AuthorsIn(w))
      /\ Cover(reviewers, ReviewersIn(w))
      /\ Cover(assignees, AssigneesIn(w))
  <2>1. IsMergeRequest(w)
    BY DEF IsMergeRequest
  <2> QED
    BY <2>1, EventCovers, EnrichCovers
<1>2. e.action = w.action
  BY DecodedFields
<1>3. /\ w.action = "open" => /\ For(reviewers, "mr_review_requested", 0) \subseteq C
                              /\ For(assignees, "mr_assigned", 1) \subseteq C
      /\ w.action = "update" => \A c \in e.changes :
           /\ c.field \in Lists.reviewers => For(c.added, "mr_review_requested", At(c.field)) \subseteq C
           /\ c.field \in Lists.assignees => For(c.added, "mr_assigned", At(c.field)) \subseteq C
           /\ c.field \in MRTexts => For(author, "mr_updated", At(c.field)) \subseteq C
           /\ c.field \in MRStates => For(reviewers, "mr_state_changed", At(c.field) + 1) \subseteq C
      /\ w.action \in Approvals => For(author, "mr_approved", 0) \subseteq C
      /\ w.action \in Ends => For(author, "mr_state_changed", 0) \subseteq C
  BY <1>2 DEF MergeRequestCandidates, When
<1> HIDE DEF author, reviewers, assignees, C
<1>4. CASE r = "mr_review_requested"
  <2>1. \A p \in Concerned(w, r) : \/ w.action = "open" /\ p \in ReviewersIn(w)
                                   \/ w.action = "update" /\ p \in NewIn(w, Lists.reviewers)
    BY <1>4 DEF Concerned, When
  <2>2. w.action = "open" => Reach(C, ReviewersIn(w), r)
    BY <1>1, <1>3, <1>4, ForReaches, ReachMore
  <2>3. ASSUME w.action = "update", NEW p \in NewIn(w, Lists.reviewers)
        PROVE  \E c \in C : c.of.who = p /\ c.reason = r
    <3>1. PICK c \in e.changes : c.field \in Lists.reviewers /\ \E i \in c.added : i.who = p
      BY ChangesCover
    <3>2. Reach(For(c.added, r, At(c.field)), {p}, r)
      BY <3>1, ForReaches DEF Cover
    <3> QED
      BY <1>3, <1>4, <2>3, <3>1, <3>2 DEF Reach
  <2> QED
    BY <2>1, <2>2, <2>3 DEF Reach, C
<1>5. CASE r = "mr_assigned"
  <2>1. \A p \in Concerned(w, r) : \/ w.action = "open" /\ p \in AssigneesIn(w)
                                   \/ w.action = "update" /\ p \in NewIn(w, Lists.assignees)
    BY <1>5 DEF Concerned, When
  <2>2. w.action = "open" => Reach(C, AssigneesIn(w), r)
    BY <1>1, <1>3, <1>5, ForReaches, ReachMore
  <2>3. ASSUME w.action = "update", NEW p \in NewIn(w, Lists.assignees)
        PROVE  \E c \in C : c.of.who = p /\ c.reason = r
    <3>1. PICK c \in e.changes : c.field \in Lists.assignees /\ \E i \in c.added : i.who = p
      BY ChangesCover
    <3>2. Reach(For(c.added, r, At(c.field)), {p}, r)
      BY <3>1, ForReaches DEF Cover
    <3> QED
      BY <1>3, <1>5, <2>3, <3>1, <3>2 DEF Reach
  <2> QED
    BY <2>1, <2>2, <2>3 DEF Reach, C
<1>6. CASE r = "mr_updated"
  <2>1. \A p \in Concerned(w, r) : w.action = "update" /\ Changed(w, MRTexts) /\ p \in AuthorsIn(w)
    BY <1>6 DEF Concerned, When
  <2>2. ASSUME w.action = "update", Changed(w, MRTexts)
        PROVE  Reach(C, AuthorsIn(w), r)
    <3>1. PICK c \in e.changes : c.field \in MRTexts
      BY <2>2, ChangedHere
    <3> QED
      BY <1>1, <1>3, <1>6, <2>2, <3>1, ForReaches, ReachMore
  <2> QED
    BY <2>1, <2>2 DEF Reach, C
<1>7. CASE r = "mr_state_changed"
  <2>1. \A p \in Concerned(w, r) :
           \/ w.action \in Ends /\ p \in AuthorsIn(w)
           \/ w.action = "update" /\ Changed(w, MRStates) /\ p \in ReviewersIn(w)
    BY <1>7 DEF Concerned, When
  <2>2. w.action \in Ends => Reach(C, AuthorsIn(w), r)
    BY <1>1, <1>3, <1>7, ForReaches, ReachMore
  <2>3. ASSUME w.action = "update", Changed(w, MRStates)
        PROVE  Reach(C, ReviewersIn(w), r)
    <3>1. PICK c \in e.changes : c.field \in MRStates
      BY <2>3, ChangedHere
    <3> QED
      BY <1>1, <1>3, <1>7, <2>3, <3>1, ForReaches, ReachMore
  <2> QED
    BY <2>1, <2>2, <2>3 DEF Reach, C
<1>8. CASE r = "mr_approved"
  <2>1. \A p \in Concerned(w, r) : w.action \in Approvals /\ p \in AuthorsIn(w)
    BY <1>8 DEF Concerned, When
  <2>2. w.action \in Approvals => Reach(C, AuthorsIn(w), r)
    BY <1>1, <1>3, <1>8, ForReaches, ReachMore
  <2> QED
    BY <2>1, <2>2 DEF Reach, C
<1> QED
  BY <1>4, <1>5, <1>6, <1>7, <1>8 DEF MRReasons, C

(* A comment's actor alone is left out. *)
LEMMA NoteReaches ==
  ASSUME NEW w \in Inbox, NEW found, Kind(w) = "note", NEW r \in {"mr_comment", "issue_updated"}
  PROVE  Reach(NoteCandidates(Decode(w), found), Concerned(w, r) \ {w.user}, r)
<1> DEFINE e      == Decode(w)
           C      == NoteCandidates(e, found)
           actor  == Enriched(e.actor, found)
           others == {i \in Enrich(e.author, found) : ~SameIdentity(actor, i)}
<1>1. e.on = w.on
  BY DecodedFields
<1>2. actor.who = w.user
  <2>1. e.actor = Person(w.user) /\ Person(w.user).who = w.user
    BY DecodedFields DEF Person
  <2>2. \A i : Enriched(i, found).who = i.who
    BY DEF Enriched
  <2> QED
    BY <2>1, <2>2
<1>3. w.on \in {"merge_request", "issue"} => Cover(others, AuthorsIn(w) \ {w.user})
  <2>1. w.on \in {"merge_request", "issue"} => IsMergeRequest(w) \/ IsIssue(w)
    BY DEF IsMergeRequest, IsIssue
  <2>2. w.on \in {"merge_request", "issue"} => Cover(Enrich(e.author, found), AuthorsIn(w))
    BY <2>1, EventCovers, EnrichCovers
  <2> HIDE DEF actor
  <2> QED
    BY <1>2, <2>2, SameIsSamePerson DEF Cover
<1>4. /\ w.on = "merge_request" => For(others, "mr_comment", 0) \subseteq C
      /\ w.on = "issue" => For(others, "issue_updated", 0) \subseteq C
  BY <1>1 DEF NoteCandidates, When
<1> HIDE DEF others, C
<1>5. CASE r = "mr_comment"
  <2>1. Concerned(w, r) \subseteq When(w.on = "merge_request", AuthorsIn(w))
    BY <1>5 DEF Concerned, When
  <2>2. w.on = "merge_request" => Reach(C, AuthorsIn(w) \ {w.user}, r)
    BY <1>3, <1>4, <1>5, ForReaches, ReachMore
  <2> QED
    BY <2>1, <2>2 DEF Reach, When, C
<1>6. CASE r = "issue_updated"
  <2>1. Concerned(w, r) \subseteq When(w.on = "issue", AuthorsIn(w))
    BY <1>6 DEF Concerned, When
  <2>2. w.on = "issue" => Reach(C, AuthorsIn(w) \ {w.user}, r)
    BY <1>3, <1>4, <1>6, ForReaches, ReachMore
  <2> QED
    BY <2>1, <2>2 DEF Reach, When, C
<1> QED
  BY <1>5, <1>6

LEMMA IssueReaches ==
  ASSUME NEW w \in Inbox, NEW found, Kind(w) = "issue", NEW r \in {"issue_assigned", "issue_updated"}
  PROVE  Reach(IssueCandidates(Decode(w), found), Concerned(w, r), r)
<1> DEFINE e         == Decode(w)
           C         == IssueCandidates(e, found)
           author    == Enrich(e.author, found)
           assignees == Enrich(e.assignees, found)
           texts     == {"title", "description", "state"}
<1>1. Cover(author, AuthorsIn(w)) /\ Cover(assignees, AssigneesIn(w))
  <2>1. IsIssue(w)
    BY DEF IsIssue
  <2> QED
    BY <2>1, EventCovers, EnrichCovers
<1>2. e.action = w.action
  BY DecodedFields
<1>3. /\ w.action = "open" => For(assignees, "issue_assigned", 0) \subseteq C
      /\ w.action = "update" => \A c \in e.changes :
           /\ c.field \in Lists.assignees => For(c.added, "issue_assigned", At(c.field)) \subseteq C
           /\ c.field \in texts => For(author, "issue_updated", At(c.field)) \subseteq C
  BY <1>2 DEF IssueCandidates, When
<1> HIDE DEF author, assignees, C
<1>4. CASE r = "issue_assigned"
  <2>1. Concerned(w, r) = When(w.action = "open", AssigneesIn(w))
                          \cup When(w.action = "update", NewIn(w, Lists.assignees))
    BY <1>4 DEF Concerned, When
  <2>2. w.action = "open" => Reach(C, AssigneesIn(w), r)
    BY <1>1, <1>3, <1>4, ForReaches, ReachMore
  <2>3. ASSUME w.action = "update", NEW p \in NewIn(w, Lists.assignees)
        PROVE  \E c \in C : c.of.who = p /\ c.reason = r
    <3>1. PICK c \in e.changes : c.field \in Lists.assignees /\ \E i \in c.added : i.who = p
      BY ChangesCover
    <3>2. Reach(For(c.added, r, At(c.field)), {p}, r)
      BY <3>1, ForReaches DEF Cover
    <3> QED
      BY <1>3, <1>4, <2>3, <3>1, <3>2 DEF Reach
  <2> QED
    BY <2>1, <2>2, <2>3 DEF Reach, When, C
<1>5. CASE r = "issue_updated"
  <2>1. Concerned(w, r) = When(w.action = "update" /\ Changed(w, texts), AuthorsIn(w))
    BY <1>5 DEF Concerned, When
  <2>2. ASSUME w.action = "update", Changed(w, texts)
        PROVE  Reach(C, AuthorsIn(w), r)
    <3>1. PICK c \in e.changes : c.field \in texts
      BY <2>2, ChangedHere
    <3> QED
      BY <1>1, <1>3, <1>5, <2>2, <3>1, ForReaches, ReachMore
  <2> QED
    BY <2>1, <2>2 DEF Reach, When, C
<1> QED
  BY <1>4, <1>5

LEMMA PipelineReaches ==
  ASSUME NEW w \in Inbox, NEW found, Kind(w) = "pipeline"
  PROVE  Reach(PipelineCandidates(Decode(w), found), Concerned(w, "ci_failed"), "ci_failed")
<1> DEFINE e     == Decode(w)
           actor == Enrich({e.actor}, found)
           to    == Else(e.author, actor)
<1>1. e.status = w.status /\ e.author = {WithEmail(p) : p \in w.commit} /\ e.actor = Person(w.user)
  BY DEF Decode
<1>2. Cover(to, Committers(w))
  <2>1. CASE w.commit = {}
    <3>1. Cover({e.actor}, {w.user})
      BY <1>1 DEF Cover, Person
    <3>2. Cover(actor, {w.user})
      BY <3>1, EnrichCovers
    <3> QED
      BY <1>1, <2>1, <3>2 DEF Else, Committers
  <2>2. CASE w.commit # {}
    <3>1. \A p : WithEmail(p).who = p
      BY DEF WithEmail
    <3>2. Cover(e.author, w.commit)
      BY <1>1, <3>1 DEF Cover
    <3> QED
      BY <1>1, <2>2, <3>2 DEF Else, Committers
  <2> QED
    BY <2>1, <2>2
<1>3. Reach(For(to, "ci_failed", 0), Committers(w), "ci_failed")
  BY <1>2, ForReaches
<1>4. Concerned(w, "ci_failed") = When(w.status = "failed", Committers(w))
  BY DEF Concerned, When
<1> QED
  BY <1>1, <1>3, <1>4 DEF PipelineCandidates, Reach, When

(* Everybody concerned, but for the actor of other things than a pipeline.   *)
LEMMA CandidatesReach ==
  ASSUME NEW w \in Inbox, NEW found, NEW r \in Reasons
  PROVE  Reach(Candidates(Decode(w), found),
               {p \in Concerned(w, r) : p = w.user => Kind(w) = "pipeline"}, r)
<1> DEFINE e == Decode(w)
           C == Candidates(e, found)
           P == {p \in Concerned(w, r) : p = w.user => Kind(w) = "pipeline"}
<1>1. e.kind = Kind(w) /\ e.system = w.system
  BY DecodedFields
<1>2. /\ Kind(w) = "pipeline" => PipelineCandidates(e, found) \subseteq C
      /\ Kind(w) = "merge_request" => MergeRequestCandidates(e, found) \subseteq C
      /\ Kind(w) = "note" /\ ~w.system => NoteCandidates(e, found) \subseteq C
      /\ Kind(w) = "issue" => IssueCandidates(e, found) \subseteq C
      /\ ~(Kind(w) = "note" /\ w.system) => For(Enrich(e.mentions, found), "mention", AtLast) \subseteq C
  BY <1>1 DEF Candidates, When
<1>3. P \subseteq Concerned(w, r) /\ (Kind(w) # "pipeline" => P \subseteq Concerned(w, r) \ {w.user})
  OBVIOUS
<1> HIDE DEF C, P
<1>4. SUFFICES ASSUME P # {} PROVE Reach(C, P, r)
  BY DEF Reach, C, P
<1>5. PICK q \in Concerned(w, r) : TRUE
  BY <1>3, <1>4
<1>6. CASE r = "ci_failed"
  <2>1. Kind(w) = "pipeline"
    BY <1>5, <1>6 DEF Concerned, When
  <2> QED
    BY <1>2, <1>3, <1>6, <2>1, PipelineReaches DEF Reach
<1>7. CASE r \in MRReasons \ {"mr_comment"}
  <2>1. Kind(w) = "merge_request"
    BY <1>5, <1>7 DEF Concerned, When, MRReasons
  <2> QED
    BY <1>2, <1>3, <1>7, <2>1, MergeRequestReaches DEF Reach
<1>8. CASE r = "mr_comment"
  <2>1. Kind(w) = "note" /\ ~w.system
    BY <1>5, <1>8 DEF Concerned, When
  <2> QED
    BY <1>2, <1>3, <1>8, <2>1, NoteReaches DEF Reach
<1>9. CASE r = "issue_assigned"
  <2>1. Kind(w) = "issue"
    BY <1>5, <1>9 DEF Concerned, When
  <2> QED
    BY <1>2, <1>3, <1>9, <2>1, IssueReaches DEF Reach
<1>10. CASE r = "issue_updated"
  <2>1. (Kind(w) = "note" /\ ~w.system) \/ Kind(w) = "issue"
    BY <1>5, <1>10 DEF Concerned, When
  <2>2. CASE Kind(w) = "note" /\ ~w.system
    BY <1>2, <1>3, <1>10, <2>2, NoteReaches DEF Reach
  <2>3. CASE Kind(w) = "issue"
    BY <1>2, <1>3, <1>10, <2>3, IssueReaches DEF Reach
  <2> QED
    BY <2>1, <2>2, <2>3
<1>11. CASE r = "mention"
  <2>1. /\ Kind(w) \in Kinds \ {"pipeline"} /\ ~(Kind(w) = "note" /\ w.system)
        /\ Concerned(w, r) = MentionedIn(w)
    BY <1>5, <1>11 DEF Concerned, When
  <2>2. Cover(Enrich(e.mentions, found), MentionedIn(w))
    BY <2>1, MentionsCovered, EnrichCovers
  <2>3. Reach(For(Enrich(e.mentions, found), "mention", AtLast), MentionedIn(w), "mention")
    BY <2>2, ForReaches
  <2> QED
    BY <1>2, <1>3, <1>11, <2>1, <2>3 DEF Reach
<1> QED
  BY <1>6, <1>7, <1>8, <1>9, <1>10, <1>11 DEF Reasons

(* The decoder and the rules of the event kinds compute exactly what a       *)
(* webhook gives each person to hear, whatever GitLab answers: a candidate   *)
(* has a reason just if the payload names the person for it, but for the     *)
(* actor, whom only a pipeline concerns.                                     *)
THEOREM CandidatesAreTheConcerned ==
  ASSUME NEW w \in Inbox, ~Ignored(w), NEW found, NEW r \in Reasons,
         NEW p, p = w.user => Kind(w) = "pipeline"
  PROVE  p \in Concerned(w, r)
            <=> \E c \in Candidates(Decode(w), found) : c.of.who = p /\ c.reason = r
<1>1. ASSUME p \in Concerned(w, r)
      PROVE  \E c \in Candidates(Decode(w), found) : c.of.who = p /\ c.reason = r
  BY <1>1, CandidatesReach DEF Reach
<1>2. \A c \in Candidates(Decode(w), found) : c.of.who \in Concerned(w, c.reason)
  BY CandidatesAreFor DEF AreFor, IsCandidate
<1> QED
  BY <1>1, <1>2

-----------------------------------------------------------------------------
(* How the people of an event are known. *)

(* An address is known already, or the table has it and shows the ID that    *)
(* it is asked with.                                                         *)
Findable(i, table) == i.email \/ (i.provider /\ i.id = "digits" /\ i.who \in table)

LEMMA AddedHaveIds ==
  ASSUME NEW w \in Inbox, NEW c \in Decode(w).changes, NEW i \in c.added
  PROVE  i.id \in {"digits", "exponent"} /\ i.provider = TRUE
<1> DEFINE Decoded(d) == [field |-> d.field, added |-> IF IsList(d) THEN Added(d) ELSE {}]
<1> HIDE DEF Decoded
<1>1. PICK d \in w.changes : c = Decoded(d)
  <2>1. Decode(w).changes = {Decoded(d) : d \in w.changes}
    BY DecodedFields DEF Decoded
  <2> QED
    BY <2>1
<1>2. i \in Added(d)
  <2>1. c.added = IF IsList(d) THEN Added(d) ELSE {}
    BY <1>1 DEF Decoded
  <2> QED
    BY <2>1
<1>3. PICK r \in d.current : i = IF r.bare THEN WithId(r.who) ELSE Person(r.who)
  BY <1>2 DEF Added, IdentitiesFrom
<1>4. Printed(r.who) \in {"digits", "exponent"}
  BY DEF Printed
<1> QED
  BY <1>3, <1>4 DEF WithId, Person

(* Only a commit's author has neither ID nor username. *)
LEMMA NamedAreRecognisable ==
  ASSUME NEW w \in Inbox, ~Ignored(w), Kind(w) = "pipeline" => w.commit = {},
         NEW i \in Named(Decode(w))
  PROVE  i \in Identity /\ Recognisable(i)
<1>1. w \in Webhooks
  BY RoutingAssumption
<1>2. Decode(w).actor \in Identity /\ Recognisable(Decode(w).actor)
  BY <1>1, ActorIsOf DEF AreOf
<1>3. CASE Kind(w) = "pipeline"
  <2>1. /\ Decode(w).author = {} /\ Decode(w).reviewers = {} /\ Decode(w).assignees = {}
    BY <1>3 DEF Decode, IsMergeRequest, IsIssue
  <2>2. Decode(w).mentions = {}
    BY <1>3, DecodedFields DEF Mentions
  <2> QED
    BY <1>2, <2>1, <2>2 DEF Named
<1>4. CASE Kind(w) # "pipeline"
  <2>1. Kind(w) \in Kinds \ {"pipeline"}
    BY <1>4 DEF Ignored
  <2> QED
    BY <1>2, <2>1, EventIsOf DEF Named, AreOf
<1> QED
  BY <1>3, <1>4

(* GitLab answered for everybody served: their identities are complete. *)
LEMMA ServedAreEnriched ==
  ASSUME NEW e, NEW found \in SUBSET Answerable(e), NEW kept, NEW p \in Served(e, found, kept),
         NEW i \in Named(e), i \in Identity, i.who = p
  PROVE  /\ Enriched(i, found).who = p
         /\ \/ Enriched(i, found).email
            \/ Enriched(i, found).provider /\ Enriched(i, found).id = "digits"
<1>1. Question(i) = <<i.who, i.id>> /\ Question(i)[1] = p /\ Question(i)[2] = i.id
  BY DEF Question
<1>2. i.email \/ Question(i) \in found
  <2> SUFFICES ASSUME ~i.email, Question(i) \notin found PROVE FALSE
    OBVIOUS
  <2>1. Question(i) \in Asked(e) \ found
    BY DEF Asked
  <2>2. p \in Unfound(e, found)
    BY <1>1, <2>1 DEF Unfound
  <2> QED
    BY <2>2 DEF Served
<1>3. Question(i) \in found => i.id \in {"none", "digits"}
  BY <1>1 DEF Answerable, Identity
<1> HIDE DEF Question
<1>4. CASE i.email
  BY <1>4 DEF Enriched
<1>5. CASE ~i.email
  <2>1. Enriched(i, found) =
          [who |-> i.who, provider |-> TRUE, id |-> IF i.id = "none" THEN "digits" ELSE i.id,
           name |-> TRUE, email |-> i.who \in Directory]
    BY <1>2, <1>5 DEF Enriched
  <2> QED
    BY <1>2, <1>3, <1>5, <2>1
<1> QED
  BY <1>4, <1>5

(* Whoever is served without an address of their own has an enabled row, old *)
(* or just written by rememberIdentities.                                    *)
LEMMA ServedAreMapped ==
  ASSUME NEW w \in Inbox, ~Ignored(w), Kind(w) = "pipeline" => w.commit = {},
         NEW found, NEW kept, NEW p \in Served(Decode(w), found, kept)
  PROVE  p \in mapped \cup kept
<1> DEFINE e == Decode(w)
<1>1. p \in mapped \cup Identified(e, found)
  BY DEF Served
<1>2. ASSUME p \in Identified(e, found)
      PROVE  p \in kept
  <2>1. PICK y \in Named(e) : Enriched(y, found).email /\ Enriched(y, found).who = p
    BY <1>2 DEF Identified, Enrich
  <2>2. Recognisable(Enriched(y, found))
    BY <2>1, NamedAreRecognisable, EnrichedKeepsPerson
  <2>3. p \in Remembered(e, found)
    BY <2>1, <2>2 DEF Remembered, Enrich, Recognisable
  <2> QED
    BY <2>3 DEF Served
<1> QED
  BY <1>1, <1>2

(* Whom the payload names as objects or by ID, as opposed to in a text. *)
Objects(e) == {e.actor} \cup e.author \cup e.reviewers \cup e.assignees

(* A candidate is somebody the event names, as GitLab completed them, or     *)
(* somebody a change adds, as the change has them; a name in a text gives    *)
(* nobody another reason than the mention.                                   *)
LEMMA WhenceCandidates ==
  ASSUME NEW e, NEW found, NEW c \in Candidates(e, found)
  PROVE  \/ e.kind = "pipeline" /\ c.of \in e.author
         \/ (e.kind = "pipeline" => e.author = {}) /\ c.of \in Enrich(Objects(e), found)
         \/ e.kind # "pipeline" /\ \E d \in e.changes : c.of \in d.added
         \/ c.reason = "mention" /\ c.of \in Enrich(e.mentions, found)
<1> DEFINE mentioned == For(Enrich(e.mentions, found), "mention", AtLast)
<1>0. /\ Enrich({e.actor}, found) \subseteq Enrich(Objects(e), found)
      /\ Enrich(e.author, found) \subseteq Enrich(Objects(e), found)
      /\ Enrich(e.reviewers, found) \subseteq Enrich(Objects(e), found)
      /\ Enrich(e.assignees, found) \subseteq Enrich(Objects(e), found)
  BY DEF Enrich, Objects
<1>1. CASE e.kind = "pipeline" /\ c \in PipelineCandidates(e, found)
  <2>1. c.of \in Else(e.author, Enrich({e.actor}, found))
    BY <1>1 DEF PipelineCandidates, For, When
  <2> QED
    BY <1>0, <1>1, <2>1 DEF Else
<1>2. CASE e.kind = "merge_request" /\ c \in MergeRequestCandidates(e, found)
  <2>1. \/ c.of \in Enrich(e.author, found) \cup Enrich(e.reviewers, found) \cup Enrich(e.assignees, found)
        \/ \E d \in e.changes : c.of \in d.added
    BY <1>2 DEF MergeRequestCandidates, For, When
  <2> QED
    BY <1>0, <1>2, <2>1
<1>3. CASE e.kind = "note" /\ c \in NoteCandidates(e, found)
  <2>1. c.of \in Enrich(e.author, found)
    BY <1>3 DEF NoteCandidates, For, When
  <2> QED
    BY <1>0, <1>3, <2>1
<1>4. CASE e.kind = "issue" /\ c \in IssueCandidates(e, found)
  <2>1. \/ c.of \in Enrich(e.author, found) \cup Enrich(e.assignees, found)
        \/ \E d \in e.changes : c.of \in d.added
    BY <1>4 DEF IssueCandidates, For, When
  <2> QED
    BY <1>0, <1>4, <2>1
<1>5. CASE c \in mentioned
  BY <1>5 DEF For
<1> HIDE DEF mentioned
<1>6. \/ e.kind = "pipeline" /\ c \in PipelineCandidates(e, found)
      \/ e.kind = "merge_request" /\ c \in MergeRequestCandidates(e, found)
      \/ e.kind = "note" /\ c \in NoteCandidates(e, found)
      \/ e.kind = "issue" /\ c \in IssueCandidates(e, found)
      \/ c \in mentioned
  BY DEF Candidates, When, mentioned
<1> QED
  BY <1>1, <1>2, <1>3, <1>4, <1>5, <1>6

LEMMA ServedAreFindable ==
  ASSUME NEW w \in Inbox, ~Ignored(w), NEW found \in SUBSET Answerable(Decode(w)), NEW kept,
         NEW p \in Served(Decode(w), found, kept),
         NEW c \in Candidates(Decode(w), found), c.of.who = p
  PROVE  Findable(c.of, mapped \cup kept)
<1> DEFINE e == Decode(w)
<1>1. e.kind = Kind(w)
  BY DecodedFields
<1>2. Kind(w) = "pipeline" => /\ e.author = {WithEmail(q) : q \in w.commit}
                              /\ e.mentions = {}
  <2>1. Kind(w) = "pipeline" => Mentions(w) = {}
    BY DEF Mentions
  <2> QED
    BY <2>1, DecodedFields DEF Decode
<1>3. CASE Kind(w) = "pipeline" /\ c.of \in e.author
  BY <1>2, <1>3 DEF Findable, WithEmail
<1>4. CASE (Kind(w) = "pipeline" => w.commit = {}) /\ c.of \in Enrich(Named(e), found)
  <2>2. PICK i \in Named(e) : c.of = Enriched(i, found)
    BY <1>4 DEF Enrich
  <2>3. i \in Identity /\ i.who = p
    BY <1>4, <2>2, NamedAreRecognisable, EnrichedKeepsPerson
  <2>4. c.of.email \/ (c.of.provider /\ c.of.id = "digits")
    BY <2>2, <2>3, ServedAreEnriched
  <2>5. p \in mapped \cup kept
    BY <1>4, ServedAreMapped
  <2> QED
    BY <2>4, <2>5 DEF Findable
<1>5. CASE Kind(w) # "pipeline" /\ \E d \in e.changes : c.of \in d.added
  <2>1. PICK d \in e.changes : c.of \in d.added
    BY <1>5
  <2>2. c.of.id \in {"digits", "exponent"} /\ c.of.provider = TRUE
    BY <2>1, AddedHaveIds
  <2>3. c.of.id # "exponent"
    <3> SUFFICES ASSUME c.of.id = "exponent" PROVE FALSE
      OBVIOUS
    <3>1. p \in Unfound(e, found)
      BY <2>1 DEF Unfound
    <3> QED
      BY <3>1 DEF Served
  <2>4. p \in mapped \cup kept
    BY <1>5, ServedAreMapped
  <2> QED
    BY <2>2, <2>3, <2>4 DEF Findable
<1>6. ASSUME c.of \in Enrich(Objects(e), found) \/ c.of \in Enrich(e.mentions, found)
      PROVE  c.of \in Enrich(Named(e), found)
  BY <1>6 DEF Enrich, Objects, Named
<1>7. CASE (Kind(w) = "pipeline" => e.author = {}) /\ c.of \in Enrich(Objects(e), found)
  BY <1>2, <1>4, <1>6, <1>7
<1>8. CASE c.of \in Enrich(e.mentions, found)
  <2>1. Kind(w) # "pipeline"
    BY <1>2, <1>8 DEF Enrich
  <2> QED
    BY <1>4, <1>6, <1>8, <2>1
<1> QED
  BY <1>1, <1>3, <1>5, <1>7, <1>8, WhenceCandidates

(* The table shows an identity under the key it was asked with. *)
LEMMA ResolvedKeepsKey ==
  ASSUME NEW i \in Identity, NEW table, Findable(i, table)
  PROVE  /\ Resolved(i, table).email
         /\ Resolved(i, table).who = i.who
         /\ CandidateKey(Resolved(i, table)) = CandidateKey(i)
<1>1. CASE i.email
  BY <1>1 DEF Resolved
<1>2. CASE ~i.email
  <2> DEFINE j == Resolved(i, table)
  <2>1. i.provider = TRUE /\ i.id = "digits" /\ i.who \in table
    BY <1>2 DEF Findable, Identity
  <2>2. j =
           [who |-> i.who, provider |-> TRUE, id |-> i.id, name |-> i.name, email |-> TRUE]
    BY <1>2, <2>1 DEF Resolved
  <2> HIDE DEF j
  <2>3. j.who = i.who /\ j.provider = i.provider /\ j.id = i.id /\ j.email
    BY <2>1, <2>2
  <2>4. /\ CandidateKey(i) = <<i.id, i.provider, i.who>>
        /\ CandidateKey(j) = <<j.id, j.provider, j.who>>
    BY <2>1, <2>3 DEF CandidateKey
  <2> QED
    BY <2>3, <2>4 DEF j
<1> QED
  BY <1>1, <1>2

(* A candidate is announced to for a reason if whichever identity was added  *)
(* first under the candidate's key can be found.                             *)
LEMMA FirstIsNoticed ==
  ASSUME NEW w \in Inbox, ~Ignored(w), NEW found, NEW table,
         NEW p \in Admitted, NEW r \in Entitled(w, p),
         NEW c \in Candidates(Decode(w), found), c.of.who = p, c.reason = r,
         Findable(First(Candidates(Decode(w), found), CandidateKey(c.of)), table)
  PROVE  <<p, r>> \in Notices(Decode(w), table, found)
<1> DEFINE e     == Decode(w)
           C     == Candidates(e, found)
           actor == Enriched(e.actor, found)
           seen  == {i \in {Resolved(First(C, k), table) : k \in Keys(C)} :
                         i.email /\ i.who \in Admitted}
<1>1. /\ r \in Reasons /\ p \in Concerned(w, r) /\ <<p, r>> \notin Refused
      /\ p = w.user => Kind(w) = "pipeline"
  BY DEF Entitled, Wanted, When
<1>2. c \in C
  OBVIOUS
<1>3. \A d \in C : d.of \in Identity /\ d.at \in Nat
  BY CandidatesAreFor DEF AreFor, IsCandidate
<1>4. Findable(First(C, CandidateKey(c.of)), table)
  OBVIOUS
<1>5. actor.who = w.user
  <2>1. e.actor = Person(w.user) /\ Person(w.user).who = w.user
    BY DecodedFields DEF Person
  <2>2. \A i : Enriched(i, found).who = i.who
    BY DEF Enriched
  <2> QED
    BY <2>1, <2>2
<1>6. p \in People
  BY RoutingAssumption
<1> HIDE DEF C, actor
<1> DEFINE k == CandidateKey(c.of)
           i == Resolved(First(C, k), table)
<1>7. k \in Keys(C) /\ r \in ReasonsOf(C, k)
  BY <1>2 DEF Keys, ReasonsOf, WithKey
<1>8. PICK d \in WithKey(C, k) : First(C, k) = d.of
  BY <1>3, <1>7, FirstIsOneOfThem
<1>9. d \in C /\ CandidateKey(d.of) = k /\ d.of.who = p
  BY <1>2, <1>8, KeysTellPeople DEF WithKey
<1>10. i.email /\ i.who = p /\ CandidateKey(i) = k
  BY <1>3, <1>4, <1>8, <1>9, ResolvedKeepsKey
<1> HIDE DEF k
<1>11. i \in seen
  BY <1>7, <1>10
<1>12. MatchingKeys(C, i) = {k}
  BY <1>7, <1>10 DEF MatchingKeys
<1>13. e.kind = "pipeline" \/ ~SameIdentity(actor, i)
  <2>1. e.kind = Kind(w)
    BY DecodedFields
  <2> HIDE DEF i
  <2> QED
    BY <1>1, <1>5, <1>10, <2>1, SameIsSamePerson
<1> HIDE DEF i, seen
<1>14. \E x \in seen : /\ x.who = p
                       /\ e.kind = "pipeline" \/ ~SameIdentity(actor, x)
                       /\ \E q \in MatchingKeys(C, x) : r \in ReasonsOf(C, q)
  BY <1>7, <1>10, <1>11, <1>12, <1>13
<1>15. Notices(e, table, found) =
         {n \in (People \X Reasons) \ Refused :
            \E x \in seen : /\ x.who = n[1]
                            /\ e.kind = "pipeline" \/ ~SameIdentity(actor, x)
                            /\ \E q \in MatchingKeys(C, x) : n[2] \in ReasonsOf(C, q)}
  BY DEF Notices, C, actor, seen
<1>16. <<p, r>> \in (People \X Reasons) \ Refused
  BY <1>1, <1>6
<1> QED
  BY <1>14, <1>15, <1>16

LEMMA FindableAreNoticed ==
  ASSUME NEW w \in Inbox, ~Ignored(w), NEW found, NEW table,
         NEW p \in Admitted, NEW r \in Entitled(w, p),
         NEW c \in Candidates(Decode(w), found), c.of.who = p, c.reason = r,
         \A d \in Candidates(Decode(w), found) :
             CandidateKey(d.of) = CandidateKey(c.of) => Findable(d.of, table)
  PROVE  <<p, r>> \in Notices(Decode(w), table, found)
<1> DEFINE C == Candidates(Decode(w), found)
           k == CandidateKey(c.of)
<1>1. \A d \in C : d.at \in Nat
  BY CandidatesAreFor DEF AreFor, IsCandidate
<1>2. k \in Keys(C)
  BY DEF Keys
<1>3. PICK d \in WithKey(C, k) : First(C, k) = d.of
  BY <1>1, <1>2, FirstIsOneOfThem
<1>4. d \in C /\ CandidateKey(d.of) = k
  BY DEF WithKey
<1>5. Findable(First(C, k), table)
  BY <1>3, <1>4
<1> QED
  BY <1>5, FirstIsNoticed

(* A person served is announced to for every reason the webhook gives them. *)
LEMMA ServedAreNoticed ==
  ASSUME NEW w \in Inbox, ~Ignored(w), NEW found \in SUBSET Answerable(Decode(w)), NEW kept,
         NEW p \in Served(Decode(w), found, kept) \cap Admitted, NEW r \in Entitled(w, p)
  PROVE  <<p, r>> \in Notices(Decode(w), mapped \cup kept, found)
<1> DEFINE C     == Candidates(Decode(w), found)
           table == mapped \cup kept
<1>1. p \in Concerned(w, r) /\ r \in Reasons /\ (p = w.user => Kind(w) = "pipeline")
  BY DEF Entitled, Wanted, When
<1>2. PICK c \in C : c.of.who = p /\ c.reason = r
  BY <1>1, CandidatesReach DEF Reach
<1>3. \A d \in C : d.of \in Identity
  BY CandidatesAreFor DEF AreFor, IsCandidate
<1>4. \A d \in C : CandidateKey(d.of) = CandidateKey(c.of) => Findable(d.of, table)
  BY <1>2, <1>3, KeysTellPeople, ServedAreFindable
<1> QED
  BY <1>2, <1>4, FindableAreNoticed

(* And for no other: the group of reasons is exactly the one they are        *)
(* entitled to.                                                              *)
LEMMA ServedAreGrouped ==
  ASSUME NEW w \in Inbox, ~Ignored(w), NEW found \in SUBSET Answerable(Decode(w)), NEW kept,
         NEW p \in Served(Decode(w), found, kept) \cap Recipients(w)
  PROVE  <<p, Entitled(w, p)>> \in Grouped(Notices(Decode(w), mapped \cup kept, found))
<1> DEFINE N     == Notices(Decode(w), mapped \cup kept, found)
           Of(q) == {n[2] : n \in {x \in N : x[1] = q}}
<1>1. p \in Admitted /\ Entitled(w, p) # {}
  BY DEF Recipients
<1>2. Entitled(w, p) = Wanted(w, p)
  BY <1>1 DEF Entitled, When
<1>3. \A r \in Entitled(w, p) : <<p, r>> \in N
  BY <1>1, ServedAreNoticed
<1>4. \A n \in N : n[1] = p => n[2] \in Wanted(w, p)
  BY NoticesAreFor DEF MayHear
<1> HIDE DEF N
<1>5. Of(p) = Entitled(w, p)
  <2>1. \A r \in Entitled(w, p) : r \in Of(p)
    <3> TAKE r \in Entitled(w, p)
    <3> DEFINE n == <<p, r>>
    <3>1. n \in N /\ n[1] = p /\ n[2] = r
      BY <1>3
    <3> HIDE DEF n
    <3> QED
      BY <3>1
  <2>2. \A r \in Of(p) : r \in Entitled(w, p)
    BY <1>2, <1>4
  <2> QED
    BY <2>1, <2>2
<1>6. p \in {n[1] : n \in N}
  <2>1. PICK r \in Entitled(w, p) : TRUE
    BY <1>1
  <2> DEFINE n == <<p, r>>
  <2>2. n \in N /\ n[1] = p
    BY <1>3
  <2> HIDE DEF n
  <2> QED
    BY <2>2
<1>7. Grouped(N) = {<<q, Of(q)>> : q \in {n[1] : n \in N}}
  BY DEF Grouped
<1> QED
  BY <1>5, <1>6, <1>7 DEF N

-----------------------------------------------------------------------------
(* The invariant. *)

(* What Handle leaves behind: a row for every group, its own or an older one. *)
LEMMA HandleLeaves ==
  ASSUME TypeOK, NEW w \in Inbox, Handle(w)
  PROVE  \E found \in SUBSET Answerable(Decode(w)) : \E kept :
           /\ rows \subseteq rows'
           /\ \A g \in Grouped(Notices(Decode(w), mapped \cup kept, found)) :
                 \E row \in rows' : row.key = DeliveryKey(Decode(w), g[1], g[2])
           /\ \A v \in Inbox :
                 /\ \A p \in asked'[v] : p \in asked[v] \/ (v = w /\ p \in Served(Decode(w), found, kept))
                 /\ \A p \in known'[v] : p \in known[v] \/ (v = w /\ p \in mapped)
<1> DEFINE e == Decode(w)
           G(found, kept) == Grouped(Notices(e, mapped \cup kept, found))
           keys(found, kept) == {DeliveryKey(e, g[1], g[2]) : g \in G(found, kept)}
           new(found, kept) == keys(found, kept) \ {row.key : row \in rows}
           did(found, kept) ==
               /\ rows' = rows \cup {[key |-> k, hook |-> w] : k \in new(found, kept)}
               /\ asked' = [asked EXCEPT ![w] = @ \cup Served(e, found, kept)]
               /\ known' = [known EXCEPT ![w] = @ \cup mapped]
<1>1. PICK found \in SUBSET Answerable(e) : \E kept : did(found, kept)
  BY DEF Handle
<1>2. PICK kept : did(found, kept)
  BY <1>1
<1>3. rows \subseteq rows'
  BY <1>2
<1>4. ASSUME NEW g \in G(found, kept)
      PROVE  \E row \in rows' : row.key = DeliveryKey(e, g[1], g[2])
  <2> DEFINE k == DeliveryKey(e, g[1], g[2])
  <2>1. k \in keys(found, kept)
    OBVIOUS
  <2> HIDE DEF G
  <2>2. \A x \in new(found, kept) : [key |-> x, hook |-> w] \in rows'
    BY <1>2
  <2> HIDE DEF k, keys
  <2>3. CASE \E row \in rows : row.key = k
    BY <1>3, <2>3 DEF k
  <2>4. CASE k \notin {row.key : row \in rows}
    <3>1. k \in new(found, kept)
      BY <2>1, <2>4
    <3> DEFINE row == [key |-> k, hook |-> w]
    <3>2. row \in rows' /\ row.key = k
      BY <2>2, <3>1
    <3> HIDE DEF row
    <3> QED
      BY <3>2 DEF k
  <2> QED
    BY <2>3, <2>4
<1>5. \A v \in Inbox :
         /\ \A p \in asked'[v] : p \in asked[v] \/ (v = w /\ p \in Served(e, found, kept))
         /\ \A p \in known'[v] : p \in known[v] \/ (v = w /\ p \in mapped)
  BY <1>2 DEF TypeOK
<1> QED
  BY <1>3, <1>4, <1>5

LEMMA HandleNotifies ==
  ASSUME TypeOK, EntitledAreNotified, NEW w \in Inbox, Handle(w)
  PROVE  EntitledAreNotified'
<1> DEFINE e == Decode(w)
           left_behind(found, kept) ==
             /\ rows \subseteq rows'
             /\ \A g \in Grouped(Notices(e, mapped \cup kept, found)) :
                   \E row \in rows' : row.key = DeliveryKey(e, g[1], g[2])
             /\ \A v \in Inbox : \A p \in asked'[v] :
                   p \in asked[v] \/ (v = w /\ p \in Served(e, found, kept))
<1>1. ~Ignored(w)
  BY DEF Handle
<1>2. PICK found \in SUBSET Answerable(e) : \E kept : left_behind(found, kept)
  BY HandleLeaves
<1>3. PICK kept : left_behind(found, kept)
  BY <1>2
<1>4. ASSUME NEW p \in Served(e, found, kept) \cap Recipients(w)
      PROVE  \E row \in rows' : row.key = DeliveryKey(e, p, Entitled(w, p))
  <2> DEFINE g == <<p, Entitled(w, p)>>
  <2>1. /\ g \in Grouped(Notices(e, mapped \cup kept, found))
        /\ g[1] = p /\ g[2] = Entitled(w, p)
    BY <1>1, ServedAreGrouped
  <2> HIDE DEF g
  <2> QED
    BY <1>3, <2>1
<1> SUFFICES ASSUME NEW v \in Inbox, NEW p \in Recipients(v) \cap asked'[v]
             PROVE  \E row \in rows' : row.key = DeliveryKey(Decode(v), p, Entitled(v, p))
  BY DEF EntitledAreNotified
<1>5. CASE p \in asked[v]
  BY <1>3, <1>5 DEF EntitledAreNotified
<1>6. CASE v = w /\ p \in Served(e, found, kept)
  BY <1>4, <1>6
<1> QED
  BY <1>3, <1>5, <1>6

(* Whoever a payload names anywhere, and nothing failed at some handling,    *)
(* is announced to with all their reasons at once, whatever else happened to *)
(* their identities on the way: the enrichment, the merge of candidates by   *)
(* key, the table and the match back lose nobody and no reason.              *)
THEOREM TheEntitledHear == Spec => []EntitledAreNotified
<1>1. Init => EntitledAreNotified
  BY DEF Init, EntitledAreNotified
<1>2. TypeOK /\ EntitledAreNotified /\ [Next]_vars => EntitledAreNotified'
  <2> SUFFICES ASSUME TypeOK, EntitledAreNotified, [Next]_vars
               PROVE  EntitledAreNotified'
    OBVIOUS
  <2>1. ASSUME NEW w \in Inbox, Handle(w) PROVE EntitledAreNotified'
    BY <2>1, HandleNotifies
  <2>2. ASSUME NEW w \in Inbox, Ignore(w) PROVE EntitledAreNotified'
    BY <2>2 DEF Ignore, EntitledAreNotified
  <2>3. ASSUME NEW p \in People, Disable(p) PROVE EntitledAreNotified'
    BY <2>3 DEF Disable, EntitledAreNotified
  <2>4. CASE UNCHANGED vars
    BY <2>4 DEF vars, EntitledAreNotified
  <2> QED
    BY <2>1, <2>2, <2>3, <2>4 DEF Next
<1> QED
  BY <1>1, <1>2, TypeCorrect, PTL DEF Spec

-----------------------------------------------------------------------------
(* Rows of their own. *)

(* Every row has the key of its webhook, person and reasons. *)
RowsHaveTheirKeys ==
    \A row \in rows : row.key = DeliveryKey(Decode(row.hook), row.key.who, row.key.group)

(* What is left of EachEventHasItsRow: where no key is taken from a note or  *)
(* for a mention, another event is announced by a row of its own, unless     *)
(* two webhooks have the same event key (a redelivery, or the same header).  *)
MentionlessEventsHaveTheirRow ==
    \A w \in Inbox : \A p \in Recipients(w) \cap asked[w] :
        (/\ Kind(w) # "note" /\ "mention" \notin Entitled(w, p)
         /\ \A v \in Inbox : EventKey(v) = EventKey(w) => v = w)
            => \E row \in rows : row.hook = w /\ row.key.who = p

LEMMA HandleKeysRows ==
  ASSUME RowsHaveTheirKeys, NEW w \in Inbox, Handle(w)
  PROVE  RowsHaveTheirKeys'
<1> DEFINE e == Decode(w)
<1>1. PICK table, found :
         LET keys == {DeliveryKey(e, g[1], g[2]) : g \in Grouped(Notices(e, table, found))}
             old  == {row.key : row \in rows}
         IN  rows' = rows \cup {[key |-> k, hook |-> w] : k \in keys \ old}
  BY DEF Handle
<1> DEFINE G == Grouped(Notices(e, table, found))
<1>2. \A row \in rows' \ rows : \E g \in G :
         row = [key |-> DeliveryKey(e, g[1], g[2]), hook |-> w]
  BY <1>1
<1> HIDE DEF G
<1> SUFFICES ASSUME NEW row \in rows'
             PROVE  row.key = DeliveryKey(Decode(row.hook), row.key.who, row.key.group)
  BY DEF RowsHaveTheirKeys
<1>3. CASE row \in rows
  BY <1>3 DEF RowsHaveTheirKeys
<1>4. CASE row \notin rows
  <2>1. PICK g \in G : row = [key |-> DeliveryKey(e, g[1], g[2]), hook |-> w]
    BY <1>2, <1>4
  <2>2. row.hook = w /\ row.key = DeliveryKey(e, g[1], g[2])
    BY <2>1
  <2>3. row.key.who = g[1] /\ row.key.group = g[2]
    BY <2>2, KeyFields
  <2> QED
    BY <2>2, <2>3
<1> QED
  BY <1>3, <1>4

(* A key tells from which kind of thing it was taken. *)
LEMMA EventKeysAreTheirOwn ==
  ASSUME NEW w, NEW v, NEW p, NEW R, NEW q, NEW S,
         Kind(w) # "note", "mention" \notin R,
         DeliveryKey(Decode(v), q, S) = DeliveryKey(Decode(w), p, R)
  PROVE  EventKey(v) = EventKey(w)
<1> DEFINE e == Decode(w)
           f == Decode(v)
           b == DeliveryKey(f, q, S).base
<1>1. e.kind = Kind(w) /\ e.key = EventKey(w) /\ f.key = EventKey(v)
  BY DecodedFields
<1> HIDE DEF e, f
<1>2. DeliveryKey(e, p, R).base = <<"event", e.key>>
  BY <1>1 DEF DeliveryKey
<1>3. b = <<"event", e.key>>
  BY <1>2 DEF e, f
<1>4. \/ b = <<"note", f.note>>
      \/ b = <<"mention", f.kind, f.iid>>
      \/ b = <<"event", f.key>>
  BY DEF DeliveryKey
<1> HIDE DEF b
<1> QED
  BY <1>1, <1>3, <1>4

(* An event with an event key of its own is announced by a row of its own    *)
(* to everybody it does not mention: no earlier row, whoever and whatever it *)
(* was for, has that key.  EachEventHasItsRow fails for notes and mentions   *)
(* alone.                                                                    *)
THEOREM EventsWithoutMentionHaveTheirRow == Spec => []MentionlessEventsHaveTheirRow
<1>1. Init => RowsHaveTheirKeys
  BY DEF Init, RowsHaveTheirKeys
<1>2. RowsHaveTheirKeys /\ [Next]_vars => RowsHaveTheirKeys'
  <2> SUFFICES ASSUME RowsHaveTheirKeys, [Next]_vars
               PROVE  RowsHaveTheirKeys'
    OBVIOUS
  <2>1. ASSUME NEW w \in Inbox, Handle(w) PROVE RowsHaveTheirKeys'
    BY <2>1, HandleKeysRows
  <2>2. ASSUME NEW w \in Inbox, Ignore(w) PROVE RowsHaveTheirKeys'
    BY <2>2 DEF Ignore, RowsHaveTheirKeys
  <2>3. ASSUME NEW p \in People, Disable(p) PROVE RowsHaveTheirKeys'
    BY <2>3 DEF Disable, RowsHaveTheirKeys
  <2>4. CASE UNCHANGED vars
    BY <2>4 DEF vars, RowsHaveTheirKeys
  <2> QED
    BY <2>1, <2>2, <2>3, <2>4 DEF Next
<1>3. TypeOK /\ EntitledAreNotified /\ RowsHaveTheirKeys => MentionlessEventsHaveTheirRow
  <2> SUFFICES ASSUME TypeOK, EntitledAreNotified, RowsHaveTheirKeys,
                      NEW w \in Inbox, NEW p \in Recipients(w) \cap asked[w],
                      Kind(w) # "note", "mention" \notin Entitled(w, p),
                      \A v \in Inbox : EventKey(v) = EventKey(w) => v = w
               PROVE  \E row \in rows : row.hook = w /\ row.key.who = p
    BY DEF MentionlessEventsHaveTheirRow
  <2>1. PICK row \in rows : row.key = DeliveryKey(Decode(w), p, Entitled(w, p))
    BY DEF EntitledAreNotified
  <2>2. row.key = DeliveryKey(Decode(row.hook), row.key.who, row.key.group)
    BY DEF RowsHaveTheirKeys
  <2>3. EventKey(row.hook) = EventKey(w)
    BY <2>1, <2>2, EventKeysAreTheirOwn
  <2>4. row.hook \in Inbox
    BY DEF TypeOK
  <2>5. row.key.who = p
    BY <2>1, KeyFields
  <2> QED
    BY <2>3, <2>4, <2>5
<1> QED
  BY <1>1, <1>2, <1>3, TypeCorrect, TheEntitledHear, PTL DEF Spec

-----------------------------------------------------------------------------
(* What an outage of GitLab leaves of it. *)

(* Known by the ID GitLab gave. *)
HasId(i) == i.provider = TRUE /\ i.id = Printed(i.who)

LEMMA ReferencesHaveIds ==
  ASSUME NEW refs
  PROVE  \A i \in IdentitiesFrom(refs) : HasId(i)
BY DEF IdentitiesFrom, WithId, Person, HasId

LEMMA EnrichedKeepsId ==
  ASSUME NEW S, \A i \in S : HasId(i), NEW found
  PROVE  \A i \in Enrich(S, found) : HasId(i)
<1> SUFFICES ASSUME NEW i \in S
             PROVE  HasId(Enriched(i, found))
  BY DEF Enrich
<1>1. i.provider = TRUE /\ i.id = Printed(i.who)
  BY DEF HasId
<1>2. Printed(i.who) # "none"
  BY DEF Printed
<1> QED
  BY <1>1, <1>2 DEF Enriched, HasId

(* Only a commit's author is known by the address alone, and a name in a     *)
(* text by the username.                                                     *)
LEMMA ObjectsHaveIds ==
  ASSUME NEW w \in Inbox, Kind(w) = "pipeline" => w.commit = {}
  PROVE  /\ \A i \in Objects(Decode(w)) : HasId(i)
         /\ \A c \in Decode(w).changes : \A i \in c.added : HasId(i)
<1> DEFINE e == Decode(w)
           d == Object(w)
           t == w.top
           Decoded(x) == [field |-> x.field, added |-> IF IsList(x) THEN Added(x) ELSE {}]
<1>1. HasId(e.actor)
  <2>1. e.actor = Person(w.user)
    BY DecodedFields
  <2> HIDE DEF e
  <2> QED
    BY <2>1 DEF HasId, Person
<1>2. \A i \in Author(d, t) : HasId(i)
  <2>1. \A i \in {WithId(p) : p \in d.author_id} : HasId(i)
    BY DEF HasId, WithId
  <2> QED
    BY <2>1, ReferencesHaveIds DEF Author, Else
<1>3. \A i \in Reviewers(d, t) : HasId(i)
  BY ReferencesHaveIds DEF Reviewers
<1>4. \A i \in MergeRequestAssignees(d, t) \cup IssueAssignees(d) : HasId(i)
  BY ReferencesHaveIds DEF MergeRequestAssignees, IssueAssignees
<1>5. \A i \in e.author : HasId(i)
  <2>1. e.author = {} \/ e.author = Author(d, t)
    BY DEF Decode
  <2> QED
    BY <1>2, <2>1
<1>6. \A i \in e.reviewers \cup e.assignees : HasId(i)
  <2>1. /\ e.reviewers \in {{}, Reviewers(d, t)}
        /\ e.assignees \in {{}, MergeRequestAssignees(d, t), IssueAssignees(d)}
    BY DEF Decode
  <2> QED
    BY <1>3, <1>4, <2>1
<1>7. ASSUME NEW c \in e.changes, NEW i \in c.added PROVE HasId(i)
  <2> HIDE DEF Decoded
  <2>1. PICK x \in w.changes : c = Decoded(x)
    <3>1. e.changes = {Decoded(x) : x \in w.changes}
      BY DecodedFields DEF Decoded
    <3> QED
      BY <1>7, <3>1
  <2>2. c.added = IF IsList(x) THEN Added(x) ELSE {}
    BY <2>1 DEF Decoded
  <2>3. i \in IdentitiesFrom(x.current)
    BY <1>7, <2>2 DEF Added
  <2> QED
    BY <2>3, ReferencesHaveIds
<1> QED
  BY <1>1, <1>5, <1>6, <1>7 DEF Objects

(* All candidates that share the key of one with another reason than the     *)
(* mention are known by the same ID, so the table finds them without GitLab. *)
LEMMA KeyedAreFindable ==
  ASSUME NEW w \in Inbox, ~Ignored(w), NEW found, NEW table, NEW p \in table \ Large,
         NEW c \in Candidates(Decode(w), found), c.of.who = p, c.reason # "mention",
         NEW d \in Candidates(Decode(w), found), CandidateKey(d.of) = CandidateKey(c.of)
  PROVE  Findable(d.of, table)
<1> DEFINE e == Decode(w)
<1>1. e.kind = Kind(w)
  BY DecodedFields
<1>2. CASE Kind(w) = "pipeline" /\ w.commit # {}
  <2>1. e.author = {WithEmail(q) : q \in w.commit} /\ e.mentions = {}
    BY <1>2, DecodedFields DEF Decode, Mentions
  <2>2. e.author # {} /\ Enrich(e.mentions, found) = {}
    BY <1>2, <2>1 DEF Enrich
  <2>3. d.of \in e.author
    BY <1>1, <1>2, <2>2, WhenceCandidates
  <2> QED
    BY <2>1, <2>3 DEF WithEmail, Findable
<1>3. CASE Kind(w) = "pipeline" => w.commit = {}
  <2>1. Kind(w) = "pipeline" => e.author = {}
    BY <1>3 DEF Decode
  <2>2. HasId(c.of)
    <3>1. \/ c.of \in Enrich(Objects(e), found)
          \/ \E x \in e.changes : c.of \in x.added
      BY <1>1, <2>1, WhenceCandidates
    <3> QED
      BY <1>3, <3>1, ObjectsHaveIds, EnrichedKeepsId
  <2>3. c.of.id = "digits" /\ c.of.provider = TRUE
    BY <2>2 DEF HasId, Printed
  <2>4. CandidateKey(d.of) = <<"digits", TRUE, p>>
    BY <2>3 DEF CandidateKey
  <2>5. d.of \in Identity
    BY CandidatesAreFor DEF AreFor, IsCandidate
  <2>6. d.of.id # "none"
    BY <2>4 DEF CandidateKey
  <2>7. d.of.id = "digits" /\ d.of.provider = TRUE /\ d.of.who = p
    BY <2>4, <2>6 DEF CandidateKey
  <2> QED
    BY <2>7 DEF Findable
<1> QED
  BY <1>2, <1>3

LEMMA MappedAreNoticed ==
  ASSUME NEW w \in Inbox, ~Ignored(w), NEW found, NEW table,
         NEW p \in (Admitted \cap table) \ Large, NEW r \in Entitled(w, p) \ {"mention"}
  PROVE  <<p, r>> \in Notices(Decode(w), table, found)
<1> DEFINE C == Candidates(Decode(w), found)
<1>1. p \in Concerned(w, r) /\ r \in Reasons /\ (p = w.user => Kind(w) = "pipeline")
  BY DEF Entitled, Wanted, When
<1>2. PICK c \in C : c.of.who = p /\ c.reason = r
  BY <1>1, CandidatesReach DEF Reach
<1>3. \A d \in C : CandidateKey(d.of) = CandidateKey(c.of) => Findable(d.of, table)
  BY <1>2, KeyedAreFindable
<1> QED
  BY <1>2, <1>3, FindableAreNoticed

LEMMA MappedAreGrouped ==
  ASSUME NEW w \in Inbox, ~Ignored(w), NEW found, NEW table,
         NEW p \in (Recipients(w) \cap table) \ Large, Entitled(w, p) \ {"mention"} # {}
  PROVE  \E R \in SUBSET Entitled(w, p) :
            /\ Entitled(w, p) \ {"mention"} \subseteq R
            /\ <<p, R>> \in Grouped(Notices(Decode(w), table, found))
<1> DEFINE N     == Notices(Decode(w), table, found)
           Of(q) == {n[2] : n \in {x \in N : x[1] = q}}
<1>1. p \in Admitted /\ Entitled(w, p) = Wanted(w, p)
  BY DEF Recipients, Entitled, When
<1>2. \A r \in Entitled(w, p) \ {"mention"} : <<p, r>> \in N
  BY <1>1, MappedAreNoticed
<1>3. \A n \in N : n[1] = p => n[2] \in Wanted(w, p)
  BY NoticesAreFor DEF MayHear
<1> HIDE DEF N
<1>4. Entitled(w, p) \ {"mention"} \subseteq Of(p)
  <2> SUFFICES ASSUME NEW r \in Entitled(w, p) \ {"mention"} PROVE r \in Of(p)
    OBVIOUS
  <2> DEFINE n == <<p, r>>
  <2>1. n \in N /\ n[1] = p /\ n[2] = r
    BY <1>2
  <2> HIDE DEF n
  <2> QED
    BY <2>1
<1>5. Of(p) \subseteq Entitled(w, p)
  BY <1>1, <1>3
<1>6. p \in {n[1] : n \in N}
  <2>1. PICK r \in Of(p) : TRUE
    BY <1>4
  <2> QED
    BY <2>1
<1>7. Grouped(N) = {<<q, Of(q)>> : q \in {n[1] : n \in N}}
  BY DEF Grouped
<1>8. <<p, Of(p)>> \in Grouped(N)
  BY <1>6, <1>7
<1> HIDE DEF Of
<1>9. Of(p) \in SUBSET Entitled(w, p)
  BY <1>5
<1> QED
  BY <1>4, <1>8, <1>9 DEF N

(* What OutageCostsMentionsOnly says of a webhook and a person. *)
HeardDuringOutage(w, p) ==
    Entitled(w, p) \ {"mention"} # {} =>
        \E R \in SUBSET Entitled(w, p) :
            /\ Entitled(w, p) \ {"mention"} \subseteq R
            /\ \E row \in rows : row.key = DeliveryKey(Decode(w), p, R)

LEMMA HandleUsesMappings ==
  ASSUME TypeOK, OutageCostsMentionsOnly, NEW w \in Inbox, Handle(w)
  PROVE  OutageCostsMentionsOnly'
<1> DEFINE e == Decode(w)
           behind(found, kept) ==
             /\ rows \subseteq rows'
             /\ \A g \in Grouped(Notices(e, mapped \cup kept, found)) :
                   \E row \in rows' : row.key = DeliveryKey(e, g[1], g[2])
             /\ \A v \in Inbox : \A p \in known'[v] : p \in known[v] \/ (v = w /\ p \in mapped)
<1>1. ~Ignored(w)
  BY DEF Handle
<1>2. PICK found \in SUBSET Answerable(e) : \E kept : behind(found, kept)
  BY HandleLeaves
<1>3. PICK kept : behind(found, kept)
  BY <1>2
<1>4. ASSUME NEW p \in (Recipients(w) \cap mapped) \ Large
      PROVE  HeardDuringOutage(w, p)'
  <2> SUFFICES ASSUME Entitled(w, p) \ {"mention"} # {}
               PROVE  \E R \in SUBSET Entitled(w, p) :
                          /\ Entitled(w, p) \ {"mention"} \subseteq R
                          /\ \E row \in rows' : row.key = DeliveryKey(e, p, R)
    BY DEF HeardDuringOutage
  <2> DEFINE table == mapped \cup kept
  <2>1. p \in (Recipients(w) \cap table) \ Large
    OBVIOUS
  <2> HIDE DEF table
  <2>2. PICK R \in SUBSET Entitled(w, p) :
               /\ Entitled(w, p) \ {"mention"} \subseteq R
               /\ <<p, R>> \in Grouped(Notices(e, table, found))
    BY <1>1, <2>1, MappedAreGrouped
  <2> DEFINE g == <<p, R>>
  <2>3. g \in Grouped(Notices(e, table, found)) /\ g[1] = p /\ g[2] = R
    BY <2>2
  <2> HIDE DEF g
  <2>4. \E row \in rows' : row.key = DeliveryKey(e, p, R)
    BY <1>3, <2>3 DEF table
  <2> QED
    BY <2>2, <2>4
<1> SUFFICES ASSUME NEW v \in Inbox, NEW p \in (Recipients(v) \cap known'[v]) \ Large
             PROVE  HeardDuringOutage(v, p)'
  BY DEF OutageCostsMentionsOnly, HeardDuringOutage
<1>5. CASE p \in known[v]
  <2>1. HeardDuringOutage(v, p)
    BY <1>5 DEF OutageCostsMentionsOnly, HeardDuringOutage
  <2> QED
    BY <1>3, <2>1 DEF HeardDuringOutage
<1>6. CASE v = w /\ p \in mapped
  BY <1>4, <1>6
<1> QED
  BY <1>3, <1>5, <1>6

(* Whatever GitLab leaves unanswered, whoever has an enabled mapping when    *)
(* a webhook arrives is announced to with every reason but perhaps the       *)
(* mention, for any webhooks, tables and preferences: candidates known by ID *)
(* share a key with each other alone, and the table keeps that key.          *)
THEOREM AnOutageCostsMentionsOnly == Spec => []OutageCostsMentionsOnly
<1>1. Init => OutageCostsMentionsOnly
  BY DEF Init, OutageCostsMentionsOnly
<1>2. TypeOK /\ OutageCostsMentionsOnly /\ [Next]_vars => OutageCostsMentionsOnly'
  <2> SUFFICES ASSUME TypeOK, OutageCostsMentionsOnly, [Next]_vars
               PROVE  OutageCostsMentionsOnly'
    OBVIOUS
  <2>1. ASSUME NEW w \in Inbox, Handle(w) PROVE OutageCostsMentionsOnly'
    BY <2>1, HandleUsesMappings
  <2>2. ASSUME NEW w \in Inbox, Ignore(w) PROVE OutageCostsMentionsOnly'
    BY <2>2 DEF Ignore, OutageCostsMentionsOnly
  <2>3. ASSUME NEW p \in People, Disable(p) PROVE OutageCostsMentionsOnly'
    BY <2>3 DEF Disable, OutageCostsMentionsOnly
  <2>4. CASE UNCHANGED vars
    BY <2>4 DEF vars, OutageCostsMentionsOnly
  <2> QED
    BY <2>1, <2>2, <2>3, <2>4 DEF Next
<1> QED
  BY <1>1, <1>2, TypeCorrect, PTL DEF Spec

-----------------------------------------------------------------------------
(* What another handling may tell. *)

(* An address of one's own, to the payload or to GitLab, comes with the ID    *)
(* GitLab gives, but for a commit's author.                                  *)
LEMMA AddressesComeWithIds ==
  ASSUME NEW w \in Inbox, ~Ignored(w), Kind(w) = "pipeline" => w.commit = {}, NEW found,
         NEW c \in Candidates(Decode(w), found), c.of.email \/ c.reason # "mention",
         c.of.who \notin Large
  PROVE  CandidateKey(c.of) = <<"digits", TRUE, c.of.who>>
<1> DEFINE e == Decode(w)
<1>1. e.kind = Kind(w)
  BY DecodedFields
<1>2. ASSUME HasId(c.of)
      PROVE  CandidateKey(c.of) = <<"digits", TRUE, c.of.who>>
  <2>1. c.of.id = "digits" /\ c.of.provider = TRUE
    BY <1>2 DEF HasId, Printed
  <2> QED
    BY <2>1 DEF CandidateKey
<1>3. CASE c.of \in Enrich(Objects(e), found) \/ \E x \in e.changes : c.of \in x.added
  <2>1. HasId(c.of)
    BY <1>3, ObjectsHaveIds, EnrichedKeepsId
  <2> QED
    BY <1>2, <2>1
<1>4. CASE c.of.email /\ c.of \in Enrich(e.mentions, found)
  <2>1. PICK p \in Mentions(w) : c.of = Enriched(Mentioned(p), found)
    BY <1>4, DecodedFields DEF Enrich
  <2> DEFINE i == Mentioned(p)
  <2>2. i.id = "none" /\ ~i.email
    BY DEF Mentioned
  <2>3. c.of = Enriched(i, found)
    BY <2>1
  <2> HIDE DEF i
  <2>4. c.of = [who |-> i.who, provider |-> TRUE, id |-> "digits", name |-> TRUE,
                email |-> i.who \in Directory]
    BY <1>4, <2>2, <2>3 DEF Enriched
  <2>5. c.of.id = "digits" /\ c.of.provider = TRUE
    BY <2>4
  <2> QED
    BY <2>5 DEF CandidateKey
<1>5. Kind(w) = "pipeline" => e.author = {}
  <2> SUFFICES ASSUME Kind(w) = "pipeline" PROVE e.author = {}
    OBVIOUS
  <2>1. w.commit = {}
    OBVIOUS
  <2> QED
    BY <2>1 DEF Decode
<1> QED
  BY <1>1, <1>3, <1>4, <1>5, WhenceCandidates

(* Whoever hears of a webhook at all hears every reason but perhaps the      *)
(* mention.  If the table has the person, it finds each candidate with such  *)
(* a reason; if not, the address that was noticed came with the ID, and so   *)
(* stands first under the key of all these candidates.                       *)
LEMMA NoticedHearAll ==
  ASSUME NEW w \in Inbox, ~Ignored(w), NEW found, NEW table,
         NEW n \in Notices(Decode(w), table, found), n[1] \notin Large,
         NEW r \in Entitled(w, n[1]) \ {"mention"}
  PROVE  <<n[1], r>> \in Notices(Decode(w), table, found)
<1> DEFINE e == Decode(w)
           C == Candidates(e, found)
           p == n[1]
<1>1. p \in Admitted
  BY NoticesAreFor DEF MayHear
<1>2. p \in Concerned(w, r) /\ r \in Reasons /\ (p = w.user => Kind(w) = "pipeline")
  BY DEF Entitled, Wanted, When
<1>3. PICK c \in C : c.of.who = p /\ c.reason = r
  BY <1>2, CandidatesReach DEF Reach
<1>4. CASE Kind(w) = "pipeline" /\ w.commit # {}
  <2>1. e.kind = Kind(w) /\ e.author = {WithEmail(q) : q \in w.commit} /\ e.mentions = {}
    BY <1>4, DecodedFields DEF Decode, Mentions
  <2>2. e.author # {} /\ Enrich(e.mentions, found) = {}
    BY <1>4, <2>1 DEF Enrich
  <2>3. \A d \in C : d.of \in e.author
    BY <1>4, <2>1, <2>2, WhenceCandidates
  <2>4. \A d \in C : Findable(d.of, table)
    BY <2>1, <2>3 DEF WithEmail, Findable
  <2> QED
    BY <1>1, <1>3, <2>4, FindableAreNoticed
<1>5. CASE p \in table
  BY <1>1, <1>5, MappedAreNoticed
<1>6. CASE p \notin table /\ (Kind(w) = "pipeline" => w.commit = {})
  <2>1. PICK q \in Keys(C) : /\ Resolved(First(C, q), table).email
                             /\ Resolved(First(C, q), table).who = p
    BY DEF Notices
  <2>2. \A d \in C : d.of \in Identity /\ d.at \in Nat
    BY CandidatesAreFor DEF AreFor, IsCandidate
  <2>3. PICK d \in WithKey(C, q) : First(C, q) = d.of
    BY <2>2, FirstIsOneOfThem
  <2>4. d \in C /\ CandidateKey(d.of) = q /\ d.of \in Identity
    BY <2>2, <2>3 DEF WithKey
  <2>5. d.of.who = p
    BY <2>1, <2>3, <2>4, ResolvedKeepsPerson
  <2>6. d.of.email
    BY <1>6, <2>1, <2>3, <2>5 DEF Resolved
  <2>7. q = CandidateKey(c.of)
    BY <1>3, <1>6, <2>4, <2>5, <2>6, AddressesComeWithIds
  <2>8. Findable(First(C, CandidateKey(c.of)), table)
    BY <2>3, <2>6, <2>7 DEF Findable
  <2> QED
    BY <1>1, <1>3, <2>8, FirstIsNoticed
<1> QED
  BY <1>4, <1>5, <1>6

(* Every row holds all the reasons of its person but perhaps the mention. *)
RowsTellAll ==
    \A row \in rows : row.key.who \notin Large =>
        Entitled(row.hook, row.key.who) \ {"mention"} \subseteq row.key.group

LEMMA HandleTellsAll ==
  ASSUME RowsTellAll, NEW w \in Inbox, Handle(w)
  PROVE  RowsTellAll'
<1> DEFINE e == Decode(w)
<1>1. ~Ignored(w)
  BY DEF Handle
<1>2. PICK table, found :
         LET keys == {DeliveryKey(e, g[1], g[2]) : g \in Grouped(Notices(e, table, found))}
             old  == {row.key : row \in rows}
         IN  rows' = rows \cup {[key |-> k, hook |-> w] : k \in keys \ old}
  BY DEF Handle
<1> DEFINE N == Notices(e, table, found)
<1>3. \A row \in rows' \ rows : \E g \in Grouped(N) :
         row = [key |-> DeliveryKey(e, g[1], g[2]), hook |-> w]
  BY <1>2
<1>4. \A n \in N : n[1] \notin Large => \A r \in Entitled(w, n[1]) \ {"mention"} : <<n[1], r>> \in N
  BY <1>1, NoticedHearAll
<1> HIDE DEF N
<1>5. ASSUME NEW g \in Grouped(N), g[1] \notin Large
      PROVE  Entitled(w, g[1]) \ {"mention"} \subseteq g[2]
  <2> DEFINE Of(p) == {n[2] : n \in {x \in N : x[1] = p}}
  <2>1. \A h \in Grouped(N) : \E p \in {n[1] : n \in N} : h = <<p, Of(p)>>
    BY DEF Grouped
  <2>2. PICK n \in N : g = <<n[1], Of(n[1])>>
    BY <2>1
  <2>3. g[1] = n[1] /\ g[2] = Of(g[1])
    BY <2>2
  <2>4. ASSUME NEW r \in Entitled(w, g[1]) \ {"mention"}
        PROVE  r \in Of(g[1])
    <3> DEFINE m == <<g[1], r>>
    <3>1. m \in N /\ m[1] = g[1] /\ m[2] = r
      BY <1>4, <1>5, <2>3, <2>4
    <3> HIDE DEF m
    <3> QED
      BY <3>1
  <2> QED
    BY <2>3, <2>4
<1> SUFFICES ASSUME NEW row \in rows' \ rows, row.key.who \notin Large
             PROVE  Entitled(row.hook, row.key.who) \ {"mention"} \subseteq row.key.group
  BY DEF RowsTellAll
<1>6. PICK g \in Grouped(N) : row = [key |-> DeliveryKey(e, g[1], g[2]), hook |-> w]
  BY <1>3
<1>7. row.hook = w /\ row.key.who = g[1] /\ row.key.group = g[2]
  BY <1>6, KeyFields
<1> QED
  BY <1>5, <1>7

(* Two handlings of a webhook, whatever GitLab answers to each of them and   *)
(* however the identities table changes in between, tell a person the same   *)
(* reasons but for the mention, for any webhooks, tables and preferences:    *)
(* either of them tells all that the payload gives that person.              *)
THEOREM RepeatsTellTheSame == Spec => []RepeatsDifferByMention
<1>1. Init => RowsTellAll
  BY DEF Init, RowsTellAll
<1>2. RowsTellAll /\ [Next]_vars => RowsTellAll'
  <2> SUFFICES ASSUME RowsTellAll, [Next]_vars
               PROVE  RowsTellAll'
    OBVIOUS
  <2>1. ASSUME NEW w \in Inbox, Handle(w) PROVE RowsTellAll'
    BY <2>1, HandleTellsAll
  <2>2. ASSUME NEW w \in Inbox, Ignore(w) PROVE RowsTellAll'
    BY <2>2 DEF Ignore, RowsTellAll
  <2>3. ASSUME NEW p \in People, Disable(p) PROVE RowsTellAll'
    BY <2>3 DEF Disable, RowsTellAll
  <2>4. CASE UNCHANGED vars
    BY <2>4 DEF vars, RowsTellAll
  <2> QED
    BY <2>1, <2>2, <2>3, <2>4 DEF Next
<1>3. Inductive /\ RowsTellAll => RepeatsDifferByMention
  <2> SUFFICES ASSUME Inductive, RowsTellAll,
                      NEW row \in rows, row.key.who \notin Large
               PROVE  row.key.group \ {"mention"} = Entitled(row.hook, row.key.who) \ {"mention"}
    BY DEF RepeatsDifferByMention
  <2> DEFINE p == row.key.who
  <2>1. p = row.hook.user => Kind(row.hook) = "pipeline"
    BY DEF Inductive, NoSelfNotification
  <2>2. Entitled(row.hook, p) = Wanted(row.hook, p)
    BY <2>1 DEF Entitled, When
  <2>3. row.key.group \subseteq Wanted(row.hook, p)
    BY DEF Inductive, NoticesAreEntitled
  <2>4. Entitled(row.hook, p) \ {"mention"} \subseteq row.key.group
    BY DEF RowsTellAll
  <2> QED
    BY <2>2, <2>3, <2>4
<1> QED
  BY <1>1, <1>2, <1>3, AlwaysInductive, PTL DEF Spec
=============================================================================
