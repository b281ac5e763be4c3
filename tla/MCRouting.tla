----------------------------- MODULE MCRouting -----------------------------
(* Three people, one with a large ID.  AllHooks: an update that adds that one *)
(* as reviewer and its author as assignee and mentions the author and the    *)
(* actor, a comment by the reviewer with names in code and beyond the limit, *)
(* an issue, a failed pipeline without a usable address, an issue handed on, *)
(* and one of another kind.  Toggles: two changes of the draft state under   *)
(* one description, then a merge.                                            *)
EXTENDS Routing

CONSTANTS ann, bob, cat

Full(S) == {[who |-> p, bare |-> FALSE] : p \in S}
Bare(S) == {[who |-> p, bare |-> TRUE] : p \in S}

Blank == [
    ids |-> <<"", "">>, body |-> "", header |-> "merge_request", object_kind |-> "merge_request",
    action |-> "", status |-> "", user |-> ann, attributes |-> Nothing, nested |-> Nothing,
    top |-> Nothing, commit |-> {}, changes |-> {}, title |-> <<>>, text |-> <<>>,
    system |-> FALSE, on |-> "nothing", note |-> "", iid |-> "1"]

Scalar(f) == [field |-> f, previous |-> {}, current |-> {}]

(* As a system hook: author by ID, reviewers beside the attributes. *)
Adds == [Blank EXCEPT
    !.ids = <<"k1", "hook">>, !.header = "system", !.action = "update", !.user = cat,
    !.attributes.author_id = {ann}, !.top.reviewers = Full({ann, bob}), !.text = <<cat, ann>>,
    !.changes = {[field |-> "reviewer_ids", previous |-> Bare({ann}), current |-> Bare({ann, bob})],
                 [field |-> "assignees", previous |-> {}, current |-> Full({ann})],
                 Scalar("draft"), Scalar("labels")}]

Comment == [Blank EXCEPT
    !.ids = <<"k2", "hook">>, !.header = "note", !.object_kind = "note", !.on = "merge_request",
    !.note = "n1", !.user = bob, !.nested.author_id = {ann},
    !.text = <<bob, "tick", ann, "tick", cat, ann>>]

Assigned == [Blank EXCEPT
    !.body = "b3", !.header = "system", !.object_kind = "work_item", !.action = "open",
    !.user = cat, !.attributes.assignees = Full({ann, bob, cat}), !.title = <<bob>>]

Failed == [Blank EXCEPT
    !.body = "b4", !.header = "pipeline", !.object_kind = "pipeline", !.status = "failed",
    !.user = cat]

(* Its list of assignees is missing, so that GitLab is asked about nobody. *)
Handed == [Blank EXCEPT
    !.body = "b6", !.header = "issue", !.object_kind = "issue", !.action = "update", !.user = bob,
    !.changes = {[field |-> "assignees", previous |-> Full({ann}), current |-> Full({ann, cat})]}]

Push == [Blank EXCEPT !.body = "b5", !.header = "system", !.object_kind = "push"]

Draft(k) == [Blank EXCEPT
    !.ids = <<k, "hook">>, !.action = "update", !.user = cat, !.attributes.author_id = {ann},
    !.top.reviewers = Full({bob}), !.changes = {Scalar("draft")}, !.text = <<bob>>]

Merge == [Blank EXCEPT
    !.ids = <<"k5", "hook">>, !.action = "merge", !.user = bob, !.attributes.author_id = {ann}]

MCPeople == {ann, bob, cat}
MCPublic == {ann}
MCLarge == {bob}
Nobody == {}
MCRefused == {<<ann, "mr_assigned">>, <<bob, "mr_state_changed">>}
NoneRefused == {}
AllHooks == {Adds, Comment, Assigned, Failed, Handed, Push}
Toggles == {Draft("k1"), Draft("k2"), Merge}
============================================================================
