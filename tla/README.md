# Crowsnest in TLA+

Crowsnest takes GitLab webhooks, works out who should hear of them, and sends
each of these people one Feishu direct message. It is one Go process over one
SQLite file. This directory holds TLA+ models of the parts of it that keep state
or race with each other, TLC runs that check them on small instances, and
theorems about them that TLAPS checks for every value of the constants.

Paths such as `internal/application/worker.go` are relative to the repository.
`PROJECT.json` maps every definition to the lines it models and lists the runs,
the mutants, the findings, the hazards and the theorems.

Contents: [the system](#the-system) · [inventory](#inventory) ·
[modules](#modules) · [runs](#runs) · [bounds](#bounds) ·
[fairness](#fairness) · [what is proved](#what-is-proved) ·
[findings](#findings) · [not modelled](#not-modelled) · [plan](#plan)

## The system

```
GitLab --webhook--> HTTP server --> Ingest service --> Router --+
   ^                                   |     ^                  |  one transaction:
   | users, by ID or name              |     | pipeline state,  |  events, deliveries,
   +------------ GitLab lookup <-------+     | preferences,     |  pipeline_states
   |                                   |     | identities       v
   |                        upsert     +---> SQLite store <-----+
   |                                         ^   ^    ^
   +-- identity sync (scheduler, command) ---+   |    +--- delivery worker --> Feishu
   +-- hook reconciler (scheduler, command)      |                               |
                         card interactions ------+<-------- long connection -----+
```

Everything runs in the goroutines of one process: one per webhook request, one
per card callback, one for the delivery worker, one for each scheduler. They
share only the store, whose single connection (`SetMaxOpenConns(1)`) orders
*statements and transactions*, not the sequences of them that make up a handler.
`crowsnest sync-users` and `crowsnest reconcile` are further processes that do
the schedulers' work.

What makes this code hard is what happens between its statements: a webhook is
answered after its transaction, a message is sent before its result is recorded,
a pipeline's state is read long before it is overwritten, an upsert is two reads
and a write, and the process may stop anywhere in between. GitLab and Feishu
repeat and reorder their calls, and each answer of theirs can be lost.

## Inventory

| component | state it keeps | operations | correct when |
|---|---|---|---|
| Delivery outbox and worker (`store.go`, `worker.go`) | tables `events`, `deliveries`; in memory the claimed batch and the result of the delivery in hand | enqueue, `Claim`, send, `MarkDelivered`, `MarkFailed`, `Retry` backoff, lease expiry, stop, restart | what was acknowledged is stored; what is stored is sent or given up; a message is repeated only if an acceptance was lost; what is closed stays closed |
| Webhook HTTP server (`server.go`) | none of its own | check token and body, ingest, answer | the 2xx follows the commit |
| Ingest service (`ingest.go`) | none of its own | decode, enrich, remember, route, enqueue with pipeline state | all of an event's effects or none |
| Router (`routing.go`, `recipient_policy.go`) | none; reads identities, preferences, pipeline state | candidates, resolve, self-notification, preferences, grouping, delivery keys | the right people, for the right reasons, once, never the actor |
| Pipeline failure and recovery (`routing.go`, `ingest.go`, `store.go`) | table `pipeline_states` | read while routing, overwrite with the event | one recovery per failure, to those who were told of it |
| GitLab user lookup (`users.go`) | none | by ID, by name, list | missing or partial answers never swap people |
| Identity store and synchronisation (`store.go`, `identity_sync*.go`, `sync_users.go`) | table `identities` | `Upsert`, `Resolve`, `DisableExcept`; sync | a row never mixes two people; a sync enables whom it wants and nobody else |
| Card interactions and preferences (`interaction.go`, `interactions.go` twice) | tables `interaction_events`, `notification_preferences`; the card on the recipient's screen | claim a callback, settings, mute, unmute, record, answer | a click counts once; its record and the panel say what happened |
| Hook reconciler (`hooks.go`, `reconcile.go`) | hooks in GitLab | ensure the system hook, then every project's | one owned hook each, with the right URL, events and token |
| Feishu client (`client.go`) | cached tenant token and its expiry, `tokenMu` | get, refresh, send, look up in batches | one call sends at most one message, a refused token is refreshed once, no call waits for ever |
| Webhook decoder (`decoder.go`) | none | kind, event key, people, changes, mentions | whoever the payload names, in any of its places, is found, and nobody else |
| Cards, migration, configuration, domain, ports | none, or only at start | pure functions and wiring | see [not modelled](#not-modelled) |

How they interact: the HTTP handler *calls* the ingest service, which *calls*
the GitLab lookup, *writes* identities, *calls* the router (which reads
identities, preferences and pipeline states) and *writes* events, deliveries and
pipeline states in one transaction. The worker *polls* deliveries and *calls*
Feishu. Feishu *calls back* with clicks, whose service *reads* the deliveries by
message ID and *writes* preferences. The identity sync *calls* GitLab and Feishu
and *writes* identities behind the handlers' backs. The hook reconciler shares
nothing with the others but GitLab.

The hazards, each at its line and with the properties that cover it, are listed
in `PROJECT.json`. The families are: crashes between two steps (outbox,
interactions), lost and repeated calls (webhooks, messages, callbacks), state
read long before it is written (pipelines, identities), interleaved statement
sequences (upserts, clicks), one step of several failing (claimed batches, syncs,
enrichment), and limits (attempts, deadlines, expiry margins).

## Modules

| module | models | proofs |
|---|---|---|
| `DeliveryContract` | abstract: the life of one notification, no tables | – |
| `Outbox` | tables `events` and `deliveries`, webhook handlers, worker, crashes | `OutboxProofs` |
| `PipelineRecovery` | table `pipeline_states` and the handlers that race on it | `PipelineRecoveryProofs` |
| `Decoder` | from a payload to the event the router works on | used by `Routing` |
| `Routing` | from a webhook to delivery rows | `RoutingProofs`, `RoutingCompleteness` |
| `Interactions` | clicks, preferences, audit rows, what the card shows | `InteractionsProofs` |
| `Identities` | table `identities`, upserts, syncs, remembering handlers | `IdentitiesProofs` |
| `HookReconciler` | GitLab's hooks and the runs that reconcile them | `HookReconcilerProofs` |
| `MessengerContract` | abstract: what a send promises the worker | – |
| `FeishuClient` | cached token, sends and lookups, errors, Feishu's side of it | `FeishuClientProofs` |

`MC<module>` instantiates each for TLC. `Outbox` is composed with
`DeliveryContract`, and `FeishuClient` with `MessengerContract`, by a refinement
`Contract`; `MessengerContract` in turn is what `Outbox` takes a send to be.
`Routing` extends `Decoder`: its `Handle` runs from the payload to the rows.

### DeliveryContract and Outbox

`DeliveryContract` says what a user of the outbox may rely on: a delivery is
created once, messages are sent only while it is open and at most `Budget` of
them, and it closes once, as delivered (after at least one message) or dropped.

`Outbox` is the implementation. Variables `status`, `attempts`, `retryable`,
`due`, `lease` are the columns of `deliveries`; `events` is the other table.
`due` and `lease` hold the *time left* until `next_attempt_at` and
`lease_until`; `Tick` counts them down, so no clock grows. `batch`, `current`
and `outcome` are the worker's local variables, and `handler` says where the
handler of an event is. `copies`, `lost`, `acked`, `faulty` are history.

| action | code |
|---|---|
| `Enqueue` | the transaction of `EnqueueWithPipelineState`: `INSERT OR IGNORE` of the event and of every delivery key |
| `Acknowledge` | the 2xx of the HTTP handler |
| `Claim` | `Store.Claim`: select due, retryable or lease-expired rows, mark them processing, count the attempt |
| `Block`, `SendAccepted`, `SendRefused` | one turn of the loop in `Worker.process`: the allowlist, `messenger.Send`, the class of its error |
| `MarkDelivered`, `MarkFailed` | the result is recorded; `MarkFailed` decides between pending and failed, with the backoff |
| `MarkError` | recording fails: `process` returns and drops the rest of the batch |
| `Crash`, `Restart` | the process stops between any two steps; only tables survive |

`SendAccepted` may lose the answer: Feishu has the message, the worker sees a
transport error. The claim query's order is abstracted to any choice of a batch.
Rows in `Legacy` start as `failed` with `retryable` set, which is what the
migration's column default leaves of rows an older version had given up.

### PipelineRecovery

`Route` reads the preference and the `pipeline_states` row and computes the
recipients; `Commit` writes the notices and overwrites the row, later and in a
transaction of its own; `Abort` is a handler that fails in between. Any number
of handlers run at once, and a webhook may come again or late. `orderly` records
whether a branch's webhooks have so far come once, in order, one at a time;
`silenced` who was opted out at some time. `CONSTANTS Branch, Status, Author`
give the webhooks GitLab produced, in its order.

### Decoder and Routing

A webhook is a record of the places where a payload names people: the object
itself (`attributes` or `nested`), the payload around it (`top`), the lists of
changes, the commit, and the texts. `Decode` is `Decoder.Decode` with the
functions it calls under their names or nearly so: `Kind`, `EventKey`, `Person`
(`identityFromMap`), `IdentitiesFrom`, `Author`, `Reviewers`,
`MergeRequestAssignees`, `IssueAssignees`, `Added` (`identityDiff`), `MentionsIn`
(`extractMentions`). A text is a sequence of names and backticks; code is what
lies between two of them.

An identity is a record of *which* fields are known about *whom*; all of a
person's fields are distinct from everybody else's, so comparing a field compares
persons. Only an ID may be known in two printings, as GitLab has it or with an
exponent (`Printed`), which is what the decoder makes of large ones.
`Enriched` is the GitLab lookup, answering any subset of the questions
the event asks; `Resolved` is `Store.Resolve`; `CandidateKey`, `SameIdentity`,
`MatchingKeys`, `Notices`, `Grouped` and `DeliveryKey` are the router's functions
of nearly these names. A candidate says when it was added, because the identity
added first under a key is the one that is resolved: changes are added before
mentions, and they name people whom the lookup has not enriched.

| action | code |
|---|---|
| `Handle` | `IngestService.Handle` of one webhook: decode, enrich, remember (any upsert may fail), route, insert what is not there yet |
| `Ignore` | a webhook of a kind nobody knows |
| `Disable` | the identity sync disables a mapping in between |

Against all this stands a reference that knows people only: `Concerned` says, per
reason, whom a payload concerns, counting all places that may name somebody;
`Wanted` leaves out what preferences refuse, and `Entitled` also the actor's own
doings. Rows are compared with them. The payloads are assumed not to contradict
themselves (`PayloadsAgree`): two places that name reviewers name the same, and
no text is cut off inside of code.

`asked` remembers, per webhook, whom nothing failed (`Served`) at one handling of
it or another, and `known` who had a mapping then. Served are people with a
mapping, an address in the payload or one that GitLab gave, less those about whom
a question stayed unanswered, whose upsert failed, or whom a change names by an ID
with an exponent. Somebody named by a change alone is not asked about at all
(`eventIdentities`, `internal/application/ingest.go:176`, lists no changes), so
without a mapping or an address they are not announced to, although
`docs/SETUP.md:64` says of all IDs and usernames of a payload that they are
looked up.

A person has one address. The router merges what it resolved by normalized
address (`internal/application/routing.go:322`), so one notice per address is one
per person here; that a person known under two addresses gets two notices is not
modelled. Preferences do not change while webhooks are handled. A webhook handled
again may nevertheless meet other answers of GitLab and another table, and then
the code does announce it a second time, under another key: the reason groups
differ by the mention (`RepeatsDifferByMention`), and by nothing else. People with
large IDs are excepted: their candidates by ID and by name have different keys, of
which any part may be found.

### Interactions

A slot is a goroutine of the long connection. `Begin` is `BeginInteraction`
(insert the callback's event ID or learn that it is there), `Refuse`, `Show` and
`Change` the branches of `apply`, `Finish` is `FinishInteraction` (whose failure
is logged and no more), `Answer` the card sent back, which may come late and be
dropped. `Mark` is the worker recording a card's message ID: a card clicked
before that is unknown. `Tick` is a day; `left` the days until `muted_until`.
`shown` is what a card shows and `ButtonsOf` which buttons that has: Settings on a
notice, Mute or Unmute on the panel. A callback is for a button the card offers or
has offered (`offered`): the second click of a double click, or one on a device
that has not got the last answer, comes when the card shows another panel already.

### Identities

`rows` is the table in order of row ID. A writer's `job` holds the local
variables of `Upsert`: `SelectById`, `SelectByName` and `Write` are its three
statements, interleaved with those of other writers; `Fail` is any of them
failing. A sync is `List`, `Take` per person, and `Disable`; `Stop` cuts it
short. `Remember` is a webhook handler taking up a person of its payload, under
a name they have or had. `Change` is GitLab renaming, blocking, unblocking or
deleting somebody. A person's address is written as the person.

### HookReconciler

`hooks` holds what GitLab has, per place: the instance's system hooks and each
project's. A hook's ID is its position, so a deleted one stays as a tombstone;
`fit` says that URL, flags and SSL verification are the configured ones, and its
token is a version number. `job` is a run's step and local variables; `calm` and
`raced` are history.

| action | code |
|---|---|
| `Begin` | a run starts, with the token of the configuration it was built from |
| `Read` | GET: the first page; the first hook of the configured name matches, or is to be updated, or there is none |
| `Put` | up to three attempts, so it may do its work and still report an error; the hook may be gone |
| `Post` | one attempt, which may also do its work and report an error |
| `List`, `Take` | `listProjects`, and the loop over its result |
| `End`, `Stop` | the run reports, or its process stops |

An error at the system hook ends the run, one at a project is remembered and the
run goes on. `Edit` is an administrator adding, changing or deleting a hook,
`Rotate` a new webhook token in the configuration. `Read` sees the first
`PageSize` hooks only, as the request names no page, and GitLab gives no place
more than `MaxHooks`. Hooks keep their names, and the list of projects is fixed.

### FeishuClient

`FeishuClient` has the client's fields (`cached`, `usable`, and `holder` for
`tokenMu`), what each caller is doing (`call`, `request`), and Feishu: the tokens
it issued and how long each is still valid. Feishu handles a request in one step
and the client learns of it in a later one, or never.

| action | code |
|---|---|
| `Reject` | `Send` with no valid address, or a card that cannot be rendered |
| `Begin`, `Lock` | `accessToken`: the cached token if it has not expired; else the lock, the cache again unless a refresh is forced, and the token request with the lock held |
| `Issue`, `Reissue`, `Withhold` | Feishu answers it: a new token, the last one again while it lives, an error |
| `ReceiveToken` | the answer is cached for its lifetime less the margin, or the call fails |
| `Serve`, `Refuse`, `RefuseToken` | Feishu handles a message or a batch of a lookup |
| `Receive` | the answer is classed; a refused token is renewed once and the call starts again |
| `Lose` | the request fails or times out, whether or not Feishu has seen it |
| `Revoke`, `Tick` | a token becomes invalid early; time passes |

In the program the messenger and the identity sync's directory are clients of
their own (`cmd/crowsnest/main.go:212`, `:229`), each used by one goroutine. The
model lets any callers share one, as the two mutexes allow for; that is more than
the wiring does, and has its behaviours among its own. A token answer without a lifetime, taken as
two hours, is not modelled. A message may reach Feishu after the client gave up
on it; for the client that is no different from an answer that was lost.

`MessengerContract` is what the worker relies on: at most one message per call,
success only if there is one, and an error that is final or not. That is exactly
what `Outbox` has as `SendAccepted` and `SendRefused`: any error may hide a
message that was taken.

## Runs

| run | states | result | what it shows |
|---|---|---|---|
| `outbox` | 51 k | pass | `OnlyStrandedAreForgotten`, `DuplicatesAreLosses`, `AckedIsStored`, `OnlyFaultsAbandon`; steps: `ClosedIsFinal`, `StrandedIsForever`; `ImplementsContract`; liveness: `EveryDeliverySettles` (stored deliveries close or strand if the process eventually stays up), `EveryDeliveryCloses` (without faults) |
| `outbox_stranded` | | violation | `ExhaustedIsClosed`, finding 1 |
| `pipeline_recovery` | 340 k | pass | `NoSpuriousRecovery` in any order; `OneRecoveryPerFailure`, `NoRecoveryMissed` while webhooks come in order |
| `routing` | 94 k | pass | `NoSelfNotification`, `NoticesAreEntitled`, `RepeatsDifferByMention` (whoever a webhook is announced to twice is told the same, but for the mention), `EntitledAreNotified`, `OutageCostsMentionsOnly`, whatever the payload leaves out, GitLab answers and upserts fail |
| `routing_outage` | | violation | `MappingUsedDuringOutage`, finding 2 |
| `routing_keys` | | violation | `EachEventHasItsRow`, finding 3 |
| `interactions` | 375 k | pass | `AppliedAtMostOnce`, `AuditMatchesEffect`, `LastChangeHolds`, `PanelAgreesWithRouter`, `LostOnlyByFaults` |
| `interactions_panel` | | violation | `PanelShowsLastChange`, finding 4 |
| `identities` | 680 k | pass | `MappingsAreOwn`; steps: `SyncEnablesOnlyWanted`, `SyncEnablesWanted` |
| `hooks` | 3.3 M | pass | `DuplicatesNeedRaces` (two own hooks only from simultaneous runs, or where hooks exceed a page); steps: `ForeignHooksUntouched`, `CleanRunsEnsureHooks` |
| `hooks_tokens` | | violation | `CleanRunsDistributeTokens`, finding 5 |
| `feishu` | 450 k | pass | `MarginCoversRequests`, `NewestTokenCached`, `StaleTokensAreRenewed`; `ImplementsContract`; liveness: `EveryCallReturns` |

Each property of a passing run has a mutant in `PROJECT.json`: a plausible bug,
written beside the definition it changes, under which the property fails in the
same run. So a change of the modelled code can break each of them.

Deadlock is checked for the outbox, where something can always happen (a
redelivery, a crash, a restart), for the pipelines, for the hooks, where a
run can always begin, and for the Feishu client, where a call can. It is off where
the inputs are bounded and the system may rightly come to rest with all of them
consumed: `Routing` (`MaxHandled`), `Interactions` (`MaxTimes`) and `Identities`
(`MaxChanges`, `MaxRemembered`).

## Bounds

*Outbox.* Two events that share a delivery key, a refused recipient and a legacy
row; batches of two, three attempts, leases of two ticks and a backoff that
reaches its cap. That has every case the code distinguishes: a partly claimed
table, a lease that expires while its holder still works, a first, a middle and
a last attempt, an insert ignored in favour of an older row. The counters are
finite by themselves: a message costs an attempt, and attempts end at
`MaxAttempts`.

*PipelineRecovery.* One branch (branches share nothing), five webhooks of two
authors: a failure, a second failure, a recovery and another after it, so that a
handler can overtake, repeat and abort around each of them.

*Routing.* Three people, of whom one shows an address in the payload and another
has a large ID; the API answers any subset of the questions and any upsert may
fail. The six webhooks (`AllHooks`) are chosen so that one person is reviewer,
author, assignee and mentioned at once, under identities that differ; that authors
come as bare IDs, reviewers beside the object, and names in code or beyond
`TextLimit`; that a pipeline has no usable address; that an assignee is named by a
change alone; and that one is of no known kind. Any two are handled in a row
(`MaxHandled`), or one twice: the second meets the rows, the mappings and the
losses of the first, and nothing carries over further than the tables do.

*Interactions.* One recipient with one card and four clicks: Settings, a double
click on Mute, which is two callbacks, and Unmute. Each callback may be sent twice,
two goroutines handle them, a mute lasts two days. Recipients share nothing. In
`interactions_panel` each callback is sent once, and the mute is longer than the
run needs, so that no panel is wrong merely because time passed.

*Identities.* Two people, three names, a sync and a handler, two changes in
GitLab and one remembered identity: enough for a name to pass from one person to
another while an upsert is between its statements. Names are symmetric: no
constant, initial state or order tells them apart; people are not (`Found`, and
their IDs order the list). A name that changes hands may keep its new holder
disabled for a sync: rows are never deleted, so the former holder's row still has
the name, and the upsert conflicts with it. `SyncEnablesWanted` therefore excepts
people whose name somebody else has had, and those with a second row without an
ID; of both the sync reports an error.

*HookReconciler.* The scheduler and the command over two projects, one edit, one
new token; a new installation, one with a foreign hook and an outdated one of its
own everywhere, or one with a project that has a full page of foreign hooks. Runs
and projects are symmetric. With a page of three and at most five hooks a place
(`PageSize`, `MaxHooks`), an own hook can be pushed off the page before or after
it is created, by an administrator or by the two runs; more hooks add nothing to
that, as every run then creates another until GitLab refuses.

*FeishuClient.* The delivery worker and a lookup of two batches, two tokens of
three ticks, a timeout of one and a margin of two, so that a token can run out in
the cache, on its way to the client, and between two batches; an error answer of
each kind the client tells apart (a token error, a retryable one, one that is no
JSON). Calls repeat for ever; what ends is the supply of tokens (`MaxTokens`).

## Fairness

`FairSpec` of `Outbox` assumes

- `WF(Claim)`: the worker loop polls on a ticker until the process stops, and
  nothing disables the query while rows are due and the worker is idle.
- `WF(Send)`, `WF(Mark)`: HTTP calls have a timeout and statements end, so a
  delivery in hand is answered and recorded, or recording fails. Which of these
  happens is not assumed: Feishu may refuse every time.
- `WF(Restart)`: the process is run by a supervisor.
- `WF(Tick)`: time passes.

`Enqueue`, `Acknowledge` and `Crash` have none. `EveryDeliverySettles` is stated
under `<>[]up`, since a process that crashes for ever delivers nothing;
`EveryDeliveryCloses` under `[]~faulty`, since finding 1 is what a fault can do.

`FairSpec` of `FeishuClient` assumes

- `WF(Answered)`: every request is answered or ends with the HTTP timeout.
- `SF(Lock)`: `sync.Mutex` hands the lock to a waiter that was passed over for
  long enough, so a caller for whom it is free again and again gets it.

Feishu's own actions have none: it may never answer. `EveryCallReturns` needs the
strong fairness because the lock is taken and released for ever by others.
Elsewhere handlers end or are cut short, nothing in the code retries them, and
there is no liveness to state.

## What is proved

TLAPS checks every theorem to the last leaf, for all values of the constants
that satisfy the assumptions stated beside them.

**OutboxProofs**, from `KeysAssumption` (the router's deliveries are delivery
keys, `None` is not), `LimitsAssumption` (limits are positive) and
`BackoffAssumption` (the backoff is defined and natural on the attempts):
`TypeCorrect`, `OnlyLastAttemptsAreForgotten`, `DuplicatesNeedLosses`, `AckImpliesStored`,
`AbandonedOnlyByFaults`, `ClosedStaysClosed`, `StrandedStaysStranded`,
`Refinement`.

The safety invariants are not inductive by themselves: nothing in them forbids a
worker with a result and no delivery, or a row in the batch that was never
claimed. `Inductive` adds `RowsAreSound` (a pending row has an attempt left, a
processing row a lease, a failed row that is not dropped comes from an older
version), `WorkerIsSound` (the worker's memory fits together, and each claimed row
has one more attempt than messages) and `StoreIsSound` (a
processing row has an attempt, an absent row no messages, an event row has its
deliveries, an answered event its row). Each action has a lemma; under it one
step per conjunct the action can disturb. `DuplicatesNeedLosses` hangs on
counting: a claim raises `attempts` before a send can raise `copies`, and a
release raises `lost` exactly when an acceptance is forgotten.

`Refinement` shows `Spec => Contract!Spec`. The mapping reads the stage off the
row: absent, delivered, dropped (failed and exhausted or not retryable), and
open otherwise, with `copies` as the messages sent. Initial states map to initial
states because legacy rows are open or dropped; `Enqueue` maps to `Create`,
`SendAccepted` to `Send`, `MarkDelivered` to `Deliver`, `MarkFailed` to `Drop`
or a stutter, everything else to a stutter. The step needs the invariant: that
`Send` stays within the budget is `copies < attempts <= MaxAttempts`.

**PipelineRecoveryProofs**, from `WebhooksAssumption`: `TypeCorrect`,
`RecoveryNeedsFailure`, `OneRecoveryEach`, `NobodyMissesRecovery`. A recovery is
written one transaction after the row it came from was read, and that row may be
gone by then. The invariant follows the recipients: from notices into the row
(`RowsAreTold`), from the row into a handler's memory (`ResultsAreTold`), and
back into notices. The last two theorems add what holds while webhooks come in
order (`InOrder`): nothing of a webhook is written before it is done
(`WrittenWhenDone`), the row shows the last decisive webhook that is done and
exactly those told of it (`RowShowsLast`), and a result not yet written, or
written, belongs to the failure right before it (`ResultsFollow`,
`RecoveriesFollow`, `FailuresAreFollowed`).

**IdentitiesProofs**, from `SizesAssumption`: `TypeCorrect`, which includes the
table's unique indexes, `RowsMapToTheirOwner`, `OnlyTheWanted` and
`TheWantedAreEnabled`. A write replaces a whole row,
so the invariant is about writers: each holds an identity that was somebody's
(`JobsAreOwn`), a sync knows the ID of everybody on its list (`SyncsHaveIds`),
and names in use are among those held (`NamesAreHeld`).

What a sync leaves behind when it disables rests on all that it did before, so the
last two theorems carry a second invariant along (`CalmSyncsAreAccurate`). Of each
sync that nobody has disturbed it says that what it read of the table still holds
(`Selected`); that whoever it counts as done has an enabled row with their ID and
their present name, and only people it wants are counted (`Enables`); and that
everybody it wants is done, still to come, in hand, or excused (`Accounted`,
`Excused`). A write keeps all of it because it touches one row, which is neither
that of another ID nor that of another name (`CalmWriteFits`, `OtherRowsStay`);
and where a name is in the way, somebody else has had it, or it is that of a row of
their own without an ID (`ConflictsAreExcused`).

**HookReconcilerProofs**, from `PlacesAssumption`: `TypeCorrect`,
`ForeignStayUntouched`, `DuplicatesAreExplained`, `CleanRunsLeaveHooks`. A hook
is updated one request after it was read; the invariant says that meanwhile it
can only have been deleted (`TargetsAreOwn`), and that projects are listed only
after the system hook (`ListsAfterSystem`). For duplicates it adds (`Counted`)
that without races one run is under way (`Alone`), and that a run about to create
a hook has none of its own at that place (`CreatesFirst`, `OwnIsSingle`), so long
as the place's hooks fit on a page: then an empty answer means that there is
none, and nobody can create one before `Post`. For clean runs it adds
(`CalmRunsEnsure`) that what a calm run has done without an error is done: its
writes fit, and nobody else acts.

**RoutingProofs**, from `RoutingAssumption` and `PayloadsAgree`, for every set of
webhooks, every table, all preferences and any answers of GitLab: `TypeCorrect`,
`SelfIsSuppressed`, `OnlyTheEntitled`. Three ideas carry it.
Whatever the decoder makes of a payload, and whichever place it falls back to,
each candidate's identity is that of somebody `Concerned` names for that reason
(`CandidatesAreFor`, with one lemma per kind of event); enrichment and resolution
change what is known of a person, never the person. A resolved identity matches
candidates of that person only (`MatchesAreThePerson`), by key or by
`sameIdentity`. And an identity that has an email has a provider, and an ID or a
username, which is all `sameIdentity` needs to recognise the actor
(`ActorIsRecognised`) however little GitLab answered, provided the payload prints
the actor's ID as GitLab does. That the earliest candidate
under a key exists is a fact about well-founded orders (`EarliestExists`).

**RoutingCompleteness** is the converse, under the same assumptions:
`CandidatesAreTheConcerned`, `TheEntitledHear`, `EventsWithoutMentionHaveTheirRow`,
`AnOutageCostsMentionsOnly`, `RepeatsTellTheSame`. The first says of the decoder and the rules per kind
of event that they compute `Concerned`, exactly: where a place is empty the next
one is read, and as the places agree nobody is lost by that (`AgreeingFallback`);
then one lemma per kind of event leads from the people of the payload to
candidates (`CandidatesReach`). A candidate hears of the webhook if the identity
that was *added first* under its key can be found in the table
(`FirstIsNoticed`), for the table shows a found identity under the key it was
asked with (`ResolvedKeepsKey`); then all reasons come together in one group
(`ServedAreGrouped`). So it remains to show that identities can be found. If GitLab
and the upserts failed a person in nothing, all of theirs have an address or the
provider's ID and a mapping (`ServedAreFindable`). If GitLab answers nothing, that
still holds of every identity but a mention's, which shares its key with none of
the others (`KeyedAreFindable`). The third theorem says what is left of the
document's promise that finding 3 refutes: a row's key tells whether it came from
a note, a mention or an event (`EventKeysAreTheirOwn`), so an event with a key of
its own has a row of its own for everybody it does not mention. The last theorem is
about any answers of GitLab: if a webhook reaches a person at all, every candidate
of theirs with another reason than the mention is reached too (`NoticedHearAll`).
Either the table has the person, as in an outage; or the identity that was noticed
has its address from the payload or from GitLab, and with it the ID under which all
these candidates are known, so it stands first under their key
(`AddressesComeWithIds`). For these theorems the invariant is the property itself,
with the types, for the third `RowsHaveTheirKeys` and for the last `RowsTellAll`;
the work is in `Handle`, which does in one step what the code does in a dozen
functions.

**InteractionsProofs**, from `ClicksAssumption`: `TypeCorrect`,
`ClicksCountOnce`, `AuditIsTrue`, `MutesLastTheirTime`, `PanelMatchesRouter`,
`RepliesAreHonest`. A claimed event ID belongs to one goroutine at most
(`SlotsAreSound`), which has changed nothing before it decides and holds the true
result afterwards (`ResultsAreTrue`); when it forgets it, the click is decided on
or the process stopped (`ClaimedAreFollowed`). Of a row it is enough to know that
its deadline and the days since the last change add up (`RowsShowLatest`).

**FeishuClientProofs**, from `CallersAssumption` and `TimesAssumption`, for any
callers, batches, answers, timeout, margin and lifetimes: `TypeCorrect`,
`MarginSuffices`, `NewestStaysCached`, `RefusedOnlyWhenRenewed`, `Refinement`. The
invariant says that the lock is held by exactly the caller that asks for a token
(`LockIsHeld`), that tokens therefore arrive in the order in which they were
issued (`TokensInOrder`), and how much life is left of a token in the cache, on
its way and in use (`TokensLast`). `MarginSuffices` holds for calls of up to
`Margin / Timeout - 1` requests: with the default timeout of 10 s and margin of
60 s, sends and lookups of up to five batches.

Only model-checked: liveness (`EveryDeliverySettles`, `EveryDeliveryCloses`,
`EveryCallReturns`), which TLAPS cannot reach under fairness. Every other property
of a passing run is proved. The five properties that a finding refutes have
nothing to prove.

## Findings

Each is a run in which TLC finds what a document of the repository says to be
violated by what the code does.

1. *Stranded rows* (`outbox_stranded`). A crash or a failed statement on the last
   attempt leaves a row processing with its attempts used up; the claim query
   skips it for ever. `docs/TESTING.md:60` says it becomes failed.
2. *Mentions in an outage* (`routing_outage`). A mention has no provider; the
   identity `Resolve` finds for it has one, so it matches no candidate and is
   dropped. `docs/ARCHITECTURE.md:170` says the mapping is used. Nothing but the
   mention is lost (`OutageCostsMentionsOnly`).
3. *Swallowed events* (`routing_keys`). With a mention in the reason group the
   delivery key is that of the merge request or issue, so a later event with the
   same group makes no row. `docs/ARCHITECTURE.md:196` says the key is derived
   from the event. Without notes and mentions it is
   (`EventsWithoutMentionHaveTheirRow`).
4. *Stale panel* (`interactions_panel`). A mute and an unmute handled together,
   after a double click on Mute and a click on the Unmute that the first of the two
   brought, answer with what they asked for; the overwritten one may answer last.
   `docs/SETUP.md:137` says the panel never shows stale state.
5. *Old tokens* (`hooks_tokens`). GitLab never returns a hook's token, so a hook
   whose URL, flags and SSL verification are right is left as it is, with the
   token it was created with. `docs/ARCHITECTURE.md:206` says hooks whose
   settings differ are updated.

## Not modelled

- *Cards and texts*: wording and layout.
- *Migration, timestamps*: run before everything else; what they leave is in the
  initial states of `Outbox` (legacy rows) and `Interactions` (mutes without a
  deadline).
- *Configuration, commands, domain types, ports*: wiring and shapes.
- *Of the decoder*: times, addresses of pages, builds, and texts that are only
  shown. Two of its limits are assumed away rather than modelled, because no
  document says otherwise: a text cut off inside of code lets a name in that code
  count as a mention (`decoder.go:347`); and an issue's assignees are read from
  the issue only, not from the payload around it as a merge request's are
  (`:446`), so a payload that lists them there alone announces the issue to
  nobody. A third is modelled: IDs from 1000000 on are printed with an exponent
  (`:739`) and then match neither GitLab's API nor the table. People with such IDs
  are found by name only, and may hear of their own doings when these mention
  them, so `NoSelfNotification` excepts them; that such people show no address in
  payloads is assumed (`RoutingAssumption`).
- Within modelled parts: token check, body limit and refusals of the HTTP server;
  records of ignored events and of unresolved users, which nothing reads;
  project filters and the recipient policy's patterns (`Admitted`, `Allowed`
  stand for their results); a person with several addresses; pagination of GitLab's user and project lists; dry
  runs, which write nothing; changes of a person's address; a user list that
  changes while it is being read.

## Plan

Done, in the order of what matters most to the system: `Outbox` with
`DeliveryContract`, `PipelineRecovery`, `Routing` with `Decoder`, `Interactions`,
`Identities`, `HookReconciler`, `FeishuClient` with `MessengerContract`, and the
proofs named above.

Every safety property that a run checks is proved. What could follow is
composition: that the notices of `Routing` are the deliveries of `Outbox` by
delivery key, and that the mappings which `Routing` may lose and gain at any time
are those that `Identities` reaches; today each module takes the other's part as
any behaviour at all, which is more than the code does.
