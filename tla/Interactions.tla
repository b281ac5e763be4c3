---------------------------- MODULE Interactions ----------------------------
(***************************************************************************)
(* Clicks on a card: Feishu calls back over the long connection, one        *)
(* goroutine per callback and the same callback again when no answer came   *)
(* back in time; the service claims the callback's event ID, looks the      *)
(* delivery up by message ID, reads or writes the recipient's preferences,  *)
(* records the result and answers with the card to show next.  The process  *)
(* may stop between any two of these.                                       *)
(***************************************************************************)
EXTENDS Integers

CONSTANTS
    Recipients,
    Cards,          \* messages, by message ID
    Owner,          \* the recipient of a card
    Clicks,         \* callbacks, by event ID
    CardOf,         \* the card clicked
    ActionOf,       \* the button
    Slots,          \* goroutines of the long connection
    NoClick,        \* what an idle goroutine works on
    MuteDays,       \* muteDuration
    MaxTimes        \* bound: how often Feishu sends one callback

Actions == {"open_settings", "close_settings", "mute_all", "unmute_all", "unsupported"}
Changes == {"mute_all", "unmute_all"}

ASSUME ClicksAssumption ==
    /\ Owner \in [Cards -> Recipients]
    /\ CardOf \in [Clicks -> Cards]
    /\ ActionOf \in [Clicks -> Actions]
    /\ NoClick \notin Clicks
    /\ MuteDays \in Nat \ {0}
    /\ MaxTimes \in Nat

VARIABLES
    marked,         \* cards whose delivery row holds the message ID already
    prefs,          \* table notification_preferences: enabled, days left of muted_until
    audit,          \* table interaction_events: result, "absent" without a row
    slot,           \* per goroutine: its click, its step, its result and its answer
    shown,          \* what the recipient sees on each card
    offered,        \* the buttons each card has offered so far
    (* history *)
    times,          \* how often each callback was sent
    settled,        \* clicks the service has decided on
    changes,        \* how often each click changed the preferences
    latest,         \* per recipient: the last change made
    age,            \* ... and the days since
    repeated,       \* clicks somebody was told were handled already
    faulty,         \* the process has stopped
    missed          \* some answer never reached the card

vars == <<marked, prefs, audit, slot, shown, offered, times, settled, changes, latest, age, repeated, faulty, missed>>

NoDeadline == -1
Unmuted == [enabled |-> TRUE, left |-> NoDeadline]
Answers == {"none", "toast", "notice", "panel_on", "panel_muted"}
Results == {"none", "applied", "rejected", "ignored"}
Idle == [click |-> NoClick, step |-> "idle", result |-> "none", answer |-> "none"]

TypeOK ==
    /\ marked \subseteq Cards
    /\ prefs \in [Recipients -> [enabled : BOOLEAN, left : {NoDeadline} \cup 0..MuteDays]]
    /\ \A r \in Recipients : prefs[r].enabled => prefs[r].left = NoDeadline
    /\ audit \in [Clicks -> {"absent", "processing"} \cup (Results \ {"none"})]
    /\ slot \in [Slots -> [click : Clicks \cup {NoClick}, step : {"idle", "begun", "applied", "finished"},
                           result : Results, answer : Answers]]
    /\ shown \in [Cards -> {"notice", "panel_on", "panel_muted"}]
    /\ offered \in [Cards -> SUBSET Actions]
    /\ times \in [Clicks -> 0..MaxTimes]
    /\ settled \subseteq Clicks
    /\ changes \in [Clicks -> Nat]
    /\ latest \in [Recipients -> {"none", "legacy"} \cup Changes]
    /\ age \in [Recipients -> 0..MuteDays]
    /\ repeated \subseteq Clicks
    /\ faulty \in BOOLEAN
    /\ missed \in BOOLEAN

(* The buttons of a card: Settings on a notice, on the settings panel the one *)
(* that changes what it shows, and Close.  The unsupported one is on a notice *)
(* that another version has sent.                                            *)
ButtonsOf(view) ==
    CASE view = "notice"      -> {"open_settings", "unsupported"}
      [] view = "panel_on"    -> {"mute_all", "close_settings"}
      [] view = "panel_muted" -> {"unmute_all", "close_settings"}

Init ==
    /\ marked = {}
    /\ prefs \in [Recipients -> {Unmuted, [enabled |-> FALSE, left |-> NoDeadline]}]
    /\ audit = [c \in Clicks |-> "absent"]
    /\ slot = [s \in Slots |-> Idle]
    /\ shown = [k \in Cards |-> "notice"]
    /\ offered = [k \in Cards |-> ButtonsOf("notice")]
    /\ times = [c \in Clicks |-> 0]
    /\ settled = {}
    /\ changes = [c \in Clicks |-> 0]
    /\ latest = [r \in Recipients |-> IF prefs[r].enabled THEN "none" ELSE "legacy"]
    /\ age = [r \in Recipients |-> 0]
    /\ repeated = {}
    /\ faulty = FALSE
    /\ missed = FALSE

-----------------------------------------------------------------------------
(* Mutant of MuteExpired: a mute without a deadline has expired. *)
MuteExpiredBlank(p) == p.left <= 0

(* muteExpired: a deadline, and it has been reached. *)
MuteExpired(p) == p.left = 0

(* Store.Enabled, as far as muting goes: may the router notify?  *)
Enabled(p) == p.enabled \/ MuteExpired(p)

(* Store.MuteState: what the settings panel shows. *)
MuteState(p) ==
    IF p.enabled THEN "panel_on"
    ELSE IF p.left = NoDeadline THEN "panel_muted"
    ELSE IF p.left > 0 THEN "panel_muted" ELSE "panel_on"

(* Mutants of SetMute: an unmute leaves the deadline; a mute leaves a row    *)
(* that is muted already as it is.                                           *)
SetMuteKeeping(r, muted) ==
    IF muted THEN [enabled |-> FALSE, left |-> MuteDays]
    ELSE [enabled |-> TRUE, left |-> prefs[r].left]

SetMuteOnce(r, muted) ==
    IF ~muted THEN Unmuted
    ELSE IF prefs[r].enabled THEN [enabled |-> FALSE, left |-> MuteDays] ELSE prefs[r]

(* Store.SetMute, the row it leaves. *)
SetMute(r, muted) ==
    IF muted THEN [enabled |-> FALSE, left |-> MuteDays] ELSE Unmuted

-----------------------------------------------------------------------------
(* MarkDelivered: from now on the card's message ID leads to its delivery.   *)
Mark(k) ==
    /\ k \notin marked
    /\ marked' = marked \cup {k}
    /\ UNCHANGED <<prefs, audit, slot, shown, offered, times, settled, changes, latest, age, repeated, faulty, missed>>

(* Mutant of New: a click whose first handler has not finished starts again. *)
NewUnlessFinished(c) == audit[c] \in {"absent", "processing"}

(* BeginInteraction inserted a row. *)
New(c) == audit[c] = "absent"

(* A callback arrives, for a button that the card offers, or has offered and *)
(* that was clicked then, by a double click or on a device that is behind.   *)
(* BeginInteraction claims its event ID, or the answer is that the action    *)
(* was handled already.                                                      *)
Begin(s, c) ==
    /\ slot[s] = Idle
    /\ ActionOf[c] \in offered[CardOf[c]]
    /\ times[c] < MaxTimes
    /\ times' = [times EXCEPT ![c] = @ + 1]
    /\ \/ /\ New(c)
          /\ audit' = [audit EXCEPT ![c] = "processing"]
          /\ slot' = [slot EXCEPT ![s] = [Idle EXCEPT !.click = c, !.step = "begun"]]
          /\ UNCHANGED repeated
       \/ /\ ~New(c)
          /\ repeated' = repeated \cup {c}
          /\ UNCHANGED <<audit, slot>>
    /\ UNCHANGED <<marked, prefs, shown, offered, settled, changes, latest, age, faulty, missed>>

Decide(s, result, answer) ==
    /\ slot' = [slot EXCEPT ![s].step = "applied", ![s].result = result, ![s].answer = answer]
    /\ settled' = settled \cup {slot[s].click}

(* Mutant of Refuse: the handler returns without a result. *)
RefuseSilently(s) ==
    /\ slot[s].step = "begun"
    /\ slot' = [slot EXCEPT ![s] = Idle]
    /\ UNCHANGED <<marked, prefs, audit, shown, offered, times, settled, changes, latest, age, repeated, faulty, missed>>

(* apply refuses: an unsupported button, a card whose message ID no row      *)
(* holds (yet), or a statement that fails before anything is changed.        *)
Refuse(s) ==
    LET c == slot[s].click IN
    /\ slot[s].step = "begun"
    /\ Decide(s, IF ActionOf[c] = "unsupported" THEN "ignored" ELSE "rejected", "toast")
    /\ UNCHANGED <<marked, prefs, audit, shown, offered, times, changes, latest, age, repeated, faulty, missed>>

(* openSettings and closeSettings. *)
Show(s) ==
    LET c == slot[s].click IN
    /\ slot[s].step = "begun"
    /\ ActionOf[c] \in {"open_settings", "close_settings"}
    /\ CardOf[c] \in marked
    /\ Decide(s, "applied", IF ActionOf[c] = "open_settings"
                            THEN MuteState(prefs[Owner[CardOf[c]]]) ELSE "notice")
    /\ UNCHANGED <<marked, prefs, audit, shown, offered, times, changes, latest, age, repeated, faulty, missed>>

(* setMute: the answer is what was asked for, not what the row holds.        *)
Change(s) ==
    LET c == slot[s].click
        r == Owner[CardOf[c]]
        muted == ActionOf[c] = "mute_all" IN
    /\ slot[s].step = "begun"
    /\ ActionOf[c] \in Changes
    /\ CardOf[c] \in marked
    /\ prefs' = [prefs EXCEPT ![r] = SetMute(r, muted)]
    /\ Decide(s, "applied", IF muted THEN "panel_muted" ELSE "panel_on")
    /\ changes' = [changes EXCEPT ![c] = @ + 1]
    /\ latest' = [latest EXCEPT ![r] = ActionOf[c]]
    /\ age' = [age EXCEPT ![r] = 0]
    /\ UNCHANGED <<marked, audit, shown, offered, times, repeated, faulty, missed>>

(* Mutant of Recorded: the result is recorded before it is known. *)
RecordedEarly(s) == "applied"

(* The result FinishInteraction records. *)
Recorded(s) == slot[s].result

(* FinishInteraction; when it fails, that is only logged. *)
Finish(s) ==
    /\ slot[s].step = "applied"
    /\ \/ audit' = [audit EXCEPT ![slot[s].click] = Recorded(s)]
       \/ UNCHANGED audit
    /\ slot' = [slot EXCEPT ![s].step = "finished"]
    /\ UNCHANGED <<marked, prefs, shown, offered, times, settled, changes, latest, age, repeated, faulty, missed>>

(* handleCardAction answers; Feishu replaces the card, or drops a late       *)
(* answer.                                                                   *)
Answer(s) ==
    LET k    == CardOf[slot[s].click]
        view == slot[s].answer IN
    /\ slot[s].step = "finished"
    /\ slot' = [slot EXCEPT ![s] = Idle]
    /\ \/ /\ view # "toast"
          /\ shown' = [shown EXCEPT ![k] = view]
          /\ offered' = [offered EXCEPT ![k] = @ \cup ButtonsOf(view)]
          /\ UNCHANGED missed
       \/ missed' = TRUE /\ UNCHANGED <<shown, offered>>
    /\ UNCHANGED <<marked, prefs, audit, times, settled, changes, latest, age, repeated, faulty>>

(* The process stops and starts again; the tables stay. *)
Crash ==
    /\ slot' = [s \in Slots |-> Idle]
    /\ faulty' = TRUE
    /\ missed' = TRUE
    /\ UNCHANGED <<marked, prefs, audit, shown, offered, times, settled, changes, latest, age, repeated>>

(* A day passes. *)
Tick ==
    /\ \E r \in Recipients : prefs[r].left > 0 \/ age[r] < MuteDays
    /\ prefs' = [r \in Recipients |-> [prefs[r] EXCEPT !.left = IF @ > 0 THEN @ - 1 ELSE @]]
    /\ age' = [r \in Recipients |-> IF age[r] < MuteDays THEN age[r] + 1 ELSE age[r]]
    /\ UNCHANGED <<marked, audit, slot, shown, offered, times, settled, changes, latest, repeated, faulty, missed>>

Next ==
    \/ \E k \in Cards : Mark(k)
    \/ \E s \in Slots, c \in Clicks : Begin(s, c)
    \/ \E s \in Slots : Refuse(s) \/ Show(s) \/ Change(s) \/ Finish(s) \/ Answer(s)
    \/ Crash
    \/ Tick

Spec == Init /\ [][Next]_vars

-----------------------------------------------------------------------------
(* One click changes the preferences at most once, however often and how     *)
(* concurrently its callback is sent and whatever stops in between.          *)
AppliedAtMostOnce == \A c \in Clicks : changes[c] <= 1

(* The audit row does not lie: "applied" means the change was made, a        *)
(* rejected or ignored click changed nothing.                                *)
AuditMatchesEffect ==
    \A c \in Clicks :
        /\ audit[c] = "applied" /\ ActionOf[c] \in Changes => changes[c] = 1
        /\ audit[c] \in {"rejected", "ignored", "absent"} => changes[c] = 0

(* The recipient is muted exactly while the last change was a mute less than *)
(* MuteDays old, or an older version muted them without a deadline.          *)
LastChangeHolds ==
    \A r \in Recipients :
        Enabled(prefs[r]) <=>
            ~(latest[r] = "legacy" \/ (latest[r] = "mute_all" /\ age[r] < MuteDays))

(* The settings panel and the router read the preferences alike: whoever is  *)
(* shown as muted gets no notices, and the other way round.                  *)
PanelAgreesWithRouter ==
    \A r \in Recipients : MuteState(prefs[r]) = "panel_on" <=> Enabled(prefs[r])

(* Somebody told that the action was handled already was told the truth, or  *)
(* another goroutine is still at it, or the process stopped on it.           *)
LostOnlyByFaults ==
    \A c \in repeated : c \in settled \/ faulty \/ \E s \in Slots : slot[s].click = c

(* docs/SETUP.md:137: "The panel is rendered from the database on every      *)
(* click, so it never shows stale state."  With nothing under way and every  *)
(* answer shown, a panel shows the recipient's last change.  In the code a   *)
(* mute and an unmute handled at the same time answer with what they were    *)
(* asked for, in either order.                                               *)
PanelShowsLastChange ==
    ~missed /\ (\A s \in Slots : slot[s] = Idle) =>
        \A k \in Cards :
            /\ shown[k] = "panel_muted" => latest[Owner[k]] # "unmute_all"
            /\ shown[k] = "panel_on" => latest[Owner[k]] # "mute_all"
=============================================================================
