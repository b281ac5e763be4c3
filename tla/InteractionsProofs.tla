------------------------- MODULE InteractionsProofs -------------------------
(***************************************************************************)
(* Theorems about Interactions for every set of recipients, cards, clicks   *)
(* and goroutines.  All of them rest on one fact: the row in table          *)
(* interaction_events gives a click to at most one goroutine, once.         *)
(***************************************************************************)
EXTENDS Interactions, TLAPS

(* The types of a goroutine and of a row of preferences, and two such rows.   *)
PrefType == [enabled : BOOLEAN, left : {NoDeadline} \cup 0..MuteDays]
Legacy == [enabled |-> FALSE, left |-> NoDeadline]
Muted(left) == [enabled |-> FALSE, left |-> left]
SlotType == [click : Clicks \cup {NoClick}, step : {"idle", "begun", "applied", "finished"},
             result : Results, answer : Answers]

(* A goroutine works on a click or is idle; what it works on is claimed and   *)
(* nobody else's.                                                            *)
SlotsAreSound ==
    \A s \in Slots :
        /\ slot[s].step = "idle" => slot[s] = Idle
        /\ slot[s].step # "idle" => /\ slot[s].click \in Clicks
                                    /\ audit[slot[s].click] # "absent"
                                    /\ \A t \in Slots : slot[t].click = slot[s].click => t = s

(* What a goroutine is about to record is what it did.                       *)
Truth(s) ==
    LET c == slot[s].click IN
    /\ slot[s].step = "begun" => changes[c] = 0
    /\ slot[s].step \in {"begun", "applied"} => audit[c] = "processing"
    /\ slot[s].step \in {"applied", "finished"} => c \in settled /\ slot[s].answer # "none"
    /\ slot[s].step = "applied" =>
          /\ slot[s].result # "none"
          /\ slot[s].result = "applied" /\ ActionOf[c] \in Changes => changes[c] = 1
          /\ slot[s].result # "applied" => changes[c] = 0

ResultsAreTrue == \A s \in Slots : Truth(s)

(* A claimed click is decided on, under way, or was lost with the process.   *)
ClaimedAreFollowed ==
    \A c \in Clicks :
        /\ audit[c] # "absent" => c \in settled \/ faulty \/ \E s \in Slots : slot[s].click = c
        /\ c \in repeated => audit[c] # "absent"

(* The row of a recipient is what the last change made of it.                *)
RowsShowLatest ==
    \A r \in Recipients :
        /\ latest[r] \in {"none", "unmute_all"} => prefs[r] = Unmuted
        /\ latest[r] = "legacy" => prefs[r] = Legacy
        /\ latest[r] = "mute_all" => prefs[r] = Muted(MuteDays - age[r])

Inductive ==
    /\ TypeOK
    /\ SlotsAreSound
    /\ ResultsAreTrue
    /\ ClaimedAreFollowed
    /\ RowsShowLatest
    /\ AppliedAtMostOnce
    /\ AuditMatchesEffect

-----------------------------------------------------------------------------
(* Facts about the constants and the rows of preferences that every step      *)
(* needs.                                                                    *)
LEMMA Constants ==
  /\ MuteDays \in Nat /\ MuteDays > 0
  /\ NoClick \notin Clicks
  /\ \A c \in Clicks : /\ ActionOf[c] \in Actions /\ CardOf[c] \in Cards
                       /\ Owner[CardOf[c]] \in Recipients
  /\ Idle \in SlotType /\ Idle.step = "idle" /\ Idle.click = NoClick
  /\ \A p \in {Unmuted, Legacy} : p \in PrefType /\ p.left = NoDeadline
  /\ Unmuted.enabled /\ ~Legacy.enabled
  /\ \A n \in 0..MuteDays : Muted(n) \in PrefType /\ ~Muted(n).enabled /\ Muted(n).left = n
BY ClicksAssumption DEF Idle, SlotType, Results, Answers, Unmuted, Legacy, Muted, PrefType

LEMMA ButtonsAreActions ==
  \A view \in {"notice", "panel_on", "panel_muted"} : ButtonsOf(view) \subseteq Actions
BY DEF ButtonsOf, Actions

LEMMA InitInductive == Init => Inductive
<1> SUFFICES ASSUME Init PROVE Inductive
  OBVIOUS
<1>1. \A r \in Recipients : /\ prefs[r] \in {Unmuted, Legacy}
                            /\ latest[r] = IF prefs[r].enabled THEN "none" ELSE "legacy"
  BY DEF Init, Legacy
<1>2. TypeOK
  <2>1. \A r \in Recipients : prefs[r] \in PrefType /\ (prefs[r].enabled => prefs[r].left = NoDeadline)
    BY <1>1, Constants
  <2>2. prefs \in [Recipients -> PrefType]
    BY <2>1 DEF Init
  <2>3. latest \in [Recipients -> {"none", "legacy"} \cup Changes]
    BY DEF Init
  <2>4. slot \in [Slots -> SlotType] /\ age \in [Recipients -> 0..MuteDays]
    BY Constants DEF Init
  <2>5. times \in [Clicks -> 0..MaxTimes] /\ changes \in [Clicks -> Nat]
    BY ClicksAssumption DEF Init
  <2>6. offered \in [Cards -> SUBSET Actions]
    BY ButtonsAreActions DEF Init
  <2> QED
    BY <2>1, <2>2, <2>3, <2>4, <2>5, <2>6 DEF Init, TypeOK, SlotType, PrefType
<1>3. SlotsAreSound /\ ResultsAreTrue /\ ClaimedAreFollowed
  BY Constants DEF Init, SlotsAreSound, ResultsAreTrue, Truth, ClaimedAreFollowed
<1>4. RowsShowLatest
  BY <1>1, Constants DEF RowsShowLatest
<1>5. AppliedAtMostOnce /\ AuditMatchesEffect
  BY DEF Init, AppliedAtMostOnce, AuditMatchesEffect
<1> QED
  BY <1>2, <1>3, <1>4, <1>5 DEF Inductive

-----------------------------------------------------------------------------
(* Steps that touch neither clicks nor preferences.                          *)
LEMMA MarkInductive ==
  ASSUME Inductive, NEW k \in Cards, Mark(k)
  PROVE  Inductive'
BY DEF Inductive, Mark, TypeOK, SlotsAreSound, ResultsAreTrue, Truth, ClaimedAreFollowed, RowsShowLatest,
       AppliedAtMostOnce, AuditMatchesEffect

LEMMA BeginInductive ==
  ASSUME Inductive, NEW s \in Slots, NEW c \in Clicks, Begin(s, c)
  PROVE  Inductive'
<1>1. UNCHANGED <<marked, prefs, shown, offered, settled, changes, latest, age, faulty, missed>>
  BY DEF Begin
<1>2. slot[s] = Idle /\ times' = [times EXCEPT ![c] = times[c] + 1] /\ times[c] < MaxTimes
  BY DEF Begin
<1>3. CASE /\ New(c)
           /\ audit' = [audit EXCEPT ![c] = "processing"]
           /\ slot' = [slot EXCEPT ![s] = [Idle EXCEPT !.click = c, !.step = "begun"]]
           /\ UNCHANGED repeated
  <2> DEFINE mine == [Idle EXCEPT !.click = c, !.step = "begun"]
  <2>1. /\ slot'[s] = mine /\ \A t \in Slots \ {s} : slot'[t] = slot[t]
        /\ audit'[c] = "processing" /\ \A d \in Clicks \ {c} : audit'[d] = audit[d]
        /\ audit[c] = "absent" /\ changes[c] = 0
    BY <1>3 DEF Inductive, TypeOK, New, AuditMatchesEffect
  <2>2. mine \in SlotType /\ mine.click = c /\ mine.step = "begun"
    BY Constants DEF Idle, SlotType, Results, Answers
  <2>3. \A t \in Slots : slot[t].click # c
    BY <2>1, Constants DEF Inductive, SlotsAreSound
  <2>4. TypeOK'
    BY <1>1, <1>2, <1>3, <2>2, ClicksAssumption DEF Inductive, TypeOK, SlotType
  <2>5. SlotsAreSound'
    <3> SUFFICES ASSUME NEW x \in Slots
                 PROVE  /\ slot'[x].step = "idle" => slot'[x] = Idle
                        /\ slot'[x].step # "idle" =>
                              /\ slot'[x].click \in Clicks
                              /\ audit'[slot'[x].click] # "absent"
                              /\ \A t \in Slots : slot'[t].click = slot'[x].click => t = x
      BY DEF SlotsAreSound
    <3>1. CASE x = s
      <4> HIDE DEF mine
      <4>1. slot'[s].click = c /\ slot'[s].step = "begun"
        BY <2>1, <2>2
      <4>2. \A t \in Slots \ {s} : slot'[t].click # c
        BY <2>1, <2>3
      <4> QED
        BY <2>1, <3>1, <4>1, <4>2
    <3>2. CASE x # s
      <4>1. slot'[x] = slot[x] /\ slot[x].click # c
        BY <2>1, <2>3, <3>2
      <4>2. \A t \in Slots : slot'[t].click = slot[x].click => slot'[t] = slot[t]
        <5> HIDE DEF mine
        <5> SUFFICES ASSUME NEW t \in Slots, slot'[t].click = slot[x].click
                     PROVE  t # s
          BY <2>1
        <5> QED
          BY <2>1, <2>2, <4>1
      <4>3. slot[x].step # "idle" => slot[x].click \in Clicks \ {c}
        BY <4>1 DEF Inductive, SlotsAreSound
      <4>4. slot[x].step # "idle" => audit'[slot[x].click] = audit[slot[x].click]
        BY <2>1, <4>3
      <4> QED
        BY <4>1, <4>2, <4>3, <4>4 DEF Inductive, SlotsAreSound
    <3> QED
      BY <3>1, <3>2
  <2>6. ResultsAreTrue'
    <3> SUFFICES ASSUME NEW t \in Slots PROVE Truth(t)'
      BY DEF ResultsAreTrue
    <3>1. CASE t = s
      BY <1>1, <2>1, <2>2, <3>1 DEF Truth
    <3>2. CASE t # s
      <4>1. slot'[t] = slot[t] /\ (slot[t].step # "idle" => slot[t].click \in Clicks \ {c})
        BY <2>1, <2>3, <3>2 DEF Inductive, SlotsAreSound
      <4>2. slot[t].step # "idle" => audit'[slot[t].click] = audit[slot[t].click]
        BY <2>1, <4>1
      <4> QED
        BY <1>1, <4>1, <4>2 DEF Inductive, ResultsAreTrue, Truth
    <3> QED
      BY <3>1, <3>2
  <2>7. ClaimedAreFollowed'
    <3>1. \A d \in Clicks : (\E t \in Slots : slot[t].click = d) => \E t \in Slots : slot'[t].click = d
      BY <1>2, <2>1, Constants
    <3> QED
      BY <1>1, <1>3, <2>1, <2>2, <3>1 DEF Inductive, ClaimedAreFollowed
  <2>8. (RowsShowLatest /\ AppliedAtMostOnce)'
    BY <1>1 DEF Inductive, RowsShowLatest, AppliedAtMostOnce
  <2>9. AuditMatchesEffect'
    BY <1>1, <2>1 DEF Inductive, AuditMatchesEffect
  <2> QED
    BY <2>4, <2>5, <2>6, <2>7, <2>8, <2>9 DEF Inductive
<1>4. CASE ~New(c) /\ repeated' = repeated \cup {c} /\ UNCHANGED <<audit, slot>>
  <2>1. TypeOK'
    BY <1>1, <1>2, <1>4, ClicksAssumption DEF Inductive, TypeOK
  <2>2. ClaimedAreFollowed'
    BY <1>1, <1>4 DEF Inductive, ClaimedAreFollowed, New
  <2> QED
    BY <1>1, <1>4, <2>1, <2>2 DEF Inductive, SlotsAreSound, ResultsAreTrue, Truth,
       RowsShowLatest, AppliedAtMostOnce, AuditMatchesEffect
<1> QED
  BY <1>3, <1>4 DEF Begin

(* What deciding a click does to the goroutines, whatever was decided.       *)
LEMMA DecideInductive ==
  ASSUME Inductive, NEW s \in Slots, slot[s].step = "begun",
         NEW result \in Results \ {"none"}, NEW answer \in Answers \ {"none"},
         Decide(s, result, answer),
         UNCHANGED <<marked, audit, shown, offered, times, repeated, faulty, missed>>,
         changes' \in [Clicks -> Nat],
         changes'[slot[s].click] <= 1,
         \A d \in Clicks \ {slot[s].click} : changes'[d] = changes[d],
         result = "applied" /\ ActionOf[slot[s].click] \in Changes => changes'[slot[s].click] = 1,
         result # "applied" => changes'[slot[s].click] = 0
  PROVE  /\ slot' \in [Slots -> SlotType] /\ settled' \subseteq Clicks
         /\ (SlotsAreSound /\ ResultsAreTrue /\ ClaimedAreFollowed)'
         /\ (AppliedAtMostOnce /\ AuditMatchesEffect)'
<1> DEFINE c == slot[s].click
<1>1. /\ c \in Clicks /\ audit[c] = "processing"
      /\ \A t \in Slots : slot[t].click = c => t = s
      /\ slot \in [Slots -> SlotType] /\ settled \subseteq Clicks
  BY DEF Inductive, TypeOK, SlotType, SlotsAreSound, ResultsAreTrue, Truth
<1>2. /\ slot'[s] = [slot[s] EXCEPT !.step = "applied", !.result = result, !.answer = answer]
      /\ slot' \in [Slots -> SlotType]
      /\ \A t \in Slots \ {s} : slot'[t] = slot[t]
      /\ settled' = settled \cup {c}
  <2> DEFINE mine == [slot[s] EXCEPT !.step = "applied", !.result = result, !.answer = answer]
  <2>1. slot' = [slot EXCEPT ![s] = mine] /\ settled' = settled \cup {c}
    BY <1>1 DEF Decide
  <2>2. slot[s] \in SlotType
    BY <1>1
  <2>3. mine \in SlotType
    BY <2>2 DEF SlotType
  <2> HIDE DEF mine
  <2>4. slot'[s] = mine /\ slot' \in [Slots -> SlotType] /\ \A t \in Slots \ {s} : slot'[t] = slot[t]
    BY <1>1, <2>1, <2>3
  <2> QED
    BY <2>1, <2>4 DEF mine
<1>3. /\ slot'[s].click = c /\ slot'[s].step = "applied" /\ slot'[s].result = result
      /\ slot'[s].answer = answer
      /\ \A t \in Slots : slot'[t].click = slot[t].click
  <2>1. slot[s] \in SlotType /\ slot'[s] = [slot[s] EXCEPT !.step = "applied", !.result = result, !.answer = answer]
    BY <1>1, <1>2
  <2>2. /\ slot'[s].click = c /\ slot'[s].step = "applied"
        /\ slot'[s].result = result /\ slot'[s].answer = answer
    BY <2>1 DEF SlotType
  <2> QED
    BY <1>2, <2>2
<1>4. SlotsAreSound'
  <2> SUFFICES ASSUME NEW x \in Slots
               PROVE  /\ slot'[x].step = "idle" => slot'[x] = Idle
                      /\ slot'[x].step # "idle" =>
                            /\ slot'[x].click \in Clicks
                            /\ audit'[slot'[x].click] # "absent"
                            /\ \A t \in Slots : slot'[t].click = slot'[x].click => t = x
    BY DEF SlotsAreSound
  <2>1. CASE x = s
    BY <1>1, <1>3, <2>1
  <2>2. CASE x # s
    BY <1>2, <1>3, <2>2 DEF Inductive, SlotsAreSound
  <2> QED
    BY <2>1, <2>2
<1>5. ResultsAreTrue'
  <2> SUFFICES ASSUME NEW t \in Slots PROVE Truth(t)'
    BY DEF ResultsAreTrue
  <2>1. CASE t = s
    BY <1>1, <1>2, <1>3, <2>1 DEF Truth
  <2>2. CASE t # s
    <3>1. slot'[t] = slot[t] /\ slot[t].click # c
      BY <1>1, <1>2, <2>2
    <3>2. slot[t].step # "idle" => slot[t].click \in Clicks \ {c}
      BY <3>1 DEF Inductive, SlotsAreSound
    <3>3. slot[t].step # "idle" => changes'[slot[t].click] = changes[slot[t].click]
      BY <3>2
    <3> QED
      BY <1>2, <3>1, <3>3 DEF Inductive, ResultsAreTrue, Truth
  <2> QED
    BY <2>1, <2>2
<1>6. ClaimedAreFollowed'
  BY <1>2, <1>3 DEF Inductive, ClaimedAreFollowed
<1>7. (AppliedAtMostOnce /\ AuditMatchesEffect)'
  BY <1>1 DEF Inductive, AppliedAtMostOnce, AuditMatchesEffect
<1> QED
  BY <1>1, <1>2, <1>4, <1>5, <1>6, <1>7

LEMMA RefuseInductive ==
  ASSUME Inductive, NEW s \in Slots, Refuse(s)
  PROVE  Inductive'
<1> DEFINE c == slot[s].click
           result == IF ActionOf[c] = "unsupported" THEN "ignored" ELSE "rejected"
<1>1. /\ slot[s].step = "begun" /\ Decide(s, result, "toast")
      /\ UNCHANGED <<marked, prefs, audit, shown, offered, times, changes, latest, age, repeated, faulty, missed>>
  BY DEF Refuse
<1>2. c \in Clicks /\ changes[c] = 0 /\ changes \in [Clicks -> Nat]
  BY <1>1 DEF Inductive, TypeOK, SlotsAreSound, ResultsAreTrue, Truth
<1>3. result \in Results \ {"none"} /\ result # "applied" /\ "toast" \in Answers \ {"none"}
  BY DEF Results, Answers
<1>4. /\ slot' \in [Slots -> SlotType] /\ settled' \subseteq Clicks
      /\ (SlotsAreSound /\ ResultsAreTrue /\ ClaimedAreFollowed)'
      /\ (AppliedAtMostOnce /\ AuditMatchesEffect)'
  BY <1>1, <1>2, <1>3, DecideInductive
<1>5. TypeOK' /\ RowsShowLatest'
  BY <1>1, <1>4 DEF Inductive, TypeOK, RowsShowLatest, SlotType
<1> QED
  BY <1>4, <1>5 DEF Inductive

LEMMA ShowInductive ==
  ASSUME Inductive, NEW s \in Slots, Show(s)
  PROVE  Inductive'
<1> DEFINE c == slot[s].click
           answer == IF ActionOf[c] = "open_settings" THEN MuteState(prefs[Owner[CardOf[c]]]) ELSE "notice"
<1>1. /\ slot[s].step = "begun" /\ Decide(s, "applied", answer)
      /\ ActionOf[c] \notin Changes
      /\ UNCHANGED <<marked, prefs, audit, shown, offered, times, changes, latest, age, repeated, faulty, missed>>
  BY DEF Show, Changes
<1>2. c \in Clicks /\ changes[c] = 0 /\ changes \in [Clicks -> Nat]
  BY <1>1 DEF Inductive, TypeOK, SlotsAreSound, ResultsAreTrue, Truth
<1>3. "applied" \in Results \ {"none"} /\ answer \in Answers \ {"none"}
  BY DEF Results, Answers, MuteState
<1>4. /\ slot' \in [Slots -> SlotType] /\ settled' \subseteq Clicks
      /\ (SlotsAreSound /\ ResultsAreTrue /\ ClaimedAreFollowed)'
      /\ (AppliedAtMostOnce /\ AuditMatchesEffect)'
  BY <1>1, <1>2, <1>3, DecideInductive
<1>5. TypeOK' /\ RowsShowLatest'
  BY <1>1, <1>4 DEF Inductive, TypeOK, RowsShowLatest, SlotType
<1> QED
  BY <1>4, <1>5 DEF Inductive

LEMMA ChangeInductive ==
  ASSUME Inductive, NEW s \in Slots, Change(s)
  PROVE  Inductive'
<1> DEFINE c == slot[s].click
           r == Owner[CardOf[c]]
           muted == ActionOf[c] = "mute_all"
           answer == IF muted THEN "panel_muted" ELSE "panel_on"
<1>1. /\ slot[s].step = "begun" /\ Decide(s, "applied", answer)
      /\ ActionOf[c] \in Changes
      /\ changes' = [changes EXCEPT ![c] = changes[c] + 1]
      /\ prefs' = [prefs EXCEPT ![r] = SetMute(r, muted)]
      /\ latest' = [latest EXCEPT ![r] = ActionOf[c]]
      /\ age' = [age EXCEPT ![r] = 0]
      /\ UNCHANGED <<marked, audit, shown, offered, times, repeated, faulty, missed>>
  BY DEF Change
<1>2. c \in Clicks /\ changes[c] = 0 /\ changes \in [Clicks -> Nat] /\ r \in Recipients
  BY <1>1, Constants DEF Inductive, TypeOK, SlotsAreSound, ResultsAreTrue, Truth
<1>3. "applied" \in Results \ {"none"} /\ answer \in Answers \ {"none"}
  BY DEF Results, Answers
<1>4. /\ changes'[c] = 1 /\ changes' \in [Clicks -> Nat]
      /\ \A d \in Clicks \ {c} : changes'[d] = changes[d]
  BY <1>1, <1>2
<1>5. /\ slot' \in [Slots -> SlotType] /\ settled' \subseteq Clicks
      /\ (SlotsAreSound /\ ResultsAreTrue /\ ClaimedAreFollowed)'
      /\ (AppliedAtMostOnce /\ AuditMatchesEffect)'
  BY <1>1, <1>3, <1>4, DecideInductive
<1>6. /\ prefs'[r] = SetMute(r, muted) /\ latest'[r] = ActionOf[c] /\ age'[r] = 0
      /\ \A q \in Recipients \ {r} : prefs'[q] = prefs[q] /\ latest'[q] = latest[q] /\ age'[q] = age[q]
  BY <1>1, <1>2 DEF Inductive, TypeOK
<1>7. TypeOK'
  <2>1. /\ SetMute(r, muted) \in PrefType
        /\ SetMute(r, muted).enabled => SetMute(r, muted).left = NoDeadline
    BY Constants DEF SetMute, Muted
  <2>2. \A q \in Recipients : prefs'[q].enabled => prefs'[q].left = NoDeadline
    BY <1>6, <2>1 DEF Inductive, TypeOK
  <2>3. prefs' \in [Recipients -> PrefType]
    BY <1>1, <2>1 DEF Inductive, TypeOK, PrefType
  <2>4. latest' \in [Recipients -> {"none", "legacy"} \cup Changes]
    BY <1>1 DEF Inductive, TypeOK
  <2>5. age' \in [Recipients -> 0..MuteDays]
    <3>1. age \in [Recipients -> 0..MuteDays] /\ 0 \in 0..MuteDays
      BY Constants DEF Inductive, TypeOK
    <3> QED
      BY <1>1, <3>1
  <2> QED
    BY <1>1, <1>4, <1>5, <2>2, <2>3, <2>4, <2>5 DEF Inductive, TypeOK, SlotType, PrefType
<1>8. RowsShowLatest'
  <2> SUFFICES ASSUME NEW q \in Recipients
               PROVE  /\ latest'[q] \in {"none", "unmute_all"} => prefs'[q] = Unmuted
                      /\ latest'[q] = "legacy" => prefs'[q] = Legacy
                      /\ latest'[q] = "mute_all" => prefs'[q] = Muted(MuteDays - age'[q])
    BY DEF RowsShowLatest
  <2>1. CASE q # r
    BY <1>6, <2>1 DEF Inductive, RowsShowLatest
  <2>2. CASE q = r /\ muted
    <3>1. latest'[q] = "mute_all" /\ prefs'[q] = Muted(MuteDays) /\ age'[q] = 0
      BY <1>6, <2>2 DEF SetMute, Muted
    <3>2. MuteDays - 0 = MuteDays
      BY Constants
    <3> QED
      BY <3>1, <3>2
  <2>3. CASE q = r /\ ~muted
    BY <1>1, <1>6, <2>3 DEF SetMute, Changes
  <2> QED
    BY <2>1, <2>2, <2>3
<1> QED
  BY <1>5, <1>7, <1>8 DEF Inductive

LEMMA FinishInductive ==
  ASSUME Inductive, NEW s \in Slots, Finish(s)
  PROVE  Inductive'
<1> DEFINE c == slot[s].click
<1>1. /\ slot[s].step = "applied"
      /\ \/ audit' = [audit EXCEPT ![c] = slot[s].result]
         \/ audit' = audit
      /\ slot' = [slot EXCEPT ![s].step = "finished"]
      /\ UNCHANGED <<marked, prefs, shown, offered, times, settled, changes, latest, age, repeated, faulty, missed>>
  BY DEF Finish, Recorded
<1>2. /\ c \in Clicks /\ \A t \in Slots : slot[t].click = c => t = s
      /\ slot[s].result \in Results \ {"none"}
      /\ slot \in [Slots -> SlotType]
      /\ audit \in [Clicks -> {"absent", "processing"} \cup (Results \ {"none"})]
      /\ c \in settled /\ audit[c] = "processing" /\ slot[s].answer # "none"
      /\ slot[s].result = "applied" /\ ActionOf[c] \in Changes => changes[c] = 1
      /\ slot[s].result # "applied" => changes[c] = 0
  BY <1>1 DEF Inductive, TypeOK, SlotType, SlotsAreSound, ResultsAreTrue, Truth
<1>3. /\ slot' \in [Slots -> SlotType] /\ slot'[s].click = c /\ slot'[s].step = "finished"
      /\ slot'[s].answer = slot[s].answer
      /\ \A t \in Slots : slot'[t].click = slot[t].click
      /\ \A t \in Slots \ {s} : slot'[t] = slot[t]
      /\ audit'[c] \in {slot[s].result, "processing"}
      /\ \A d \in Clicks \ {c} : audit'[d] = audit[d]
      /\ audit' \in [Clicks -> {"absent", "processing"} \cup (Results \ {"none"})]
  BY <1>1, <1>2 DEF SlotType
<1>4. audit'[c] # "absent"
  BY <1>2, <1>3 DEF Results
<1>5. TypeOK'
  BY <1>1, <1>3 DEF Inductive, TypeOK, SlotType
<1>6. SlotsAreSound'
  BY <1>2, <1>3, <1>4 DEF Inductive, SlotsAreSound
<1>7. ResultsAreTrue'
  <2> SUFFICES ASSUME NEW t \in Slots PROVE Truth(t)'
    BY DEF ResultsAreTrue
  <2>1. CASE t = s
    BY <1>1, <1>2, <1>3, <2>1 DEF Truth
  <2>2. CASE t # s
    <3>1. slot'[t] = slot[t] /\ (slot[t].step # "idle" => slot[t].click \in Clicks \ {c})
      BY <1>2, <1>3, <2>2 DEF Inductive, SlotsAreSound
    <3>2. slot[t].step # "idle" => audit'[slot[t].click] = audit[slot[t].click]
      BY <1>3, <3>1
    <3> QED
      BY <1>1, <3>1, <3>2 DEF Inductive, ResultsAreTrue, Truth
  <2> QED
    BY <2>1, <2>2
<1>8. ClaimedAreFollowed'
  BY <1>1, <1>2, <1>3, <1>4 DEF Inductive, ClaimedAreFollowed
<1>9. (RowsShowLatest /\ AppliedAtMostOnce)'
  BY <1>1 DEF Inductive, RowsShowLatest, AppliedAtMostOnce
<1>10. AuditMatchesEffect'
  BY <1>1, <1>2, <1>3 DEF Inductive, AuditMatchesEffect, Results
<1> QED
  BY <1>5, <1>6, <1>7, <1>8, <1>9, <1>10 DEF Inductive

LEMMA AnswerInductive ==
  ASSUME Inductive, NEW s \in Slots, Answer(s)
  PROVE  Inductive'
<1> DEFINE c == slot[s].click
<1>1. /\ slot[s].step = "finished"
      /\ slot' = [slot EXCEPT ![s] = Idle]
      /\ UNCHANGED <<marked, prefs, audit, times, settled, changes, latest, age, repeated, faulty>>
  BY DEF Answer
<1>2. /\ c \in Clicks /\ c \in settled /\ slot \in [Slots -> SlotType]
      /\ slot[s].answer \in Answers \ {"none"}
  BY <1>1 DEF Inductive, TypeOK, SlotType, SlotsAreSound, ResultsAreTrue, Truth
<1>3. /\ slot'[s] = Idle /\ slot' \in [Slots -> SlotType]
      /\ \A t \in Slots \ {s} : slot'[t] = slot[t]
  BY <1>1, <1>2, Constants
<1>4. TypeOK'
  <2>1. shown' \in [Cards -> {"notice", "panel_on", "panel_muted"}] /\ missed' \in BOOLEAN
    BY <1>2 DEF Answer, Answers, Inductive, TypeOK
  <2>2. offered' \in [Cards -> SUBSET Actions]
    <3>1. offered \in [Cards -> SUBSET Actions]
      BY DEF Inductive, TypeOK
    <3>2. offered' = offered \/ offered' = [offered EXCEPT ![CardOf[c]] =
                                             offered[CardOf[c]] \cup ButtonsOf(slot[s].answer)]
      BY DEF Answer
    <3>3. offered' = offered \/ slot[s].answer # "toast"
      BY DEF Answer
    <3> QED
      BY <1>2, <3>1, <3>2, <3>3, Constants, ButtonsAreActions DEF Answers
  <2> QED
    BY <1>1, <1>3, <2>1, <2>2 DEF Inductive, TypeOK, SlotType
<1>5. SlotsAreSound' /\ ResultsAreTrue'
  BY <1>1, <1>3, Constants DEF Inductive, SlotsAreSound, ResultsAreTrue, Truth
<1>6. ClaimedAreFollowed'
  BY <1>1, <1>2, <1>3 DEF Inductive, ClaimedAreFollowed
<1>7. (RowsShowLatest /\ AppliedAtMostOnce /\ AuditMatchesEffect)'
  BY <1>1 DEF Inductive, RowsShowLatest, AppliedAtMostOnce, AuditMatchesEffect
<1> QED
  BY <1>4, <1>5, <1>6, <1>7 DEF Inductive

LEMMA CrashInductive ==
  ASSUME Inductive, Crash
  PROVE  Inductive'
<1>1. /\ slot' \in [Slots -> SlotType] /\ \A t \in Slots : slot'[t] = Idle
      /\ faulty' = TRUE /\ missed' = TRUE
      /\ UNCHANGED <<marked, prefs, audit, shown, offered, times, settled, changes, latest, age, repeated>>
  BY Constants DEF Crash
<1>2. TypeOK'
  BY <1>1 DEF Inductive, TypeOK, SlotType
<1>3. (SlotsAreSound /\ ResultsAreTrue /\ ClaimedAreFollowed)'
  BY <1>1, Constants DEF Inductive, SlotsAreSound, ResultsAreTrue, Truth, ClaimedAreFollowed
<1> QED
  BY <1>1, <1>2, <1>3 DEF Inductive, RowsShowLatest, AppliedAtMostOnce, AuditMatchesEffect

LEMMA TickInductive ==
  ASSUME Inductive, Tick
  PROVE  Inductive'
<1>1. /\ prefs' = [r \in Recipients |-> [prefs[r] EXCEPT !.left = IF @ > 0 THEN @ - 1 ELSE @]]
      /\ age' = [r \in Recipients |-> IF age[r] < MuteDays THEN age[r] + 1 ELSE age[r]]
      /\ UNCHANGED <<marked, audit, slot, shown, offered, times, settled, changes, latest, repeated, faulty, missed>>
  BY DEF Tick
<1>2. /\ prefs \in [Recipients -> PrefType] /\ age \in [Recipients -> 0..MuteDays]
      /\ \A r \in Recipients : prefs[r].enabled => prefs[r].left = NoDeadline
  BY DEF Inductive, TypeOK, PrefType
<1>3. ASSUME NEW r \in Recipients
      PROVE  /\ prefs'[r] = [enabled |-> prefs[r].enabled,
                             left |-> IF prefs[r].left > 0 THEN prefs[r].left - 1 ELSE prefs[r].left]
             /\ age'[r] = IF age[r] < MuteDays THEN age[r] + 1 ELSE age[r]
  BY <1>1, <1>2 DEF PrefType
<1>4. TypeOK'
  <2>1. ASSUME NEW r \in Recipients
        PROVE  /\ prefs'[r] \in PrefType
               /\ prefs'[r].enabled => prefs'[r].left = NoDeadline
               /\ age'[r] \in 0..MuteDays
    <3>1. /\ prefs[r].enabled \in BOOLEAN
          /\ prefs[r].left \in {NoDeadline} \cup 0..MuteDays
          /\ prefs[r].enabled => prefs[r].left = NoDeadline
          /\ age[r] \in 0..MuteDays /\ MuteDays \in Nat
      BY <1>2, Constants DEF PrefType
    <3> DEFINE days == IF prefs[r].left > 0 THEN prefs[r].left - 1 ELSE prefs[r].left
    <3>2. /\ days \in {NoDeadline} \cup 0..MuteDays
          /\ prefs[r].left = NoDeadline => days = NoDeadline
      BY <3>1 DEF NoDeadline
    <3>3. prefs'[r] = [enabled |-> prefs[r].enabled, left |-> days]
      BY <1>3
    <3> HIDE DEF days
    <3>4. prefs'[r] \in PrefType /\ (prefs'[r].enabled => prefs'[r].left = NoDeadline)
      BY <3>1, <3>2, <3>3 DEF PrefType
    <3>5. age'[r] \in 0..MuteDays
      <4>1. age'[r] = IF age[r] < MuteDays THEN age[r] + 1 ELSE age[r]
        BY <1>1
      <4> QED
        BY <3>1, <4>1
    <3> QED
      BY <3>4, <3>5
  <2>2. prefs' \in [Recipients -> PrefType] /\ age' \in [Recipients -> 0..MuteDays]
    BY <1>1, <2>1
  <2> QED
    BY <1>1, <2>1, <2>2 DEF Inductive, TypeOK, PrefType
<1>6. RowsShowLatest'
  <2> SUFFICES ASSUME NEW r \in Recipients
               PROVE  /\ latest[r] \in {"none", "unmute_all"} => prefs'[r] = Unmuted
                      /\ latest[r] = "legacy" => prefs'[r] = Legacy
                      /\ latest[r] = "mute_all" => prefs'[r] = Muted(MuteDays - age'[r])
    BY <1>1 DEF RowsShowLatest
  <2>1. prefs[r] \in {Unmuted, Legacy} => prefs'[r] = prefs[r]
    BY <1>3 DEF Unmuted, Legacy, NoDeadline
  <2>2. CASE latest[r] # "mute_all"
    BY <2>1, <2>2 DEF Inductive, RowsShowLatest
  <2>3. CASE latest[r] = "mute_all"
    <3>1. prefs[r] = Muted(MuteDays - age[r]) /\ age[r] \in 0..MuteDays /\ MuteDays \in Nat
      BY <1>2, <2>3, Constants DEF Inductive, RowsShowLatest
    <3>2. prefs[r].enabled = FALSE /\ prefs[r].left = MuteDays - age[r]
      BY <3>1 DEF Muted
    <3>3. (IF MuteDays - age[r] > 0 THEN MuteDays - age[r] - 1 ELSE MuteDays - age[r])
             = MuteDays - (IF age[r] < MuteDays THEN age[r] + 1 ELSE age[r])
      BY <3>1
    <3> QED
      BY <1>3, <2>3, <3>2, <3>3 DEF Muted
  <2> QED
    BY <2>2, <2>3
<1>5. (SlotsAreSound /\ ResultsAreTrue /\ ClaimedAreFollowed)'
  BY <1>1 DEF Inductive, SlotsAreSound, ResultsAreTrue, Truth, ClaimedAreFollowed
<1> QED
  BY <1>1, <1>4, <1>5, <1>6 DEF Inductive, AppliedAtMostOnce, AuditMatchesEffect

LEMMA NextInductive == Inductive /\ [Next]_vars => Inductive'
<1> SUFFICES ASSUME Inductive, [Next]_vars PROVE Inductive'
  OBVIOUS
<1>1. CASE UNCHANGED vars
  BY <1>1 DEF vars, Inductive, TypeOK, SlotsAreSound, ResultsAreTrue, Truth, ClaimedAreFollowed, RowsShowLatest,
              AppliedAtMostOnce, AuditMatchesEffect
<1> QED
  BY <1>1, MarkInductive, BeginInductive, RefuseInductive, ShowInductive, ChangeInductive,
     FinishInductive, AnswerInductive, CrashInductive, TickInductive DEF Next

LEMMA Invariance == Spec => []Inductive
BY InitInductive, NextInductive, PTL DEF Spec

-----------------------------------------------------------------------------
(* The tables, the goroutines and the cards keep their types.                *)
THEOREM TypeCorrect == Spec => []TypeOK
<1>1. Inductive => TypeOK
  BY DEF Inductive
<1> QED
  BY <1>1, Invariance, PTL

(* A click is applied at most once, however often its callback is sent, by    *)
(* however many goroutines it is handled, and wherever the process stops.    *)
THEOREM ClicksCountOnce == Spec => []AppliedAtMostOnce
<1>1. Inductive => AppliedAtMostOnce
  BY DEF Inductive
<1> QED
  BY <1>1, Invariance, PTL

(* A recorded result is what happened to the preferences.                    *)
THEOREM AuditIsTrue == Spec => []AuditMatchesEffect
<1>1. Inductive => AuditMatchesEffect
  BY DEF Inductive
<1> QED
  BY <1>1, Invariance, PTL

(* A recipient is muted exactly while the last change says so.               *)
THEOREM MutesLastTheirTime == Spec => []LastChangeHolds
<1>1. ASSUME Inductive, NEW r \in Recipients
      PROVE  Enabled(prefs[r]) <=>
                ~(latest[r] = "legacy" \/ (latest[r] = "mute_all" /\ age[r] < MuteDays))
  <2>1. latest[r] \in {"none", "legacy", "mute_all", "unmute_all"} /\ age[r] \in 0..MuteDays
    BY <1>1 DEF Inductive, TypeOK, Changes
  <2>2. CASE latest[r] # "mute_all"
    <3>1. prefs[r] = IF latest[r] = "legacy" THEN Legacy ELSE Unmuted
      BY <1>1, <2>1, <2>2 DEF Inductive, RowsShowLatest
    <3> QED
      BY <2>2, <3>1 DEF Enabled, MuteExpired, Unmuted, Legacy, NoDeadline
  <2>3. CASE latest[r] = "mute_all"
    <3>1. prefs[r] = Muted(MuteDays - age[r])
      BY <1>1, <2>3 DEF Inductive, RowsShowLatest
    <3>2. prefs[r].enabled = FALSE /\ prefs[r].left = MuteDays - age[r]
      BY <3>1 DEF Muted
    <3> QED
      BY <2>1, <2>3, <3>2, Constants DEF Enabled, MuteExpired
  <2> QED
    BY <2>2, <2>3
<1>2. Inductive => LastChangeHolds
  BY <1>1 DEF LastChangeHolds
<1> QED
  BY <1>2, Invariance, PTL

(* The panel and the router never disagree about a row, whatever its age.    *)
THEOREM PanelMatchesRouter == Spec => []PanelAgreesWithRouter
<1>1. ASSUME Inductive, NEW r \in Recipients
      PROVE  MuteState(prefs[r]) = "panel_on" <=> Enabled(prefs[r])
  <2>1. /\ prefs[r].enabled \in BOOLEAN /\ prefs[r].left \in {NoDeadline} \cup 0..MuteDays
        /\ MuteDays \in Nat
    BY <1>1, Constants DEF Inductive, TypeOK
  <2> QED
    BY <2>1 DEF MuteState, Enabled, MuteExpired, NoDeadline
<1>2. Inductive => PanelAgreesWithRouter
  BY <1>1 DEF PanelAgreesWithRouter
<1> QED
  BY <1>2, Invariance, PTL

(* Without a stop of the process, a click that somebody was told is handled   *)
(* already is decided on or still under way.                                 *)
THEOREM RepliesAreHonest == Spec => []LostOnlyByFaults
<1>1. Inductive => LostOnlyByFaults
  BY DEF Inductive, TypeOK, ClaimedAreFollowed, LostOnlyByFaults
<1> QED
  BY <1>1, Invariance, PTL
=============================================================================
