-------------------------- MODULE DashboardProofs --------------------------
(***************************************************************************)
(* Theorems about the dashboard page: the charge log it follows, for every *)
(* size of the ring and any number of events and eras, and the dashboards  *)
(* that compete for one event stream, for any number of them and any bound *)
(* on what their users do; and, with those about the display, about the    *)
(* three as MCViews composes them.                                         *)
(***************************************************************************)
EXTENDS MCViews, DisplayProofs, TLAPS

Named == Labels \cup {"Powered on"}
Event == [label : Named, era : 0..MaxEra]
LogCounts == {NoCount} \cup [lc : 0..MaxCount, era : 0..MaxEra]

(* The length of the ring for a history of n labels.                       *)
Kept(n) == IF n < CAP THEN n ELSE CAP

-----------------------------------------------------------------------------
(* The ring and its JSON.                                                  *)

(* A ring that is the end of a history remains it with one more event in   *)
(* both, whether or not its oldest has to go.                              *)
IsTailOf(ring, past) ==
  /\ Len(ring) = Kept(Len(past))
  /\ \A i \in 1..Len(ring) : ring[Len(ring) + 1 - i].label = past[Len(past) + 1 - i]

LEMMA PushedKeepsTail ==
  ASSUME NEW ring \in Seq(Event), NEW past \in Seq(Named), NEW event \in Event,
         IsTailOf(ring, past)
  PROVE  /\ Pushed(ring, event) \in Seq(Event)
         /\ IsTailOf(Pushed(ring, event), Append(past, event.label))
<1>1. CAP \in Nat \ {0} /\ event.label \in Named
  BY LogAssumption DEF Event
<1>2. CASE Len(ring) < CAP
  <2>1. Pushed(ring, event) = Append(ring, event)
    BY <1>2 DEF Pushed
  <2> DEFINE new == Append(ring, event)
             newer == Append(past, event.label)
  <2>2. /\ new \in Seq(Event) /\ Len(new) = Len(ring) + 1
        /\ new[Len(ring) + 1] = event
        /\ \A j \in 1..Len(ring) : new[j] = ring[j]
    OBVIOUS
  <2>3. /\ Len(newer) = Len(past) + 1 /\ newer[Len(past) + 1] = event.label
        /\ \A j \in 1..Len(past) : newer[j] = past[j]
    BY <1>1
  <2>4. /\ Len(past) = Len(ring) /\ Len(ring) \in Nat
        /\ Kept(Len(past) + 1) = Len(ring) + 1
    BY <1>1, <1>2 DEF IsTailOf, Kept
  <2> HIDE DEF new, newer
  <2>5. ASSUME NEW i \in 1..Len(new)
        PROVE  new[Len(new) + 1 - i].label = newer[Len(newer) + 1 - i]
    <3>1. CASE i = 1
      BY <3>1, <2>2, <2>3, <2>4
    <3>2. CASE i > 1
      <4>1. /\ new[Len(new) + 1 - i] = ring[Len(ring) + 1 - (i - 1)]
            /\ newer[Len(newer) + 1 - i] = past[Len(past) + 1 - (i - 1)]
            /\ i - 1 \in 1..Len(ring)
        BY <3>2, <2>2, <2>3, <2>4
      <4> QED  BY <4>1 DEF IsTailOf
    <3> QED  BY <3>1, <3>2, <2>2, <2>4
  <2>6. IsTailOf(new, newer)
    BY <2>2, <2>3, <2>4, <2>5 DEF IsTailOf
  <2> QED  BY <2>1, <2>2, <2>6 DEF new, newer
<1>3. CASE Len(ring) >= CAP
  <2>1. Pushed(ring, event) = Append(Tail(ring), event)
    BY <1>1, <1>3 DEF Pushed
  <2>2. Len(ring) = CAP /\ Len(past) >= CAP
    BY <1>1, <1>3 DEF IsTailOf, Kept
  <2>3. /\ Tail(ring) \in Seq(Event) /\ Len(Tail(ring)) = CAP - 1
        /\ \A j \in 1..(CAP - 1) : Tail(ring)[j] = ring[j + 1]
    BY <1>1, <2>2
  <2> DEFINE new == Append(Tail(ring), event)
             newer == Append(past, event.label)
  <2>4. /\ new \in Seq(Event) /\ Len(new) = CAP /\ new[CAP] = event
        /\ \A j \in 1..(CAP - 1) : new[j] = ring[j + 1]
    BY <1>1, <2>3
  <2>5. /\ Len(newer) = Len(past) + 1 /\ newer[Len(past) + 1] = event.label
        /\ \A j \in 1..Len(past) : newer[j] = past[j]
    BY <1>1
  <2> HIDE DEF new, newer
  <2>6. ASSUME NEW i \in 1..CAP
        PROVE  new[CAP + 1 - i].label = newer[Len(past) + 2 - i]
    <3>1. CASE i = 1
      BY <1>1, <3>1, <2>4, <2>5
    <3>2. CASE i > 1
      <4>1. new[CAP + 1 - i] = ring[CAP + 1 - (i - 1)]
        <5>1. CAP \in Nat /\ CAP + 1 - i \in 1..(CAP - 1)
          BY <1>1, <3>2
        <5>2. new[CAP + 1 - i] = ring[(CAP + 1 - i) + 1]
          BY <2>4, <5>1
        <5>3. (CAP + 1 - i) + 1 = CAP + 1 - (i - 1)
          BY <5>1
        <5> QED  BY <5>2, <5>3
      <4>2. newer[Len(past) + 2 - i] = past[Len(past) + 1 - (i - 1)]
        BY <1>1, <3>2, <2>2, <2>5
      <4>3. i - 1 \in 1..Len(ring)
        BY <1>1, <3>2, <2>2
      <4> QED  BY <4>1, <4>2, <4>3, <2>2 DEF IsTailOf
    <3> QED  BY <3>1, <3>2
  <2>7. Kept(Len(past) + 1) = CAP
    BY <1>1, <2>2 DEF Kept
  <2>8. IsTailOf(new, newer)
    BY <1>1, <2>2, <2>4, <2>5, <2>6, <2>7 DEF IsTailOf
  <2> QED  BY <2>1, <2>4, <2>8 DEF new, newer
<1> QED  BY <1>1, <1>2, <1>3

LEMMA Singleton ==
  ASSUME NEW S, NEW x \in S
  PROVE  <<x>> \in Seq(S) /\ Len(<<x>>) = 1 /\ <<x>>[1] = x
  OBVIOUS

(* What to_json() makes of a ring.                                         *)
LEMMA JsonFacts ==
  ASSUME NEW ring \in Seq(Event), NEW count \in Nat, Len(ring) <= count
  PROVE  LET json == to_json(ring, count)
         IN /\ json.more = count - Len(ring)
            /\ Len(json.e) = Len(ring)
            /\ \A i \in 1..Len(ring) : json.e[i] = ring[Len(ring) + 1 - i]
<1>1. Len(Reverse(ring)) = Len(ring)
  BY DEF Reverse
<1> QED  BY <1>1 DEF to_json, Reverse

-----------------------------------------------------------------------------
(* The inductive invariant.                                                *)

LogTyped ==
  /\ events \in Seq(Event) /\ history \in Seq(Named)
  /\ last_label \in Named \cup {NoLabel}
  /\ era \in 0..MaxEra /\ starved \in BOOLEAN
  /\ slot_log.more \in 0..MaxCount /\ Len(slot_log.e) \in 0..CAP

PageTyped ==
  /\ slot_live \in LogCounts /\ lastLc \in LogCounts
  /\ logOpen \in BOOLEAN /\ want \in BOOLEAN
  /\ mishaps \subseteq {"lost", "twins"}

(* The ring is the end of the history and the count is its length.         *)
RingIsTail ==
  /\ IsTailOf(events, history)
  /\ total_count = Len(history) /\ total_count <= MaxCount

(* A slot that is not behind is made from the ring as it is.               *)
SlotIsCurrent == ~starved => slot_log = to_json(events, total_count)

LogInv == LogTyped /\ PageTyped /\ RingIsTail /\ SlotIsCurrent

(* A step of the log that leaves the ring right leaves the slot right.     *)
LEMMA RebuildKeeps ==
  ASSUME LogTyped, events' \in Seq(Event), history' \in Seq(Named), RingIsTail',
         Rebuild
  PROVE  /\ starved' \in BOOLEAN /\ SlotIsCurrent'
         /\ slot_log'.more \in 0..MaxCount /\ Len(slot_log'.e) \in 0..CAP
<1>1. PICK low \in {FALSE, CanStarve} :
        /\ starved' = low
        /\ slot_log' = IF low THEN slot_log ELSE to_json(events', total_count')
  BY DEF Rebuild
<1>2. low \in BOOLEAN
  BY LogAssumption
<1>3. CASE low
  BY <1>1, <1>3 DEF SlotIsCurrent, LogTyped
<1>4. CASE ~low
  <2>1. /\ slot_log' = to_json(events', total_count') /\ starved' = FALSE
    BY <1>1, <1>2, <1>4
  <2>2. /\ Len(events') \in 0..CAP /\ total_count' \in 0..MaxCount
        /\ Len(events') <= total_count'
    BY LogAssumption, PageAssumption DEF RingIsTail, IsTailOf, Kept
  <2>3. /\ slot_log'.more = total_count' - Len(events')
        /\ Len(slot_log'.e) = Len(events')
    BY <2>1, <2>2, JsonFacts
  <2>4. SlotIsCurrent'
    BY <2>1 DEF SlotIsCurrent
  <2>5. slot_log'.more \in 0..MaxCount /\ Len(slot_log'.e) \in 0..CAP
    BY <2>2, <2>3, LogAssumption, PageAssumption
  <2> QED  BY <2>1, <2>4, <2>5
<1> QED  BY <1>2, <1>3, <1>4

(* The state of a boot, which PowerOn and Reboot share.                    *)
LEMMA OneEvent ==
  ASSUME NEW ring \in Seq(Event), NEW past \in Seq(Named),
         Len(ring) = 1, Len(past) = 1, ring[1].label = past[1]
  PROVE  /\ IsTailOf(ring, past)
         /\ to_json(ring, 1).more = 0 /\ Len(to_json(ring, 1).e) = 1
<1>1. Kept(1) = 1
  BY LogAssumption DEF Kept
<1>2. \A i \in 1..1 : ring[1 + 1 - i].label = past[1 + 1 - i]
  OBVIOUS
<1>3. IsTailOf(ring, past)
  BY <1>1, <1>2 DEF IsTailOf
<1>4. to_json(ring, 1).more = 0 /\ Len(to_json(ring, 1).e) = 1
  BY DEF to_json, Reverse
<1> QED  BY <1>3, <1>4

LEMMA BaselineFacts ==
  ASSUME NEW e \in 0..MaxEra
  PROVE  LET ring == <<Baseline(e)>>
         IN /\ ring \in Seq(Event) /\ <<"Powered on">> \in Seq(Named)
            /\ IsTailOf(ring, <<"Powered on">>)
            /\ to_json(ring, 1).more = 0 /\ Len(to_json(ring, 1).e) = 1
<1>1. Baseline(e) \in Event /\ Baseline(e).label = "Powered on"
  BY DEF Baseline, Event, Named
<1>2. "Powered on" \in Named
  BY DEF Named
<1>3. /\ <<Baseline(e)>> \in Seq(Event) /\ Len(<<Baseline(e)>>) = 1
      /\ <<Baseline(e)>>[1] = Baseline(e)
  BY <1>1, Singleton
<1>4. /\ <<"Powered on">> \in Seq(Named) /\ Len(<<"Powered on">>) = 1
      /\ <<"Powered on">>[1] = "Powered on"
  BY <1>2, Singleton
<1> QED  BY <1>1, <1>3, <1>4, OneEvent

LEMMA AtMostOneFits ==
  ASSUME NEW n, n = 0 \/ n = 1
  PROVE  n \in 0..CAP
  BY LogAssumption

LEMMA LogInvInit == Init => LogInv
<1> SUFFICES ASSUME Init PROVE LogInv
  OBVIOUS
<1>1. /\ 0 \in 0..MaxEra /\ 1 <= MaxCount /\ 1 <= CAP
      /\ MaxCount \in Nat /\ CAP \in Nat
  BY LogAssumption, PageAssumption
<1>2. events = <<Baseline(0)>> /\ history = <<"Powered on">> /\ total_count = 1
  BY DEF Init, PowerOn
<1>3. LogTyped
  <2>1. slot_log = NoLog \/ slot_log = to_json(<<Baseline(0)>>, 1)
    BY <1>2 DEF Init, PowerOn
  <2> DEFINE first == to_json(<<Baseline(0)>>, 1)
  <2>2. first.more = 0 /\ Len(first.e) = 1
    BY <1>1, BaselineFacts
  <2>3. slot_log.more \in 0..MaxCount
    BY <1>1, <2>1, <2>2 DEF NoLog
  <2>4. Len(slot_log.e) \in 0..CAP
    <3> HIDE DEF first
    <3>1. Len(slot_log.e) = 0 \/ Len(slot_log.e) = 1
      BY <2>1, <2>2 DEF NoLog, first
    <3> QED  BY <3>1, AtMostOneFits
  <2>5. starved \in BOOLEAN
    BY LogAssumption DEF Init, PowerOn
  <2>6. last_label \in Named \cup {NoLabel} /\ era = 0
    BY DEF Init, PowerOn, Named
  <2> QED  BY <1>1, <1>2, <2>3, <2>4, <2>5, <2>6, BaselineFacts DEF LogTyped
<1>4. PageTyped
  BY DEF Init, PageTyped, LogCounts
<1>5. RingIsTail
  BY <1>1, <1>2, BaselineFacts DEF RingIsTail
<1>6. SlotIsCurrent
  BY DEF Init, PowerOn, SlotIsCurrent
<1> QED  BY <1>3, <1>4, <1>5, <1>6 DEF LogInv

(* The steps that leave the log alone.                                     *)
LEMMA LogFrame ==
  ASSUME LogInv, UNCHANGED <<logVars, era, history>>, PageTyped'
  PROVE  LogInv'
BY DEF LogInv, LogTyped, RingIsTail, SlotIsCurrent, logVars

LEMMA LogStep ==
  ASSUME LogInv, NEW l \in Labels, LogEvent(l)
  PROVE  LogInv'
<1>1. PageTyped'
  BY DEF LogInv, LogEvent, PageTyped, pageVars
<1>2. CASE l = last_label
  <2>1. UNCHANGED <<logVars, era, history>>
    BY <1>2 DEF LogEvent, Note
  <2> QED  BY <1>1, <2>1, LogFrame
<1>3. CASE l # last_label
  <2> DEFINE event == [label |-> l, era |-> era]
  <2>1. /\ l \in Named /\ l # NoLabel /\ event \in Event /\ event.label = l
    BY PageAssumption DEF LogInv, LogTyped, Named, Event
  <2>2. /\ events' = Pushed(events, event) /\ history' = Append(history, l)
        /\ total_count' = (total_count + 1) % CountMod
        /\ last_label' = l /\ era' = era /\ Rebuild /\ total_count < MaxCount
    BY <1>3, <2>1 DEF LogEvent, Note
  <2> HIDE DEF event
  <2>3. events' \in Seq(Event) /\ IsTailOf(events', history')
    BY <2>1, <2>2, PushedKeepsTail DEF LogInv, LogTyped, RingIsTail
  <2>4. history' \in Seq(Named) /\ Len(history') = Len(history) + 1
    BY <2>1, <2>2 DEF LogInv, LogTyped
  <2>5. total_count' = total_count + 1
    <3>1. total_count \in Nat /\ CountMod \in Nat /\ total_count + 1 < CountMod
      BY <2>2, LogAssumption, PageAssumption DEF LogInv, LogTyped, RingIsTail
    <3> QED  BY <2>2, <3>1
  <2>6. RingIsTail'
    BY <2>2, <2>3, <2>4, <2>5, PageAssumption DEF LogInv, RingIsTail, LogTyped
  <2> QED  BY <1>1, <2>1, <2>2, <2>3, <2>4, <2>6, RebuildKeeps
              DEF LogInv, LogTyped
<1> QED  BY <1>2, <1>3

LEMMA SwitchStep ==
  ASSUME LogInv, SwitchMode
  PROVE  LogInv'
<1>1. /\ events' = <<>> /\ history' = <<>> /\ total_count' = 0
      /\ last_label' = NoLabel /\ era' = era + 1 /\ era < MaxEra /\ Rebuild
  BY DEF SwitchMode, Reset
<1>2. events' \in Seq(Event) /\ history' \in Seq(Named)
  BY <1>1
<1>3. RingIsTail'
  BY <1>1, LogAssumption, PageAssumption DEF RingIsTail, IsTailOf, Kept
<1>4. PageTyped'
  BY DEF LogInv, SwitchMode, PageTyped, pageVars
<1> QED  BY <1>1, <1>2, <1>3, <1>4, RebuildKeeps, PageAssumption
            DEF LogInv, LogTyped

LEMMA BootStep ==
  ASSUME LogInv, Boot
  PROVE  LogInv'
<1>1. /\ era' \in 0..MaxEra /\ era' = era + 1
      /\ 1 <= MaxCount /\ 1 <= CAP
      /\ MaxCount \in Nat /\ CAP \in Nat
  <2>1. era' = era + 1 /\ era < MaxEra /\ era \in 0..MaxEra
    BY DEF LogInv, LogTyped, Boot
  <2> QED  BY <2>1, LogAssumption, PageAssumption
<1>2. /\ events' = <<Baseline(era')>> /\ history' = <<"Powered on">>
      /\ total_count' = 1 /\ last_label' = "Powered on"
      /\ starved' \in {FALSE, CanStarve}
      /\ slot_log' = IF starved' THEN NoLog ELSE to_json(events', total_count')
  BY <1>1 DEF Boot, Reboot
<1>3. LogTyped'
  <2>1. slot_log' = NoLog \/ slot_log' = to_json(<<Baseline(era')>>, 1)
    BY <1>2
  <2> DEFINE first == to_json(<<Baseline(era')>>, 1)
  <2>2. first.more = 0 /\ Len(first.e) = 1
    BY <1>1, BaselineFacts
  <2>3. slot_log'.more \in 0..MaxCount
    BY <1>1, <2>1, <2>2 DEF NoLog
  <2>4. Len(slot_log'.e) \in 0..CAP
    <3> HIDE DEF first
    <3>1. Len(slot_log'.e) = 0 \/ Len(slot_log'.e) = 1
      BY <2>1, <2>2 DEF NoLog, first
    <3> QED  BY <3>1, AtMostOneFits
  <2>5. starved' \in BOOLEAN
    BY <1>2, LogAssumption
  <2>6. last_label' \in Named \cup {NoLabel}
    BY <1>2 DEF Named
  <2> QED  BY <1>1, <1>2, <2>3, <2>4, <2>5, <2>6, BaselineFacts DEF LogTyped
<1>4. PageTyped'
  BY DEF LogInv, Boot, PageTyped, pageVars, LogCounts, NoCount
<1>5. RingIsTail'
  BY <1>1, <1>2, BaselineFacts DEF RingIsTail
<1>6. SlotIsCurrent'
  BY <1>2 DEF SlotIsCurrent
<1> QED  BY <1>3, <1>4, <1>5, <1>6 DEF LogInv

LEMMA SyncStep ==
  ASSUME LogInv, SyncClock
  PROVE  LogInv'
<1>1. /\ UNCHANGED <<events, last_label, total_count, era, history>> /\ Rebuild
  BY DEF SyncClock, TimeSync
<1>2. PageTyped'
  BY DEF LogInv, SyncClock, PageTyped, pageVars
<1>3. RingIsTail'
  BY <1>1 DEF LogInv, RingIsTail
<1> QED  BY <1>1, <1>2, <1>3, RebuildKeeps DEF LogInv, LogTyped

(* The count of the live slot and everything the page does.                *)
LEMMA PageStep ==
  ASSUME LogInv,
         \/ BuildLive \/ OpenCard \/ CloseCard \/ PollLive
         \/ FetchLog \/ FetchLost \/ Reload
  PROVE  LogInv'
<1>1. UNCHANGED <<logVars, era, history>>
  BY DEF BuildLive, OpenCard, CloseCard, PollLive, FetchLog, FetchLost, Reload
<1>2. PageTyped'
  <2>1. CASE BuildLive
    <3>1. total_count \in 0..MaxCount /\ era \in 0..MaxEra
      BY PageAssumption DEF LogInv, LogTyped, RingIsTail
    <3> QED  BY <2>1, <3>1 DEF BuildLive, Count, LogCounts, LogInv, PageTyped, pageVars
  <2>2. CASE PollLive
    BY <2>2 DEF PollLive, LogInv, PageTyped, Moved
  <2>3. CASE OpenCard \/ CloseCard \/ FetchLog \/ FetchLost \/ Reload
    BY <2>3 DEF OpenCard, CloseCard, FetchLog, FetchLost, Reload, LogInv,
                PageTyped, LogCounts
  <2> QED  BY <2>1, <2>2, <2>3
<1> QED  BY <1>1, <1>2, LogFrame

LEMMA LogInvStep == LogInv /\ [Next]_vars => LogInv'
<1> SUFFICES ASSUME LogInv, [Next]_vars PROVE LogInv'
  OBVIOUS
<1>1. CASE UNCHANGED vars
  <2>1. UNCHANGED <<logVars, era, history>> /\ PageTyped'
    BY <1>1 DEF vars, pageVars, LogInv, PageTyped
  <2> QED  BY <2>1, LogFrame
<1> QED  BY <1>1, LogStep, SwitchStep, BootStep, SyncStep, PageStep DEF Next

LEMMA LogInvAlways == Spec => []LogInv
  BY LogInvInit, LogInvStep, PTL DEF Spec

-----------------------------------------------------------------------------
(* The theorems.                                                           *)

(* Every variable keeps its type, and the ring never exceeds CAP: note()   *)
(* trims what it appends.                                                  *)
THEOREM TypeCorrect == Spec => []TypeOK
<1>1. LogInv => TypeOK
  <2> SUFFICES ASSUME LogInv PROVE TypeOK
    OBVIOUS
  <2>1. Len(events) <= CAP /\ total_count \in 0..MaxCount
    BY LogAssumption, PageAssumption DEF LogInv, LogTyped, RingIsTail, IsTailOf, Kept
  <2>2. \A c \in {slot_live, lastLc} : c = NoCount \/ c \in [lc : 0..MaxCount, era : 0..MaxEra]
    BY DEF LogInv, PageTyped, LogCounts
  <2>3. Len(slot_log.e) <= CAP /\ slot_log.more \in 0..MaxCount
    BY LogAssumption DEF LogInv, LogTyped
  <2> QED  BY <2>1, <2>2, <2>3 DEF LogInv, LogTyped, PageTyped, TypeOK, Event, Named
<1> QED  BY <1>1, LogInvAlways, PTL

(* Whatever /wd/log.json answers after a rebuild is the true end of this   *)
(* mode's history, newest first, with the number of the events dropped.    *)
THEOREM SlotTellsTheTruth == Spec => []SlotIsTail
<1>1. LogInv => SlotIsTail
  <2> SUFFICES ASSUME LogInv, ~starved
               PROVE  LET n == Len(history)
                          kept == IF n < CAP THEN n ELSE CAP
                      IN /\ slot_log.more = n - kept
                         /\ Len(slot_log.e) = kept
                         /\ \A i \in 1..kept : slot_log.e[i].label = history[n + 1 - i]
    BY DEF SlotIsTail
  <2>1. /\ slot_log = to_json(events, total_count) /\ IsTailOf(events, history)
        /\ total_count = Len(history)
        /\ events \in Seq(Event) /\ history \in Seq(Named)
    BY DEF LogInv, SlotIsCurrent, RingIsTail, LogTyped
  <2>2. Len(events) = Kept(Len(history)) /\ Len(events) <= total_count
    BY <2>1, LogAssumption DEF IsTailOf, Kept
  <2>3. /\ slot_log.more = Len(history) - Len(events)
        /\ Len(slot_log.e) = Len(events)
        /\ \A i \in 1..Len(events) : slot_log.e[i] = events[Len(events) + 1 - i]
    BY <2>1, <2>2, JsonFacts
  <2> QED  BY <2>1, <2>2, <2>3 DEF IsTailOf, Kept
<1> QED  BY <1>1, LogInvAlways, PTL

-----------------------------------------------------------------------------
(* The card of the log: what is safety in CardFollows.                      *)

Older(a, b) == a.era < b.era \/ (a.era = b.era /\ a.lc < b.lc)

(* A page that awaits no answer and has seen the count as it is shows the   *)
(* log as it is.                                                            *)
CardIsCurrent ==
  logOpen /\ ~want /\ lastLc = Count(total_count) => clog = slot_log

(* What Undisturbed asks of every state.                                    *)
Steady == ~starved /\ (logOpen => lastLc # NoCount) /\ mishaps = {}

(* No count on its way to the page is from the future, and a card shows an  *)
(* old log only while the page is yet to learn of a newer count.            *)
SeenInv ==
  \A c \in {slot_live, lastLc} :
    c = NoCount \/ c = Count(total_count) \/ Older(c, Count(total_count))

CardInv == logOpen /\ ~want => clog = slot_log \/ Older(lastLc, Count(total_count))

LEMMA OlderFacts ==
  ASSUME NEW a \in LogCounts, NEW b \in LogCounts, NEW c \in LogCounts
  PROVE  /\ Older(a, b) /\ Older(b, c) => Older(a, c)
         /\ ~Older(a, a)
<1>1. \A d \in LogCounts : d.era \in Int /\ d.lc \in Int
  BY LogAssumption, PageAssumption DEF LogCounts, NoCount
<1> QED  BY <1>1 DEF Older

LEMMA NowIsACount ==
  ASSUME LogInv
  PROVE  Count(total_count) \in LogCounts /\ Count(total_count) # NoCount
<1>1. total_count \in 0..MaxCount /\ era \in 0..MaxEra
  BY PageAssumption DEF LogInv, LogTyped, RingIsTail
<1> QED  BY <1>1, LogAssumption, PageAssumption DEF Count, NoCount, LogCounts

(* The log stands still, or the count of it is one that was never seen.     *)
LEMMA LogMoves ==
  ASSUME LogInv, LogInv', Steady, Steady', [Next]_vars
  PROVE  \/ Count(total_count)' = Count(total_count) /\ slot_log' = slot_log
         \/ /\ Older(Count(total_count), Count(total_count)')
            /\ UNCHANGED pageVars /\ slot_live' \in {slot_live, NoCount}
<1>0. /\ era \in Nat /\ total_count \in Nat /\ CountMod \in Nat /\ MaxCount < CountMod
      /\ slot_log = to_json(events, total_count) /\ slot_log' = to_json(events, total_count)'
  BY LogAssumption, PageAssumption DEF LogInv, LogTyped, RingIsTail, SlotIsCurrent, Steady
<1>1. ASSUME NEW l \in Labels, LogEvent(l)
      PROVE  \/ UNCHANGED logVars
             \/ total_count' = total_count + 1
  BY <1>0, <1>1, PageAssumption DEF LogEvent, Note
<1>2. CASE \E l \in Labels : LogEvent(l)
  <2>1. UNCHANGED <<era, slot_live, pageVars>>
    BY <1>2 DEF LogEvent
  <2>2. CASE UNCHANGED logVars
    BY <2>1, <2>2 DEF Count, logVars
  <2>3. CASE total_count' = total_count + 1
    <3>1. Older(Count(total_count), Count(total_count)')
      BY <1>0, <2>1, <2>3 DEF Older, Count
    <3> QED  BY <2>1, <3>1
  <2> QED  BY <1>1, <1>2, <2>2, <2>3
<1>3. CASE SwitchMode \/ Boot
  <2>1. era' = era + 1 /\ UNCHANGED pageVars /\ slot_live' \in {slot_live, NoCount}
    BY <1>3 DEF SwitchMode, Boot
  <2>2. Older(Count(total_count), Count(total_count)')
    BY <1>0, <2>1 DEF Older, Count
  <2> QED  BY <2>1, <2>2
<1>4. CASE SyncClock
  <2>1. UNCHANGED <<events, total_count, era>>
    BY <1>4 DEF SyncClock, TimeSync
  <2>2. to_json(events, total_count)' = to_json(events, total_count)
    BY <2>1 DEF to_json
  <2> QED  BY <1>0, <2>1, <2>2 DEF Count
<1>5. CASE UNCHANGED <<logVars, era>>
  BY <1>5 DEF Count, logVars
<1>6. \/ \E l \in Labels : LogEvent(l)
      \/ SwitchMode \/ Boot \/ SyncClock \/ UNCHANGED <<logVars, era>>
  BY DEF Next, BuildLive, OpenCard, CloseCard, PollLive, FetchLog, FetchLost, Reload, vars
<1> QED  BY <1>2, <1>3, <1>4, <1>5, <1>6

LEMMA CardStep ==
  ASSUME LogInv, LogInv', Steady, Steady', SeenInv, CardInv, [Next]_vars
  PROVE  SeenInv' /\ CardInv'
<1>0. /\ slot_live \in LogCounts /\ lastLc \in LogCounts /\ NoCount \in LogCounts
      /\ slot_live' \in LogCounts /\ lastLc' \in LogCounts
      /\ Count(total_count) \in LogCounts /\ Count(total_count)' \in LogCounts
  <2>1. (LogInv => Count(total_count) \in LogCounts)'
    BY NowIsACount, PTL
  <2> QED  BY <2>1, NowIsACount DEF LogInv, PageTyped, LogCounts
<1>1. CASE /\ Older(Count(total_count), Count(total_count)')
           /\ UNCHANGED pageVars /\ slot_live' \in {slot_live, NoCount}
  <2>1. ASSUME NEW c \in LogCounts, c = NoCount \/ c = Count(total_count) \/ Older(c, Count(total_count))
        PROVE  c = NoCount \/ Older(c, Count(total_count)')
    BY <1>0, <1>1, <2>1, OlderFacts
  <2>2. SeenInv'
    BY <1>0, <1>1, <2>1 DEF SeenInv, pageVars
  <2>3. CardInv'
    BY <1>0, <1>1, <2>1 DEF SeenInv, CardInv, Steady, pageVars
  <2> QED  BY <2>2, <2>3
<1>2. CASE Count(total_count)' = Count(total_count) /\ slot_log' = slot_log
  <2>1. SeenInv'
    <3>1. /\ slot_live' \in {slot_live, NoCount, Count(total_count)}
          /\ lastLc' \in {slot_live, lastLc, NoCount}
      BY DEF Next, LogEvent, SwitchMode, Boot, SyncClock, BuildLive, OpenCard, CloseCard, PollLive,
             FetchLog, FetchLost, Reload, vars, pageVars
    <3> QED  BY <1>2, <3>1 DEF SeenInv
  <2>2. CardInv'
    <3>1. CASE UNCHANGED <<lastLc, clog>> /\ (logOpen' /\ ~want' => logOpen /\ ~want)
      BY <1>2, <3>1 DEF CardInv
    <3>2. CASE PollLive
      <4>1. ASSUME logOpen', ~want' PROVE lastLc' = lastLc /\ logOpen /\ ~want
        <5>1. logOpen /\ ~want /\ ~Moved /\ ~Twins /\ lastLc' = slot_live /\ slot_live # NoCount
          BY <3>2, <4>1 DEF PollLive, Steady
        <5>2. lastLc # NoCount
          BY <5>1 DEF Steady
        <5>3. slot_live.lc = lastLc.lc /\ slot_live.era = lastLc.era
          BY <5>1, <5>2 DEF Moved, Twins
        <5>4. slot_live = lastLc
          BY <1>0, <5>1, <5>2, <5>3 DEF LogCounts
        <5> QED  BY <5>1, <5>4
      <4> QED  BY <1>2, <3>2, <4>1 DEF CardInv, PollLive
    <3>3. CASE FetchLog
      BY <1>2, <3>3 DEF CardInv, FetchLog
    <3>4. CASE OpenCard \/ Reload
      BY <3>4 DEF CardInv, OpenCard, Reload
    <3>5. ~FetchLost
      BY DEF FetchLost, Steady
    <3>6. CASE CloseCard
      BY <3>6 DEF CardInv, CloseCard
    <3>7. CASE UNCHANGED <<lastLc, logOpen, want, clog>>
      BY <3>1, <3>7
    <3>8. \/ PollLive \/ FetchLog \/ OpenCard \/ Reload \/ FetchLost \/ CloseCard
          \/ UNCHANGED <<lastLc, logOpen, want, clog>>
      BY DEF Next, LogEvent, SwitchMode, Boot, SyncClock, BuildLive, vars, pageVars
    <3> QED  BY <3>2, <3>3, <3>4, <3>5, <3>6, <3>7, <3>8
  <2> QED  BY <2>1, <2>2
<1> QED  BY <1>1, <1>2, LogMoves

(* Whatever is logged, evicted, switched, rebooted or reloaded meanwhile: a *)
(* card that is at rest on the present count shows the present log, if the  *)
(* four premises of CardFollows hold.  It is then only the next poll and    *)
(* the next fetch that the card waits for.                                  *)
THEOREM CardsAtRestAreCurrent == Spec /\ Undisturbed => []CardIsCurrent
<1>1. Init => SeenInv /\ CardInv
  BY DEF Init, SeenInv, CardInv
<1>2. LogInv /\ CardInv => CardIsCurrent
  <2> SUFFICES ASSUME LogInv, CardInv PROVE CardIsCurrent
    OBVIOUS
  <2> QED  BY NowIsACount, OlderFacts DEF CardInv, CardIsCurrent
<1>3. LogInv /\ LogInv' /\ Steady /\ Steady' /\ SeenInv /\ CardInv /\ [Next]_vars => SeenInv' /\ CardInv'
  BY CardStep
<1>4. Undisturbed <=> []Steady
  BY PTL DEF Undisturbed, Steady
<1> QED  BY <1>1, <1>2, <1>3, <1>4, LogInvAlways, PTL DEF Spec

-----------------------------------------------------------------------------
(* The owners of the stream.                                               *)

Dashboards == [up : BOOLEAN, begun : BOOLEAN, hidden : BOOLEAN, dormant : BOOLEAN,
               es : BOOLEAN, due : 0..2, mine : Counts, seen : Counts]

OnePoll(q) == \A i, j \in 1..Len(q) : q[i] = "live" /\ q[j] = "live" => i = j
NoPoll(q) == \A i \in 1..Len(q) : q[i] # "live"

-----------------------------------------------------------------------------
(* The inductive invariants.  A page that has not begun has no poll on its *)
(* way, which is why the one that Begin appends is the only one.           *)

OwnerTypes ==
  /\ owner_epoch \in Nat /\ live \in Counts /\ boots \in Nat
  /\ page \in [Pages -> Dashboards]
  /\ wdQ \in [Pages -> Seq({"claim", "live"})]
  /\ acts \in 0..MaxActs /\ newest \in SUBSET Pages /\ disturbed \in BOOLEAN

QueueInv ==
  \A p \in Pages :
    /\ OnePoll(wdQ[p])
    /\ ~page[p].begun => NoPoll(wdQ[p])
    /\ ~page[p].up => wdQ[p] = <<>> /\ ~page[p].hidden

(* Nobody knows of a higher count than the device, and the page that        *)
(* claimed last holds the highest, unless it was loaded again since.        *)
CountInv ==
  ~disturbed =>
    /\ live <= owner_epoch
    /\ \A p \in newest : ~page[p].dormant /\ page[p].mine \in {NoOwner, owner_epoch}

OwnerInv == OwnerTypes /\ QueueInv

-----------------------------------------------------------------------------
(* What the queue operations do to the polls that wait.                     *)

LEMMA ClaimAppended ==
  ASSUME NEW q \in Seq({"claim", "live"})
  PROVE  /\ Append(q, "claim") \in Seq({"claim", "live"})
         /\ OnePoll(q) => OnePoll(Append(q, "claim"))
         /\ NoPoll(q) => NoPoll(Append(q, "claim"))
BY DEF OnePoll, NoPoll

LEMMA PollAppended ==
  ASSUME NEW q \in Seq({"claim", "live"}), NoPoll(q)
  PROVE  Append(q, "live") \in Seq({"claim", "live"}) /\ OnePoll(Append(q, "live"))
BY DEF OnePoll, NoPoll

LEMMA BothAppended ==
  ASSUME NEW q \in Seq({"claim", "live"}), NoPoll(q)
  PROVE  /\ q \o <<"claim", "live">> \in Seq({"claim", "live"})
         /\ OnePoll(q \o <<"claim", "live">>)
<1>1. q \o <<"claim", "live">> = Append(Append(q, "claim"), "live")
  OBVIOUS
<1> QED  BY <1>1, ClaimAppended, PollAppended

LEMMA HeadServed ==
  ASSUME NEW q \in Seq({"claim", "live"}), q # <<>>
  PROVE  /\ Tail(q) \in Seq({"claim", "live"})
         /\ OnePoll(q) => OnePoll(Tail(q))
         /\ NoPoll(q) => NoPoll(Tail(q))
BY DEF OnePoll, NoPoll

-----------------------------------------------------------------------------
(* Types and queues, action by action.                                      *)

Loaded == [NoPage EXCEPT !.up = TRUE, !.due = 1]

LEMMA NoPageFits ==
  /\ NoPage \in Dashboards /\ Loaded \in Dashboards
  /\ Loaded.mine = NoOwner /\ Loaded.seen = NoOwner /\ ~Loaded.begun /\ Loaded.due # 0
  /\ Loaded.up /\ ~Loaded.dormant
<1>1. NoOwner \in Counts /\ 0 \in 0..2 /\ 1 \in 0..2 /\ 1 # 0
  BY DEF Counts
<1>2. NoPage \in Dashboards
  BY <1>1 DEF NoPage, Dashboards
<1>3. NoPage.mine = NoOwner /\ NoPage.seen = NoOwner /\ ~NoPage.begun /\ ~NoPage.dormant
  BY DEF NoPage
<1> QED  BY <1>1, <1>2, <1>3 DEF Loaded, Dashboards

LEMMA OwnerTypesHold ==
  ASSUME OwnerTypes, OwnerNext
  PROVE  OwnerTypes'
<1> USE OwnerAssumption DEF OwnerTypes
<1>0. NoOwner \in Counts /\ Nat \subseteq Counts
  BY DEF Counts
<1>1. ASSUME NEW p \in Pages, Load(p) PROVE OwnerTypes'
  BY <1>0, <1>1, NoPageFits DEF Load, Act, Loaded
<1>2. ASSUME NEW p \in Pages, Leave(p) PROVE OwnerTypes'
  BY <1>0, <1>2, NoPageFits DEF Leave, Act
<1>3. ASSUME NEW p \in Pages, Hide(p) PROVE OwnerTypes'
  <2>1. page' \in [Pages -> Dashboards]
    BY <1>3 DEF Hide, Dashboards
  <2> QED  BY <1>3, <2>1 DEF Hide, Act
<1>4. ASSUME NEW p \in Pages, Show(p) PROVE OwnerTypes'
  <2>1. page' \in [Pages -> Dashboards]
    BY <1>4 DEF Show, Dashboards
  <2> QED  BY <1>4, <2>1, ClaimAppended DEF Show, Act, Enqueued
<1>5. ASSUME NEW p \in Pages, Tap(p) PROVE OwnerTypes'
  BY <1>5, ClaimAppended DEF Tap, Act, Enqueued
<1>6. ASSUME NEW p \in Pages, Begin(p) PROVE OwnerTypes'
  <2>1. page' \in [Pages -> Dashboards]
    <3>1. page' = [page EXCEPT ![p] = [page[p] EXCEPT !.begun = TRUE]]
      BY <1>6 DEF Begin
    <3>2. [page[p] EXCEPT !.begun = TRUE] \in Dashboards
      BY DEF Dashboards
    <3> QED  BY <3>1, <3>2
  <2>2. wdQ[p] \o <<"claim", "live">> \in Seq({"claim", "live"})
    <3>1. wdQ[p] \in Seq({"claim", "live"}) /\ <<"claim", "live">> \in Seq({"claim", "live"})
      OBVIOUS
    <3> QED  BY <3>1
  <2> QED  BY <1>6, <2>1, <2>2 DEF Begin
<1>7. ASSUME NEW p \in Pages, Poll(p) PROVE OwnerTypes'
  BY <1>7 DEF Poll, Enqueued
<1>8. ASSUME NEW p \in Pages, Claim(p) PROVE OwnerTypes'
  <2>1. wdQ[p] # <<>> /\ Tail(wdQ[p]) \in Seq({"claim", "live"})
    BY <1>8, HeadServed DEF Claim, Asks
  <2>2. owner_epoch' \in Counts
    BY <1>0, <1>8 DEF Claim
  <2> DEFINE e == page[p].es \/ (page[p].dormant /\ ~page[p].hidden)
             r == [page[p] EXCEPT !.mine = owner_epoch', !.dormant = FALSE, !.es = e]
  <2>3. e \in BOOLEAN
    BY DEF Dashboards
  <2>4. r \in Dashboards
    <3>1. page[p] \in Dashboards
      OBVIOUS
    <3> HIDE DEF e
    <3> QED  BY <2>2, <2>3, <3>1 DEF Dashboards
  <2>5. page' = [page EXCEPT ![p] = r]
    BY <1>8 DEF Claim
  <2>6. page' \in [Pages -> Dashboards]
    <3> HIDE DEF r
    <3> QED  BY <2>4, <2>5
  <2> QED  BY <1>8, <2>1, <2>6 DEF Claim, Answered
<1>9. ASSUME NEW p \in Pages, Heed(p) PROVE OwnerTypes'
  <2>1. wdQ[p] # <<>> /\ Tail(wdQ[p]) \in Seq({"claim", "live"})
    BY <1>9, HeadServed DEF Heed, Asks
  <2>2. boots \in Counts /\ page[p] \in Dashboards /\ Restarted(p) \in BOOLEAN
    BY <1>0 DEF Restarted
  <2>3. StandDown(p) \in Dashboards
    BY <2>2 DEF StandDown, Dashboards
  <2>4. [page[p] EXCEPT !.es = @ \/ Restarted(p), !.seen = boots] \in Dashboards
    BY <2>2 DEF Dashboards
  <2>5. CASE live = NoOwner \/ Overtaken(p)
    BY <1>9, <2>1, <2>3, <2>5 DEF Heed, Answered
  <2>6. CASE live # NoOwner /\ ~Overtaken(p)
    <3>1. page' = [page EXCEPT ![p] = [page[p] EXCEPT !.es = @ \/ Restarted(p), !.seen = boots]]
      BY <1>9, <2>6 DEF Heed
    <3>2. page' \in [Pages -> Dashboards]
      BY <2>4, <3>1
    <3> QED  BY <1>9, <2>1, <3>2 DEF Heed, Answered
  <2> QED  BY <2>5, <2>6
<1>10. ASSUME NEW p \in Pages, Lose(p) PROVE OwnerTypes'
  <2>1. wdQ[p] # <<>> /\ Tail(wdQ[p]) \in Seq({"claim", "live"})
    BY <1>10, HeadServed DEF Lose
  <2> QED  BY <1>10, <2>1 DEF Lose, Act, Answered
<1>11. CASE BuildOwner
  BY <1>0, <1>11 DEF BuildOwner
<1>12. CASE Restart
  BY <1>0, <1>12 DEF Restart, Act
<1>13. ASSUME NEW p \in Pages, Save(p) PROVE OwnerTypes'
  <2>1. page[p] \in Dashboards /\ page[p].due + 1 \in 0..2
    BY <1>13 DEF Save, Dashboards
  <2>2. page' = [page EXCEPT ![p] = [page[p] EXCEPT !.es = FALSE, !.due = page[p].due + 1]]
    BY <1>13 DEF Save
  <2>3. page' \in [Pages -> Dashboards]
    BY <2>1, <2>2 DEF Dashboards
  <2> QED  BY <1>13, <2>3 DEF Save, Act
<1>14. ASSUME NEW p \in Pages, Reconnect(p) PROVE OwnerTypes'
  <2>1. page[p] \in Dashboards /\ page[p].due - 1 \in 0..2
    BY <1>14 DEF Reconnect, Dashboards
  <2>2. page' = [page EXCEPT ![p] = [page[p] EXCEPT !.es = TRUE, !.due = page[p].due - 1]]
    BY <1>14 DEF Reconnect
  <2>3. page' \in [Pages -> Dashboards]
    BY <2>1, <2>2 DEF Dashboards
  <2> QED  BY <1>14, <2>3 DEF Reconnect
<1> QED
  BY <1>1, <1>2, <1>3, <1>4, <1>5, <1>6, <1>7, <1>8, <1>9, <1>10, <1>11, <1>12, <1>13, <1>14
     DEF OwnerNext

(* It is enough to look at the page that moves.                             *)
LEMMA OneQueueMoves ==
  ASSUME OwnerTypes, QueueInv, NEW p \in Pages,
         \A q \in Pages \ {p} : page'[q] = page[q] /\ wdQ'[q] = wdQ[q],
         OnePoll(wdQ'[p]), ~page'[p].begun => NoPoll(wdQ'[p]),
         ~page'[p].up => wdQ'[p] = <<>> /\ ~page'[p].hidden
  PROVE  QueueInv'
<1> SUFFICES ASSUME NEW q \in Pages
             PROVE  /\ OnePoll(wdQ'[q])
                    /\ ~page'[q].begun => NoPoll(wdQ'[q])
                    /\ ~page'[q].up => wdQ'[q] = <<>> /\ ~page'[q].hidden
  BY DEF QueueInv, OnePoll, NoPoll
<1>1. CASE q = p
  BY <1>1
<1>2. CASE q # p
  BY <1>2 DEF QueueInv
<1> QED  BY <1>1, <1>2

LEMMA QueuesHold ==
  ASSUME OwnerInv, OwnerNext
  PROVE  QueueInv'
<1> USE DEF OwnerInv
<1>0. ASSUME NEW p \in Pages
      PROVE  /\ wdQ[p] \in Seq({"claim", "live"}) /\ page[p] \in Dashboards
             /\ OnePoll(wdQ[p]) /\ (~page[p].begun => NoPoll(wdQ[p]))
             /\ ~page[p].up => wdQ[p] = <<>> /\ ~page[p].hidden
  BY DEF OwnerTypes, QueueInv
<1>1. ASSUME NEW p \in Pages, Load(p) PROVE QueueInv'
  <2>1. wdQ'[p] = <<>> /\ page'[p] = Loaded
    BY <1>0, <1>1 DEF Load, Loaded, OwnerTypes
  <2>2. \A q \in Pages \ {p} : page'[q] = page[q] /\ wdQ'[q] = wdQ[q]
    BY <1>1 DEF Load, OwnerTypes
  <2>3. OnePoll(wdQ'[p]) /\ NoPoll(wdQ'[p])
    BY <2>1 DEF OnePoll, NoPoll
  <2>4. page'[p].up
    BY <2>1, NoPageFits
  <2> QED  BY <2>2, <2>3, <2>4, OneQueueMoves
<1>2. ASSUME NEW p \in Pages, Leave(p) PROVE QueueInv'
  <2>1. wdQ'[p] = <<>> /\ page'[p] = NoPage
    BY <1>2 DEF Leave, OwnerTypes
  <2>2. \A q \in Pages \ {p} : page'[q] = page[q] /\ wdQ'[q] = wdQ[q]
    BY <1>2 DEF Leave, OwnerTypes
  <2>3. OnePoll(wdQ'[p]) /\ NoPoll(wdQ'[p])
    BY <2>1 DEF OnePoll, NoPoll
  <2>4. ~page'[p].hidden
    BY <2>1 DEF NoPage
  <2> QED  BY <2>1, <2>2, <2>3, <2>4, OneQueueMoves
<1>3. ASSUME NEW p \in Pages, Hide(p) PROVE QueueInv'
  <2>1. wdQ' = wdQ /\ page'[p].begun = page[p].begun /\ page'[p].up
    BY <1>0, <1>3 DEF Hide, Visible, OwnerTypes, Dashboards
  <2>2. \A q \in Pages \ {p} : page'[q] = page[q] /\ wdQ'[q] = wdQ[q]
    BY <1>3 DEF Hide, OwnerTypes
  <2> QED  BY <1>0, <2>1, <2>2, OneQueueMoves
<1>4. ASSUME NEW p \in Pages, Show(p) PROVE QueueInv'
  <2>1. wdQ'[p] = Append(wdQ[p], "claim") /\ page'[p].begun = page[p].begun /\ page'[p].up
    BY <1>0, <1>4 DEF Show, Enqueued, OwnerTypes, Dashboards
  <2>2. \A q \in Pages \ {p} : page'[q] = page[q] /\ wdQ'[q] = wdQ[q]
    BY <1>4 DEF Show, Enqueued, OwnerTypes
  <2> QED  BY <1>0, <2>1, <2>2, ClaimAppended, OneQueueMoves
<1>5. ASSUME NEW p \in Pages, Tap(p) PROVE QueueInv'
  <2>1. wdQ'[p] = Append(wdQ[p], "claim") /\ page' = page /\ page[p].up
    BY <1>5 DEF Tap, Enqueued, Visible, OwnerTypes
  <2>2. \A q \in Pages \ {p} : page'[q] = page[q] /\ wdQ'[q] = wdQ[q]
    BY <1>5 DEF Tap, Enqueued, OwnerTypes
  <2> QED  BY <1>0, <2>1, <2>2, ClaimAppended, OneQueueMoves
<1>6. ASSUME NEW p \in Pages, Begin(p) PROVE QueueInv'
  <2>1. page'[p].begun /\ page'[p].up /\ NoPoll(wdQ[p])
    BY <1>0, <1>6 DEF Begin, OwnerTypes, Dashboards
  <2>2. \A q \in Pages \ {p} : page'[q] = page[q] /\ wdQ'[q] = wdQ[q]
    BY <1>6 DEF Begin, OwnerTypes
  <2>3. wdQ'[p] \in {wdQ[p], wdQ[p] \o <<"claim", "live">>}
    BY <1>6 DEF Begin, OwnerTypes
  <2>4. OnePoll(wdQ'[p])
    BY <1>0, <2>1, <2>3, BothAppended
  <2> QED  BY <2>1, <2>2, <2>4, OneQueueMoves
<1>7. ASSUME NEW p \in Pages, Poll(p) PROVE QueueInv'
  <2>1. wdQ'[p] = Append(wdQ[p], "live") /\ page' = page /\ page[p].up /\ page[p].begun
    BY <1>7 DEF Poll, Enqueued, Visible, OwnerTypes
  <2>2. \A q \in Pages \ {p} : page'[q] = page[q] /\ wdQ'[q] = wdQ[q]
    BY <1>7 DEF Poll, Enqueued, OwnerTypes
  <2>3. NoPoll(wdQ[p])
    BY <1>0, <1>7 DEF Poll, PollWaits, NoPoll
  <2> QED  BY <1>0, <2>1, <2>2, <2>3, PollAppended, OneQueueMoves
<1>8. ASSUME NEW p \in Pages, Claim(p) PROVE QueueInv'
  <2>1. wdQ[p] # <<>> /\ wdQ'[p] = Tail(wdQ[p])
    BY <1>8 DEF Claim, Asks, Answered, OwnerTypes
  <2>2. page'[p].begun = page[p].begun /\ page'[p].up = page[p].up
    BY <1>0, <1>8 DEF Claim, OwnerTypes, Dashboards
  <2>3. \A q \in Pages \ {p} : page'[q] = page[q] /\ wdQ'[q] = wdQ[q]
    BY <1>8 DEF Claim, Answered, OwnerTypes
  <2> QED  BY <1>0, <2>1, <2>2, <2>3, HeadServed, OneQueueMoves
<1>9. ASSUME NEW p \in Pages, Heed(p) PROVE QueueInv'
  <2>1. wdQ[p] # <<>> /\ wdQ'[p] = Tail(wdQ[p])
    BY <1>9 DEF Heed, Asks, Answered, OwnerTypes
  <2>2. page'[p].begun = page[p].begun /\ page'[p].up = page[p].up
    BY <1>0, <1>9 DEF Heed, StandDown, OwnerTypes, Dashboards
  <2>3. \A q \in Pages \ {p} : page'[q] = page[q] /\ wdQ'[q] = wdQ[q]
    BY <1>9 DEF Heed, StandDown, Answered, OwnerTypes
  <2> QED  BY <1>0, <2>1, <2>2, <2>3, HeadServed, OneQueueMoves
<1>10. ASSUME NEW p \in Pages, Lose(p) PROVE QueueInv'
  <2>1. wdQ[p] # <<>> /\ wdQ'[p] = Tail(wdQ[p]) /\ page' = page
    BY <1>10 DEF Lose, Answered, OwnerTypes
  <2>2. \A q \in Pages \ {p} : page'[q] = page[q] /\ wdQ'[q] = wdQ[q]
    BY <1>10 DEF Lose, Answered, OwnerTypes
  <2> QED  BY <1>0, <2>1, <2>2, HeadServed, OneQueueMoves
<1>11. CASE BuildOwner \/ Restart
  BY <1>11 DEF BuildOwner, Restart, QueueInv
<1>12. ASSUME NEW p \in Pages, Save(p) \/ Reconnect(p) PROVE QueueInv'
  <2>1. /\ wdQ' = wdQ /\ page'[p].begun = page[p].begun /\ page'[p].up = page[p].up
        /\ page'[p].hidden = page[p].hidden
    BY <1>0, <1>12 DEF Save, Reconnect, OwnerTypes, Dashboards
  <2>2. \A q \in Pages \ {p} : page'[q] = page[q] /\ wdQ'[q] = wdQ[q]
    BY <1>12 DEF Save, Reconnect, OwnerTypes
  <2> QED  BY <1>0, <2>1, <2>2, OneQueueMoves
<1> QED
  BY <1>1, <1>2, <1>3, <1>4, <1>5, <1>6, <1>7, <1>8, <1>9, <1>10, <1>11, <1>12 DEF OwnerNext

LEMMA OwnerInvHolds == OwnerSpec => []OwnerInv
<1>1. OwnerInit => OwnerInv
  <2>1. OwnerInit => OwnerTypes
    <3>1. NoOwner \in Counts
      BY DEF Counts
    <3>2. <<>> \in Seq({"claim", "live"}) /\ 0 \in 0..MaxActs
      BY OwnerAssumption
    <3> SUFFICES ASSUME OwnerInit PROVE OwnerTypes
      OBVIOUS
    <3>3. page \in [Pages -> Dashboards] /\ wdQ \in [Pages -> Seq({"claim", "live"})]
      BY <3>2, NoPageFits DEF OwnerInit
    <3>4. owner_epoch \in Nat /\ live \in Counts /\ boots \in Nat
      BY <3>1 DEF OwnerInit
    <3>5. acts \in 0..MaxActs /\ newest \in SUBSET Pages /\ disturbed \in BOOLEAN
      BY <3>2 DEF OwnerInit
    <3> QED  BY <3>3, <3>4, <3>5 DEF OwnerTypes
  <2>2. OwnerInit => QueueInv
    <3>1. OnePoll(<<>>) /\ NoPoll(<<>>) /\ ~NoPage.hidden
      BY DEF OnePoll, NoPoll, NoPage
    <3> QED  BY <3>1 DEF OwnerInit, QueueInv
  <2> QED  BY <2>1, <2>2 DEF OwnerInv
<1>2. OwnerInv /\ [OwnerNext]_ownerVars => OwnerInv'
  <2>1. CASE UNCHANGED ownerVars
    BY <2>1 DEF OwnerInv, OwnerTypes, QueueInv, OnePoll, NoPoll, ownerVars
  <2>2. CASE OwnerInv /\ OwnerNext
    BY <2>2, OwnerTypesHold, QueuesHold DEF OwnerInv
  <2> QED  BY <2>1, <2>2
<1> QED  BY <1>1, <1>2, PTL DEF OwnerSpec

(* For every number of dashboards: types hold, and a page has one poll on   *)
(* its way at a time, however slowly its queue is served.                   *)
THEOREM OnePollAtATime == OwnerSpec => []OwnerTypeOK
<1>1. OwnerInv => OwnerTypeOK
  BY DEF OwnerInv, OwnerTypes, QueueInv, OwnerTypeOK, OnePoll, Dashboards
<1> QED  BY <1>1, OwnerInvHolds, PTL

-----------------------------------------------------------------------------
(* The count.                                                              *)

LEMMA CountsHold ==
  ASSUME OwnerInv, CountInv, OwnerNext
  PROVE  CountInv'
<1> SUFFICES ASSUME ~disturbed'
             PROVE  /\ live' <= owner_epoch'
                    /\ \A r \in newest' :
                         ~page'[r].dormant /\ page'[r].mine \in {NoOwner, owner_epoch'}
  BY DEF CountInv
<1>0. /\ owner_epoch \in Nat /\ live \in Counts
      /\ page \in [Pages -> Dashboards] /\ newest \in SUBSET Pages
  BY DEF OwnerInv, OwnerTypes
<1>a. /\ ~disturbed => live <= owner_epoch
      /\ ~disturbed => \A r \in newest :
           ~page[r].dormant /\ page[r].mine \in {NoOwner, owner_epoch}
  BY DEF CountInv
<1>1. ASSUME NEW p \in Pages, Load(p) \/ Leave(p)
      PROVE  CountInv'
  <2>1. page'[p].mine = NoOwner /\ ~page'[p].dormant
    <3>1. page'[p] \in {NoPage, Loaded}
      BY <1>0, <1>1 DEF Load, Leave, Loaded
    <3> QED  BY <3>1, NoPageFits DEF NoPage
  <2>2. \A q \in Pages \ {p} : page'[q] = page[q]
    BY <1>0, <1>1 DEF Load, Leave
  <2> QED  BY <1>0, <1>1, <1>a, <2>1, <2>2 DEF Load, Leave, CountInv
<1>2. ASSUME NEW p \in Pages,
             \/ Hide(p) \/ Show(p) \/ Tap(p) \/ Save(p) \/ Reconnect(p) \/ Begin(p) \/ Poll(p)
      PROVE  CountInv'
  <2>1. \A q \in Pages : page'[q].mine = page[q].mine /\ page'[q].dormant = page[q].dormant
    BY <1>0, <1>2 DEF Hide, Show, Tap, Save, Reconnect, Begin, Poll, Dashboards
  <2> QED
    BY <1>0, <1>2, <1>a, <2>1 DEF Hide, Show, Tap, Save, Reconnect, Begin, Poll, CountInv
<1>3. ASSUME NEW p \in Pages, Claim(p)
      PROVE  CountInv'
  <2>1. page'[p].mine = owner_epoch' /\ ~page'[p].dormant
    BY <1>0, <1>3 DEF Claim, Dashboards
  <2>2. live' <= owner_epoch'
    BY <1>0, <1>3, <1>a DEF Claim, Counts, NoOwner
  <2> QED  BY <1>3, <2>1, <2>2 DEF Claim, CountInv
<1>4. ASSUME NEW p \in Pages, Heed(p)
      PROVE  CountInv'
  <2>1. \A q \in Pages : page'[q].mine = page[q].mine
    BY <1>0, <1>4 DEF Heed, StandDown, Dashboards
  <2>2. \A q \in Pages \ {p} : page'[q].dormant = page[q].dormant
    BY <1>0, <1>4 DEF Heed, StandDown, Dashboards
  <2>3. ~disturbed /\ p \in newest => ~Overtaken(p)
    BY <1>0, <1>a DEF Overtaken, Counts, NoOwner
  <2>4. ~Overtaken(p) => page'[p].dormant = page[p].dormant
    BY <1>0, <1>4 DEF Heed, Dashboards
  <2> QED  BY <1>0, <1>4, <1>a, <2>1, <2>2, <2>3, <2>4 DEF Heed, CountInv
<1>5. ASSUME NEW p \in Pages, Lose(p)
      PROVE  CountInv'
  BY <1>5 DEF Lose, CountInv
<1>6. CASE BuildOwner
  BY <1>0, <1>6, <1>a DEF BuildOwner, CountInv
<1>7. CASE Restart
  BY <1>7 DEF Restart, CountInv
<1> QED  BY <1>1, <1>2, <1>3, <1>4, <1>5, <1>6, <1>7 DEF OwnerNext, CountInv

(* For every number of dashboards: until a request is lost or the device    *)
(* restarts, the page that claimed last is not sent to sleep, whatever the  *)
(* others do and however old the count is that it polls.                    *)
THEOREM LastClaimStaysAwake == OwnerSpec => []NewestIsAwake
<1>1. OwnerInit => CountInv
  BY DEF OwnerInit, CountInv, NoOwner
<1>2. OwnerInv /\ CountInv /\ [OwnerNext]_ownerVars => CountInv'
  <2>1. CASE UNCHANGED ownerVars
    BY <2>1 DEF CountInv, ownerVars
  <2>2. CASE OwnerInv /\ CountInv /\ OwnerNext
    BY <2>2, CountsHold
  <2> QED  BY <2>1, <2>2
<1>3. CountInv => NewestIsAwake
  BY DEF CountInv, NewestIsAwake
<1> QED  BY <1>1, <1>2, <1>3, OwnerInvHolds, PTL DEF OwnerSpec

-----------------------------------------------------------------------------
(* The streams: what is safety in OneKeepsTheStream.                        *)

HasClaim(q) == \E i \in 1..Len(q) : q[i] = "claim"

(* Every page in view has made its claim and no timer left, the count has   *)
(* reached those that it overtook, and they have stood down.                *)
ClaimsAreMade ==
  /\ live = owner_epoch
  /\ \A p \in Pages : Visible(p) => /\ page[p].begun /\ page[p].due = 0
                                    /\ ~HasClaim(wdQ[p])
                                    /\ Overtaken(p) => page[p].dormant

(* Then the streams are where they belong: of the pages in view the one     *)
(* that claimed last has one, and no other.                                 *)
OwnersAreSettled ==
  ~disturbed /\ ClaimsAreMade =>
    \A p \in Pages : Visible(p) => (page[p].es <=> p \in newest)

(* A page in view streams, or is to, unless it stood down, and has a claim  *)
(* on its way where it may not stay as it is; the latest count is that of   *)
(* newest.                                                                  *)
PageInv(p) ==
  /\ Visible(p) /\ ~page[p].dormant => page[p].es \/ page[p].due # 0
  /\ Visible(p) /\ page[p].begun =>
       /\ page[p].dormant /\ page[p].es => HasClaim(wdQ[p])
       /\ page[p].mine # NoOwner \/ HasClaim(wdQ[p])
  /\ page[p].mine <= owner_epoch
  /\ page[p].mine = owner_epoch => p \in newest
  /\ page[p].seen \in {NoOwner, boots}

StreamInv == ~disturbed => \A p \in Pages : PageInv(p)

LEMMA ClaimsWait ==
  ASSUME NEW q \in Seq({"claim", "live"})
  PROVE  /\ HasClaim(Append(q, "claim")) /\ HasClaim(q \o <<"claim", "live">>)
         /\ HasClaim(q) => HasClaim(Append(q, "live"))
         /\ q # <<>> /\ Head(q) = "live" /\ HasClaim(q) => HasClaim(Tail(q))
<1>1. HasClaim(Append(q, "claim")) /\ (HasClaim(q) => HasClaim(Append(q, "live")))
  BY DEF HasClaim
<1>2. HasClaim(q \o <<"claim", "live">>)
  <2>1. (q \o <<"claim", "live">>)[Len(q) + 1] = "claim" /\ Len(q \o <<"claim", "live">>) = Len(q) + 2
    OBVIOUS
  <2> QED  BY <2>1 DEF HasClaim
<1>3. ASSUME q # <<>>, Head(q) = "live", HasClaim(q) PROVE HasClaim(Tail(q))
  <2>1. PICK i \in 1..Len(q) : q[i] = "claim"
    BY <1>3 DEF HasClaim
  <2>2. i - 1 \in 1..Len(Tail(q)) /\ Tail(q)[i - 1] = q[i]
    BY <1>3, <2>1
  <2> QED  BY <2>1, <2>2 DEF HasClaim
<1> QED  BY <1>1, <1>2, <1>3

LEMMA OthersStay ==
  ASSUME NEW p \in Pages, PageInv(p), owner_epoch \in Nat, owner_epoch' \in Nat,
         page[p] \in Dashboards, page'[p] = page[p], wdQ'[p] = wdQ[p], boots' = boots,
         \/ owner_epoch' = owner_epoch /\ newest' = newest
         \/ owner_epoch' = owner_epoch + 1
  PROVE  PageInv(p)'
<1>1. page[p].mine \in Nat \cup {NoOwner}
  BY DEF Dashboards, Counts
<1>2. page'[p].mine <= owner_epoch' /\ (page'[p].mine = owner_epoch' => p \in newest')
  BY <1>1 DEF PageInv, NoOwner
<1> QED  BY <1>2 DEF PageInv, Visible

LEMMA StreamsHold ==
  ASSUME OwnerInv, StreamInv, NoTimerWakes, OwnerNext
  PROVE  StreamInv'
<1> SUFFICES ASSUME ~disturbed', NEW r \in Pages PROVE PageInv(r)'
  BY DEF StreamInv
<1>0. /\ owner_epoch \in Nat /\ boots \in Nat /\ page \in [Pages -> Dashboards]
      /\ wdQ \in [Pages -> Seq({"claim", "live"})] /\ newest \in SUBSET Pages
      /\ page[r] \in Dashboards /\ page[r].mine \in Counts
      /\ ~page[r].begun => NoPoll(wdQ[r])
  BY DEF OwnerInv, OwnerTypes, QueueInv, Dashboards
<1>a. ~disturbed => PageInv(r)
  BY DEF StreamInv
<1>1. ASSUME NEW p \in Pages,
             \/ Load(p) \/ Leave(p) \/ Hide(p) \/ Show(p) \/ Tap(p) \/ Save(p)
             \/ Reconnect(p) \/ Begin(p) \/ Poll(p)
      PROVE  PageInv(r)'
  <2>0. ~disturbed /\ UNCHANGED <<owner_epoch, boots, newest>>
    BY <1>1 DEF Load, Leave, Hide, Show, Tap, Save, Reconnect, Begin, Poll
  <2>1. CASE r # p
    <3>1. page'[r] = page[r] /\ wdQ'[r] = wdQ[r]
      BY <1>0, <1>1, <2>1 DEF Load, Leave, Hide, Show, Tap, Save, Reconnect, Begin, Poll, Enqueued
    <3> QED  BY <1>0, <1>a, <2>0, <3>1, OthersStay
  <2>2. CASE r = p /\ (Load(p) \/ Leave(p))
    <3>1. /\ page'[r].mine = NoOwner /\ page'[r].seen = NoOwner /\ ~page'[r].begun
          /\ page'[r].up => page'[r].due # 0
      <4>1. page'[r] \in {NoPage, Loaded}
        BY <1>0, <2>2 DEF Load, Leave, Loaded
      <4>2. CASE page'[r] = NoPage
        BY <4>2 DEF NoPage
      <4>3. CASE page'[r] = Loaded
        BY <4>3, NoPageFits
      <4> QED  BY <4>1, <4>2, <4>3
    <3> QED  BY <1>0, <2>0, <3>1 DEF PageInv, NoOwner, Visible
  <2>3. CASE r = p /\ Hide(p)
    <3>1. /\ page'[r].mine = page[r].mine /\ page'[r].seen = page[r].seen /\ page'[r].hidden
      BY <1>0, <2>3 DEF Hide, Dashboards
    <3> QED  BY <1>0, <1>a, <2>0, <3>1 DEF PageInv, Visible
  <2>4. CASE r = p /\ (Show(p) \/ Tap(p))
    <3>1. /\ page'[r].mine = page[r].mine /\ page'[r].seen = page[r].seen
          /\ wdQ'[r] = Append(wdQ[r], "claim")
          /\ ~page'[r].dormant => page'[r].es \/ page'[r].due # 0
      BY <1>0, <2>4 DEF Show, Tap, Enqueued, Dashboards
    <3> QED  BY <1>0, <1>a, <2>0, <3>1, ClaimsWait DEF PageInv, Visible
  <2>5. CASE r = p /\ Begin(p)
    <3>1. /\ page'[r].mine = page[r].mine /\ page'[r].seen = page[r].seen
          /\ page'[r].hidden = page[r].hidden /\ page'[r].up = page[r].up
          /\ page'[r].dormant = page[r].dormant /\ page'[r].es = page[r].es
          /\ page'[r].due = page[r].due
          /\ ~page[r].hidden => wdQ'[r] = wdQ[r] \o <<"claim", "live">>
      BY <1>0, <2>5 DEF Begin, Dashboards
    <3> QED  BY <1>0, <1>a, <2>0, <3>1, ClaimsWait DEF PageInv, Visible
  <2>6. CASE r = p /\ Poll(p)
    <3>1. page'[r] = page[r] /\ wdQ'[r] = Append(wdQ[r], "live")
      BY <1>0, <2>6 DEF Poll, Enqueued
    <3> QED  BY <1>0, <1>a, <2>0, <3>1, ClaimsWait DEF PageInv, Visible
  <2>7. CASE r = p /\ (Save(p) \/ Reconnect(p))
    <3>1. /\ page'[r].mine = page[r].mine /\ page'[r].seen = page[r].seen
          /\ page'[r].hidden = page[r].hidden /\ page'[r].up = page[r].up
          /\ page'[r].dormant = page[r].dormant /\ page'[r].begun = page[r].begun
          /\ wdQ'[r] = wdQ[r]
      BY <1>0, <2>7 DEF Save, Reconnect, Dashboards
    <3>2. \/ ~page'[r].es /\ page'[r].due # 0
          \/ page'[r].es /\ ~page'[r].dormant
      <4>1. CASE Save(p)
        <5>1. page[r].due \in 0..2 /\ page'[r].due = page[r].due + 1 /\ ~page'[r].es
          BY <1>0, <2>7, <4>1 DEF Save, Dashboards
        <5>2. page'[r].due # 0
          BY <5>1
        <5> QED  BY <5>1, <5>2
      <4>2. CASE Reconnect(p)
        <5>1. page[r].due # 0 /\ page'[r].es
          BY <1>0, <2>7, <4>2 DEF Reconnect, Dashboards
        <5> QED  BY <3>1, <5>1 DEF NoTimerWakes
      <4> QED  BY <2>7, <4>1, <4>2
    <3> QED  BY <1>a, <2>0, <3>1, <3>2 DEF PageInv, Visible
  <2> QED  BY <1>1, <2>1, <2>2, <2>3, <2>4, <2>5, <2>6, <2>7
<1>2. ASSUME NEW p \in Pages, Claim(p)
      PROVE  PageInv(r)'
  <2>0. ~disturbed /\ UNCHANGED boots /\ owner_epoch' = owner_epoch + 1 /\ newest' = {p}
    BY <1>2 DEF Claim
  <2>1. CASE r # p
    <3>1. page'[r] = page[r] /\ wdQ'[r] = wdQ[r]
      BY <1>0, <1>2, <2>1 DEF Claim, Answered
    <3> QED  BY <1>0, <1>a, <2>0, <3>1, OthersStay
  <2>2. CASE r = p
    <3>1. /\ page'[r].mine = owner_epoch' /\ page'[r].seen = page[r].seen /\ ~page'[r].dormant
          /\ page'[r].es = (page[r].es \/ (page[r].dormant /\ ~page[r].hidden))
          /\ page'[r].up = page[r].up /\ page'[r].hidden = page[r].hidden
          /\ page'[r].begun = page[r].begun /\ page'[r].due = page[r].due
      BY <1>0, <1>2, <2>2 DEF Claim, Dashboards
    <3>2. Visible(r)' => page'[r].es \/ page'[r].due # 0
      <4>1. ~page[r].dormant /\ Visible(r) => page[r].es \/ page[r].due # 0
        BY <1>a, <2>0 DEF PageInv
      <4> QED  BY <3>1, <4>1 DEF Visible
    <3>3. page'[r].mine # NoOwner /\ page'[r].mine <= owner_epoch'
      BY <1>0, <2>0, <3>1 DEF NoOwner
    <3>4. r \in newest' /\ page'[r].seen \in {NoOwner, boots'}
      BY <1>a, <2>0, <2>2, <3>1 DEF PageInv
    <3> QED  BY <3>1, <3>2, <3>3, <3>4 DEF PageInv
  <2> QED  BY <2>1, <2>2
<1>3. ASSUME NEW p \in Pages, Heed(p)
      PROVE  PageInv(r)'
  <2>0. ~disturbed /\ UNCHANGED <<owner_epoch, boots, newest>>
    BY <1>3 DEF Heed
  <2>1. CASE r # p
    <3>1. page'[r] = page[r] /\ wdQ'[r] = wdQ[r]
      BY <1>0, <1>3, <2>1 DEF Heed, Answered, StandDown
    <3> QED  BY <1>0, <1>a, <2>0, <3>1, OthersStay
  <2>2. CASE r = p
    <3>1. HasClaim(wdQ[r]) => HasClaim(wdQ'[r])
      <4>1. wdQ[r] # <<>> /\ Head(wdQ[r]) = "live" /\ wdQ'[r] = Tail(wdQ[r])
        BY <1>0, <1>3, <2>2 DEF Heed, Asks, Answered
      <4> QED  BY <1>0, <4>1, ClaimsWait
    <3>2. ~Restarted(r)
      BY <1>a, <2>0 DEF PageInv, Restarted
    <3>3. CASE Overtaken(r) /\ live # NoOwner
      <4>1. /\ page'[r].mine = page[r].mine /\ page'[r].seen = page[r].seen
            /\ page'[r].dormant /\ ~page'[r].es
            /\ page'[r].up = page[r].up /\ page'[r].hidden = page[r].hidden
            /\ page'[r].begun = page[r].begun
        BY <1>0, <1>3, <2>2, <3>3 DEF Heed, StandDown, Dashboards
      <4> QED  BY <1>a, <2>0, <3>1, <4>1 DEF PageInv, Visible
    <3>4. CASE ~(Overtaken(r) /\ live # NoOwner)
      <4>1. /\ page'[r].mine = page[r].mine /\ page'[r].seen \in {page[r].seen, boots}
            /\ page'[r].dormant = page[r].dormant /\ page'[r].es = page[r].es
            /\ page'[r].up = page[r].up /\ page'[r].hidden = page[r].hidden
            /\ page'[r].begun = page[r].begun /\ page'[r].due = page[r].due
        BY <1>0, <1>3, <2>2, <3>2, <3>4 DEF Heed, Dashboards
      <4> QED  BY <1>a, <2>0, <3>1, <4>1 DEF PageInv, Visible
    <3> QED  BY <3>3, <3>4
  <2> QED  BY <2>1, <2>2
<1>4. CASE BuildOwner
  BY <1>0, <1>4, <1>a, OthersStay DEF BuildOwner
<1>5. ~(\E p \in Pages : Lose(p)) /\ ~Restart
  BY DEF Lose, Restart
<1> QED  BY <1>1, <1>2, <1>3, <1>4, <1>5 DEF OwnerNext

(* For every number of dashboards, and whatever their users did before: the *)
(* claims, the polls, the timers and the standing down are enough to leave  *)
(* the streams where they belong, as long as no page that stood down holds  *)
(* the timer of a save.                                                     *)
THEOREM OwnersSettle == OwnerSpec /\ []NoTimerWakes => []OwnersAreSettled
<1>1. OwnerInit => StreamInv
  BY DEF OwnerInit, StreamInv, PageInv, NoPage, NoOwner, Visible
<1>2. OwnerInv /\ StreamInv /\ NoTimerWakes /\ [OwnerNext]_ownerVars => StreamInv'
  <2>1. CASE UNCHANGED ownerVars
    BY <2>1 DEF StreamInv, PageInv, Visible, ownerVars
  <2>2. CASE OwnerInv /\ StreamInv /\ NoTimerWakes /\ OwnerNext
    BY <2>2, StreamsHold
  <2> QED  BY <2>1, <2>2
<1>3. OwnerInv /\ StreamInv /\ NewestIsAwake => OwnersAreSettled
  <2> SUFFICES ASSUME OwnerInv, StreamInv, NewestIsAwake, ~disturbed, ClaimsAreMade,
                      NEW p \in Pages, Visible(p)
               PROVE  page[p].es <=> p \in newest
    BY DEF OwnersAreSettled
  <2>1. /\ page[p].begun /\ page[p].due = 0 /\ ~HasClaim(wdQ[p])
        /\ PageInv(p) /\ live = owner_epoch
        /\ Overtaken(p) => page[p].dormant
        /\ page[p].mine \in Nat \cup {NoOwner} /\ owner_epoch \in Nat
    BY DEF ClaimsAreMade, StreamInv, OwnerInv, OwnerTypes, Dashboards, Counts
  <2>2. CASE p \in newest
    BY <2>1, <2>2 DEF NewestIsAwake, PageInv
  <2>3. CASE p \notin newest
    <3>1. Overtaken(p)
      BY <2>1, <2>3 DEF PageInv, Overtaken, NoOwner
    <3> QED  BY <2>1, <2>3, <3>1 DEF PageInv
  <2> QED  BY <2>2, <2>3
<1> QED  BY <1>1, <1>2, <1>3, OwnerInvHolds, LastClaimStaysAwake, PTL DEF OwnerSpec

-----------------------------------------------------------------------------
(* What the user looks at, all together: the log card, the dashboards that *)
(* compete for the device, and the device's own screen.                    *)

LEMMA ViewStepsAreOfOnePart ==
  ASSUME [ViewNext]_viewVars
  PROVE  [Next]_vars /\ [OwnerNext]_ownerVars /\ [DisplayNext]_displayVars
<1>1. CASE UNCHANGED viewVars
  BY <1>1 DEF viewVars
<1>2. CASE ViewNext
  BY <1>2 DEF ViewNext
<1> QED  BY <1>1, <1>2

(* A behaviour of the views is one of the log card, one of the owners and   *)
(* one of the display.                                                      *)
THEOREM ViewsImplementTheirParts == ViewSpec => Spec /\ OwnerSpec /\ DisplaySpec
<1>1. ViewInit => Init /\ OwnerInit /\ DisplayInit
  BY DEF ViewInit
<1> QED
  BY <1>1, ViewStepsAreOfOnePart, PTL DEF ViewSpec, Spec, OwnerSpec, DisplaySpec

(* For any capacity of the ring, any number of pages and any list of        *)
(* screens, whatever the three do: each keeps its types and its bounds.     *)
THEOREM ViewTypesAreKept == ViewSpec => []ViewTypeOK
<1>1. TypeOK /\ OwnerTypeOK /\ DisplayTypeOK => ViewTypeOK
  BY DEF ViewTypeOK
<1> QED
  BY <1>1, ViewsImplementTheirParts, TypeCorrect, OnePollAtATime, HighlightIsOnARow, PTL
=============================================================================
