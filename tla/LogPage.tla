------------------------------ MODULE LogPage ------------------------------
(***************************************************************************)
(* How an open "Charger" card of the dashboard follows the charge log.     *)
(* The page never polls the log itself: it fetches /wd/log.json when the   *)
(* card is opened, and again whenever the count "lc" in /wd/live.json is   *)
(* not the one it saw last.  The device publishes the log when it changes  *)
(* and the count every 6 s; the page reads the count every 8 s.            *)
(***************************************************************************)
EXTENDS ChargeLog

CONSTANTS
  Labels,     (* the labels the compute tick logs                          *)
  Faults,     (* what may happen besides new events                        *)
  MaxCount,   (* bound on the events logged in an era                      *)
  MaxEra      (* bound on the mode switches and reboots                    *)

FaultKinds == {"switch", "boot", "lost", "early", "reload"}

ASSUME PageAssumption ==
  /\ NoLabel \notin Labels
  /\ Faults \subseteq FaultKinds
  /\ MaxCount \in Nat \ {0} /\ MaxCount < CountMod
  /\ MaxEra \in Nat

VARIABLES
  era,        (* mode switches and reboots so far                          *)
  history,    (* only for the properties: every label of this era          *)
  slot_live,  (* "lc" of GET /wd/live.json, NoCount before the first build *)
  lastLc, logOpen,
  want,       (* pollLog() is due: its 250 ms timer runs or it is queued   *)
  clog,       (* M.clog, the answer on the card                            *)
  mishaps     (* only for the properties: what has gone wrong unseen       *)

pageVars == <<lastLc, logOpen, want, clog, mishaps>>
vars == <<logVars, era, history, slot_live, pageVars>>

(* A count, with the era it was taken in, which the page cannot see.       *)
Count(n) == [lc |-> n, era |-> era]
NoCount == [lc |-> CountMod, era |-> 0]

Init ==
  /\ PowerOn(0)
  /\ era = 0 /\ history = <<"Powered on">>
  /\ slot_live = NoCount
  /\ lastLc = NoCount /\ logOpen = FALSE /\ want = FALSE /\ clog = NoLog
  /\ mishaps = {}

-----------------------------------------------------------------------------
(* The device.                                                             *)

(* A compute tick that has something to log.                               *)
LogEvent(label) ==
  /\ total_count < MaxCount
  /\ Note(label, era)
  /\ history' = IF label = last_label THEN history ELSE Append(history, label)
  /\ UNCHANGED <<era, slot_live, pageVars>>

(* A compute tick that finds the data mode changed.                        *)
SwitchMode ==
  /\ "switch" \in Faults /\ era < MaxEra
  /\ Reset
  /\ era' = era + 1 /\ history' = <<>>
  /\ UNCHANGED <<slot_live, pageVars>>

Boot ==
  /\ "boot" \in Faults /\ era < MaxEra
  /\ Reboot(era + 1)
  /\ era' = era + 1 /\ history' = <<"Powered on">>
  /\ slot_live' = NoCount
  /\ UNCHANGED pageVars

SyncClock == TimeSync /\ UNCHANGED <<era, history, slot_live, pageVars>>

(* The 6 s interval.                                                       *)
BuildLive ==
  /\ slot_live' = Count(total_count)
  /\ UNCHANGED <<logVars, era, history, pageVars>>

-----------------------------------------------------------------------------
(* The page.                                                               *)

(* secPollStart('log'): the seed.                                          *)
OpenCard ==
  /\ ~logOpen
  /\ "early" \in Faults \/ lastLc # NoCount
  /\ logOpen' = TRUE /\ want' = TRUE
  /\ UNCHANGED <<logVars, era, history, slot_live, lastLc, clog, mishaps>>

CloseCard ==
  /\ logOpen
  /\ logOpen' = FALSE
  /\ UNCHANGED <<logVars, era, history, slot_live, lastLc, want, clog, mishaps>>

(* pollOwner(): an empty answer is nothing yet.  Two eras may have reached *)
(* the same count: the page takes them for one.                            *)
MovedUp == lastLc # NoCount /\ slot_live.lc > lastLc.lc             \* mutant
Moved == lastLc # NoCount /\ slot_live.lc # lastLc.lc
Twins == slot_live.lc = lastLc.lc /\ slot_live.era # lastLc.era

PollLive ==
  /\ slot_live # NoCount
  /\ want' = (want \/ (Moved /\ logOpen))
  /\ mishaps' = mishaps \cup (IF Twins THEN {"twins"} ELSE {})
  /\ lastLc' = slot_live
  /\ UNCHANGED <<logVars, era, history, slot_live, logOpen, clog>>

(* pollLog(), served.                                                      *)
FetchLog ==
  /\ want
  /\ want' = FALSE /\ clog' = slot_log
  /\ UNCHANGED <<logVars, era, history, slot_live, lastLc, logOpen, mishaps>>

(* pollLog() while the tab is hidden, or a fetch that fails: nothing asks  *)
(* for it again.                                                           *)
FetchLost ==
  /\ "lost" \in Faults /\ want
  /\ want' = FALSE /\ mishaps' = mishaps \cup {"lost"}
  /\ UNCHANGED <<logVars, era, history, slot_live, lastLc, logOpen, clog>>

(* The page is loaded anew.                                                *)
Reload ==
  /\ "reload" \in Faults
  /\ lastLc' = NoCount /\ logOpen' = FALSE /\ want' = FALSE /\ clog' = NoLog
  /\ UNCHANGED <<logVars, era, history, slot_live, mishaps>>

Next ==
  \/ \E l \in Labels : LogEvent(l)
  \/ SwitchMode \/ Boot \/ SyncClock \/ BuildLive
  \/ OpenCard \/ CloseCard \/ PollLive \/ FetchLog \/ FetchLost \/ Reload

Spec == Init /\ [][Next]_vars

(* The loop's 6 s interval, the page's 8 s poll, and the queue of the page *)
(* that sends one request after the other.                                 *)
FairSpec == Spec /\ WF_vars(BuildLive) /\ WF_vars(PollLive) /\ WF_vars(FetchLog)

-----------------------------------------------------------------------------
(* What must hold.                                                         *)

(* Every variable holds a value the program can hold, and the ring never   *)
(* more than CAP events.                                                   *)
TypeOK ==
  /\ events \in Seq([label : Labels \cup {"Powered on"}, era : 0..MaxEra])
  /\ Len(events) <= CAP
  /\ last_label \in Labels \cup {NoLabel, "Powered on"}
  /\ total_count \in 0..MaxCount
  /\ slot_log.more \in 0..MaxCount /\ Len(slot_log.e) <= CAP
  /\ starved \in BOOLEAN /\ logOpen \in BOOLEAN /\ want \in BOOLEAN
  /\ mishaps \subseteq {"lost", "twins"}
  /\ \A c \in {slot_live, lastLc} : c = NoCount \/ c \in [lc : 0..MaxCount, era : 0..MaxEra]

(* What the web can fetch is the true end of the history of this data      *)
(* mode, with the number of the older events: across evictions, repeated   *)
(* labels, mode switches and reboots, and however often the heap was too   *)
(* low to rebuild it before.                                               *)
SlotIsTail ==
  LET n == Len(history)
      kept == IF n < CAP THEN n ELSE CAP
  IN ~starved =>
       /\ slot_log.more = n - kept
       /\ Len(slot_log.e) = kept
       /\ \A i \in 1..kept : slot_log.e[i].label = history[n + 1 - i]

(* The premises of the next property: no rebuild was skipped, the card is  *)
(* opened after the page's first look at the count, no fetch is lost, and  *)
(* the count does not come back to the number the page saw before a switch.*)
Undisturbed ==
  [](~starved /\ (logOpen => lastLc # NoCount) /\ mishaps = {})

Follows == <>[]logOpen => <>[](clog = slot_log)

(* A card that stays open ends up with the log as it is, through evictions *)
(* mode switches, reboots and reloads.                                     *)
CardFollows == Undisturbed => Follows
=============================================================================
