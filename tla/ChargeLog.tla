----------------------------- MODULE ChargeLog -----------------------------
(***************************************************************************)
(* The charge-event log: the ring, the dedup label and the running count   *)
(* of charge_log.h, and the JSON of them that the loop leaves for the web  *)
(* in slot_log.  The module has the log's operations; Charger takes them   *)
(* into the compute tick, LogPage puts the page that reads the slot beside *)
(* them.                                                                   *)
(*                                                                         *)
(* The times of an event are left out.  An event carries instead the era   *)
(* of the data it tells of, which no code reads: a new era begins when the *)
(* data mode changes.                                                      *)
(***************************************************************************)
EXTENDS Naturals, SequencesExt

CONSTANTS
  CAP,          (* events kept                                             *)
  CountMod,     (* total_count is a uint32_t: 2^32 in the code             *)
  CanStarve     (* the largest free block may fall below WD_JSON_BLK_FLOOR *)

ASSUME LogAssumption ==
  /\ CAP \in Nat \ {0}
  /\ CountMod \in Nat /\ CountMod > CAP
  /\ CanStarve \in BOOLEAN

VARIABLES
  events,       (* events(), oldest first                                  *)
  last_label,   (* last_label(), NoLabel after a reset                     *)
  total_count,  (* total_count()                                           *)
  slot_log,     (* what GET /wd/log.json answers                           *)
  starved       (* only for the properties: the last rebuild was skipped   *)

logVars == <<events, last_label, total_count, slot_log, starved>>

NoLabel == ""   (* no event: what clear() leaves                        *)
NoLog == [more |-> 0, e |-> <<>>]

(* The ring after one more event.                                          *)
Untrimmed(ring, event) == Append(ring, event)                       \* mutant

Pushed(ring, event) ==
  IF Len(ring) < CAP THEN Append(ring, event) ELSE Append(Tail(ring), event)

(* to_json(): newest first, and how many older ones the ring has dropped.  *)
OldestFirst(ring, count) ==                                         \* mutant
  [more |-> IF count > Len(ring) THEN count - Len(ring) ELSE 0, e |-> ring]

to_json(ring, count) ==
  [more |-> IF count > Len(ring) THEN count - Len(ring) ELSE 0,
   e    |-> Reverse(ring)]

(* charger_log_json.update(): rebuilds the slot from the log as the step   *)
(* leaves it, unless the heap is low.                                      *)
Rebuild ==
  \E low \in {FALSE, CanStarve} :
    /\ starved' = low
    /\ slot_log' = IF low THEN slot_log ELSE to_json(events', total_count')

(* note(), and the rebuild its caller asks for when the count has moved.   *)
Note(label, era) ==
  IF label \in {NoLabel, last_label} THEN UNCHANGED logVars
  ELSE /\ last_label' = label
       /\ total_count' = (total_count + 1) % CountMod
       /\ events' = Pushed(events, [label |-> label, era |-> era])
       /\ Rebuild

(* reset() when the data mode changes, and the rebuild after it.           *)
KeepLabel ==                                                        \* mutant
  events' = <<>> /\ total_count' = 0 /\ UNCHANGED last_label /\ Rebuild
Reset ==
  /\ events' = <<>> /\ last_label' = NoLabel /\ total_count' = 0
  /\ Rebuild

(* on_boot: "Powered on", and the first build of an empty slot.            *)
Baseline(era) == [label |-> "Powered on", era |-> era]

PowerOn(era) ==
  /\ last_label = "Powered on" /\ total_count = 1
  /\ events = <<Baseline(era)>>
  /\ starved \in {FALSE, CanStarve}
  /\ slot_log = IF starved THEN NoLog ELSE to_json(events, total_count)

Reboot(era) ==
  /\ last_label' = "Powered on" /\ total_count' = 1
  /\ events' = <<Baseline(era)>>
  /\ starved' \in {FALSE, CanStarve}
  /\ slot_log' = IF starved' THEN NoLog ELSE to_json(events', total_count')

(* on_time_sync: a rebuild if there is anything to rebuild.                *)
TimeSync ==
  /\ total_count # 0
  /\ UNCHANGED <<events, last_label, total_count>>
  /\ Rebuild
=============================================================================
