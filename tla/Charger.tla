------------------------------ MODULE Charger ------------------------------
(***************************************************************************)
(* From the charger to what the device says of it: the two producers of    *)
(* the canonical sensors (the Victron receiver of victron_ble.yaml in      *)
(* Live, the simulator of mock_data.yaml in Demo), the data mode, and the  *)
(* compute tick of core.yaml with the no-load guard, the published status  *)
(* and the charge log.  Everything here runs on loopTask; what makes it    *)
(* hard is state that outlives the mode it was made in.                    *)
(*                                                                         *)
(* One compute tick is one unit of time; a stamp is kept as its age, None  *)
(* when it is 0 in the code.  A value carries the era in which a producer  *)
(* published it, which no code reads; an era is the time between two       *)
(* changes of the data mode.  The voltage, which takes the same way as the *)
(* current, and the note, the colours and the elapsed times are left out.  *)
(***************************************************************************)
EXTENDS ChargeLog, Integers

CONSTANTS
  Packets,     (* what the charger may advertise                           *)
  Script,      (* the frames of the simulator, one per interval            *)
  DemoEvery,   (* the interval of the simulator: 2 s                       *)
  Timeout,     (* ble_timeout_s: 20 s                                      *)
  DataClear,   (* DATA_CLEAR_MS: 60 s                                      *)
  NoLoad,      (* the debounce of the no-load guard: 8 s                   *)
  Throttle,    (* ticks after which Live may publish again for sure        *)
  Modes,       (* the modes that are selected                              *)
  Faults,      (* what may happen besides                                  *)
  MaxEra       (* bound on the mode changes between two boots              *)

None == -1
Nothing == ""   (* a sensor without a state, an empty static *)

Charging == {"Bulk", "Absorption"}
Charged == {"Float", "Storage"}
Recond == {"Equalize"}
Fault == {"Fault"}
States == Charging \cup Charged \cup Recond \cup Fault \cup {"Off", "Load detect"}

(* What a packet or a frame reports: the charge phase (a fault with its    *)
(* error), whether any current flows, and the temperature, if there is one.*)
Reports == [state : States, cur : {"zero", "load"}, temp : {"NA", "real"}]
Frames == [state : States, cur : {"zero", "load"}, online : BOOLEAN]

FaultKinds == {"keys", "restart", "crash", "quick"}

ASSUME ChargerAssumption ==
  /\ Packets \subseteq Reports
  /\ Script \in Seq(Frames) /\ Script # <<>>
  /\ DemoEvery \in Nat \ {0} /\ NoLoad \in Nat \ {0} /\ Throttle \in Nat \ {0}
  /\ Timeout \in Nat \ {0} /\ DataClear \in Nat /\ Timeout < DataClear
  /\ Modes \subseteq {"Auto", "Demo", "Live"}
  /\ Faults \subseteq FaultKinds
  /\ MaxEra \in Nat

VARIABLES
  (* Flash: the key entities, and the copy of bat_present written last.     *)
  keys, bat_present_nvs,
  (* Settings and what the tick resolves from them.                         *)
  device_mode, demo_active,
  prev_demo,       (* "first" before the first tick                         *)
  listening,       (* the receiver has the keys of a charger                *)
  (* The producers.                                                         *)
  sim_t, demo_due, (* the next frame, and when the interval runs next       *)
  published,       (* the statics "last" of the producers' state publish    *)
  forced,          (* producers whose "ep" is not mode_epoch                *)
  live_pub,        (* age of the last throttled Live publish                *)
  (* The canonical sensors, [v, era], and last_packet_ms.                   *)
  state_raw, cur, temp, last_packet,
  (* The compute tick.                                                      *)
  bat_present, nl_since,
  shown,           (* what is published for the web and HA                  *)
  era,
  drew             (* only for the properties: a current was published      *)
                   (* after the terminals were last found empty             *)

modeVars == <<keys, device_mode, demo_active, prev_demo, listening, era>>
producerVars == <<sim_t, demo_due, published, forced, live_pub>>
sensorVars == <<state_raw, cur, temp, last_packet>>
computeVars == <<bat_present, nl_since, shown>>
vars == <<modeVars, producerVars, sensorVars, computeVars, bat_present_nvs,
          drew, logVars>>

Unset == [v |-> Nothing, era |-> 0]
Cleared == [word |-> Nothing, state |-> Unset, cur |-> Unset, temp |-> Unset]

Init ==
  /\ keys \in BOOLEAN
  /\ bat_present_nvs = FALSE /\ bat_present = FALSE /\ drew = FALSE
  /\ device_mode = "Auto" /\ demo_active = ~keys /\ prev_demo = "first"
  /\ listening = FALSE /\ era = 0
  /\ sim_t = 1 /\ demo_due = DemoEvery
  /\ published = [live |-> Nothing, demo |-> Nothing] /\ forced = {} /\ live_pub = Throttle
  /\ state_raw = Unset /\ cur = Unset /\ temp = Unset /\ last_packet = None
  /\ nl_since = None /\ shown = Cleared
  /\ PowerOn(era)

-----------------------------------------------------------------------------
(* The producers.                                                          *)

(* The current (and with it the voltage) of a report reaches the canonical *)
(* sensor.                                                                 *)
PublishCurrent(r) ==
  /\ cur' = [v |-> r.cur, era |-> era]
  /\ drew' = (drew \/ r.cur = "load")

(* The phase and the error are published on change, and once after the     *)
(* mode has changed.                                                       *)
PublishState(producer, r) ==
  /\ state_raw' = IF producer \in forced \/ published[producer] # r.state
                  THEN [v |-> r.state, era |-> era] ELSE state_raw
  /\ published' = [published EXCEPT ![producer] = r.state]
  /\ forced' = forced \ {producer}

(* Between two packets with one or two ticks between them, the 1.5 s may   *)
(* have passed or not; with Throttle ticks (3) they have.                  *)
Unthrottled == {TRUE}                                               \* mutant
MayPublish ==
  IF live_pub = Throttle THEN {TRUE} ELSE IF live_pub = 0 THEN {FALSE} ELSE BOOLEAN

(* An advertisement of the paired charger.  The temperature has a throttle *)
(* of its own, and a charger without a sensor reports none.                *)
LivePacket(r) ==
  /\ listening /\ ~demo_active
  /\ last_packet' = 0
  /\ \E due \in MayPublish :
       IF due THEN PublishCurrent(r) /\ live_pub' = 0
       ELSE UNCHANGED <<cur, drew, live_pub>>
  /\ temp' \in {temp} \cup (IF r.temp = "NA" THEN {} ELSE {[v |-> "real", era |-> era]})
  /\ PublishState("live", r)
  /\ UNCHANGED <<modeVars, sim_t, demo_due, computeVars, bat_present_nvs, logVars>>

(* The script of the simulator starts over after its last frame.           *)
FrameBeyond == (sim_t % (Len(Script) + 1)) + 1                      \* mutant
NextFrame == (sim_t % Len(Script)) + 1

(* The 2 s interval of the simulator: frozen while the device is in Live,  *)
(* and silent in the frames that play a charger out of reach.              *)
DemoFrame ==
  /\ demo_due = 0 /\ demo_due' = DemoEvery
  /\ IF ~demo_active
     THEN UNCHANGED <<sim_t, published, forced, sensorVars, drew>>
     ELSE /\ sim_t' = NextFrame
          /\ IF ~Script[sim_t].online
             THEN UNCHANGED <<published, forced, sensorVars, drew>>
             ELSE /\ last_packet' = 0
                  /\ PublishCurrent(Script[sim_t])
                  /\ temp' = [v |-> "real", era |-> era]
                  /\ PublishState("demo", Script[sim_t])
  /\ UNCHANGED <<modeVars, live_pub, computeVars, bat_present_nvs, logVars>>

-----------------------------------------------------------------------------
(* The compute tick.                                                       *)

Older(age, cap) == IF age = None \/ age = cap THEN age ELSE age + 1

(* The mode, and whether it is not the one of the tick before.  A switch   *)
(* forgets the last packet, so the status is masked until the new producer *)
(* has spoken.                                                             *)
Demo == device_mode = "Demo" \/ (device_mode # "Live" /\ ~keys)
ModeName == IF Demo THEN "demo" ELSE "live"
Switched == prev_demo \notin {"first", ModeName}
StillHeard == last_packet                                           \* mutant
Heard == IF Switched THEN None ELSE last_packet

LinkFresh == Heard # None /\ Heard < Timeout
Offline == Heard = None \/ Heard > Timeout
DataCleared == Heard = None \/ Heard > DataClear

Scode(state) ==
  CASE state \in Recond   -> 4
    [] state \in Charging -> 1
    [] state \in Charged  -> 2
    [] state \in Fault    -> 3
    [] OTHER              -> 0

(* The no-load guard.                                                      *)
Latched == bat_present \/ (LinkFresh /\ cur.v = "load")
Guardable == Scode(state_raw.v) \in {1, 4} \/ (Scode(state_raw.v) = 2 /\ ~Latched)
ZeroLoad == Guardable /\ cur.v = "zero"
ZeroSince == IF ~ZeroLoad THEN None ELSE IF nl_since = None THEN 0 ELSE nl_since
FoundEmpty == ZeroSince >= NoLoad

Word ==
  IF Offline THEN "OFFLINE"
  ELSE <<"IDLE", "CHARGING", "CHARGED", "FAULT", "RECOND">>
         [IF FoundEmpty THEN 1 ELSE Scode(state_raw.v) + 1]

(* What is mirrored for the web and HA.                                    *)
Mirrored ==
  IF DataCleared THEN [Cleared EXCEPT !.word = Word]
  ELSE [word |-> Word, state |-> state_raw, cur |-> cur, temp |-> temp]

Logged ==
  IF ~Offline THEN Note(state_raw.v, state_raw.era)
  ELSE Note(IF Heard # None THEN "No signal" ELSE NoLabel, era)

(* The hygiene of a switch.                                                *)
ForgetOtherMode ==
  /\ era' = era + 1
  /\ forced' = {"live", "demo"}
  /\ temp' = [v |-> "sentinel", era |-> era + 1]
  /\ Reset

Tick ==
  /\ demo_due > 0 /\ demo_due' = demo_due - 1
  /\ listening' = (listening \/ keys)
  /\ demo_active' = Demo /\ prev_demo' = ModeName
  /\ IF Switched THEN ForgetOtherMode
     ELSE Logged /\ UNCHANGED <<era, forced, temp>>
  /\ last_packet' = Older(Heard, DataClear + 1)
  /\ bat_present' = (Latched /\ ~FoundEmpty)
  /\ nl_since' = Older(ZeroSince, NoLoad)
  /\ shown' = Mirrored
  /\ drew' = (drew /\ ~FoundEmpty /\ (Switched => Latched))
  /\ live_pub' = Older(live_pub, Throttle)
  /\ UNCHANGED <<keys, device_mode, sim_t, published, state_raw, cur, bat_present_nvs>>

-----------------------------------------------------------------------------
(* The owner, and what befalls the device.                                 *)

(* A mode is not left and taken again within the throttle of its producer, *)
(* unless "quick" says so.                                                 *)
MayChange == era < MaxEra /\ ("quick" \in Faults \/ ~demo_active \/ live_pub = Throttle)

SetMode(m) ==
  /\ MayChange /\ device_mode # m
  /\ device_mode' = m
  /\ UNCHANGED <<keys, demo_active, prev_demo, listening, era, producerVars,
                 sensorVars, computeVars, bat_present_nvs, drew, logVars>>

SetKeys ==
  /\ "keys" \in Faults /\ MayChange
  /\ keys' = ~keys
  /\ UNCHANGED <<device_mode, demo_active, prev_demo, listening, era, producerVars,
                 sensorVars, computeVars, bat_present_nvs, drew, logVars>>

(* The preferences are written about once a minute.                        *)
Flush ==
  /\ bat_present_nvs # bat_present
  /\ bat_present_nvs' = bat_present
  /\ UNCHANGED <<modeVars, producerVars, sensorVars, computeVars, drew, logVars>>

(* A boot that finds "saved" in flash; everything else starts afresh.      *)
Boot(saved) ==
  /\ UNCHANGED keys
  /\ bat_present_nvs' = saved /\ bat_present' = saved /\ drew' = (drew /\ saved)
  /\ device_mode' = "Auto" /\ demo_active' = ~keys /\ prev_demo' = "first"
  /\ listening' = FALSE /\ era' = 0
  /\ sim_t' = 1 /\ demo_due' = DemoEvery
  /\ published' = [live |-> Nothing, demo |-> Nothing] /\ forced' = {} /\ live_pub' = Throttle
  /\ state_raw' = Unset /\ cur' = Unset /\ temp' = Unset /\ last_packet' = None
  /\ nl_since' = None /\ shown' = Cleared
  /\ Reboot(0)

(* A safe_reboot() writes what is pending, a crash does not.               *)
Restart == "restart" \in Faults /\ Boot(bat_present)
Crash == "crash" \in Faults /\ Boot(bat_present_nvs)

Next ==
  \/ \E r \in Packets : LivePacket(r)
  \/ DemoFrame \/ Tick
  \/ \E m \in Modes : SetMode(m)
  \/ SetKeys \/ Flush \/ Restart \/ Crash

Spec == Init /\ [][Next]_vars

-----------------------------------------------------------------------------
(* What must hold.                                                         *)

Values(V) == [v : V, era : 0..MaxEra]

(* Every variable holds a value the program can hold.                      *)
TypeOK ==
  /\ keys \in BOOLEAN /\ bat_present_nvs \in BOOLEAN /\ bat_present \in BOOLEAN
  /\ device_mode \in Modes \cup {"Auto"} /\ demo_active \in BOOLEAN
  /\ prev_demo \in {"first", "demo", "live"} /\ listening \in BOOLEAN
  /\ sim_t \in 1..Len(Script) /\ demo_due \in 0..DemoEvery
  /\ published \in [{"live", "demo"} -> States \cup {Nothing}]
  /\ forced \subseteq {"live", "demo"} /\ live_pub \in 0..Throttle
  /\ state_raw \in Values(States \cup {Nothing})
  /\ cur \in Values({Nothing, "zero", "load"})
  /\ temp \in Values({Nothing, "real", "sentinel"})
  /\ last_packet \in -1..(DataClear + 1) /\ nl_since \in -1..NoLoad
  /\ shown.word \in {Nothing, "OFFLINE", "IDLE", "CHARGING", "CHARGED", "FAULT", "RECOND"}
  /\ era \in 0..MaxEra /\ drew \in BOOLEAN

(* Nothing of one data mode is shown in the other: every value that is     *)
(* mirrored, and so the status word, was published in this era, whatever   *)
(* the receiver, the simulator and the owner do around the change.         *)
ShownIsOfThisMode ==
  /\ \A x \in {shown.state, shown.cur, shown.temp} : x = Unset \/ x.era = era
  /\ shown.word \notin {Nothing, "OFFLINE"} => shown.state # Unset

(* The log tells of this data mode only, in the ring and on the web.       *)
LogIsOfThisMode ==
  /\ \A i \in DOMAIN events : events[i].era = era
  /\ ~starved => \A i \in DOMAIN slot_log.e : slot_log.e[i].era = era

(* The newest event the web can fetch agrees with the status word that is  *)
(* published: a phase of its class, the loss of a signal that was there,   *)
(* or nothing of this mode yet.                                            *)
LogMatchesWord ==
  LET newest == IF slot_log.e = <<>> THEN NoLabel ELSE slot_log.e[1].label
  IN ~starved =>
       CASE shown.word = "CHARGING" -> newest \in Charging
         [] shown.word = "CHARGED"  -> newest \in Charged
         [] shown.word = "RECOND"   -> newest \in Recond
         [] shown.word = "FAULT"    -> newest \in Fault
         [] shown.word = "IDLE"     -> newest \in States \ Fault
         [] OTHER                   -> newest \in {NoLabel, "No signal", "Powered on"}

(* No published current is overlooked: once it is overwritten by a zero,   *)
(* bat_present is set, until the guard finds the terminals empty.  The     *)
(* tick only samples the sensor; it is the throttle that keeps a value     *)
(* there long enough.  The latch survives a reboot once it is in flash.    *)
LoadIsNoticed == drew /\ cur.v = "zero" => bat_present
=============================================================================
