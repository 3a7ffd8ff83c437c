--------------------------- MODULE ChargerProofs ---------------------------
(***************************************************************************)
(* Theorems about the charger's data and what is shown of it, for every    *)
(* script, every charger, and every value of the times.                    *)
(***************************************************************************)
EXTENDS Charger, TLAPS

Words == {"OFFLINE", "IDLE", "CHARGING", "CHARGED", "FAULT", "RECOND"}
Producers == {"live", "demo"}

-----------------------------------------------------------------------------
(* Ages, and the operators of the tick.                                    *)

LEMMA OlderFacts ==
  ASSUME NEW cap \in Nat, NEW age \in -1..cap
  PROVE  /\ Older(age, cap) \in -1..cap
         /\ age = -1 <=> Older(age, cap) = -1
         /\ age >= 0 => Older(age, cap) >= age
  BY DEF Older, None

LEMMA HeardFacts ==
  ASSUME last_packet \in -1..(DataClear + 1)
  PROVE  /\ Heard \in -1..(DataClear + 1)
         /\ Switched => Heard = -1
         /\ ~Switched => Heard = last_packet
  BY ChargerAssumption DEF Heard, None

LEMMA ScodeFacts ==
  ASSUME NEW s
  PROVE  Scode(s) \in 0..4
  BY DEF Scode

LEMMA WordFacts == Word \in Words
<1> DEFINE code == IF FoundEmpty THEN 1 ELSE Scode(state_raw.v) + 1
<1>1. code \in 1..5
  BY ScodeFacts
<1>2. \A i \in 1..5 : <<"IDLE", "CHARGING", "CHARGED", "FAULT", "RECOND">>[i] \in Words
  BY DEF Words
<1> HIDE DEF code
<1>3. Word = IF Offline THEN "OFFLINE"
             ELSE <<"IDLE", "CHARGING", "CHARGED", "FAULT", "RECOND">>[code]
  BY DEF Word, code
<1> QED  BY <1>1, <1>2, <1>3 DEF Words

LEMMA ZeroSinceFacts ==
  ASSUME nl_since \in -1..NoLoad
  PROVE  ZeroSince \in -1..NoLoad /\ (~ZeroLoad => ~FoundEmpty)
  BY ChargerAssumption DEF ZeroSince, FoundEmpty, None

LEMMA ReportFacts ==
  /\ \A r \in Packets : r.state \in States /\ r.cur \in {"zero", "load"}
  /\ \A i \in 1..Len(Script) : /\ Script[i].state \in States
                               /\ Script[i].cur \in {"zero", "load"}
<1>1. Packets \subseteq Reports /\ Script \in Seq(Frames)
  BY ChargerAssumption
<1>2. \A r \in Packets : r \in Reports
  BY <1>1
<1>3. \A i \in 1..Len(Script) : Script[i] \in Frames
  BY <1>1
<1> QED  BY <1>2, <1>3 DEF Reports, Frames

-----------------------------------------------------------------------------
(* Type correctness.  The era stays within its bound because a mode can    *)
(* only be left while there is an era to come.                             *)

ModeTyped ==
  /\ keys \in BOOLEAN
  /\ device_mode \in Modes \cup {"Auto"} /\ demo_active \in BOOLEAN
  /\ prev_demo \in {"first", "demo", "live"} /\ listening \in BOOLEAN
  /\ era \in 0..MaxEra
  /\ Switched => era < MaxEra

ProducerTyped ==
  /\ sim_t \in 1..Len(Script) /\ demo_due \in 0..DemoEvery
  /\ published \in [Producers -> States \cup {Nothing}]
  /\ forced \subseteq Producers /\ live_pub \in 0..Throttle

SensorTyped ==
  /\ state_raw \in Values(States \cup {Nothing})
  /\ cur \in Values({Nothing, "zero", "load"})
  /\ temp \in Values({Nothing, "real", "sentinel"})
  /\ last_packet \in -1..(DataClear + 1)

ComputeTyped ==
  /\ bat_present \in BOOLEAN /\ bat_present_nvs \in BOOLEAN /\ drew \in BOOLEAN
  /\ nl_since \in -1..NoLoad
  /\ shown.word \in Words \cup {Nothing}

Typed == ModeTyped /\ ProducerTyped /\ SensorTyped /\ ComputeTyped

LEMMA TypedImpliesType == Typed => TypeOK
  BY DEF Typed, ModeTyped, ProducerTyped, SensorTyped, ComputeTyped, TypeOK,
         Words, Producers

LEMMA UnsetFacts ==
  /\ Unset \in Values(States \cup {Nothing})
  /\ Unset \in Values({Nothing, "zero", "load"})
  /\ Unset \in Values({Nothing, "real", "sentinel"})
  /\ Unset.era = 0
<1>1. 0 \in 0..MaxEra
  BY ChargerAssumption
<1> QED  BY <1>1 DEF Unset, Values

(* What a boot sets.                                                       *)
LEMMA FreshFacts ==
  /\ 0 \in 0..MaxEra /\ 1 \in 1..Len(Script) /\ DemoEvery \in 0..DemoEvery
  /\ Throttle \in 0..Throttle /\ -1 \in -1..(DataClear + 1) /\ -1 \in -1..NoLoad
  /\ [live |-> Nothing, demo |-> Nothing] \in [Producers -> States \cup {Nothing}]
<1>1. 1 \in 1..Len(Script)
  <2>1. Script \in Seq(Frames) /\ Script # <<>>
    BY ChargerAssumption
  <2> QED  BY <2>1
<1>2. [live |-> Nothing, demo |-> Nothing] \in [Producers -> States \cup {Nothing}]
  BY DEF Producers
<1> QED  BY <1>1, <1>2, ChargerAssumption

LEMMA InitTyped == Init => Typed
<1> SUFFICES ASSUME Init PROVE Typed
  OBVIOUS
<1>1. ModeTyped
  BY FreshFacts DEF Init, ModeTyped, Switched
<1>2. ProducerTyped
  BY FreshFacts DEF Init, ProducerTyped
<1>3. SensorTyped
  BY FreshFacts, UnsetFacts DEF Init, SensorTyped, None
<1>4. ComputeTyped
  BY FreshFacts DEF Init, ComputeTyped, None, Cleared
<1> QED  BY <1>1, <1>2, <1>3, <1>4 DEF Typed

LEMMA LiveTyped ==
  ASSUME Typed, NEW r \in Packets, LivePacket(r)
  PROVE  Typed'
<1>1. r.state \in States /\ r.cur \in {"zero", "load"} /\ era \in 0..MaxEra
  BY ReportFacts DEF Typed, ModeTyped
<1>2. ModeTyped'
  BY DEF Typed, LivePacket, modeVars, ModeTyped, Switched, ModeName, Demo
<1>3. ProducerTyped'
  <2>1. live_pub' \in 0..Throttle
    BY ChargerAssumption DEF LivePacket, Typed, ProducerTyped
  <2>2. published' \in [Producers -> States \cup {Nothing}] /\ forced' \subseteq Producers
    BY <1>1 DEF LivePacket, PublishState, Typed, ProducerTyped
  <2> QED  BY <2>1, <2>2 DEF LivePacket, Typed, ProducerTyped
<1>4. SensorTyped'
  <2>1. state_raw' \in Values(States \cup {Nothing})
    BY <1>1 DEF LivePacket, PublishState, Typed, SensorTyped, Values
  <2>2. cur' \in Values({Nothing, "zero", "load"})
    BY <1>1 DEF LivePacket, PublishCurrent, Typed, SensorTyped, Values
  <2>3. temp' \in Values({Nothing, "real", "sentinel"})
    BY <1>1 DEF LivePacket, Typed, SensorTyped, Values
  <2>4. last_packet' \in -1..(DataClear + 1)
    BY ChargerAssumption DEF LivePacket
  <2> QED  BY <2>1, <2>2, <2>3, <2>4 DEF SensorTyped
<1>5. ComputeTyped'
  <2>1. drew' \in BOOLEAN
    BY DEF LivePacket, PublishCurrent, Typed, ComputeTyped
  <2> QED  BY <2>1 DEF LivePacket, computeVars, Typed, ComputeTyped
<1> QED  BY <1>2, <1>3, <1>4, <1>5 DEF Typed

LEMMA DemoTyped ==
  ASSUME Typed, DemoFrame
  PROVE  Typed'
<1>1. ModeTyped'
  BY DEF Typed, DemoFrame, modeVars, ModeTyped, Switched, ModeName, Demo
<1>2. DemoEvery \in 0..DemoEvery
  BY FreshFacts
<1>3. CASE UNCHANGED <<published, forced, sensorVars, drew>>
  <2>1. sim_t' \in 1..Len(Script)
    <3>1. sim_t \in 1..Len(Script) /\ Len(Script) \in Nat
      BY ChargerAssumption DEF Typed, ProducerTyped
    <3>2. sim_t' = sim_t \/ sim_t' = (sim_t % Len(Script)) + 1
      BY DEF DemoFrame, NextFrame
    <3> QED  BY <3>1, <3>2
  <2>2. ProducerTyped'
    BY <1>2, <1>3, <2>1 DEF DemoFrame, Typed, ProducerTyped
  <2> QED  BY <1>1, <1>3, <2>2 DEF DemoFrame, sensorVars, computeVars, Typed,
                                  SensorTyped, ComputeTyped
<1>4. CASE ~UNCHANGED <<published, forced, sensorVars, drew>>
  <2> DEFINE r == Script[sim_t]
  <2>1. /\ sim_t' = (sim_t % Len(Script)) + 1
        /\ last_packet' = 0 /\ PublishCurrent(r) /\ PublishState("demo", r)
        /\ temp' = [v |-> "real", era |-> era]
    BY <1>4 DEF DemoFrame, NextFrame
  <2>2. /\ sim_t \in 1..Len(Script) /\ Len(Script) \in Nat /\ era \in 0..MaxEra
        /\ r.state \in States /\ r.cur \in {"zero", "load"}
    BY ChargerAssumption, ReportFacts DEF Typed, ProducerTyped, ModeTyped
  <2> HIDE DEF r
  <2>3. ProducerTyped'
    <3>1. sim_t' \in 1..Len(Script)
      BY <2>1, <2>2
    <3>2. published' \in [Producers -> States \cup {Nothing}] /\ forced' \subseteq Producers
      BY <2>1, <2>2 DEF PublishState, Typed, ProducerTyped
    <3> QED  BY <1>2, <3>1, <3>2 DEF DemoFrame, Typed, ProducerTyped
  <2>4. SensorTyped'
    <3>1. state_raw' \in Values(States \cup {Nothing})
      BY <2>1, <2>2 DEF PublishState, Typed, SensorTyped, Values
    <3>2. cur' \in Values({Nothing, "zero", "load"})
      BY <2>1, <2>2 DEF PublishCurrent, Typed, SensorTyped, Values
    <3>3. temp' \in Values({Nothing, "real", "sentinel"})
      BY <2>1, <2>2 DEF Values
    <3>4. last_packet' \in -1..(DataClear + 1)
      BY <2>1, ChargerAssumption
    <3> QED  BY <3>1, <3>2, <3>3, <3>4 DEF SensorTyped
  <2>5. ComputeTyped'
    <3>1. drew' \in BOOLEAN
      BY <2>1 DEF PublishCurrent, Typed, ComputeTyped
    <3> QED  BY <3>1 DEF DemoFrame, computeVars, Typed, ComputeTyped
  <2> QED  BY <1>1, <2>3, <2>4, <2>5 DEF Typed
<1> QED  BY <1>3, <1>4

LEMMA TickTyped ==
  ASSUME Typed, Tick
  PROVE  Typed'
<1>1. ModeTyped'
  <2>1. era' \in 0..MaxEra
    BY ChargerAssumption DEF Tick, ForgetOtherMode, Typed, ModeTyped
  <2>2. ~Switched'
    BY DEF Tick, Switched, ModeName, Demo
  <2>3. demo_active' \in BOOLEAN /\ listening' \in BOOLEAN
    BY DEF Tick, Typed, ModeTyped, Demo
  <2>4. prev_demo' \in {"first", "demo", "live"}
    BY DEF Tick, ModeName
  <2> QED  BY <2>1, <2>2, <2>3, <2>4 DEF Tick, Typed, ModeTyped
<1>2. ProducerTyped'
  <2>1. demo_due' \in 0..DemoEvery
    BY ChargerAssumption DEF Tick, Typed, ProducerTyped
  <2>2. live_pub' \in 0..Throttle
    BY ChargerAssumption DEF Tick, Typed, ProducerTyped, Older, None
  <2>3. forced' \subseteq Producers
    BY DEF Tick, ForgetOtherMode, Typed, ProducerTyped, Producers
  <2> QED  BY <2>1, <2>2, <2>3 DEF Tick, Typed, ProducerTyped
<1>3. SensorTyped'
  <2>1. last_packet' \in -1..(DataClear + 1)
    BY HeardFacts, OlderFacts, ChargerAssumption DEF Tick, Typed, SensorTyped
  <2>2. temp' \in Values({Nothing, "real", "sentinel"})
    <3>1. CASE Switched
      <4>1. era + 1 \in 0..MaxEra /\ temp' = [v |-> "sentinel", era |-> era + 1]
        BY <3>1, ChargerAssumption DEF Tick, ForgetOtherMode, Typed, ModeTyped
      <4> QED  BY <4>1 DEF Values
    <3>2. CASE ~Switched
      BY <3>2 DEF Tick, Typed, SensorTyped, Values
    <3> QED  BY <3>1, <3>2
  <2>3. state_raw' \in Values(States \cup {Nothing}) /\ cur' \in Values({Nothing, "zero", "load"})
    BY DEF Tick, Typed, SensorTyped, Values
  <2> QED  BY <2>1, <2>2, <2>3 DEF SensorTyped
<1>4. ComputeTyped'
  <2>1. nl_since' \in -1..NoLoad
    BY ZeroSinceFacts, OlderFacts, ChargerAssumption DEF Tick, Typed, ComputeTyped
  <2>2. shown'.word \in Words
    BY WordFacts DEF Tick, Mirrored, Cleared
  <2>3. bat_present' \in BOOLEAN /\ drew' \in BOOLEAN
    BY DEF Tick, Typed, ComputeTyped, Latched
  <2> QED  BY <2>1, <2>2, <2>3 DEF Tick, Typed, ComputeTyped
<1> QED  BY <1>1, <1>2, <1>3, <1>4 DEF Typed

(* The owner's steps.                                                      *)
LEMMA OwnerTyped ==
  ASSUME Typed, SetKeys \/ \E m \in Modes : SetMode(m)
  PROVE  Typed'
<1>1. UNCHANGED <<demo_active, prev_demo, listening, era, producerVars, sensorVars,
                  computeVars, bat_present_nvs, drew, logVars>>
  BY DEF SetKeys, SetMode
<1>2. keys' \in BOOLEAN /\ device_mode' \in Modes \cup {"Auto"} /\ era < MaxEra
  BY DEF SetKeys, SetMode, MayChange, Typed, ModeTyped
<1>3. ModeTyped'
  BY <1>1, <1>2 DEF Typed, ModeTyped
<1>4. ProducerTyped'
  BY <1>1 DEF Typed, ProducerTyped, producerVars
<1>5. SensorTyped' /\ ComputeTyped'
  BY <1>1 DEF Typed, SensorTyped, ComputeTyped, sensorVars, computeVars, Values
<1> QED  BY <1>3, <1>4, <1>5 DEF Typed

LEMMA BootTyped ==
  ASSUME Typed, NEW saved \in BOOLEAN, Boot(saved)
  PROVE  Typed'
<1>1. ModeTyped'
  BY FreshFacts DEF Boot, Typed, ModeTyped, Switched
<1>2. ProducerTyped'
  BY FreshFacts DEF Boot, ProducerTyped
<1>3. SensorTyped'
  <2>1. /\ state_raw' = Unset /\ cur' = Unset /\ temp' = Unset /\ last_packet' = -1
    BY DEF Boot, None
  <2> QED  BY <2>1, FreshFacts, UnsetFacts DEF SensorTyped, Values
<1>4. ComputeTyped'
  <2>1. drew' \in BOOLEAN
    BY DEF Boot, Typed, ComputeTyped
  <2>2. shown'.word = Nothing /\ nl_since' = -1
    BY DEF Boot, Cleared, None
  <2> QED  BY <2>1, <2>2, FreshFacts DEF Boot, ComputeTyped
<1> QED  BY <1>1, <1>2, <1>3, <1>4 DEF Typed

LEMMA IdleTyped ==
  ASSUME Typed, Flush \/ UNCHANGED vars
  PROVE  Typed'
<1>1. UNCHANGED <<modeVars, producerVars, sensorVars, computeVars, drew>>
  BY DEF Flush, vars
<1>2. bat_present_nvs' \in BOOLEAN
  BY DEF Flush, vars, Typed, ComputeTyped
<1>3. ModeTyped'
  BY <1>1 DEF Typed, ModeTyped, modeVars, Switched, ModeName, Demo
<1>4. ProducerTyped'
  BY <1>1 DEF Typed, ProducerTyped, producerVars
<1>5. SensorTyped' /\ ComputeTyped'
  BY <1>1, <1>2 DEF Typed, SensorTyped, ComputeTyped, sensorVars, computeVars, Values
<1> QED  BY <1>3, <1>4, <1>5 DEF Typed

LEMMA TypedStep == Typed /\ [Next]_vars => Typed'
<1> SUFFICES ASSUME Typed, [Next]_vars PROVE Typed'
  OBVIOUS
<1>1. bat_present \in BOOLEAN /\ bat_present_nvs \in BOOLEAN
  BY DEF Typed, ComputeTyped
<1>2. CASE Restart \/ Crash
  BY <1>1, <1>2, BootTyped DEF Restart, Crash
<1> QED  BY <1>2, LiveTyped, DemoTyped, TickTyped, OwnerTyped, IdleTyped DEF Next

LEMMA TypedAlways == Spec => []Typed
  BY InitTyped, TypedStep, PTL DEF Spec

(* Every variable keeps its type; in particular every age stays within the *)
(* bound the code can tell it from.                                        *)
THEOREM TypeCorrect == Spec => []TypeOK
  BY TypedAlways, TypedImpliesType, PTL

-----------------------------------------------------------------------------
(* No load is overlooked.  LoadIsNoticed alone is not inductive: what      *)
(* matters is that a load which has not been noticed yet is still on the   *)
(* sensor, fresh, and that no producer may overwrite it before the tick.   *)

LoadIsStillThere ==
  drew /\ ~bat_present =>
    /\ cur.v = "load" /\ last_packet = 0
    /\ IF demo_active THEN demo_due = DemoEvery ELSE live_pub = 0

LEMMA LoadLive ==
  ASSUME Typed, LoadIsStillThere, NEW r \in Packets, LivePacket(r)
  PROVE  LoadIsStillThere'
<1>1. ~demo_active /\ ~demo_active' /\ last_packet' = 0 /\ bat_present' = bat_present
  BY DEF LivePacket, modeVars, computeVars
<1>2. PICK due \in MayPublish :
        IF due THEN PublishCurrent(r) /\ live_pub' = 0
        ELSE UNCHANGED <<cur, drew, live_pub>>
  BY DEF LivePacket
<1>3. due \in BOOLEAN
  BY DEF MayPublish
<1>4. CASE ~due
  BY <1>1, <1>2, <1>4 DEF LoadIsStillThere
<1>5. CASE due
  <2>1. live_pub # 0
    BY <1>5, ChargerAssumption DEF MayPublish
  <2>2. ~(drew /\ ~bat_present)
    BY <1>1, <2>1 DEF LoadIsStillThere
  <2>3. cur'.v = r.cur /\ drew' = (drew \/ r.cur = "load") /\ live_pub' = 0
    BY <1>2, <1>5 DEF PublishCurrent
  <2> QED  BY <1>1, <2>2, <2>3 DEF LoadIsStillThere
<1> QED  BY <1>3, <1>4, <1>5

LEMMA LoadDemo ==
  ASSUME Typed, LoadIsStillThere, DemoFrame
  PROVE  LoadIsStillThere'
<1>1. /\ UNCHANGED <<demo_active, bat_present, live_pub>>
      /\ demo_due = 0 /\ demo_due' = DemoEvery
  BY DEF DemoFrame, modeVars, computeVars
<1>2. CASE ~demo_active
  BY <1>1, <1>2 DEF DemoFrame, sensorVars, LoadIsStillThere
<1>3. CASE demo_active
  <2>1. ~(drew /\ ~bat_present)
    BY <1>1, <1>3, ChargerAssumption DEF LoadIsStillThere
  <2>2. CASE ~Script[sim_t].online
    BY <1>1, <1>3, <2>1, <2>2 DEF DemoFrame, LoadIsStillThere
  <2>3. CASE Script[sim_t].online
    <3>1. /\ cur'.v = Script[sim_t].cur /\ last_packet' = 0
          /\ drew' = (drew \/ Script[sim_t].cur = "load")
      BY <1>3, <2>3 DEF DemoFrame, PublishCurrent
    <3> QED  BY <1>1, <1>3, <2>1, <3>1 DEF LoadIsStillThere
  <2> QED  BY <2>2, <2>3
<1> QED  BY <1>2, <1>3

(* The tick leaves nothing to notice.                                      *)
LEMMA LoadTick ==
  ASSUME Typed, LoadIsStillThere, Tick
  PROVE  drew' => bat_present'
<1> SUFFICES ASSUME drew' PROVE bat_present'
  OBVIOUS
<1>1. drew /\ ~FoundEmpty /\ (Switched => Latched)
  BY DEF Tick
<1>2. bat_present' = (Latched /\ ~FoundEmpty)
  BY DEF Tick
<1>3. CASE bat_present \/ Switched
  BY <1>1, <1>2, <1>3 DEF Latched
<1>4. CASE ~bat_present /\ ~Switched
  <2>1. cur.v = "load" /\ Heard = 0
    BY <1>1, <1>4, HeardFacts DEF LoadIsStillThere, Typed, SensorTyped
  <2>2. LinkFresh
    BY <2>1, ChargerAssumption DEF LinkFresh, None
  <2> QED  BY <1>1, <1>2, <2>1, <2>2 DEF Latched
<1> QED  BY <1>3, <1>4

LEMMA LoadStep == Typed /\ LoadIsStillThere /\ [Next]_vars => LoadIsStillThere'
<1> SUFFICES ASSUME Typed, LoadIsStillThere, [Next]_vars PROVE LoadIsStillThere'
  OBVIOUS
<1>1. CASE Tick
  BY <1>1, LoadTick DEF LoadIsStillThere
<1>2. CASE SetKeys \/ Flush \/ UNCHANGED vars \/ \E m \in Modes : SetMode(m)
  <2>1. UNCHANGED <<demo_active, producerVars, sensorVars, computeVars, drew>>
    BY <1>2 DEF SetKeys, SetMode, Flush, vars, modeVars
  <2> QED  BY <2>1 DEF LoadIsStillThere, producerVars, sensorVars, computeVars
<1>3. CASE Restart \/ Crash
  <2>1. PICK saved : drew' = (drew /\ saved) /\ bat_present' = saved
    BY <1>3 DEF Restart, Crash, Boot
  <2>2. drew' => bat_present'
    BY <2>1
  <2> QED  BY <2>2 DEF LoadIsStillThere
<1> QED  BY <1>1, <1>2, <1>3, LoadLive, LoadDemo DEF Next

(* A current that was published once sets bat_present, for every charger,  *)
(* script and set of times: the throttles of the producers outlast the     *)
(* period of the tick that samples them.                                   *)
THEOREM LoadsAreNoticed == Spec => []LoadIsNoticed
<1>1. Init => LoadIsStillThere
  BY DEF Init, LoadIsStillThere
<1>2. LoadIsStillThere => LoadIsNoticed
  BY DEF LoadIsStillThere, LoadIsNoticed
<1> QED  BY <1>1, <1>2, TypedAlways, LoadStep, PTL DEF Spec

-----------------------------------------------------------------------------
(* Nothing of one mode in the other, for an owner who does not come back   *)
(* to a mode within its producer's throttle.  What is shown says nothing   *)
(* of what the sensors hold, so the invariant follows the data from the    *)
(* producers' statics on.                                                  *)

(* Before the first tick no producer has spoken.                           *)
FirstTick ==
  prev_demo = "first" =>
    /\ last_packet = -1 /\ ~listening /\ demo_due = DemoEvery
    /\ live_pub = Throttle /\ temp = Unset
    /\ \A p \in Producers : published[p] = Nothing

(* After it, the mode the producers look at is the one of the last tick.   *)
ModeIsSynced == prev_demo # "first" => (demo_active <=> prev_demo = "demo")

Active == IF demo_active THEN "demo" ELSE "live"
Spoken == state_raw.era = era /\ state_raw.v \in States

(* A producer that keeps its peace about the phase has published it in     *)
(* this era.                                                               *)
StateIsOfThisMode == Active \in forced \/ published[Active] = Nothing \/ Spoken

(* Once a packet is on record, so are its values.                          *)
DataIsOfThisMode ==
  /\ last_packet # -1 => Spoken /\ cur.era = era
  /\ temp = Unset \/ temp.era = era

(* The Live throttle is open whenever a first packet may come.             *)
ThrottleIsOpen ==
  /\ ~demo_active /\ last_packet = -1 => live_pub = Throttle
  /\ demo_active /\ Switched => live_pub = Throttle

ModeInv ==
  /\ FirstTick /\ ModeIsSynced /\ StateIsOfThisMode /\ DataIsOfThisMode
  /\ ThrottleIsOpen /\ ShownIsOfThisMode

LEMMA NothingFacts == Nothing \notin States
  BY Zenon DEF Nothing, States, Charging, Charged, Recond, Fault

(* Nothing is shown after a boot and after a switch.                       *)
LEMMA ShowsNothing ==
  ASSUME shown.state = Unset, shown.cur = Unset, shown.temp = Unset,
         shown.word \in {Nothing, "OFFLINE"}
  PROVE  ShownIsOfThisMode
  BY DEF ShownIsOfThisMode

LEMMA ModeInvInit == Init => ModeInv
<1> SUFFICES ASSUME Init PROVE ModeInv
  OBVIOUS
<1>1. \A p \in Producers : published[p] = Nothing
  BY DEF Init, Producers
<1>2. FirstTick /\ StateIsOfThisMode
  BY <1>1 DEF Init, FirstTick, None, StateIsOfThisMode, Active, Producers
<1>3. ModeIsSynced /\ DataIsOfThisMode /\ ThrottleIsOpen
  BY DEF Init, ModeIsSynced, DataIsOfThisMode, ThrottleIsOpen, None
<1>4. ShownIsOfThisMode
  BY ShowsNothing DEF Init, Cleared
<1> QED  BY <1>2, <1>3, <1>4 DEF ModeInv

LEMMA ModeLive ==
  ASSUME Typed, ModeInv, NEW r \in Packets, LivePacket(r)
  PROVE  ModeInv'
<1>1. /\ UNCHANGED <<modeVars, sim_t, demo_due, shown>>
      /\ listening /\ ~demo_active /\ Active = "live" /\ Active' = "live"
      /\ prev_demo # "first" /\ last_packet' = 0
  BY DEF LivePacket, computeVars, modeVars, Active, ModeInv, FirstTick
<1>2. r.state \in States
  BY ReportFacts
<1>3. Spoken'
  <2>1. CASE "live" \in forced \/ published["live"] # r.state
    BY <1>1, <1>2, <2>1 DEF LivePacket, PublishState, Spoken, modeVars
  <2>2. CASE "live" \notin forced /\ published["live"] = r.state
    <3>1. Spoken
      BY <1>1, <1>2, <2>2, NothingFacts DEF ModeInv, StateIsOfThisMode
    <3> QED  BY <1>1, <2>2, <3>1 DEF LivePacket, PublishState, Spoken, modeVars
  <2> QED  BY <2>1, <2>2
<1>4. cur'.era = era
  <2>1. PICK due \in MayPublish :
          IF due THEN PublishCurrent(r) /\ live_pub' = 0
          ELSE UNCHANGED <<cur, drew, live_pub>>
    BY DEF LivePacket
  <2>2. CASE due
    BY <2>1, <2>2 DEF PublishCurrent
  <2>3. CASE ~due
    <3>1. live_pub # Throttle
      BY <2>3 DEF MayPublish
    <3>2. cur.era = era
      BY <1>1, <3>1 DEF ModeInv, ThrottleIsOpen, DataIsOfThisMode
    <3> QED  BY <2>1, <2>3, <3>2
  <2> QED  BY <2>2, <2>3
<1>5. DataIsOfThisMode'
  <2>1. temp' = temp \/ temp'.era = era
    BY DEF LivePacket
  <2> QED  BY <1>1, <1>3, <1>4, <2>1 DEF ModeInv, DataIsOfThisMode, modeVars
<1>6. FirstTick' /\ ModeIsSynced' /\ StateIsOfThisMode' /\ ThrottleIsOpen'
  BY <1>1, <1>3 DEF ModeInv, FirstTick, ModeIsSynced, StateIsOfThisMode,
                    ThrottleIsOpen, modeVars
<1>7. ShownIsOfThisMode'
  BY <1>1 DEF ModeInv, ShownIsOfThisMode, modeVars
<1> QED  BY <1>5, <1>6, <1>7 DEF ModeInv

LEMMA ModeDemo ==
  ASSUME Typed, ModeInv, DemoFrame
  PROVE  ModeInv'
<1>1. /\ UNCHANGED <<modeVars, live_pub, shown>>
      /\ demo_due = 0 /\ DemoEvery # 0 /\ prev_demo # "first"
  BY ChargerAssumption DEF DemoFrame, computeVars, ModeInv, FirstTick
<1>2. /\ Active' = Active /\ (Switched' <=> Switched) /\ era' = era
      /\ demo_active' = demo_active /\ prev_demo' = prev_demo
  BY <1>1 DEF Active, Switched, ModeName, Demo, modeVars
<1>3. FirstTick' /\ ModeIsSynced' /\ ShownIsOfThisMode'
  BY <1>1, <1>2 DEF ModeInv, FirstTick, ModeIsSynced, ShownIsOfThisMode
<1>4. CASE UNCHANGED <<published, forced, sensorVars>>
  BY <1>1, <1>2, <1>3, <1>4 DEF ModeInv, StateIsOfThisMode, DataIsOfThisMode,
     ThrottleIsOpen, Spoken, sensorVars
<1>5. CASE ~UNCHANGED <<published, forced, sensorVars>>
  <2> DEFINE r == Script[sim_t]
  <2>1. /\ demo_active /\ last_packet' = 0
        /\ PublishCurrent(r) /\ PublishState("demo", r)
        /\ temp' = [v |-> "real", era |-> era]
    BY <1>5 DEF DemoFrame
  <2>2. r.state \in States /\ Active = "demo"
    BY <2>1, ReportFacts DEF Typed, ProducerTyped, Active
  <2> HIDE DEF r
  <2>3. Spoken'
    <3>1. CASE "demo" \in forced \/ published["demo"] # r.state
      BY <1>2, <2>1, <2>2, <3>1 DEF PublishState, Spoken
    <3>2. CASE "demo" \notin forced /\ published["demo"] = r.state
      <4>1. Spoken
        BY <2>2, <3>2, NothingFacts DEF ModeInv, StateIsOfThisMode
      <4> QED  BY <1>2, <2>1, <3>2, <4>1 DEF PublishState, Spoken
    <3> QED  BY <3>1, <3>2
  <2>4. cur'.era = era /\ temp'.era = era
    BY <2>1 DEF PublishCurrent
  <2> QED  BY <1>1, <1>2, <1>3, <2>1, <2>3, <2>4
              DEF ModeInv, StateIsOfThisMode, DataIsOfThisMode, ThrottleIsOpen
<1> QED  BY <1>4, <1>5

(* What a tick makes of a throttle that is open.                           *)
LEMMA StaysOpen ==
  ASSUME live_pub = Throttle, Tick
  PROVE  live_pub' = Throttle
  BY DEF Tick, Older

LEMMA TickSyncs ==
  ASSUME Tick
  PROVE  /\ prev_demo' # "first" /\ ~Switched'
         /\ demo_active' <=> prev_demo' = "demo"
  BY DEF Tick, ModeName, Switched, Demo

LEMMA ModeSwitch ==
  ASSUME Typed, ModeInv, Tick, Switched
  PROVE  ModeInv'
<1>1. /\ forced' = Producers /\ era' = era + 1
      /\ temp' = [v |-> "sentinel", era |-> era + 1]
  BY DEF Tick, ForgetOtherMode, Producers
<1>2. Heard = -1 /\ last_packet' = -1
  BY HeardFacts DEF Tick, Older, None, Typed, SensorTyped
<1>3. Active' \in Producers
  BY DEF Active, Producers
<1>4. ShownIsOfThisMode'
  <2>1. shown' = [Cleared EXCEPT !.word = "OFFLINE"]
    BY <1>2 DEF Tick, Mirrored, DataCleared, Word, Offline, None
  <2> QED  BY <2>1 DEF ShownIsOfThisMode, Cleared
<1>5. ThrottleIsOpen'
  <2>1. ~demo_active' => live_pub = Throttle
    <3> SUFFICES ASSUME ~demo_active' PROVE live_pub = Throttle
      OBVIOUS
    <3>1. ~Demo /\ prev_demo \notin {"first", "live"}
      BY DEF Tick, Switched, ModeName
    <3>2. demo_active
      BY <3>1 DEF Typed, ModeTyped, ModeInv, ModeIsSynced
    <3> QED  BY <3>2 DEF ModeInv, ThrottleIsOpen
  <2> QED  BY <2>1, StaysOpen, TickSyncs DEF ThrottleIsOpen
<1>6. FirstTick' /\ ModeIsSynced'
  BY TickSyncs DEF FirstTick, ModeIsSynced
<1>7. StateIsOfThisMode' /\ DataIsOfThisMode'
  BY <1>1, <1>2, <1>3 DEF StateIsOfThisMode, DataIsOfThisMode
<1> QED  BY <1>4, <1>5, <1>6, <1>7 DEF ModeInv

LEMMA ModeTick ==
  ASSUME Typed, ModeInv, Tick, ~Switched
  PROVE  ModeInv'
<1>1. UNCHANGED <<forced, era, temp, published, state_raw, cur>>
  BY DEF Tick
<1>2. Heard = last_packet /\ (last_packet' = -1 <=> last_packet = -1)
  <2>1. Heard = last_packet /\ last_packet \in -1..(DataClear + 1)
    BY HeardFacts DEF Typed, SensorTyped
  <2>2. last_packet' = Older(last_packet, DataClear + 1) /\ DataClear + 1 \in Nat
    BY <2>1, ChargerAssumption DEF Tick
  <2> QED  BY <2>1, <2>2, OlderFacts
<1>3. DataIsOfThisMode'
  BY <1>1, <1>2 DEF ModeInv, DataIsOfThisMode, Spoken
<1>4. prev_demo # "first" => demo_active' = demo_active
  BY DEF Tick, Switched, ModeName, Demo, ModeInv, ModeIsSynced, Typed, ModeTyped
<1>5. StateIsOfThisMode'
  <2>1. CASE prev_demo = "first"
    <3>1. Active' \in Producers
      BY DEF Active, Producers
    <3> QED  BY <1>1, <2>1, <3>1 DEF ModeInv, FirstTick, StateIsOfThisMode
  <2>2. CASE prev_demo # "first"
    <3>1. Active' = Active
      BY <1>4, <2>2 DEF Active
    <3> QED  BY <1>1, <3>1 DEF ModeInv, StateIsOfThisMode, Spoken
  <2> QED  BY <2>1, <2>2
<1>6. ThrottleIsOpen'
  <2>1. ~demo_active' /\ last_packet' = -1 => live_pub = Throttle
    BY <1>2, <1>4 DEF ModeInv, FirstTick, ThrottleIsOpen
  <2> QED  BY <2>1, StaysOpen, TickSyncs DEF ThrottleIsOpen
<1>7. ShownIsOfThisMode'
  <2>1. CASE DataCleared
    <3>1. Offline
      BY <1>2, <2>1, ChargerAssumption
         DEF DataCleared, Offline, None, Typed, SensorTyped
    <3>2. shown' = [Cleared EXCEPT !.word = "OFFLINE"]
      BY <2>1, <3>1 DEF Tick, Mirrored, Word
    <3> QED  BY <3>2 DEF ShownIsOfThisMode, Cleared
  <2>2. CASE ~DataCleared
    <3>1. last_packet # -1
      BY <1>2, <2>2 DEF DataCleared, None
    <3>2. Spoken /\ cur.era = era /\ (temp = Unset \/ temp.era = era)
      BY <3>1 DEF ModeInv, DataIsOfThisMode
    <3>3. state_raw # Unset
      BY <3>2, NothingFacts DEF Spoken, Unset
    <3>4. shown' = [word |-> Word, state |-> state_raw, cur |-> cur, temp |-> temp]
      BY <2>2 DEF Tick, Mirrored
    <3>5. shown'.state = state_raw /\ shown'.cur = cur /\ shown'.temp = temp
      BY <3>4
    <3> QED  BY <1>1, <3>2, <3>3, <3>5 DEF ShownIsOfThisMode, Spoken
  <2> QED  BY <2>1, <2>2
<1>8. FirstTick' /\ ModeIsSynced'
  BY TickSyncs DEF FirstTick, ModeIsSynced
<1> QED  BY <1>3, <1>5, <1>6, <1>7, <1>8 DEF ModeInv

(* The one place that needs a slow owner.                                  *)
LEMMA ModeOwner ==
  ASSUME Typed, ModeInv, "quick" \notin Faults,
         SetKeys \/ \E m \in Modes : SetMode(m)
  PROVE  ModeInv'
<1>1. UNCHANGED <<demo_active, prev_demo, listening, era, producerVars, sensorVars,
                  shown>>
  BY DEF SetKeys, SetMode, computeVars
<1>2. demo_active => live_pub = Throttle
  BY DEF SetKeys, SetMode, MayChange
<1>3. ThrottleIsOpen'
  BY <1>1, <1>2 DEF ModeInv, ThrottleIsOpen, producerVars, sensorVars
<1>4. FirstTick' /\ ModeIsSynced' /\ ShownIsOfThisMode'
  BY <1>1 DEF ModeInv, FirstTick, ModeIsSynced, ShownIsOfThisMode, producerVars,
              sensorVars
<1>5. StateIsOfThisMode' /\ DataIsOfThisMode'
  BY <1>1 DEF ModeInv, StateIsOfThisMode, DataIsOfThisMode, Active, Spoken,
              producerVars, sensorVars
<1> QED  BY <1>3, <1>4, <1>5 DEF ModeInv

LEMMA ModeBoot ==
  ASSUME NEW saved, Boot(saved)
  PROVE  ModeInv'
<1>1. \A p \in Producers : published'[p] = Nothing
  BY DEF Boot, Producers
<1>2. FirstTick'
  BY <1>1 DEF Boot, FirstTick, None
<1>3. StateIsOfThisMode'
  <2>1. Active' \in Producers
    BY DEF Active, Producers
  <2> QED  BY <1>1, <2>1 DEF StateIsOfThisMode
<1>4. ModeIsSynced' /\ DataIsOfThisMode' /\ ThrottleIsOpen'
  BY DEF Boot, ModeIsSynced, DataIsOfThisMode, ThrottleIsOpen, None
<1>5. ShownIsOfThisMode'
  BY DEF Boot, Cleared, ShownIsOfThisMode
<1> QED  BY <1>2, <1>3, <1>4, <1>5 DEF ModeInv

LEMMA ModeIdle ==
  ASSUME ModeInv, Flush \/ UNCHANGED vars
  PROVE  ModeInv'
<1>1. UNCHANGED <<modeVars, producerVars, sensorVars, shown>>
  BY DEF Flush, vars, computeVars
<1> QED  BY <1>1 DEF ModeInv, FirstTick, ModeIsSynced, StateIsOfThisMode,
            DataIsOfThisMode, ThrottleIsOpen, ShownIsOfThisMode, Active, Spoken,
            Switched, ModeName, Demo, modeVars, producerVars, sensorVars

LEMMA ModeInvAlways ==
  ASSUME "quick" \notin Faults
  PROVE  Spec => []ModeInv
<1>1. Typed /\ ModeInv /\ [Next]_vars => ModeInv'
  BY ModeLive, ModeDemo, ModeSwitch, ModeTick, ModeOwner, ModeBoot, ModeIdle
     DEF Next, Restart, Crash
<1> QED  BY <1>1, ModeInvInit, TypedAlways, PTL DEF Spec

(* The status word and the values that the web and Home Assistant read     *)
(* come from the data mode that is on, for every charger and script: a     *)
(* switch forgets enough, and what it keeps is overwritten first.          *)
THEOREM ModesDoNotMix ==
  ASSUME "quick" \notin Faults
  PROVE  Spec => []ShownIsOfThisMode
<1>1. ModeInv => ShownIsOfThisMode
  BY DEF ModeInv
<1> QED  BY <1>1, ModeInvAlways, PTL

-----------------------------------------------------------------------------
(* The log.                                                                *)

LogEvents == [label : States \cup {Nothing, NoLabel, "Powered on", "No signal"},
              era : 0..MaxEra]

(* The ring is of this era, and a slot that is not behind is made of it.   *)
LogIsSynced ==
  /\ events \in Seq(LogEvents)
  /\ \A i \in 1..Len(events) : events[i].era = era
  /\ ~starved => slot_log.e = Reverse(events)

LEMMA ReverseFacts ==
  ASSUME NEW s \in Seq(LogEvents)
  PROVE  /\ DOMAIN Reverse(s) = 1..Len(s)
         /\ \A i \in 1..Len(s) : \E j \in 1..Len(s) : Reverse(s)[i] = s[j]
<1>1. \A i \in 1..Len(s) : Len(s) - i + 1 \in 1..Len(s)
  OBVIOUS
<1> QED  BY <1>1 DEF Reverse

LEMMA LogIsSyncedImplies == LogIsSynced => LogIsOfThisMode
<1> SUFFICES ASSUME LogIsSynced PROVE LogIsOfThisMode
  OBVIOUS
<1>1. \A i \in DOMAIN events : events[i].era = era
  BY DEF LogIsSynced
<1>2. ASSUME ~starved, NEW i \in DOMAIN slot_log.e
      PROVE  slot_log.e[i].era = era
  <2>1. slot_log.e = Reverse(events) /\ i \in 1..Len(events)
    BY <1>2, ReverseFacts DEF LogIsSynced
  <2>2. PICK j \in 1..Len(events) : Reverse(events)[i] = events[j]
    BY <2>1, ReverseFacts DEF LogIsSynced
  <2> QED  BY <2>1, <2>2 DEF LogIsSynced
<1> QED  BY <1>1, <1>2 DEF LogIsOfThisMode

(* A slot is made of the ring or it is behind.                             *)
LEMMA RebuildFacts ==
  ASSUME Rebuild
  PROVE  ~starved' => slot_log'.e = Reverse(events')
<1>1. PICK low : /\ starved' = low
                 /\ slot_log' = IF low THEN slot_log ELSE to_json(events', total_count')
  BY DEF Rebuild
<1>2. ~low => slot_log' = to_json(events', total_count')
  BY <1>1
<1> QED  BY <1>1, <1>2 DEF to_json

LEMMA PushedFacts ==
  ASSUME NEW ring \in Seq(LogEvents), NEW event \in LogEvents, NEW e,
         event.era = e, \A i \in 1..Len(ring) : ring[i].era = e
  PROVE  /\ Pushed(ring, event) \in Seq(LogEvents)
         /\ \A i \in 1..Len(Pushed(ring, event)) : Pushed(ring, event)[i].era = e
<1>1. CASE Len(ring) < CAP
  BY <1>1 DEF Pushed
<1>2. CASE ~(Len(ring) < CAP)
  <2>1. Len(ring) > 0
    BY <1>2, LogAssumption
  <2>2. /\ Tail(ring) \in Seq(LogEvents)
        /\ \A i \in 1..Len(Tail(ring)) : Tail(ring)[i].era = e
    BY <2>1
  <2>3. Pushed(ring, event) = Append(Tail(ring), event)
    BY <1>2 DEF Pushed
  <2> QED  BY <2>2, <2>3
<1> QED  BY <1>1, <1>2

LEMMA BaselineFacts ==
  ASSUME NEW e \in 0..MaxEra
  PROVE  /\ <<Baseline(e)>> \in Seq(LogEvents) /\ Len(<<Baseline(e)>>) = 1
         /\ <<Baseline(e)>>[1].era = e
<1>1. Baseline(e) \in LogEvents /\ Baseline(e).era = e
  BY DEF Baseline, LogEvents
<1> HIDE DEF Baseline
<1> QED  BY <1>1

LEMMA LogInit == Init => LogIsSynced
<1> SUFFICES ASSUME Init PROVE LogIsSynced
  OBVIOUS
<1>1. events = <<Baseline(0)>> /\ era = 0
  BY DEF Init, PowerOn
<1>2. ~starved => slot_log.e = Reverse(events)
  BY DEF Init, PowerOn, to_json
<1> QED  BY <1>1, <1>2, FreshFacts, BaselineFacts DEF LogIsSynced

LEMMA LogBoot ==
  ASSUME NEW saved, Boot(saved)
  PROVE  LogIsSynced'
<1>1. events' = <<Baseline(0)>> /\ era' = 0
  BY DEF Boot, Reboot
<1>2. ~starved' => slot_log'.e = Reverse(events')
  BY DEF Boot, Reboot, to_json
<1> QED  BY <1>1, <1>2, FreshFacts, BaselineFacts DEF LogIsSynced

(* What a tick logs carries the era, because a fresh packet does.          *)
LEMMA LogTick ==
  ASSUME Typed, ModeInv, LogIsSynced, Tick
  PROVE  LogIsSynced'
<1>1. CASE Switched
  <2>1. events' = <<>> /\ Rebuild
    BY <1>1 DEF Tick, ForgetOtherMode, Reset
  <2>2. ~starved' => slot_log'.e = Reverse(events')
    BY <2>1, RebuildFacts
  <2> QED  BY <2>1, <2>2 DEF LogIsSynced
<1>2. CASE ~Switched
  <2>1. Logged /\ era' = era
    BY <1>2 DEF Tick
  <2>2. PICK label \in States \cup {Nothing, NoLabel, "No signal"} : Note(label, era)
    <3>1. CASE ~Offline
      <4>1. last_packet # -1
        BY <1>2, <3>1, HeardFacts DEF Offline, None, Typed, SensorTyped
      <4>2. state_raw.era = era /\ state_raw.v \in States
        BY <4>1 DEF ModeInv, DataIsOfThisMode, Spoken
      <4> QED  BY <2>1, <3>1, <4>2 DEF Logged
    <3>2. CASE Offline
      BY <2>1, <3>2 DEF Logged
    <3> QED  BY <3>1, <3>2
  <2>3. CASE label \in {NoLabel, last_label}
    BY <2>1, <2>2, <2>3 DEF Note, logVars, LogIsSynced
  <2>4. CASE label \notin {NoLabel, last_label}
    <3> DEFINE event == [label |-> label, era |-> era]
    <3>1. events' = Pushed(events, event) /\ Rebuild
      BY <2>2, <2>4 DEF Note
    <3>2. event \in LogEvents /\ event.era = era
      BY DEF LogEvents, Typed, ModeTyped
    <3> HIDE DEF event
    <3>3. /\ events' \in Seq(LogEvents)
          /\ \A i \in 1..Len(events') : events'[i].era = era
      BY <3>1, <3>2, PushedFacts DEF LogIsSynced
    <3>4. ~starved' => slot_log'.e = Reverse(events')
      BY <3>1, RebuildFacts
    <3> QED  BY <2>1, <3>3, <3>4 DEF LogIsSynced
  <2> QED  BY <2>3, <2>4
<1> QED  BY <1>1, <1>2

LEMMA LogStep == Typed /\ ModeInv /\ LogIsSynced /\ [Next]_vars => LogIsSynced'
<1> SUFFICES ASSUME Typed, ModeInv, LogIsSynced, [Next]_vars PROVE LogIsSynced'
  OBVIOUS
<1>1. CASE Tick
  BY <1>1, LogTick
<1>2. CASE Restart \/ Crash
  BY <1>2, LogBoot DEF Restart, Crash
<1>3. CASE \/ \E r \in Packets : LivePacket(r)
          \/ DemoFrame \/ SetKeys \/ Flush \/ UNCHANGED vars
          \/ \E m \in Modes : SetMode(m)
  <2>1. UNCHANGED <<era, logVars>>
    BY <1>3 DEF LivePacket, DemoFrame, SetKeys, SetMode, Flush, vars, modeVars
  <2> QED  BY <2>1 DEF LogIsSynced, logVars
<1> QED  BY <1>1, <1>2, <1>3 DEF Next

(* The log tells of the data mode that is on, in the ring and on the web,  *)
(* for every size of the ring and however many events and switches.        *)
THEOREM LogsDoNotMix ==
  ASSUME "quick" \notin Faults
  PROVE  Spec => []LogIsOfThisMode
  BY LogInit, LogStep, LogIsSyncedImplies, TypedAlways, ModeInvAlways, PTL DEF Spec

-----------------------------------------------------------------------------
(* The log and the status word.  The page reads the slot, the word is made *)
(* from the sensors: what ties them together is the dedup label, which is  *)
(* always that of the newest event.                                        *)

Matches(word, label) ==
  CASE word = "CHARGING" -> label \in Charging
    [] word = "CHARGED"  -> label \in Charged
    [] word = "RECOND"   -> label \in Recond
    [] word = "FAULT"    -> label \in Fault
    [] word = "IDLE"     -> label \in States \ Fault
    [] OTHER             -> label \in {NoLabel, "No signal", "Powered on"}

LabelIsNewest ==
  IF events = <<>> THEN last_label = NoLabel
  ELSE events[Len(events)].label = last_label

WordInv ==
  /\ LabelIsNewest
  /\ last_packet = -1 => last_label \in {NoLabel, "Powered on"}
  /\ Matches(shown.word, last_label)

(* The word of a fresh tick is that of the class of the phase, or IDLE     *)
(* where the guard steps in, which it never does in a fault.               *)
LEMMA WordMeans ==
  ASSUME ~Offline, nl_since \in -1..NoLoad, state_raw.v \in States
  PROVE  Matches(Word, state_raw.v)
<1> DEFINE v == state_raw.v
           words == <<"IDLE", "CHARGING", "CHARGED", "FAULT", "RECOND">>
<1>1. /\ words[1] = "IDLE" /\ words[2] = "CHARGING" /\ words[3] = "CHARGED"
      /\ words[4] = "FAULT" /\ words[5] = "RECOND"
  OBVIOUS
<1>2. Word = words[IF FoundEmpty THEN 1 ELSE Scode(v) + 1]
  BY DEF Word
<1>3. FoundEmpty => Scode(v) \in {1, 2, 4}
  BY ZeroSinceFacts DEF ZeroLoad, Guardable
<1> HIDE DEF words
<1>4. CASE v \in Recond
  <2>1. v = "Equalize"
    BY <1>4 DEF Recond
  <2>2. Scode(v) = 4
    BY <2>1 DEF Scode, Recond, Charging, Charged, Fault
  <2>3. Word = "RECOND" \/ Word = "IDLE"
    BY <1>1, <1>2, <2>2
  <2> QED  BY <2>1, <2>3 DEF Matches, Recond, Fault
<1>5. CASE v \in Charging
  <2>1. v \in {"Bulk", "Absorption"}
    BY <1>5 DEF Charging
  <2>2. Scode(v) = 1
    BY <2>1 DEF Scode, Recond, Charging, Charged, Fault
  <2>3. Word = "CHARGING" \/ Word = "IDLE"
    BY <1>1, <1>2, <2>2
  <2> QED  BY <2>1, <2>3 DEF Matches, Charging, Fault
<1>6. CASE v \in Charged
  <2>1. v \in {"Float", "Storage"}
    BY <1>6 DEF Charged
  <2>2. Scode(v) = 2
    BY <2>1 DEF Scode, Recond, Charging, Charged, Fault
  <2>3. Word = "CHARGED" \/ Word = "IDLE"
    BY <1>1, <1>2, <2>2
  <2> QED  BY <2>1, <2>3 DEF Matches, Charged, Fault
<1>7. CASE v \in Fault
  <2>1. v = "Fault"
    BY <1>7 DEF Fault
  <2>2. Scode(v) = 3
    BY <2>1 DEF Scode, Recond, Charging, Charged, Fault
  <2>3. Word = "FAULT"
    BY <1>1, <1>2, <1>3, <2>2
  <2> QED  BY <1>7, <2>3 DEF Matches
<1>8. CASE v \notin Recond \cup Charging \cup Charged \cup Fault
  <2>1. Scode(v) = 0
    BY <1>8 DEF Scode
  <2>2. Word = "IDLE"
    BY <1>1, <1>2, <1>3, <2>1
  <2> QED  BY <1>8, <2>2 DEF Matches
<1> QED  BY <1>4, <1>5, <1>6, <1>7, <1>8

LEMMA OfflineMeans ==
  ASSUME NEW word \in {Nothing, "OFFLINE"}, NEW label \in {NoLabel, "No signal", "Powered on"}
  PROVE  Matches(word, label)
  BY DEF Matches, Nothing

(* After an event the ring ends with it.                                   *)
LEMMA PushedEnds ==
  ASSUME NEW ring \in Seq(LogEvents), NEW event \in LogEvents
  PROVE  LET new == Pushed(ring, event)
         IN new # <<>> /\ new[Len(new)] = event
<1>1. CASE Len(ring) < CAP
  BY <1>1 DEF Pushed
<1>2. CASE ~(Len(ring) < CAP)
  <2>1. Tail(ring) \in Seq(LogEvents)
    <3>1. Len(ring) > 0
      BY <1>2, LogAssumption
    <3> QED  BY <3>1
  <2>2. Pushed(ring, event) = Append(Tail(ring), event)
    BY <1>2 DEF Pushed
  <2> QED  BY <2>1, <2>2
<1> QED  BY <1>1, <1>2

LEMMA NoteFacts ==
  ASSUME Typed, LogIsSynced, LabelIsNewest,
         NEW label \in States \cup {Nothing, NoLabel, "No signal"}, Note(label, era)
  PROVE  /\ LabelIsNewest'
         /\ last_label' = IF label = NoLabel THEN last_label ELSE label
<1>1. CASE label \in {NoLabel, last_label}
  BY <1>1 DEF Note, logVars, LabelIsNewest
<1>2. CASE label \notin {NoLabel, last_label}
  <2> DEFINE event == [label |-> label, era |-> era]
  <2>1. events' = Pushed(events, event) /\ last_label' = label
    BY <1>2 DEF Note
  <2>2. event \in LogEvents /\ event.label = label
    BY DEF LogEvents, Typed, ModeTyped
  <2> HIDE DEF event
  <2>3. events' # <<>> /\ events'[Len(events')] = event
    BY <2>1, <2>2, PushedEnds DEF LogIsSynced
  <2> QED  BY <1>2, <2>1, <2>2, <2>3 DEF LabelIsNewest
<1> QED  BY <1>1, <1>2

LEMMA WordTick ==
  ASSUME Typed, ModeInv, LogIsSynced, WordInv, Tick
  PROVE  WordInv'
<1>1. CASE Switched
  <2>1. events' = <<>> /\ last_label' = NoLabel
    BY <1>1 DEF Tick, ForgetOtherMode, Reset
  <2>2. Heard = -1
    BY <1>1, HeardFacts DEF Typed, SensorTyped
  <2>3. shown'.word = "OFFLINE"
    BY <2>2 DEF Tick, Mirrored, DataCleared, Word, Offline, None, Cleared
  <2> QED  BY <2>1, <2>3, OfflineMeans DEF WordInv, LabelIsNewest
<1>2. CASE ~Switched
  <2>1. Logged /\ Heard = last_packet /\ shown'.word = Word
    BY <1>2, HeardFacts DEF Tick, Mirrored, Cleared, Typed, SensorTyped
  <2>2. last_packet' = -1 <=> last_packet = -1
    <3>1. /\ last_packet \in -1..(DataClear + 1) /\ DataClear + 1 \in Nat
          /\ last_packet' = Older(last_packet, DataClear + 1)
      BY <2>1, ChargerAssumption DEF Tick, Typed, SensorTyped
    <3> QED  BY <3>1, OlderFacts
  <2>3. CASE ~Offline
    <3>1. last_packet # -1
      BY <2>1, <2>3 DEF Offline, None
    <3>2. /\ state_raw.era = era /\ state_raw.v \in States
          /\ Note(state_raw.v, era)
      BY <2>1, <2>3, <3>1 DEF ModeInv, DataIsOfThisMode, Spoken, Logged
    <3>3. state_raw.v # NoLabel
      BY <3>2, NothingFacts DEF NoLabel, Nothing
    <3>4. LabelIsNewest' /\ last_label' = state_raw.v
      BY <3>2, <3>3, NoteFacts DEF WordInv
    <3>5. Matches(shown'.word, last_label')
      BY <2>1, <2>3, <3>2, <3>4, WordMeans DEF Typed, ComputeTyped
    <3> QED  BY <2>2, <3>1, <3>4, <3>5 DEF WordInv
  <2>4. CASE Offline
    <3>1. shown'.word = "OFFLINE"
      BY <2>1, <2>4 DEF Word
    <3>2. CASE last_packet = -1
      <4>1. LabelIsNewest' /\ last_label' = last_label
        BY <2>1, <2>4, <3>2, NoteFacts DEF Logged, None, WordInv
      <4> QED  BY <2>2, <3>1, <3>2, <4>1, OfflineMeans DEF WordInv
    <3>3. CASE last_packet # -1
      <4>1. "No signal" # NoLabel
        BY DEF NoLabel
      <4>2. LabelIsNewest' /\ last_label' = "No signal"
        BY <2>1, <2>4, <3>3, <4>1, NoteFacts DEF Logged, None, WordInv
      <4> QED  BY <2>2, <3>1, <3>3, <4>2, OfflineMeans DEF WordInv
    <3> QED  BY <3>2, <3>3
  <2> QED  BY <2>3, <2>4
<1> QED  BY <1>1, <1>2

LEMMA BootWord ==
  ASSUME NEW e \in 0..MaxEra
  PROVE  /\ <<Baseline(e)>> # <<>>
         /\ <<Baseline(e)>>[Len(<<Baseline(e)>>)].label = "Powered on"
  BY DEF Baseline

LEMMA WordInvStep ==
  Typed /\ ModeInv /\ LogIsSynced /\ WordInv /\ [Next]_vars => WordInv'
<1> SUFFICES ASSUME Typed, ModeInv, LogIsSynced, WordInv, [Next]_vars PROVE WordInv'
  OBVIOUS
<1>1. CASE Tick
  BY <1>1, WordTick
<1>2. CASE Restart \/ Crash
  <2>1. /\ events' = <<Baseline(0)>> /\ last_label' = "Powered on"
        /\ shown' = Cleared
    BY <1>2 DEF Restart, Crash, Boot, Reboot
  <2>2. LabelIsNewest'
    BY <2>1, BootWord, FreshFacts DEF LabelIsNewest
  <2> QED  BY <2>1, <2>2, OfflineMeans DEF WordInv, Cleared
<1>3. CASE \/ \E r \in Packets : LivePacket(r)
          \/ DemoFrame \/ SetKeys \/ Flush \/ UNCHANGED vars
          \/ \E m \in Modes : SetMode(m)
  <2>1. UNCHANGED <<shown, logVars>>
    BY <1>3 DEF LivePacket, DemoFrame, SetKeys, SetMode, Flush, vars, computeVars
  <2>2. last_packet' = last_packet \/ last_packet' = 0
    BY <1>3 DEF LivePacket, DemoFrame, SetKeys, SetMode, Flush, vars, sensorVars
  <2>3. LabelIsNewest' /\ last_label' = last_label /\ shown' = shown
    BY <2>1 DEF WordInv, LabelIsNewest, logVars
  <2>4. last_packet' = -1 => last_packet = -1
    BY <2>2
  <2>5. Matches(shown'.word, last_label')
    BY <2>3 DEF WordInv
  <2> QED  BY <2>3, <2>4, <2>5 DEF WordInv
<1> QED  BY <1>1, <1>2, <1>3 DEF Next

LEMMA WordInvImplies == LogIsSynced /\ WordInv => LogMatchesWord
<1> SUFFICES ASSUME LogIsSynced, WordInv, ~starved PROVE LogMatchesWord
  BY DEF LogMatchesWord
<1> DEFINE newest == IF slot_log.e = <<>> THEN NoLabel ELSE slot_log.e[1].label
<1>1. slot_log.e = Reverse(events) /\ events \in Seq(LogEvents)
  BY DEF LogIsSynced
<1>2. CASE events = <<>>
  <2>1. slot_log.e = <<>>
    BY <1>1, <1>2 DEF Reverse
  <2> QED  BY <1>2, <2>1 DEF WordInv, LabelIsNewest, LogMatchesWord, Matches
<1>3. CASE events # <<>>
  <2>1. Len(events) >= 1
    BY <1>1, <1>3
  <2>2. slot_log.e # <<>> /\ slot_log.e[1] = events[Len(events)]
    BY <1>1, <2>1 DEF Reverse
  <2> QED  BY <1>3, <2>2 DEF WordInv, LabelIsNewest, LogMatchesWord, Matches
<1> QED  BY <1>2, <1>3

(* The newest event the web can fetch is of the class of the status word:  *)
(* the two are published from different state and by different paths.      *)
THEOREM LogAgreesWithWord ==
  ASSUME "quick" \notin Faults
  PROVE  Spec => []LogMatchesWord
<1>1. Init => WordInv
  <2> SUFFICES ASSUME Init PROVE WordInv
    OBVIOUS
  <2>1. /\ events = <<Baseline(0)>> /\ last_label = "Powered on"
        /\ shown.word = Nothing
    BY DEF Init, PowerOn, Cleared
  <2>2. LabelIsNewest
    BY <2>1, BootWord, FreshFacts DEF LabelIsNewest
  <2> QED  BY <2>1, <2>2, OfflineMeans DEF WordInv
<1> QED  BY <1>1, WordInvStep, WordInvImplies, LogInit, LogStep, TypedAlways,
            ModeInvAlways, PTL DEF Spec
=============================================================================
