--------------------------- MODULE NetwatchProofs ---------------------------
(***************************************************************************)
(* Theorems about the watchdog, for every value of the constants.          *)
(***************************************************************************)
EXTENDS Netwatch, TLAPS

-----------------------------------------------------------------------------
(* Ages.                                                                    *)

(* An age stays within its cap and grows by at most one.                    *)
LEMMA LaterFacts ==
  ASSUME NEW cap \in Nat, NEW age \in Never..cap
  PROVE  /\ Later(age, cap) \in Never..cap
         /\ Later(age, cap) <= age + 1 /\ age <= Later(age, cap)
         /\ (Later(age, cap) = Never) <=> (age = Never)
  BY DEF Later, Never

(* The cap does not change the order of two ages.                           *)
LEMMA LaterMonotone ==
  ASSUME NEW cap \in Nat, NEW a \in 0..cap, NEW b \in 0..cap, a <= b
  PROVE  Later(a, cap) <= Later(b, cap) /\ Later(a, cap) \in 0..cap
  BY DEF Later, Never

(* A fold takes the newer stamp, and no stamp only when neither is set.     *)
LEMMA FreshestFacts ==
  ASSUME NEW cap \in Nat, NEW a \in Never..cap, NEW b \in Never..cap
  PROVE  /\ Freshest(a, b) \in Never..cap
         /\ a # Never => Freshest(a, b) \in 0..a
         /\ b # Never => Freshest(a, b) \in 0..b
  BY DEF Freshest, Never

LEMMA ClockedType ==
  ASSUME NEW cap \in Nat, NEW age \in Never..cap, NEW cond
  PROVE  Clocked(cond, age, cap) \in Never..cap
  BY LaterFacts DEF Clocked, Never

(* The folded network stamp is one unit older than the newest source.       *)
LEMMA NetOkFacts ==
  ASSUME VarTypes
  PROVE  /\ NetOkNow \in Never..Stale
         /\ net_ok # Never => NetOkNow \in 0..(net_ok + 1)
         /\ probe_ok # Never => NetOkNow \in 0..(probe_ok + 1)
<1> DEFINE api == Freshest(net_ok, api_traffic)
           all == Freshest(api, probe_ok)
<1>1. Stale \in Nat
  BY TimeAssumption
<1>2. api \in Never..Stale /\ (net_ok # Never => api \in 0..net_ok)
  BY <1>1, FreshestFacts DEF VarTypes
<1>3. /\ all \in Never..Stale
      /\ api # Never => all \in 0..api
      /\ probe_ok # Never => all \in 0..probe_ok
  <2> HIDE DEF api
  <2> QED  BY <1>1, <1>2, FreshestFacts DEF VarTypes
<1>4. net_ok # Never => all \in 0..net_ok
  <2> HIDE DEF api, all
  <2> QED  BY <1>2, <1>3 DEF VarTypes, Never
<1>5. NetOkNow = Later(all, Stale)
  BY DEF NetOkNow
<1> HIDE DEF all
<1> QED  BY <1>1, <1>3, <1>4, <1>5 DEF VarTypes, Never, Later

-----------------------------------------------------------------------------
(* Type correctness.                                                        *)

LEMMA RamAfterResetType ==
  ASSUME NEW who \in Origins, RamAfterReset(who)
  PROVE  /\ origin' \in Origins
         /\ booted' \in BOOLEAN /\ netwatch_disabled' \in BOOLEAN
         /\ up' \in 0..(Window + 1)
         /\ net_ok' \in Never..Stale /\ probe_ok' \in Never..Stale
         /\ api_traffic' \in Never..Stale
         /\ low_since' \in Never..Hold /\ blk8_low_since' \in Never..Blk8Hold
         /\ since_probe' \in 0..ProbeEvery
         /\ probe_posted' \in BOOLEAN /\ ota' \in {"none", "native", "web"}
         /\ wifi' \in BOOLEAN /\ wedged' \in BOOLEAN /\ blk8_low' \in BOOLEAN
         /\ heap' \in HeapLevels
         /\ healthy' \in 0..ProbeEvery /\ crater_run' \in Never..Blk8Hold
<1>1. /\ origin' \in Origins /\ heap' \in HeapLevels
      /\ booted' \in BOOLEAN /\ netwatch_disabled' \in BOOLEAN
      /\ probe_posted' \in BOOLEAN /\ ota' \in {"none", "native", "web"}
      /\ wifi' \in BOOLEAN /\ wedged' \in BOOLEAN /\ blk8_low' \in BOOLEAN
  BY DEF RamAfterReset
<1>2. /\ up' = 0 /\ since_probe' = 0 /\ healthy' = 0 /\ net_ok' = Never
      /\ probe_ok' = Never /\ api_traffic' = Never /\ low_since' = Never
      /\ blk8_low_since' = Never /\ crater_run' = Never
  BY DEF RamAfterReset
<1>3. /\ 0 \in 0..(Window + 1) /\ 0 \in 0..ProbeEvery
      /\ Never \in Never..Stale /\ Never \in Never..Hold
      /\ Never \in Never..Blk8Hold
  BY TimeAssumption DEF Never
<1> QED  BY <1>1, <1>2, <1>3

LEMMA TimePassesType ==
  ASSUME VarTypes, TimePasses
  PROVE  /\ up' \in 0..(Window + 1)
         /\ probe_ok' \in Never..Stale /\ api_traffic' \in Never..Stale
         /\ ota' \in {"none", "native", "web"}
         /\ wifi' \in BOOLEAN /\ wedged' \in BOOLEAN /\ blk8_low' \in BOOLEAN
         /\ heap' \in HeapLevels
  BY TimeAssumption DEF VarTypes, TimePasses, Now, Later, envVars, Never

LEMMA ObserveTickType ==
  ASSUME VarTypes, ObserveTick
  PROVE  /\ healthy' \in 0..ProbeEvery
         /\ crater_run' \in Never..Blk8Hold
<1>1. healthy' \in 0..ProbeEvery
  BY TimeAssumption DEF VarTypes, ObserveTick
<1>2. crater_run' \in Never..Blk8Hold
  BY TimeAssumption, ClockedType DEF VarTypes, ObserveTick
<1> QED  BY <1>1, <1>2

(* What the ages do when nothing but time happens to them.                  *)
LEMMA AgesType ==
  ASSUME VarTypes
  PROVE  /\ Later(net_ok, Stale) \in Never..Stale
         /\ Later(low_since, Hold) \in Never..Hold
         /\ Later(blk8_low_since, Blk8Hold) \in Never..Blk8Hold
         /\ Later(since_probe, ProbeEvery) \in 0..ProbeEvery
         /\ Later(crater_run, Blk8Hold) \in Never..Blk8Hold
  BY TimeAssumption DEF VarTypes, Later, Never

LEMMA InitType == Init => VarTypes
<1> SUFFICES ASSUME Init PROVE VarTypes
  OBVIOUS
<1>1. /\ 0 \in 0..(Window + 1) /\ 0 \in 0..ProbeEvery /\ 0 \in 0..LifeMax
      /\ Never \in Never..Stale /\ Never \in Never..Hold
      /\ Never \in Never..Blk8Hold /\ 0 \in Nat
  BY TimeAssumption, CountAssumption DEF Never
<1>2. recov \in Nat /\ twdt \in Nat /\ probe_fires \in Nat
  BY DataAssumption DEF Init
<1> QED  BY <1>1, <1>2 DEF Init, VarTypes, Origins

LEMMA ResetType ==
  ASSUME VarTypes, Reset
  PROVE  VarTypes'
<1>1. CASE PowerCycle
  <2>1. PICK who \in {"power", "brownout"} : RamAfterReset(who)
    BY <1>1 DEF PowerCycle
  <2>2. who \in Origins
    BY <2>1 DEF Origins
  <2>3. /\ magic' \in BOOLEAN /\ marker' \in BOOLEAN /\ recov' \in Nat
        /\ twdt' \in Nat /\ probe_fires' \in Nat
        /\ lifetime_reboots' \in 0..LifeMax /\ trigger' \in {0, 2, 3, 4}
        /\ last_free' \in Nat /\ wedge_free' \in Nat
    BY <1>1, DataAssumption DEF PowerCycle, VarTypes, rtcVars
  <2> QED  BY <1>1, <2>1, <2>2, <2>3, RamAfterResetType DEF PowerCycle, VarTypes
<1>2. CASE UserRestart
  <2>1. "user" \in Origins /\ RamAfterReset("user")
    BY <1>2 DEF UserRestart, Origins
  <2> QED  BY <1>2, <2>1, RamAfterResetType DEF UserRestart, VarTypes, rtcVars
<1>3. CASE Panic
  <2>1. "panic" \in Origins /\ RamAfterReset("panic")
    BY <1>3 DEF Panic, Origins
  <2> QED  BY <1>3, <2>1, RamAfterResetType DEF Panic, VarTypes, rtcVars
<1>4. CASE TaskWdtReset
  <2>1. "taskwdt" \in Origins /\ RamAfterReset("taskwdt")
    BY <1>4 DEF TaskWdtReset, Origins
  <2> QED  BY <1>4, <2>1, RamAfterResetType DEF TaskWdtReset, VarTypes, rtcVars
<1> QED  BY <1>1, <1>2, <1>3, <1>4 DEF Reset

LEMMA RestartType ==
  ASSUME VarTypes, NEW cause \in {2, 3, 4}, Restart(cause),
         probe_fires' \in Nat, flaps' \in Nat
  PROVE  VarTypes'
<1>1. "watchdog" \in Origins /\ RamAfterReset("watchdog")
  BY DEF Restart, Origins
<1>2. /\ recov' \in Nat /\ twdt' \in Nat /\ lifetime_reboots' \in 0..LifeMax
      /\ trigger' \in {0, 2, 3, 4} /\ last_free' \in Nat /\ storm' \in Nat
      /\ marker' \in BOOLEAN
      /\ magic' \in BOOLEAN /\ wedge_free' \in Nat
  BY CountAssumption, DataAssumption DEF Restart, VarTypes, RecovNow, TwdtNow, Counted
<1> QED  BY <1>1, <1>2, RamAfterResetType DEF VarTypes

LEMMA TickType ==
  ASSUME VarTypes, Tick
  PROVE  VarTypes'
<1>1. CASE BootTick
  <2>1. TimePasses /\ ObserveTick /\ net_ok' = Later(net_ok, Stale)
        /\ since_probe' = Later(since_probe, ProbeEvery)
    BY <1>1 DEF BootTick
  <2>2. booted' \in BOOLEAN /\ magic' \in BOOLEAN /\ marker' \in BOOLEAN
    BY <1>1 DEF BootTick
  <2>3. /\ recov' \in Nat /\ twdt' \in Nat /\ trigger' \in {0, 2, 3, 4}
        /\ probe_fires' \in Nat /\ lifetime_reboots' \in 0..LifeMax
        /\ last_free' \in Nat /\ wedge_free' \in Nat
    <3>1. CASE ~magic \/ PowerEvent
      <4>1. 0 \in 0..LifeMax
        BY CountAssumption
      <4>2. /\ recov' = 0 /\ twdt' = 0 /\ trigger' = 0 /\ probe_fires' = 0
            /\ lifetime_reboots' = 0 /\ last_free' = 0 /\ wedge_free' = 0
        BY <1>1, <3>1 DEF BootTick
      <4> QED  BY <4>1, <4>2
    <3>2. CASE ~(~magic \/ PowerEvent)
      <4>1. /\ recov' \in {0, recov} /\ twdt' \in {twdt, twdt + 1}
            /\ wedge_free' \in {last_free, wedge_free}
            /\ UNCHANGED <<trigger, probe_fires, lifetime_reboots, last_free>>
        BY <1>1, <3>2, Zenon DEF BootTick, Counted
      <4> QED  BY <4>1 DEF VarTypes
    <3> QED  BY <3>1, <3>2
  <2>4. /\ netwatch_disabled' \in BOOLEAN /\ origin' \in Origins
        /\ low_since' \in Never..Hold /\ blk8_low_since' \in Never..Blk8Hold
        /\ probe_posted' \in BOOLEAN /\ storm' \in Nat /\ flaps' \in Nat
    BY <1>1 DEF BootTick, VarTypes, loopHist
  <2> QED  BY <2>1, <2>2, <2>3, <2>4, TimePassesType, ObserveTickType, AgesType
              DEF VarTypes
<1>2. CASE DisabledTick
  <2>1. TimePasses /\ ObserveTick /\ net_ok' = Later(net_ok, Stale)
        /\ since_probe' = Later(since_probe, ProbeEvery)
    BY <1>2 DEF DisabledTick
  <2> QED  BY <1>2, <2>1, TimePassesType, ObserveTickType, AgesType
              DEF VarTypes, DisabledTick, rtcVars, bootVars, loopHist
<1>3. CASE OtaTick
  <2>1. TimePasses /\ ObserveTick /\ net_ok' \in Never..Stale
        /\ low_since' \in Never..Hold
        /\ since_probe' = Later(since_probe, ProbeEvery)
        /\ blk8_low_since' = Later(blk8_low_since, Blk8Hold)
    BY <1>3, TimeAssumption DEF OtaTick, Never
  <2> QED  BY <1>3, <2>1, TimePassesType, ObserveTickType, AgesType
              DEF VarTypes, OtaTick, rtcVars, bootVars, loopHist
<1>4. CASE WatchTick
  <2>1. TimePasses /\ ObserveTick
    BY <1>4 DEF WatchTick
  <2>2. net_ok' \in Never..Stale
    BY <1>4, NetOkFacts, TimeAssumption DEF WatchTick, Never
  <2>3. low_since' \in Never..Hold
    BY <1>4, ClockedType, TimeAssumption DEF WatchTick, VarTypes
  <2>4. blk8_low_since' \in Never..Blk8Hold
    BY <1>4, ClockedType, TimeAssumption DEF WatchTick, VarTypes
  <2>5. /\ recov' \in Nat /\ twdt' \in Nat /\ probe_fires' \in Nat
        /\ last_free' \in Nat
    BY <1>4, DataAssumption
       DEF WatchTick, VarTypes, RecovNow, TwdtNow, ProbeFiresNow
  <2>6. since_probe' \in 0..ProbeEvery
    BY <1>4, AgesType, TimeAssumption DEF WatchTick
  <2>7. probe_posted' \in BOOLEAN
    BY <1>4 DEF WatchTick, VarTypes
  <2>8. /\ magic' \in BOOLEAN /\ marker' \in BOOLEAN /\ trigger' \in {0, 2, 3, 4}
        /\ lifetime_reboots' \in 0..LifeMax /\ wedge_free' \in Nat
        /\ origin' \in Origins /\ booted' \in BOOLEAN
        /\ netwatch_disabled' \in BOOLEAN /\ storm' \in Nat /\ flaps' \in Nat
    BY <1>4 DEF WatchTick, VarTypes, bootVars, loopHist
  <2> QED  BY <2>1, <2>2, <2>3, <2>4, <2>5, <2>6, <2>7, <2>8, TimePassesType,
              ObserveTickType DEF VarTypes
<1>5. CASE CraterTick
  BY <1>5, RestartType DEF CraterTick, VarTypes, ProbeFiresNow
<1>6. CASE NetStaleTick
  BY <1>6, RestartType DEF NetStaleTick, VarTypes, ProbeFiresNow, Counted
<1> QED  BY <1>1, <1>2, <1>3, <1>4, <1>5, <1>6 DEF Tick

LEMMA TasksType ==
  ASSUME VarTypes, ProbeCallback \/ HttpdStamp \/ ApiTraffic \/ ApiDrop
  PROVE  VarTypes'
<1>1. 0 \in Never..Stale /\ Never \in Never..Stale
  <2>1. Stale \in Nat
    BY TimeAssumption
  <2> QED  BY <2>1 DEF Never
<1>2. CASE ProbeCallback
  BY <1>1, <1>2 DEF ProbeCallback, VarTypes, rtcVars, bootVars, envVars,
                    loopHist, tickHist
<1>3. CASE HttpdStamp
  BY <1>1, <1>3 DEF HttpdStamp, VarTypes, rtcVars, bootVars, envVars,
                    loopHist, tickHist
<1>4. CASE ApiTraffic
  BY <1>1, <1>4 DEF ApiTraffic, VarTypes, rtcVars, bootVars, envVars,
                    loopHist, tickHist
<1>5. CASE ApiDrop
  BY <1>1, <1>5 DEF ApiDrop, VarTypes, rtcVars, bootVars, envVars,
                    loopHist, tickHist
<1> QED  BY <1>2, <1>3, <1>4, <1>5

LEMMA EnvironmentType ==
  ASSUME VarTypes, Environment
  PROVE  VarTypes'
<1>1. /\ UNCHANGED <<rtcVars, bootVars, clockVars, loopHist>>
      /\ Wifi \/ Wedge \/ Heap \/ Ota
  BY DEF Environment
<1>2. /\ ota' \in {"none", "native", "web"} /\ wifi' \in BOOLEAN
      /\ wedged' \in BOOLEAN /\ blk8_low' \in BOOLEAN /\ heap' \in HeapLevels
      /\ crater_run' = crater_run
  <2>1. CASE Wifi
    BY <2>1 DEF Wifi, VarTypes
  <2>2. CASE Wedge
    BY <2>2 DEF Wedge, VarTypes
  <2>3. CASE Heap
    BY <2>3 DEF Heap, VarTypes
  <2>4. CASE Ota
    BY <2>4 DEF Ota, VarTypes
  <2> QED  BY <1>1, <2>1, <2>2, <2>3, <2>4
<1>3. healthy' \in {0, healthy}
  BY <1>1 DEF Wifi, Wedge, Heap, Ota
<1>4. healthy' \in 0..ProbeEvery
  BY <1>3, TimeAssumption DEF VarTypes
<1> QED  BY <1>1, <1>2, <1>4 DEF VarTypes, rtcVars, bootVars, clockVars, loopHist

LEMMA StallType ==
  ASSUME VarTypes, Stall
  PROVE  VarTypes'
<1>1. TimePasses /\ healthy' \in 0..ProbeEvery
  BY TimeAssumption DEF Stall
<1> QED  BY <1>1, TimePassesType, AgesType
            DEF Stall, VarTypes, rtcVars, bootVars, loopHist

LEMMA NextType ==
  ASSUME VarTypes, [Next]_vars
  PROVE  VarTypes'
<1>1. CASE UNCHANGED vars
  BY <1>1 DEF VarTypes, vars, rtcVars, bootVars, clockVars, envVars, loopHist,
              tickHist
<1> QED  BY <1>1, TickType, StallType, TasksType, EnvironmentType, ResetType
            DEF Next

LEMMA VarTypesKept == Spec => []VarTypes
  BY InitType, NextType, PTL DEF Spec

-----------------------------------------------------------------------------
(* The inductive invariant.                                                 *)

(* A storm is never longer than the breaker's own count of it, unless the   *)
(* uptime already ended it.  While a boot has not run its first tick, the   *)
(* count is kept only because the marker, or the reset reason, says so.     *)
BreakerInv ==
  /\ booted => magic
  /\ magic => recov <= MaxRecov
  /\ booted /\ ~netwatch_disabled => recov < MaxRecov
  /\ storm <= MaxRecov
  /\ storm <= recov \/ (booted /\ up > Window)
  /\ ~booted /\ storm > 0 => magic /\ ~PowerEvent /\ (marker \/ origin = "taskwdt")
  /\ PowerCycleRearms
  /\ LifetimeCountsAll

(* The flap counter may run ahead of the flaps, never behind them.          *)
FlapInv ==
  /\ flaps <= ProbeCap
  /\ flaps <= probe_fires
  /\ flaps > 0 => magic /\ (booted \/ ~PowerEvent) /\ ~api_is_connected

(* Something stamped the network within s units, or is just about to.       *)
FreshWithin(s) ==
  \/ probe_posted
  \/ probe_ok # Never /\ probe_ok <= s
  \/ net_ok # Never /\ net_ok <= s

(* Over a healthy run of ticks a probe goes out every ProbeEvery and comes  *)
(* back; the staleness clock runs only between watching ticks.              *)
HealthInv ==
  /\ wedged => healthy = 0
  /\ ~booted \/ netwatch_disabled => low_since = Never
  /\ ~booted => healthy <= since_probe
  /\ booted /\ ~netwatch_disabled => healthy <= since_probe \/ FreshWithin(since_probe)
  /\ low_since # Never => since_probe < ProbeEvery \/ healthy = 0

(* Without an update in flight the heap clock restarts with every tick that *)
(* sees a healthy heap.                                                     *)
CraterInv ==
  /\ ota # "native"
  /\ ~booted \/ netwatch_disabled \/ up < Arm => blk8_low_since = Never
  /\ blk8_low_since # Never => crater_run # Never /\ blk8_low_since <= crater_run

-----------------------------------------------------------------------------
(* The breaker.                                                             *)

(* What the breaker's part of a step looks like when neither a tick that    *)
(* watches, nor a boot, nor a reset happens: no more than time passes.      *)
BreakerIdle ==
  /\ UNCHANGED <<rtcVars, bootVars, storm>>
  /\ up' = up \/ (up' = Now /\ up' >= up)

LEMMA IdleSteps ==
  ASSUME VarTypes,
         \/ DisabledTick \/ OtaTick \/ Stall \/ Environment
         \/ ProbeCallback \/ HttpdStamp \/ ApiTraffic \/ ApiDrop
         \/ UNCHANGED vars
  PROVE  BreakerIdle
<1>1. Now >= up
  BY TimeAssumption DEF Now, Later, VarTypes, Never
<1>2. CASE DisabledTick \/ OtaTick \/ Stall
  BY <1>1, <1>2 DEF DisabledTick, OtaTick, Stall, TimePasses, BreakerIdle, loopHist
<1>3. CASE Environment
  BY <1>3 DEF Environment, BreakerIdle, clockVars, loopHist
<1>4. CASE ProbeCallback \/ HttpdStamp \/ ApiTraffic \/ ApiDrop
  BY <1>4 DEF ProbeCallback, HttpdStamp, ApiTraffic, ApiDrop, BreakerIdle, loopHist
<1>5. CASE UNCHANGED vars
  BY <1>5 DEF vars, BreakerIdle, clockVars, loopHist
<1> QED  BY <1>2, <1>3, <1>4, <1>5

LEMMA BreakerIdleStep ==
  ASSUME VarTypes, BreakerInv, BreakerIdle
  PROVE  BreakerInv'
<1>1. /\ UNCHANGED <<magic, recov, marker, lifetime_reboots, storm>>
      /\ UNCHANGED <<origin, booted, netwatch_disabled>>
      /\ up' >= up
  BY DEF BreakerIdle, rtcVars, bootVars, VarTypes
<1>2. storm' <= recov' \/ (booted' /\ up' > Window)
  <2>1. CASE storm <= recov
    BY <1>1, <2>1
  <2>2. CASE booted /\ up > Window
    <3>1. up \in Int /\ up' \in Int /\ Window \in Int
      BY TimeAssumption DEF VarTypes, BreakerIdle, Now, Later
    <3> QED  BY <1>1, <2>2, <3>1
  <2> QED  BY <2>1, <2>2 DEF BreakerInv
<1> QED  BY <1>1, <1>2
            DEF BreakerInv, PowerEvent, PowerCycleRearms, LifetimeCountsAll

LEMMA BreakerBoot ==
  ASSUME VarTypes, BreakerInv, BootTick
  PROVE  BreakerInv'
<1>1. /\ ~booted /\ booted' /\ magic'
      /\ netwatch_disabled' <=> (twdt' >= TwdtTrip \/ recov' >= MaxRecov)
      /\ origin' = origin /\ storm' = storm
  BY DEF BootTick, loopHist
<1>2. CASE ~magic \/ PowerEvent
  <2>1. recov' = 0 /\ twdt' = 0 /\ lifetime_reboots' = 0
    BY <1>2 DEF BootTick
  <2>2. storm' = 0
    BY <1>1, <1>2 DEF BreakerInv, VarTypes
  <2> QED  BY <1>1, <2>1, <2>2, CountAssumption
              DEF BreakerInv, PowerCycleRearms, LifetimeCountsAll
<1>3. CASE magic /\ ~PowerEvent
  <2>1. /\ recov' = (IF marker \/ origin = "taskwdt" THEN recov ELSE 0)
        /\ lifetime_reboots' = lifetime_reboots
    BY <1>3 DEF BootTick
  <2>2. recov' <= MaxRecov /\ recov' <= recov
    BY <1>3, <2>1, CountAssumption DEF BreakerInv, VarTypes
  <2>3. storm' <= recov'
    BY <1>1, <2>1 DEF BreakerInv, VarTypes
  <2>4. ~PowerEvent'
    BY <1>1, <1>3 DEF PowerEvent
  <2>5. recov' \in Nat /\ recov \in Nat /\ lifetime_reboots \in Nat
    BY <2>1, CountAssumption DEF VarTypes
  <2> QED  BY <1>1, <1>3, <2>1, <2>2, <2>3, <2>4, <2>5, CountAssumption
              DEF BreakerInv, PowerEvent, PowerCycleRearms, LifetimeCountsAll
<1> QED  BY <1>2, <1>3

LEMMA BreakerWatch ==
  ASSUME VarTypes, BreakerInv, WatchTick
  PROVE  BreakerInv'
<1>1. /\ booted /\ ~netwatch_disabled
      /\ UNCHANGED <<magic, marker, lifetime_reboots, storm>>
      /\ UNCHANGED <<origin, booted, netwatch_disabled>>
      /\ recov' = RecovNow /\ up' = Now
  BY DEF WatchTick, Watching, TimePasses, bootVars, loopHist
<1>2. Now >= up /\ Now \in Nat
  BY TimeAssumption DEF Now, Later, VarTypes, Never
<1>3. CASE Now > Window
  <2>1. recov' = 0
    BY <1>1, <1>3 DEF RecovNow
  <2> QED  BY <1>1, <1>3, <2>1, CountAssumption
              DEF BreakerInv, PowerEvent, PowerCycleRearms, LifetimeCountsAll, VarTypes
<1>4. CASE ~(Now > Window)
  <2>1. recov' = recov /\ ~(up > Window)
    BY <1>1, <1>2, <1>4, TimeAssumption DEF RecovNow, VarTypes
  <2> QED  BY <1>1, <2>1
              DEF BreakerInv, PowerEvent, PowerCycleRearms, LifetimeCountsAll
<1> QED  BY <1>3, <1>4

LEMMA BreakerRestart ==
  ASSUME VarTypes, BreakerInv, Watching, NEW cause, Restart(cause)
  PROVE  BreakerInv'
<1>1. /\ booted /\ ~netwatch_disabled /\ magic /\ magic'
      /\ ~booted' /\ marker' /\ origin' = "watchdog"
  BY DEF Watching, Restart, RamAfterReset, BreakerInv
<1>2. recov' = RecovNow + 1 /\ storm' = IF Now > Window THEN 1 ELSE storm + 1
  BY DEF Restart
<1>3. recov < MaxRecov /\ recov \in Nat /\ storm \in Nat
  BY <1>1 DEF BreakerInv, VarTypes
<1>4. recov' <= MaxRecov /\ storm' <= recov'
  <2>1. CASE Now > Window
    BY <1>2, <2>1, CountAssumption DEF RecovNow
  <2>2. CASE ~(Now > Window)
    <3>1. ~(up > Window)
      BY <2>2, TimeAssumption DEF Now, Later, VarTypes, Never
    <3> QED  BY <1>2, <1>3, <2>2, <3>1, CountAssumption DEF RecovNow, BreakerInv
  <2> QED  BY <2>1, <2>2
<1>5. recov' <= lifetime_reboots' \/ lifetime_reboots' = LifeMax
  <2>1. /\ recov' <= recov + 1
        /\ lifetime_reboots' = IF lifetime_reboots < LifeMax
                               THEN lifetime_reboots + 1 ELSE lifetime_reboots
    BY <1>2, <1>3 DEF Restart, RecovNow, Counted
  <2>2. recov <= lifetime_reboots \/ lifetime_reboots = LifeMax
    BY <1>1 DEF BreakerInv, LifetimeCountsAll
  <2>3. recov' \in Nat /\ lifetime_reboots \in 0..LifeMax /\ LifeMax \in Nat
    BY <1>2, <1>3, CountAssumption DEF VarTypes, RecovNow
  <2> QED  BY <1>3, <2>1, <2>2, <2>3
<1>6. ~PowerEvent' /\ storm' \in Nat /\ recov' \in Nat
  BY <1>1, <1>2, <1>3 DEF PowerEvent, RecovNow
<1> QED  BY <1>1, <1>4, <1>5, <1>6, CountAssumption
            DEF BreakerInv, PowerCycleRearms, LifetimeCountsAll

LEMMA BreakerReset ==
  ASSUME VarTypes, BreakerInv, Reset
  PROVE  BreakerInv'
<1>1. ~booted'
  BY DEF Reset, PowerCycle, UserRestart, Panic, TaskWdtReset, RamAfterReset
<1>2. /\ ~magic' \/ UNCHANGED <<magic, marker, recov, lifetime_reboots>>
      /\ recov' \in Nat
  <2>1. CASE PowerCycle
    BY <2>1, DataAssumption DEF PowerCycle, rtcVars, VarTypes
  <2>2. CASE UserRestart \/ Panic \/ TaskWdtReset
    BY <2>2 DEF UserRestart, Panic, TaskWdtReset, rtcVars, VarTypes
  <2> QED  BY <2>1, <2>2 DEF Reset
<1>3. CASE storm' = 0
  BY <1>1, <1>2, <1>3, CountAssumption
     DEF BreakerInv, PowerCycleRearms, LifetimeCountsAll
<1>4. CASE storm' # 0
  <2>1. TaskWdtReset
    BY <1>4 DEF Reset, PowerCycle, UserRestart, Panic
  <2>2. /\ UNCHANGED <<magic, marker, recov, lifetime_reboots>>
        /\ origin' = "taskwdt" /\ storm' = storm /\ ~(up > Window)
    BY <1>4, <2>1 DEF TaskWdtReset, RamAfterReset, rtcVars
  <2>3. magic /\ storm <= recov
    BY <1>4, <2>2 DEF BreakerInv, VarTypes
  <2> QED  BY <1>1, <2>2, <2>3
              DEF BreakerInv, PowerEvent, PowerCycleRearms, LifetimeCountsAll
<1> QED  BY <1>3, <1>4

LEMMA BreakerInit == Init => BreakerInv
  BY CountAssumption, DataAssumption
     DEF Init, BreakerInv, PowerCycleRearms, LifetimeCountsAll

LEMMA BreakerStep ==
  ASSUME VarTypes, BreakerInv, [Next]_vars
  PROVE  BreakerInv'
<1>1. CASE BootTick
  BY <1>1, BreakerBoot
<1>2. CASE WatchTick
  BY <1>2, BreakerWatch
<1>3. CASE CraterTick
  BY <1>3, BreakerRestart DEF CraterTick
<1>4. CASE NetStaleTick
  BY <1>4, BreakerRestart DEF NetStaleTick
<1>5. CASE Reset
  BY <1>5, BreakerReset
<1>6. CASE \/ DisabledTick \/ OtaTick \/ Stall \/ Environment
           \/ ProbeCallback \/ HttpdStamp \/ ApiTraffic \/ ApiDrop
           \/ UNCHANGED vars
  BY <1>6, IdleSteps, BreakerIdleStep
<1> QED  BY <1>1, <1>2, <1>3, <1>4, <1>5, <1>6 DEF Next, Tick

LEMMA BreakerInvariant == Spec => []BreakerInv
  BY VarTypesKept, BreakerInit, BreakerStep, PTL DEF Spec

(* The K = 3 breaker holds: in every interleaving of wedges, craters,       *)
(* task-WDT resets, updates and stalls, a storm of watchdog reboots is over *)
(* after MaxRecov of them (so the 8-bit counter recov never wraps).         *)
THEOREM BreakerBoundsStorms == Spec => []StormBounded
<1>1. BreakerInv => StormBounded
  BY DEF BreakerInv, StormBounded
<1> QED  BY <1>1, BreakerInvariant, PTL

(* A power event always gives the user a device whose watchdog runs.        *)
THEOREM PowerEventRearms == Spec => []PowerCycleRearms
<1>1. BreakerInv => PowerCycleRearms
  BY DEF BreakerInv
<1> QED  BY <1>1, BreakerInvariant, PTL

(* The lifetime counter accounts for every reboot the breaker counts.       *)
THEOREM LifetimeAccounts == Spec => []LifetimeCountsAll
<1>1. BreakerInv => LifetimeCountsAll
  BY DEF BreakerInv
<1> QED  BY <1>1, BreakerInvariant, PTL

-----------------------------------------------------------------------------
(* The widths of the counters.                                              *)

CountersFit == magic => twdt <= TwdtMax /\ probe_fires <= ProbeMax

LEMMA CountersStep ==
  ASSUME VarTypes, CountersFit, [Next]_vars
  PROVE  CountersFit'
<1>0. twdt \in Nat /\ probe_fires \in Nat /\ TwdtMax \in Nat /\ ProbeMax \in Nat
  BY CountAssumption DEF VarTypes
<1>1. CASE BootTick
  <2>1. CASE ~magic \/ PowerEvent
    BY <1>0, <1>1, <2>1 DEF BootTick, CountersFit
  <2>2. CASE magic /\ ~PowerEvent
    <3>1. twdt' \in {twdt, Counted(twdt, TwdtMax)} /\ probe_fires' = probe_fires
      BY <1>1, <2>2 DEF BootTick
    <3> QED  BY <1>0, <2>2, <3>1 DEF CountersFit, Counted
  <2> QED  BY <2>1, <2>2
<1>2. CASE WatchTick \/ CraterTick \/ NetStaleTick
  <2>1. magic' = magic /\ twdt' \in {0, twdt}
    BY <1>2 DEF WatchTick, CraterTick, NetStaleTick, Restart, TwdtNow
  <2>2. probe_fires' \in {0, probe_fires, Counted(0, ProbeMax), Counted(probe_fires, ProbeMax)}
    BY <1>2 DEF WatchTick, CraterTick, NetStaleTick, ProbeFiresNow
  <2> QED  BY <1>0, <2>1, <2>2 DEF CountersFit, Counted
<1>3. CASE Reset
  <2>1. ~magic' \/ UNCHANGED rtcVars
    BY <1>3 DEF Reset, PowerCycle, UserRestart, Panic, TaskWdtReset
  <2> QED  BY <2>1 DEF CountersFit, rtcVars
<1>4. CASE \/ DisabledTick \/ OtaTick \/ Stall \/ Environment
           \/ ProbeCallback \/ HttpdStamp \/ ApiTraffic \/ ApiDrop
           \/ UNCHANGED vars
  BY <1>4, IdleSteps DEF BreakerIdle, CountersFit, rtcVars
<1> QED  BY <1>1, <1>2, <1>3, <1>4 DEF Next, Tick

(* Every variable keeps its type, and from the first tick on, whatever RTC  *)
(* memory held at power-up and however many resets follow, the counters of  *)
(* the breaker fit their bytes: recov because a tripped breaker restarts    *)
(* nothing, the other two because they saturate.                            *)
THEOREM TypeCorrect == Spec => []TypeOK
<1>1. Init => CountersFit
  BY DEF Init, CountersFit
<1>2. VarTypes /\ CountersFit /\ [Next]_vars => CountersFit'
  BY CountersStep
<1>3. VarTypes /\ BreakerInv /\ CountersFit => TypeOK
  BY DEF TypeOK, BreakerInv, CountersFit
<1> QED  BY <1>1, <1>2, <1>3, VarTypesKept, BreakerInvariant, PTL DEF Spec

-----------------------------------------------------------------------------
(* The flap cap.                                                            *)

LEMMA FlapInit == Init => FlapInv
  BY CountAssumption, DataAssumption DEF Init, FlapInv

LEMMA FlapTick ==
  ASSUME VarTypes, BreakerInv, FlapInv, Tick
  PROVE  FlapInv'
<1>1. CASE BootTick
  <2>1. flaps' = flaps /\ booted'
    BY <1>1 DEF BootTick, loopHist
  <2>2. api_is_connected' => api_is_connected
    BY <1>1, LaterFacts, TimeAssumption
       DEF BootTick, TimePasses, api_is_connected, VarTypes
  <2>3. CASE flaps = 0
    BY <1>1, <2>1, <2>3 DEF BootTick, FlapInv, VarTypes
  <2>4. CASE flaps > 0
    <3>1. magic /\ ~PowerEvent
      BY <1>1, <2>4 DEF FlapInv, BootTick
    <3>2. probe_fires' = probe_fires /\ magic'
      BY <1>1, <3>1 DEF BootTick
    <3> QED  BY <2>1, <2>2, <2>4, <3>2 DEF FlapInv
  <2> QED  BY <2>3, <2>4 DEF VarTypes
<1>2. CASE DisabledTick \/ OtaTick
  <2>1. UNCHANGED <<magic, probe_fires, origin, booted, flaps>>
    BY <1>2 DEF DisabledTick, OtaTick, rtcVars, bootVars, loopHist
  <2>2. api_is_connected' => api_is_connected
    BY <1>2, LaterFacts, TimeAssumption
       DEF DisabledTick, OtaTick, TimePasses, api_is_connected, VarTypes
  <2> QED  BY <2>1, <2>2 DEF FlapInv, PowerEvent
<1>3. CASE WatchTick
  <2>1. /\ UNCHANGED <<magic, origin, booted, flaps>>
        /\ probe_fires' = ProbeFiresNow
    BY <1>3 DEF WatchTick, bootVars, loopHist
  <2>2. api_is_connected' => api_is_connected
    BY <1>3, LaterFacts, TimeAssumption
       DEF WatchTick, TimePasses, api_is_connected, VarTypes
  <2>3. flaps <= ProbeFiresNow
    BY DEF FlapInv, ProbeFiresNow, VarTypes
  <2> QED  BY <2>1, <2>2, <2>3 DEF FlapInv, PowerEvent
<1>4. ASSUME CraterTick \/ NetStaleTick
      PROVE  magic' /\ ~PowerEvent' /\ ~api_is_connected' /\ magic
  BY <1>4 DEF CraterTick, NetStaleTick, Restart, RamAfterReset, Watching,
              BreakerInv, PowerEvent, api_is_connected
<1>5. CASE CraterTick
  <2>1. flaps' = flaps /\ probe_fires' = ProbeFiresNow
    BY <1>5 DEF CraterTick
  <2> QED  BY <1>4, <1>5, <2>1 DEF FlapInv, ProbeFiresNow, VarTypes
<1>6. CASE NetStaleTick
  <2>1. CASE ClientPresent
    <3>1. flaps' = flaps /\ probe_fires' = ProbeFiresNow
      BY <1>6, <2>1 DEF NetStaleTick
    <3> QED  BY <1>4, <1>6, <3>1 DEF FlapInv, ProbeFiresNow, VarTypes
  <2>2. CASE ~ClientPresent
    <3>1. ProbePresent /\ ~api_is_connected
      BY <1>6, <2>2 DEF NetStaleTick, NetStaleFires, StaleNow, ArmedNow,
                        ProbePresent, ClientPresent
    <3>2. ProbeFiresNow = probe_fires /\ probe_fires < ProbeCap
      BY <3>1 DEF ProbePresent, ProbeFiresNow
    <3>3. flaps' = flaps + 1 /\ probe_fires' = probe_fires + 1
      BY <1>6, <2>2, <3>2, CountAssumption DEF NetStaleTick, VarTypes, Counted
    <3> QED  BY <1>4, <1>6, <3>2, <3>3, CountAssumption DEF FlapInv, VarTypes
  <2> QED  BY <2>1, <2>2
<1> QED  BY <1>1, <1>2, <1>3, <1>5, <1>6 DEF Tick

LEMMA FlapStep ==
  ASSUME VarTypes, BreakerInv, FlapInv, [Next]_vars
  PROVE  FlapInv'
<1>1. CASE Stall
  <2>1. UNCHANGED <<magic, probe_fires, origin, booted, flaps>>
    BY <1>1 DEF Stall, rtcVars, bootVars, loopHist
  <2>2. api_is_connected' => api_is_connected
    BY <1>1, LaterFacts, TimeAssumption
       DEF Stall, TimePasses, api_is_connected, VarTypes
  <2> QED  BY <2>1, <2>2 DEF FlapInv, PowerEvent
<1>2. CASE ApiTraffic
  BY <1>2, CountAssumption DEF ApiTraffic, FlapInv, VarTypes, rtcVars
<1>3. CASE ApiDrop
  BY <1>3 DEF ApiDrop, FlapInv, rtcVars, bootVars, loopHist, PowerEvent,
              api_is_connected
<1>4. CASE \/ ProbeCallback \/ HttpdStamp \/ Environment \/ UNCHANGED vars
  <2>1. UNCHANGED <<magic, probe_fires, origin, booted, flaps, api_traffic>>
    BY <1>4 DEF ProbeCallback, HttpdStamp, Environment, vars, rtcVars, bootVars,
                clockVars, loopHist
  <2> QED  BY <2>1 DEF FlapInv, PowerEvent, api_is_connected
<1>5. CASE Reset
  <2>1. ~api_is_connected'
    BY <1>5 DEF Reset, PowerCycle, UserRestart, Panic, TaskWdtReset,
                RamAfterReset, api_is_connected
  <2>2. CASE PowerCycle
    <3>1. flaps' = 0
      BY <2>2 DEF PowerCycle
    <3>2. probe_fires' \in Nat
      BY <2>2, DataAssumption DEF PowerCycle, rtcVars, VarTypes
    <3> QED  BY <3>1, <3>2, CountAssumption DEF FlapInv
  <2>3. CASE UserRestart \/ Panic \/ TaskWdtReset
    <3>1. UNCHANGED <<magic, probe_fires, flaps>> /\ ~PowerEvent'
      BY <2>3 DEF UserRestart, Panic, TaskWdtReset, RamAfterReset, rtcVars,
                  PowerEvent
    <3> QED  BY <2>1, <3>1 DEF FlapInv
  <2> QED  BY <1>5, <2>2, <2>3 DEF Reset
<1> QED  BY <1>1, <1>2, <1>3, <1>4, <1>5, FlapTick DEF Next

(* The flap cap holds however slowly the flaps come, and however often the  *)
(* breaker's own window forgets them.                                       *)
THEOREM CapBoundsFlaps == Spec => []FlapsBounded
<1>1. FlapInv => FlapsBounded
  BY DEF FlapInv, FlapsBounded
<1> QED  BY <1>1, VarTypesKept, BreakerInvariant, FlapInit, FlapStep, PTL DEF Spec

-----------------------------------------------------------------------------
(* No false alarm.                                                          *)

LEMMA HealthInit == Init => HealthInv
  BY DEF Init, HealthInv

(* A tick that does not restart counts towards the healthy run only over a  *)
(* tcpip thread that runs, and then no probe is left unserved.              *)
LEMMA HealthyTick ==
  ASSUME VarTypes, ObserveTick, ProbeServed, TimePasses
  PROVE  /\ wedged' = wedged
         /\ wedged => healthy' = 0
         /\ ~wedged => ~probe_posted /\ healthy' <= healthy + 1
         /\ healthy' \in 0..ProbeEvery
<1>1. healthy' \in 0..ProbeEvery
  BY ObserveTickType
<1>2. wedged' = wedged /\ (wedged => healthy' = 0)
  BY DEF ObserveTick, TimePasses, envVars
<1>3. ~wedged => ~probe_posted
  BY DEF ProbeServed
<1>4. ~wedged => healthy' <= healthy + 1
  BY TimeAssumption DEF ObserveTick, VarTypes
<1> QED  BY <1>1, <1>2, <1>3, <1>4

(* One unit later a fresh stamp is still as fresh as the last probe post.   *)
LEMMA StaysFresh ==
  ASSUME VarTypes, ~probe_posted, FreshWithin(since_probe),
         since_probe < ProbeEvery
  PROVE  /\ Later(since_probe, ProbeEvery) = since_probe + 1
         /\ NetOkNow # Never /\ NetOkNow <= since_probe + 1
<1>1. since_probe \in Nat
  BY TimeAssumption DEF VarTypes
<1>2. Later(since_probe, ProbeEvery) = since_probe + 1
  BY <1>1 DEF Later, Never
<1>3. CASE probe_ok # Never /\ probe_ok <= since_probe
  BY <1>1, <1>2, <1>3, NetOkFacts DEF VarTypes, Never
<1>4. CASE net_ok # Never /\ net_ok <= since_probe
  BY <1>1, <1>2, <1>4, NetOkFacts DEF VarTypes, Never
<1> QED  BY <1>3, <1>4 DEF FreshWithin

LEMMA HealthBoot ==
  ASSUME VarTypes, HealthInv, BootTick
  PROVE  HealthInv'
<1>1. /\ ~booted /\ booted' /\ low_since' = low_since
      /\ ObserveTick /\ ProbeServed /\ TimePasses
      /\ since_probe' = Later(since_probe, ProbeEvery)
  BY DEF BootTick
<1>2. low_since' = Never
  BY <1>1 DEF HealthInv
<1>3. healthy <= since_probe /\ healthy \in 0..ProbeEvery
      /\ since_probe \in 0..ProbeEvery
  BY <1>1 DEF HealthInv, VarTypes
<1>4. /\ wedged' => healthy' = 0
      /\ healthy' = 0 \/ healthy' <= healthy + 1
      /\ healthy' \in 0..ProbeEvery
  BY <1>1, HealthyTick
<1>5. healthy' <= since_probe'
  BY <1>1, <1>3, <1>4, TimeAssumption DEF Later, Never
<1> QED  BY <1>1, <1>2, <1>4, <1>5 DEF HealthInv

LEMMA HealthOta ==
  ASSUME VarTypes, HealthInv, OtaTick
  PROVE  HealthInv'
<1>1. /\ booted /\ booted' /\ low_since' = Never /\ net_ok' = 0
      /\ ObserveTick /\ ProbeServed /\ TimePasses
      /\ since_probe' \in 0..ProbeEvery
  BY AgesType DEF OtaTick, bootVars
<1>2. wedged' => healthy' = 0
  BY <1>1, HealthyTick
<1>3. FreshWithin(since_probe)'
  BY <1>1, TimeAssumption DEF FreshWithin, Never
<1> QED  BY <1>1, <1>2, <1>3 DEF HealthInv

LEMMA HealthWatch ==
  ASSUME VarTypes, HealthInv, WatchTick
  PROVE  HealthInv'
<1>1. /\ booted /\ ~netwatch_disabled /\ booted' /\ ~netwatch_disabled'
      /\ ObserveTick /\ ProbeServed /\ TimePasses
  BY DEF WatchTick, Watching, bootVars
<1>2. /\ wedged' => healthy' = 0
      /\ healthy' = 0 \/ (~wedged /\ ~probe_posted /\ healthy' <= healthy + 1)
      /\ healthy' \in 0..ProbeEvery
  BY <1>1, HealthyTick
<1> DEFINE due == Later(since_probe, ProbeEvery) >= ProbeEvery
<1>3. since_probe' = IF due THEN 0 ELSE Later(since_probe, ProbeEvery)
  BY DEF WatchTick
<1>4. since_probe \in 0..ProbeEvery /\ ProbeEvery \in Nat \ {0}
  BY TimeAssumption DEF VarTypes
<1>5. since_probe' < ProbeEvery
  BY <1>3, <1>4 DEF Later, Never
<1>6. CASE due
  <2>1. since_probe' = 0 /\ (wedged \/ probe_posted')
    BY <1>6 DEF WatchTick
  <2>2. CASE wedged
    BY <1>1, <1>2, <1>5, <2>1, <2>2 DEF HealthInv, TimePasses, envVars
  <2>3. CASE probe_posted'
    BY <1>1, <1>2, <1>5, <2>3 DEF HealthInv, FreshWithin
  <2> QED  BY <2>1, <2>2, <2>3
<1>7. CASE ~due
  <2>1. since_probe' = since_probe + 1 /\ since_probe < ProbeEvery
    BY <1>3, <1>4, <1>7 DEF Later, Never
  <2>2. CASE healthy' = 0
    BY <1>1, <1>2, <1>4, <1>5, <2>1, <2>2 DEF HealthInv
  <2>3. CASE healthy' # 0 /\ healthy <= since_probe
    <3>1. healthy' <= since_probe'
      BY <1>2, <1>4, <2>1, <2>3 DEF VarTypes
    <3> QED  BY <1>1, <1>2, <1>5, <3>1 DEF HealthInv
  <2>4. CASE healthy' # 0 /\ FreshWithin(since_probe)
    <3>1. NetOkNow # Never /\ NetOkNow <= since_probe + 1
      BY <1>2, <2>1, <2>4, StaysFresh
    <3>2. net_ok' = 0 \/ net_ok' = NetOkNow
      BY DEF WatchTick
    <3>3. net_ok' # Never /\ net_ok' <= since_probe'
      BY <1>4, <2>1, <3>1, <3>2 DEF Never
    <3>4. FreshWithin(since_probe)'
      BY <3>3 DEF FreshWithin
    <3> QED  BY <1>1, <1>2, <1>5, <3>4 DEF HealthInv
  <2> QED  BY <1>1, <2>2, <2>3, <2>4 DEF HealthInv
<1> QED  BY <1>6, <1>7

LEMMA HealthStep ==
  ASSUME VarTypes, HealthInv, [Next]_vars
  PROVE  HealthInv'
<1>1. CASE BootTick
  BY <1>1, HealthBoot
<1>2. CASE OtaTick
  BY <1>2, HealthOta
<1>3. CASE WatchTick
  BY <1>3, HealthWatch
<1>4. CASE DisabledTick
  <2>1. /\ booted' /\ netwatch_disabled' /\ low_since' = low_since
        /\ netwatch_disabled
        /\ ObserveTick /\ ProbeServed /\ TimePasses
    BY <1>4 DEF DisabledTick, bootVars
  <2>2. wedged' => healthy' = 0
    BY <2>1, HealthyTick
  <2> QED  BY <2>1, <2>2 DEF HealthInv
<1>5. CASE CraterTick \/ NetStaleTick \/ Reset
  <2>1. PICK who : RamAfterReset(who)
    BY <1>5 DEF CraterTick, NetStaleTick, Restart, Reset, PowerCycle,
                UserRestart, Panic, TaskWdtReset
  <2> QED  BY <2>1 DEF RamAfterReset, HealthInv
<1>6. CASE Stall
  <2>1. /\ healthy' = 0 /\ UNCHANGED bootVars
        /\ low_since' = Later(low_since, Hold)
        /\ since_probe' \in 0..ProbeEvery
    BY <1>6, AgesType DEF Stall
  <2>2. low_since = Never => low_since' = Never
    BY <2>1 DEF Later
  <2> QED  BY <2>1, <2>2 DEF HealthInv, bootVars
<1>7. CASE ProbeCallback
  BY <1>7, TimeAssumption
     DEF ProbeCallback, HealthInv, FreshWithin, VarTypes, bootVars, envVars,
         tickHist, Never
<1>8. CASE HttpdStamp
  BY <1>8, TimeAssumption
     DEF HttpdStamp, HealthInv, FreshWithin, VarTypes, bootVars, envVars,
         tickHist, Never
<1>9. CASE ApiTraffic \/ ApiDrop \/ UNCHANGED vars
  BY <1>9 DEF ApiTraffic, ApiDrop, HealthInv, FreshWithin, vars, bootVars,
              clockVars, envVars, tickHist
<1>10. CASE Environment
  <2>1. UNCHANGED <<bootVars, clockVars>>
    BY <1>10 DEF Environment
  <2>2. healthy' = 0 \/ (healthy' = healthy /\ wedged' = wedged)
    BY <1>10 DEF Environment, Wifi, Wedge, Heap, Ota
  <2>3. since_probe \in 0..ProbeEvery
    BY DEF VarTypes
  <2> QED  BY <2>1, <2>2, <2>3 DEF HealthInv, FreshWithin, bootVars, clockVars
<1> QED  BY <1>1, <1>2, <1>3, <1>4, <1>5, <1>6, <1>7, <1>8, <1>9, <1>10
         DEF Next, Tick

LEMMA HealthInvariant == Spec => []HealthInv
  BY VarTypesKept, HealthInit, HealthStep, PTL DEF Spec

(* A network whose tcpip thread has run for one probe period never causes a *)
(* reboot, with or without clients, however the stamps of the other tasks   *)
(* interleave with the tick.                                                *)
THEOREM HealthyNeverReboots == Spec => NoRebootWhileHealthy
<1> DEFINE Alarm == WatchdogReboot /\ trigger' \in {2, 3} => healthy < ProbeEvery
<1>1. ASSUME VarTypes, HealthInv, Next
      PROVE  Alarm
  <2> SUFFICES ASSUME WatchdogReboot, trigger' \in {2, 3},
                      ~(healthy < ProbeEvery)
               PROVE  FALSE
    OBVIOUS
  <2>1. NetStaleTick
    <3>1. booted /\ ~booted' /\ origin' = "watchdog"
      BY DEF WatchdogReboot
    <3>2. ~Reset
      BY <3>1 DEF Reset, PowerCycle, UserRestart, Panic, TaskWdtReset,
                  RamAfterReset
    <3>3. ~CraterTick
      BY DEF CraterTick, Restart
    <3>4. ~(Stall \/ ProbeCallback \/ HttpdStamp \/ ApiTraffic \/ ApiDrop
              \/ Environment)
      BY <3>1 DEF Stall, ProbeCallback, HttpdStamp, ApiTraffic, ApiDrop,
                  Environment, bootVars
    <3>5. ~(BootTick \/ DisabledTick \/ OtaTick \/ WatchTick)
      BY <3>1 DEF BootTick, DisabledTick, OtaTick, WatchTick, bootVars
    <3> QED  BY <1>1, <3>2, <3>3, <3>4, <3>5 DEF Next, Tick
  <2>2. PICK landed \in StampMayLand : NetStaleFires(landed)
    BY <2>1 DEF NetStaleTick
  <2>3. low_since # Never /\ StaleFor(landed) >= Stale
    BY <2>2 DEF NetStaleFires, StaleNow
  <2>4. healthy \in 0..ProbeEvery /\ ProbeEvery \in Nat \ {0}
        /\ ProbeEvery < Stale /\ Stale \in Nat /\ since_probe \in 0..ProbeEvery
    BY <1>1, TimeAssumption DEF VarTypes
  <2>5. since_probe < ProbeEvery /\ ~wedged /\ healthy > since_probe
    BY <1>1, <2>3, <2>4 DEF HealthInv
  <2>6. FreshWithin(since_probe) /\ ~probe_posted
    BY <1>1, <2>1, <2>4, <2>5 DEF HealthInv, NetStaleTick, Watching, ProbeServed
  <2>7. NetOkNow <= since_probe + 1
    BY <1>1, <2>5, <2>6, StaysFresh
  <2>8. StaleFor(landed) < Stale
    <3>1. NetOkNow \in Never..Stale
      BY <1>1, NetOkFacts
    <3> QED  BY <2>4, <2>5, <2>7, <3>1 DEF StaleFor, Never
  <2>9. StaleFor(landed) \in Int
    BY <1>1, NetOkFacts, <2>4 DEF StaleFor, Never
  <2> QED  BY <2>3, <2>4, <2>8, <2>9
<1>2. VarTypes /\ HealthInv /\ [Next]_vars => [Alarm]_vars
  BY <1>1
<1> QED  BY <1>2, VarTypesKept, HealthInvariant, PTL DEF Spec, NoRebootWhileHealthy

-----------------------------------------------------------------------------
(* The heap-crater detector and updates.                                    *)

LEMMA CraterInit == Init => CraterInv
  BY DEF Init, CraterInv

LEMMA CraterStep ==
  ASSUME "ota" \notin Faults, VarTypes, CraterInv, [Next]_vars
  PROVE  CraterInv'
<1>1. CASE BootTick \/ DisabledTick
  <2>1. blk8_low_since = Never /\ blk8_low_since' = Never /\ ota' = ota
    BY <1>1 DEF BootTick, DisabledTick, TimePasses, envVars, CraterInv
  <2> QED  BY <2>1 DEF CraterInv
<1>2. ~OtaTick
  BY DEF OtaTick, netwatch_ota_active, CraterInv
<1>3. CASE WatchTick
  <2>1. /\ booted' /\ ~netwatch_disabled' /\ up' = Now /\ ota' = ota
        /\ crater_run' = Clocked(blk8_low, crater_run, Blk8Hold)
        /\ blk8_low_since' = IF Now < Arm THEN blk8_low_since
                             ELSE Clocked(blk8_low, blk8_low_since, Blk8Hold)
    BY <1>3 DEF WatchTick, Watching, TimePasses, ObserveTick, envVars, bootVars
  <2>2. CASE Now < Arm
    <3>1. up < Arm
      BY <2>2, TimeAssumption DEF Now, Later, VarTypes, Never
    <3> QED  BY <2>1, <2>2, <3>1 DEF CraterInv
  <2>3. CASE ~(Now < Arm)
    <3>1. blk8_low_since' = Clocked(blk8_low, blk8_low_since, Blk8Hold)
      BY <2>1, <2>3
    <3>2. CASE ~blk8_low \/ blk8_low_since = Never
      <4>1. blk8_low_since' \in {Never, 0}
        BY <3>1, <3>2 DEF Clocked
      <4>2. blk8_low_since' = 0 => blk8_low
        BY <3>1 DEF Clocked, Never
      <4>3. blk8_low => crater_run' \in 0..Blk8Hold
        BY <2>1, TimeAssumption DEF Clocked, Later, VarTypes, Never
      <4> QED  BY <2>1, <2>3, <4>1, <4>2, <4>3 DEF CraterInv, Never
    <3>3. CASE blk8_low /\ blk8_low_since # Never
      <4>1. /\ blk8_low_since' = Later(blk8_low_since, Blk8Hold)
            /\ crater_run' = Later(crater_run, Blk8Hold)
        BY <2>1, <3>1, <3>3 DEF Clocked, CraterInv
      <4>2. /\ blk8_low_since \in 0..Blk8Hold /\ crater_run \in 0..Blk8Hold
            /\ blk8_low_since <= crater_run
        BY <3>3 DEF CraterInv, VarTypes, Never
      <4>3. crater_run' # Never /\ blk8_low_since' <= crater_run'
        BY <4>1, <4>2, LaterMonotone, TimeAssumption DEF Never
      <4> QED  BY <2>1, <2>3, <4>3 DEF CraterInv
    <3> QED  BY <3>2, <3>3
  <2> QED  BY <2>2, <2>3
<1>4. CASE CraterTick \/ NetStaleTick \/ Reset
  <2>1. PICK who : RamAfterReset(who)
    BY <1>4 DEF CraterTick, NetStaleTick, Restart, Reset, PowerCycle,
                UserRestart, Panic, TaskWdtReset
  <2> QED  BY <2>1 DEF RamAfterReset, CraterInv
<1>5. CASE Stall
  <2>1. /\ UNCHANGED <<booted, netwatch_disabled, ota>> /\ up' = Now
        /\ blk8_low_since' = Later(blk8_low_since, Blk8Hold)
        /\ crater_run' = Later(crater_run, Blk8Hold)
    BY <1>5 DEF Stall, TimePasses, envVars, bootVars
  <2>2. CASE blk8_low_since = Never
    BY <2>1, <2>2 DEF Later, CraterInv
  <2>3. CASE blk8_low_since # Never
    <3>1. /\ blk8_low_since \in 0..Blk8Hold /\ crater_run \in 0..Blk8Hold
          /\ blk8_low_since <= crater_run
      BY <2>3 DEF CraterInv, VarTypes, Never
    <3>2. crater_run' # Never /\ blk8_low_since' <= crater_run'
      BY <2>1, <3>1, LaterMonotone, TimeAssumption DEF Never
    <3>3. ~(up' < Arm)
      BY <2>1, <2>3, TimeAssumption DEF CraterInv, Now, Later, VarTypes, Never
    <3> QED  BY <2>1, <2>3, <3>2, <3>3 DEF CraterInv
  <2> QED  BY <2>2, <2>3
<1>6. CASE Environment
  <2>1. UNCHANGED <<bootVars, clockVars, crater_run>>
    BY <1>6 DEF Environment, Wifi, Wedge, Heap, Ota
  <2>2. ota' # "native"
    BY <1>6 DEF Environment, Wifi, Wedge, Heap, Ota, CraterInv
  <2> QED  BY <2>1, <2>2 DEF CraterInv, bootVars, clockVars
<1>7. CASE \/ ProbeCallback \/ HttpdStamp \/ ApiTraffic \/ ApiDrop
           \/ UNCHANGED vars
  BY <1>7 DEF ProbeCallback, HttpdStamp, ApiTraffic, ApiDrop, vars, bootVars,
              clockVars, envVars, tickHist, CraterInv
<1> QED  BY <1>1, <1>2, <1>3, <1>4, <1>5, <1>6, <1>7 DEF Next, Tick

(* The step in which the heap detector restarts the device.                 *)
LEMMA CraterRebootIsCraterTick ==
  ASSUME Next, WatchdogReboot, trigger' = 4
  PROVE  CraterTick
<1>1. booted /\ ~booted' /\ origin' = "watchdog"
  BY DEF WatchdogReboot
<1>2. ~Reset
  BY <1>1 DEF Reset, PowerCycle, UserRestart, Panic, TaskWdtReset, RamAfterReset
<1>3. ~NetStaleTick
  BY DEF NetStaleTick, Restart
<1>4. ~(Stall \/ ProbeCallback \/ HttpdStamp \/ ApiTraffic \/ ApiDrop
          \/ Environment)
  BY <1>1 DEF Stall, ProbeCallback, HttpdStamp, ApiTraffic, ApiDrop,
              Environment, bootVars
<1>5. ~(BootTick \/ DisabledTick \/ OtaTick \/ WatchTick)
  BY <1>1 DEF BootTick, DisabledTick, OtaTick, WatchTick, bootVars
<1> QED  BY <1>2, <1>3, <1>4, <1>5 DEF Next, Tick

(* Where no update runs, a crater restart is the end of Blk8Hold of ticks   *)
(* that all saw a cratered heap.  (An update breaks this: the heap clock is *)
(* the one clock the interval's update branch does not restart.)            *)
THEOREM CraterRestartsAreContinuous ==
  ASSUME "ota" \notin Faults
  PROVE  Spec => CraterIsContinuous
<1> DEFINE Sound == WatchdogReboot /\ trigger' = 4
                      => blk8_low /\ crater_run # Never /\ crater_run + 1 >= Blk8Hold
<1>1. ASSUME VarTypes, CraterInv, Next
      PROVE  Sound
  <2> SUFFICES ASSUME WatchdogReboot, trigger' = 4
               PROVE  blk8_low /\ crater_run # Never /\ crater_run + 1 >= Blk8Hold
    OBVIOUS
  <2>1. CraterFires
    BY <1>1, CraterRebootIsCraterTick DEF CraterTick
  <2>2. /\ blk8_low_since # Never /\ blk8_low_since \in Never..Blk8Hold
        /\ Later(blk8_low_since, Blk8Hold) >= Blk8Hold
        /\ Blk8Hold \in Nat /\ blk8_low
    BY <1>1, <2>1, TimeAssumption DEF CraterFires, VarTypes
  <2>3. blk8_low_since + 1 >= Blk8Hold
    BY <2>2 DEF Later, Never
  <2>4. crater_run # Never /\ blk8_low_since <= crater_run
    BY <1>1, <2>2 DEF CraterInv
  <2> QED  BY <1>1, <2>2, <2>3, <2>4 DEF VarTypes, Never
<1>2. VarTypes /\ CraterInv /\ [Next]_vars => [Sound]_vars
  BY <1>1
<1>3. VarTypes /\ CraterInv /\ [Next]_vars => CraterInv'
  BY CraterStep
<1> QED  BY <1>2, <1>3, VarTypesKept, CraterInit, PTL
         DEF Spec, CraterIsContinuous

-----------------------------------------------------------------------------
(* What is safety in the two liveness properties: while the fault lasts,    *)
(* every tick brings the restart one unit closer, and nothing defers it.    *)

Before(t) == IF up < t THEN t - up ELSE 0

Cratered == Guarding /\ blk8_low

CraterRank == Before(Arm) + (Blk8Hold - blk8_low_since)

(* As long as the watchdog stands guard over a cratered heap, a countdown   *)
(* of at most Arm + Blk8Hold + 1 runs, by one at least with every tick; no  *)
(* stall, client, update over the web page or change of the network stops   *)
(* or restarts it.  A tick at zero restarts the device.                     *)
CraterCountsDown ==
  [][Cratered /\ Cratered' => /\ CraterRank \in 0..(Arm + Blk8Hold + 1)
                              /\ CraterRank' <= CraterRank
                              /\ Tick => CraterRank' < CraterRank]_vars

Freshness == Freshest(Freshest(net_ok, api_traffic), probe_ok)

Wedged ==
  /\ Guarding /\ wedged /\ wifi
  /\ api_is_connected \/ (probe_ever /\ probe_fires < ProbeCap)

HoldFrom(age, since) == IF age >= Stale - 1 THEN Hold - since ELSE Hold + 1

HoldLeft == HoldFrom(Freshness, low_since)

WedgeRank == Before(Arm) + (Stale - Freshness) + HoldLeft

(* The same for a wedged network stack that a client or the proven probe    *)
(* stands guard over: the client may leave, the heap may crater, and the    *)
(* countdown of at most Arm + Stale + Hold + 1 goes on.                     *)
WedgeCountsDown ==
  [][Wedged /\ Wedged' => /\ WedgeRank \in 0..(Arm + Stale + Hold + 1)
                          /\ WedgeRank' <= WedgeRank
                          /\ Tick => WedgeRank' < WedgeRank]_vars

(* Between two guarding states there is no reset: a tick only watches.      *)
LEMMA GuardedSteps ==
  ASSUME [Next]_vars, Guarding, Guarding'
  PROVE  /\ Tick => WatchTick
         /\ \/ WatchTick \/ Stall
            \/ /\ UNCHANGED <<up, low_since, blk8_low_since>>
               /\ wedged => /\ UNCHANGED <<net_ok, probe_ok>>
                            /\ api_traffic' \in {api_traffic, Never}
<1>1. Tick => WatchTick
  BY DEF Tick, BootTick, DisabledTick, OtaTick, CraterTick, NetStaleTick, Guarding,
         netwatch_ota_active, Restart, RamAfterReset
<1>2. ~Reset
  BY DEF Reset, PowerCycle, UserRestart, Panic, TaskWdtReset, RamAfterReset, Guarding
<1> QED  BY <1>1, <1>2 DEF Next, Environment, ProbeCallback, HttpdStamp, ApiTraffic, ApiDrop,
            clockVars, vars

LEMMA CraterStarts ==
  ASSUME VarTypes, Cratered
  PROVE  CraterRank \in 0..(Arm + Blk8Hold + 1)
  BY TimeAssumption DEF VarTypes, CraterRank, Before, Never

LEMMA CraterNears ==
  ASSUME VarTypes, [Next]_vars, Cratered, Cratered'
  PROVE  CraterRank' <= CraterRank /\ (Tick => CraterRank' < CraterRank)
<1>0. up \in 0..(Window + 1) /\ blk8_low_since \in Never..Blk8Hold
  BY DEF VarTypes
<1>1. CASE WatchTick
  <2>1. /\ up' = Now
        /\ blk8_low_since' = IF Now < Arm THEN blk8_low_since
                             ELSE Clocked(TRUE, blk8_low_since, Blk8Hold)
        /\ ~CraterFires
    BY <1>1 DEF WatchTick, TimePasses, Cratered
  <2>2. CASE Now < Arm
    <3>1. up' = up + 1 /\ up + 1 < Arm
      BY <1>0, <2>1, <2>2, TimeAssumption DEF Now, Later, Never
    <3>2. blk8_low_since' = blk8_low_since
      BY <2>1, <2>2
    <3> QED  BY <1>0, <3>1, <3>2, TimeAssumption DEF CraterRank, Before, Never
  <2>3. CASE Now >= Arm
    <3>1. blk8_low_since # Never => blk8_low_since + 1 < Blk8Hold
      BY <1>0, <2>1, <2>3, TimeAssumption DEF CraterFires, Cratered, Later, Never
    <3>2. blk8_low_since' = blk8_low_since + 1
      BY <1>0, <2>1, <2>3, <3>1, TimeAssumption DEF Clocked, Later, Never, Now
    <3>3. Before(Arm)' <= Before(Arm) /\ Before(Arm) \in Nat /\ Before(Arm)' \in Nat
      BY <1>0, <2>1, TimeAssumption DEF Before, Now, Later, Never
    <3> QED  BY <1>0, <3>2, <3>3, TimeAssumption DEF CraterRank, Never
  <2> QED  BY <1>0, <2>2, <2>3, TimeAssumption DEF Now, Later, Never
<1>2. CASE Stall
  <2>1. up' = Now /\ blk8_low_since' = Later(blk8_low_since, Blk8Hold)
    BY <1>2 DEF Stall, TimePasses
  <2>2. CraterRank' <= CraterRank
    BY <1>0, <2>1, TimeAssumption DEF CraterRank, Before, Now, Later, Never
  <2> QED  BY <1>1, <2>2, GuardedSteps DEF Cratered
<1>3. CASE UNCHANGED <<up, blk8_low_since>>
  <2>1. CraterRank' = CraterRank
    BY <1>3 DEF CraterRank, Before
  <2>2. CraterRank \in Int
    BY CraterStarts
  <2> QED  BY <1>1, <2>1, <2>2, GuardedSteps DEF Cratered
<1> QED  BY <1>1, <1>2, <1>3, GuardedSteps DEF Cratered

(* A cratered heap is never left so for want of time: the countdown runs    *)
(* in every instance, whatever the network and the other tasks do.          *)
THEOREM CratersRunOut == Spec => CraterCountsDown
<1>1. ASSUME VarTypes, [Next]_vars, Cratered, Cratered'
      PROVE  /\ CraterRank \in 0..(Arm + Blk8Hold + 1)
             /\ CraterRank' <= CraterRank
             /\ Tick => CraterRank' < CraterRank
  BY <1>1, CraterStarts, CraterNears
<1> QED  BY <1>1, VarTypesKept, PTL DEF Spec, CraterCountsDown

(* An age passes as the freshest of several stamps does.                    *)
LEMMA LaterFreshest ==
  ASSUME NEW cap \in Nat, NEW a \in Never..cap, NEW b \in Never..cap
  PROVE  Later(Freshest(a, b), cap) = Freshest(Later(a, cap), Later(b, cap))
  BY DEF Later, Freshest, Never

LEMMA FreshestFolds ==
  ASSUME NEW cap \in Nat, NEW a \in Never..cap, NEW b \in Never..cap, NEW c \in Never..cap
  PROVE  Freshest(Freshest(Freshest(Freshest(a, b), c), b), c) = Freshest(Freshest(a, b), c)
  BY DEF Freshest, Never

LEMMA FreshestWithout ==
  ASSUME NEW cap \in Nat, NEW a \in Never..cap, NEW b \in Never..cap, NEW c \in Never..cap,
         Freshest(Freshest(a, Never), c) # Never
  PROVE  Freshest(Freshest(a, b), c) <= Freshest(Freshest(a, Never), c)
  BY DEF Freshest, Never

LEMMA HoldFromFacts ==
  ASSUME NEW f \in 0..Stale, NEW g \in 0..Stale, NEW a \in Never..Hold, NEW b \in Never..Hold
  PROVE  /\ HoldFrom(f, a) \in 0..(Hold + 1)
         /\ f <= g /\ a <= b => HoldFrom(g, b) <= HoldFrom(f, a)
         /\ f < Stale - 1 => HoldFrom(g, b) <= HoldFrom(f, a)
<1>1. Hold \in Nat /\ Stale \in Nat /\ (\A x \in Never..Hold : x \in Int /\ -1 <= x /\ x <= Hold)
  BY TimeAssumption DEF Never
<1> QED  BY <1>1 DEF HoldFrom

LEMMA WedgeFresh ==
  VarTypes /\ Wedged => Freshness \in 0..Stale
<1> SUFFICES ASSUME VarTypes, Wedged PROVE Freshness \in 0..Stale
  OBVIOUS
<1>1. /\ net_ok \in Never..Stale /\ api_traffic \in Never..Stale /\ probe_ok \in Never..Stale
      /\ Stale \in Nat
      /\ api_traffic # Never \/ probe_ok # Never
  BY TimeAssumption DEF VarTypes, Wedged, api_is_connected, probe_ever
<1> QED  BY <1>1 DEF Freshness, Freshest, Never

LEMMA WedgeStarts ==
  ASSUME VarTypes, Wedged
  PROVE  WedgeRank \in 0..(Arm + Stale + Hold + 1)
<1>1. HoldLeft \in 0..(Hold + 1)
  BY WedgeFresh, HoldFromFacts DEF VarTypes, HoldLeft
<1>2. Before(Arm) \in 0..Arm
  BY TimeAssumption DEF VarTypes, Before
<1> QED  BY <1>1, <1>2, WedgeFresh, TimeAssumption DEF WedgeRank

(* The stamps age together, or one of them is lost.                         *)
LEMMA WedgeAges ==
  ASSUME VarTypes, [Next]_vars, Wedged, Wedged'
  PROVE  /\ WatchTick \/ Stall => Freshness' = Later(Freshness, Stale)
         /\ ~WatchTick /\ ~Stall => UNCHANGED <<up, low_since>> /\ Freshness <= Freshness'
<1>0. /\ net_ok \in Never..Stale /\ api_traffic \in Never..Stale /\ probe_ok \in Never..Stale
      /\ Stale \in Nat /\ Freshest(net_ok, api_traffic) \in Never..Stale
      /\ Freshness \in 0..Stale /\ Never \in Never..Stale
  <2>1. /\ net_ok \in Never..Stale /\ api_traffic \in Never..Stale /\ probe_ok \in Never..Stale
        /\ Stale \in Nat /\ Freshness \in 0..Stale
    BY WedgeFresh, TimeAssumption DEF VarTypes
  <2> QED  BY <2>1, FreshestFacts DEF Never
<1>1. wedged /\ Guarding /\ Guarding'
  BY DEF Wedged
<1>2. CASE WatchTick
  <2>1. /\ net_ok' = Later(Freshness, Stale)
        /\ api_traffic' = Later(api_traffic, Stale) /\ probe_ok' = Later(probe_ok, Stale)
    BY <1>1, <1>2 DEF WatchTick, StampMayLand, NetOkNow, Freshness, TimePasses
  <2>2. Freshness' = Later(Freshest(Freshest(Freshness, api_traffic), probe_ok), Stale)
    <3>0. Freshness \in Never..Stale
      BY <1>0 DEF Never
    <3>1. Freshest(Freshness, api_traffic) \in Never..Stale /\ Freshness \in Never..Stale
      BY <1>0, <3>0, FreshestFacts
    <3>2. Later(Freshest(Freshest(Freshness, api_traffic), probe_ok), Stale)
            = Freshest(Later(Freshest(Freshness, api_traffic), Stale), Later(probe_ok, Stale))
      BY <1>0, <3>1, LaterFreshest
    <3>3. Later(Freshest(Freshness, api_traffic), Stale)
            = Freshest(Later(Freshness, Stale), Later(api_traffic, Stale))
      BY <1>0, <3>1, LaterFreshest
    <3> QED  BY <2>1, <3>2, <3>3 DEF Freshness
  <2>3. Freshest(Freshest(Freshness, api_traffic), probe_ok) = Freshness
    BY <1>0, FreshestFolds DEF Freshness
  <2> QED  BY <1>2, <2>2, <2>3
<1>3. CASE Stall
  <2>1. /\ net_ok' = Later(net_ok, Stale)
        /\ api_traffic' = Later(api_traffic, Stale) /\ probe_ok' = Later(probe_ok, Stale)
    BY <1>3 DEF Stall, TimePasses
  <2>2. Later(Freshness, Stale)
          = Freshest(Later(Freshest(net_ok, api_traffic), Stale), Later(probe_ok, Stale))
    BY <1>0, LaterFreshest DEF Freshness
  <2>3. Later(Freshest(net_ok, api_traffic), Stale)
          = Freshest(Later(net_ok, Stale), Later(api_traffic, Stale))
    BY <1>0, LaterFreshest
  <2> QED  BY <1>3, <2>1, <2>2, <2>3 DEF Freshness
<1>4. CASE ~WatchTick /\ ~Stall
  <2>1. UNCHANGED <<up, low_since>> /\ ~Tick /\ UNCHANGED <<net_ok, probe_ok>>
    BY <1>1, <1>4, GuardedSteps
  <2>2. api_traffic' \in {api_traffic, Never}
    BY <1>1, <1>4, GuardedSteps
  <2>3. Freshness' # Never
    <3>1. api_traffic' # Never \/ probe_ok' # Never
      BY DEF Wedged, api_is_connected, probe_ever
    <3>2. CASE api_traffic' = api_traffic
      BY <1>0, <2>1, <3>2 DEF Freshness, Never
    <3>3. CASE api_traffic' = Never
      BY <1>0, <2>1, <3>1, <3>3 DEF Freshness, Freshest, Never
    <3> QED  BY <2>2, <3>2, <3>3
  <2>4. ASSUME api_traffic' = api_traffic PROVE Freshness <= Freshness'
    BY <1>0, <2>1, <2>4 DEF Freshness
  <2>5. ASSUME api_traffic' = Never PROVE Freshness <= Freshness'
    <3>1. Freshness' = Freshest(Freshest(net_ok, Never), probe_ok)
      BY <2>1, <2>5 DEF Freshness
    <3> QED  BY <1>0, <2>3, <3>1, FreshestWithout DEF Freshness
  <2> QED  BY <1>4, <2>1, <2>2, <2>4, <2>5
<1> QED  BY <1>2, <1>3, <1>4

LEMMA WedgeNears ==
  ASSUME VarTypes, [Next]_vars, Wedged, Wedged'
  PROVE  WedgeRank' <= WedgeRank /\ (Tick => WedgeRank' < WedgeRank)
<1>0. /\ up \in 0..(Window + 1) /\ low_since \in Never..Hold /\ Freshness \in 0..Stale
      /\ low_since' \in Never..Hold /\ Freshness' \in 0..Stale
  <2>1. VarTypes'
    BY NextType
  <2>2. (VarTypes /\ Wedged => Freshness \in 0..Stale)'
    BY WedgeFresh, PTL
  <2>3. Freshness \in 0..Stale
    BY WedgeFresh
  <2> QED  BY <2>1, <2>2, <2>3 DEF VarTypes
<1>1. /\ Before(Arm) \in Nat /\ Before(Arm)' \in Nat
      /\ up' = Now => Before(Arm)' <= Before(Arm) /\ (Now < Arm => Before(Arm)' < Before(Arm))
  <2>1. up' \in 0..(Window + 1)
    BY NextType DEF VarTypes
  <2>2. Before(Arm) \in Nat /\ Before(Arm)' \in Nat
    <3>1. Arm \in Nat /\ up \in Nat /\ up' \in Nat
      BY <1>0, <2>1, TimeAssumption
    <3>2. \A n \in Nat : (IF n < Arm THEN Arm - n ELSE 0) \in Nat
      BY <3>1
    <3>3. Before(Arm) \in Nat
      BY <3>1, <3>2 DEF Before
    <3>4. Before(Arm)' \in Nat
      BY <3>1, <3>2 DEF Before
    <3> QED  BY <3>3, <3>4
  <2>3. ASSUME up' = Now PROVE Before(Arm)' <= Before(Arm)
    BY <1>0, <2>3, TimeAssumption DEF Before, Now, Later, Never
  <2>4. ASSUME up' = Now, Now < Arm PROVE Before(Arm)' < Before(Arm)
    <3>1. up' = up + 1 /\ up + 1 < Arm
      BY <1>0, <2>4, TimeAssumption DEF Now, Later, Never
    <3> QED  BY <1>0, <3>1, TimeAssumption DEF Before
  <2> QED  BY <2>2, <2>3, <2>4
<1>h. HoldLeft \in Nat /\ HoldLeft' \in Nat
  <2>1. HoldFrom(Freshness, low_since) \in 0..(Hold + 1)
    BY <1>0, HoldFromFacts
  <2>2. HoldFrom(Freshness', low_since') \in 0..(Hold + 1)
    BY <1>0, HoldFromFacts
  <2> QED  BY <2>1, <2>2 DEF HoldLeft, HoldFrom
<1>2. Tick => WatchTick
  BY GuardedSteps DEF Wedged
<1>3. ASSUME Freshness <= Freshness', low_since <= low_since', up' = Now \/ up' = up
      PROVE  WedgeRank' <= WedgeRank
  <2>1. HoldLeft' <= HoldLeft
    BY <1>0, <1>3, HoldFromFacts DEF HoldLeft
  <2>2. Before(Arm)' <= Before(Arm)
    BY <1>1, <1>3 DEF Before
  <2> QED  BY <1>0, <1>1, <1>3, <1>h, <2>1, <2>2, TimeAssumption DEF WedgeRank
<1>4. CASE Stall /\ ~WatchTick
  <2>1. Freshness' = Later(Freshness, Stale) /\ low_since' = Later(low_since, Hold) /\ up' = Now
    BY <1>4, WedgeAges DEF Stall, TimePasses
  <2>2. Freshness <= Freshness' /\ low_since <= low_since'
    BY <1>0, <2>1, TimeAssumption DEF Later, Never
  <2> QED  BY <1>2, <1>3, <1>4, <2>1, <2>2
<1>5. CASE ~WatchTick /\ ~Stall
  <2>1. Freshness <= Freshness' /\ low_since <= low_since' /\ up' = up
    BY <1>0, <1>5, WedgeAges DEF Never
  <2> QED  BY <1>2, <1>3, <1>5, <2>1
<1>6. CASE WatchTick
  <2>1. /\ up' = Now /\ Freshness' = Later(Freshness, Stale)
        /\ low_since' = IF Now < Arm THEN low_since
                        ELSE Clocked(StaleNow(FALSE), low_since, Hold)
        /\ ~NetStaleFires(FALSE)
    BY <1>6, WedgeAges DEF WatchTick, TimePasses, StampMayLand, Wedged
  <2>2. CASE Now < Arm
    <3>1. low_since' = low_since /\ Freshness <= Freshness'
      BY <1>0, <2>1, <2>2, TimeAssumption DEF Later, Never
    <3>2. HoldLeft' <= HoldLeft
      <4>1. low_since <= low_since'
        BY <1>0, <3>1 DEF Never
      <4> QED  BY <1>0, <3>1, <4>1, HoldFromFacts DEF HoldLeft
    <3> QED  BY <1>0, <1>1, <2>1, <2>2, <1>h, <3>1, <3>2, TimeAssumption DEF WedgeRank
  <2>3. CASE ~(Now < Arm)
    <3>1. StaleNow(FALSE) <=> Freshness >= Stale - 1
      <4>1. NetOkNow = Later(Freshness, Stale)
        BY DEF NetOkNow, Freshness
      <4>2. NetOkNow # Never /\ (NetOkNow >= Stale <=> Freshness >= Stale - 1)
        BY <1>0, <4>1, TimeAssumption DEF Later, Never
      <4>3. ClientPresent \/ ProbePresent
        BY CountAssumption DEF Wedged, ClientPresent, ProbePresent, ProbeFiresNow
      <4> QED  BY <4>2, <4>3 DEF StaleNow, StaleFor, ArmedNow
    <3>2. CASE Freshness >= Stale - 1
      <4>1. low_since # Never => low_since + 1 < Hold
        <5>1. Now >= Arm
          BY <1>0, <2>3, TimeAssumption DEF Now, Later, Never
        <5>2. NetOkNow >= Stale /\ StaleNow(FALSE)
          BY <3>1, <3>2 DEF StaleNow, StaleFor
        <5>3. low_since # Never => ~(Later(low_since, Hold) >= Hold)
          BY <2>1, <5>1, <5>2 DEF NetStaleFires
        <5> QED  BY <1>0, <5>3, TimeAssumption DEF Later, Never
      <4>2. low_since' = low_since + 1
        <5>1. low_since' = Clocked(TRUE, low_since, Hold)
          BY <2>1, <2>3, <3>1, <3>2 DEF Clocked
        <5> QED  BY <1>0, <4>1, <5>1, TimeAssumption DEF Clocked, Later, Never
      <4>3. Freshness <= Freshness'
        BY <1>0, <2>1, TimeAssumption DEF Later, Never
      <4>4. HoldLeft' < HoldLeft
        BY <1>0, <3>2, <4>2, <4>3, TimeAssumption DEF HoldLeft, HoldFrom, Never
      <4> QED  BY <1>0, <1>1, <2>1, <1>h, <4>3, <4>4, TimeAssumption DEF WedgeRank
    <3>3. CASE ~(Freshness >= Stale - 1)
      <4>1. Freshness' = Freshness + 1
        BY <1>0, <2>1, <3>3, TimeAssumption DEF Later, Never
      <4>2. HoldLeft' <= HoldLeft
        <5>1. Freshness < Stale - 1
          BY <1>0, <3>3, TimeAssumption
        <5> QED  BY <1>0, <5>1, HoldFromFacts DEF HoldLeft
      <4> QED  BY <1>0, <1>1, <2>1, <1>h, <4>1, <4>2, TimeAssumption DEF WedgeRank
    <3> QED  BY <3>2, <3>3
  <2> QED  BY <2>2, <2>3
<1> QED  BY <1>4, <1>5, <1>6

(* A wedge is never left standing for want of time, whoever stands guard.   *)
THEOREM WedgesRunOut == Spec => WedgeCountsDown
<1>1. ASSUME VarTypes, [Next]_vars, Wedged, Wedged'
      PROVE  /\ WedgeRank \in 0..(Arm + Stale + Hold + 1)
             /\ WedgeRank' <= WedgeRank
             /\ Tick => WedgeRank' < WedgeRank
  BY <1>1, WedgeStarts, WedgeNears
<1> QED  BY <1>1, VarTypesKept, PTL DEF Spec, WedgeCountsDown
=============================================================================
