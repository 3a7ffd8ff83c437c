------------------------------ MODULE Netwatch ------------------------------
(***************************************************************************)
(* The network self-recovery watchdog: the 1 s `netwatch' interval of      *)
(* packages/core.yaml, its breaker state in RTC memory (netwatch_rtc.h),   *)
(* the liveness probe that runs on the lwip tcpip thread                   *)
(* (netwatch_probe.cpp) and the Home Assistant traffic it folds in         *)
(* (api_traffic.cpp).                                                      *)
(*                                                                         *)
(* Timestamps are kept as ages: Never for "not set" (0 in the code), then  *)
(* the time since the stamp, saturating at the largest value the code can  *)
(* tell apart.  One unit of time is one period of the interval.            *)
(***************************************************************************)
EXTENDS Integers

CONSTANTS
  Arm,            (* 120 s: no detector runs before this uptime.            *)
  Window,         (* 300 s: an uptime past this clears the loop counters.   *)
  Stale,          (* STALE_MS, 90 s without a network stamp.                *)
  Hold,           (* HOLD_MS, 8 s of sustained staleness.                   *)
  Blk8Hold,       (* WD_BLK8_HOLD_MS, 60 s of a cratered heap.              *)
  ProbeEvery,     (* 5 s between two probe posts.                           *)
  MaxRecov,       (* K = 3 recoveries trip the breaker.                     *)
  TwdtTrip,       (* 5 task-WDT reboots trip it too.                        *)
  TwdtMax,        (* 250, where the task-WDT counter saturates.             *)
  ProbeCap,       (* 6 probe-only reboots disarm the probe.                 *)
  ProbeMax,       (* 250, where the probe-only counter saturates.           *)
  LifeMax,        (* 0xFFFFFFFF, where the lifetime counter saturates.      *)
  HeapLevels,     (* the free-heap readings that occur.                     *)
  Garbage,        (* what a byte of RTC memory may hold after a power loss. *)
  Faults          (* the classes of environment events that occur.          *)

FaultClasses == {"stall", "wedge", "crater", "wifi", "taskwdt", "panic",
                 "restart", "power", "ota", "webota"}

ASSUME TimeAssumption ==
  /\ Arm \in Nat \ {0} /\ Window \in Nat \ {0}
  /\ Stale \in Nat \ {0} /\ Hold \in Nat \ {0}
  /\ Blk8Hold \in Nat \ {0} /\ ProbeEvery \in Nat \ {0}
  /\ Arm <= Window
  /\ ProbeEvery < Stale

ASSUME CountAssumption ==
  /\ MaxRecov \in Nat \ {0} /\ TwdtTrip \in Nat \ {0}
  /\ ProbeCap \in Nat \ {0} /\ LifeMax \in Nat \ {0}
  /\ TwdtMax \in Nat /\ ProbeMax \in Nat
  /\ TwdtTrip <= TwdtMax /\ ProbeCap <= ProbeMax

ASSUME DataAssumption ==
  /\ HeapLevels \subseteq Nat /\ HeapLevels # {}
  /\ Garbage \subseteq Nat /\ Garbage # {}
  /\ Faults \subseteq FaultClasses

VARIABLES
  (* RTC slow memory: survives every reset that does not cut its power.     *)
  magic, recov, marker, twdt, trigger, probe_fires, lifetime_reboots,
  last_free, wedge_free,
  (* RAM of the running image.                                              *)
  origin,         (* who caused the boot we are in                          *)
  booted,         (* the first tick of the interval has run                 *)
  netwatch_disabled,
  up, net_ok, low_since, blk8_low_since,
  since_probe, probe_posted, probe_ok,
  api_traffic,    (* age of the newest client's traffic, Never: no client   *)
  ota,            (* the update in flight                                   *)
  (* The environment the interval samples.                                  *)
  wifi, wedged, blk8_low, heap,
  (* History, read by the properties only.                                  *)
  storm,          (* watchdog reboots in a row, each within Window          *)
  flaps,          (* probe-only reboots since a client or a power cycle     *)
  healthy,        (* ticks in a row over a tcpip thread that ran            *)
  crater_run      (* age of the current run of ticks that all saw a crater  *)

rtcVars == <<magic, recov, marker, twdt, trigger, probe_fires,
             lifetime_reboots, last_free, wedge_free>>
bootVars == <<origin, booted, netwatch_disabled>>
clockVars == <<up, net_ok, low_since, blk8_low_since, since_probe,
               probe_posted, probe_ok, api_traffic>>
envVars == <<ota, wifi, wedged, blk8_low, heap>>
loopHist == <<storm, flaps>>
tickHist == <<healthy, crater_run>>
vars == <<rtcVars, bootVars, clockVars, envVars, loopHist, tickHist>>

Never == -1

Origins == {"power", "brownout", "user", "watchdog", "taskwdt", "panic"}

-----------------------------------------------------------------------------
(* Ages.                                                                    *)

Later(age, cap) ==
  IF age = Never THEN Never ELSE IF age < cap THEN age + 1 ELSE cap

(* The advance-only fold of one liveness stamp into another.                *)
Freshest(a, b) ==
  IF a = Never THEN b ELSE IF b = Never \/ a <= b THEN a ELSE b

(* The counters saturate.                                                   *)
CountedForEver(n, max) == n + 1                                     \* mutant

Counted(n, max) == IF n < max THEN n + 1 ELSE n

(* A condition's own clock: off, started by this tick, or one unit older.   *)
Clocked(cond, age, cap) ==
  IF ~cond THEN Never ELSE IF age = Never THEN 0 ELSE Later(age, cap)

VarTypes ==
  /\ magic \in BOOLEAN /\ marker \in BOOLEAN
  /\ recov \in Nat /\ twdt \in Nat /\ probe_fires \in Nat
  /\ lifetime_reboots \in 0..LifeMax
  /\ last_free \in Nat /\ wedge_free \in Nat
  /\ trigger \in {0, 2, 3, 4}
  /\ origin \in Origins
  /\ booted \in BOOLEAN /\ netwatch_disabled \in BOOLEAN
  /\ up \in 0..(Window + 1)
  /\ net_ok \in Never..Stale /\ probe_ok \in Never..Stale
  /\ api_traffic \in Never..Stale
  /\ low_since \in Never..Hold
  /\ blk8_low_since \in Never..Blk8Hold
  /\ since_probe \in 0..ProbeEvery
  /\ probe_posted \in BOOLEAN
  /\ ota \in {"none", "native", "web"}
  /\ wifi \in BOOLEAN /\ wedged \in BOOLEAN /\ blk8_low \in BOOLEAN
  /\ heap \in HeapLevels
  /\ storm \in Nat /\ flaps \in Nat
  /\ healthy \in 0..ProbeEvery
  /\ crater_run \in Never..Blk8Hold

(* Types, and the widths of the counters in RTC memory: garbage until the   *)
(* magic number is there, then nothing that would not fit its byte.  The    *)
(* task-WDT count goes on through every reset of a loop that has long       *)
(* tripped the breaker: one that wrapped would start the loop over.         *)
TypeOK ==
  /\ VarTypes
  /\ magic => recov <= MaxRecov /\ twdt <= TwdtMax /\ probe_fires <= ProbeMax

-----------------------------------------------------------------------------
(* Resets.  RAM starts over, RTC memory keeps what it held.                 *)

RamAfterReset(who) ==
  /\ origin' = who /\ booted' = FALSE /\ netwatch_disabled' = FALSE
  /\ up' = 0 /\ net_ok' = Never /\ low_since' = Never /\ blk8_low_since' = Never
  /\ since_probe' = 0 /\ probe_posted' = FALSE /\ probe_ok' = Never
  /\ api_traffic' = Never /\ ota' = "none"
  /\ wifi' = FALSE /\ wedged' = FALSE /\ blk8_low' = FALSE
  /\ heap' \in HeapLevels
  /\ healthy' = 0 /\ crater_run' = Never

(* Power comes back: RTC memory is garbage, unless the supply only dipped.  *)
PowerCycle ==
  /\ "power" \in Faults
  /\ \E who \in {"power", "brownout"} : RamAfterReset(who)
  /\ \/ UNCHANGED rtcVars
     \/ /\ magic' = FALSE
        /\ marker' \in BOOLEAN
        /\ recov' \in Garbage /\ twdt' \in Garbage /\ probe_fires' \in Garbage
        /\ UNCHANGED <<trigger, lifetime_reboots, last_free, wedge_free>>
  /\ storm' = 0 /\ flaps' = 0

(* An OTA that succeeded, the reset button of the web page, Wi-Fi reset...  *)
UserRestart ==
  /\ "restart" \in Faults
  /\ RamAfterReset("user")
  /\ storm' = 0
  /\ UNCHANGED <<rtcVars, flaps>>

Panic ==
  /\ "panic" \in Faults
  /\ RamAfterReset("panic")
  /\ storm' = 0
  /\ UNCHANGED <<rtcVars, flaps>>

(* loopTask stalls until the task watchdog of the chip resets it.           *)
TaskWdtReset ==
  /\ "taskwdt" \in Faults
  /\ RamAfterReset("taskwdt")
  /\ storm' = IF up > Window THEN 0 ELSE storm
  /\ UNCHANGED <<rtcVars, flaps>>

Init ==
  /\ magic = FALSE
  /\ recov \in Garbage /\ twdt \in Garbage /\ probe_fires \in Garbage
  /\ marker \in BOOLEAN
  /\ trigger = 0 /\ lifetime_reboots = 0 /\ last_free = 0 /\ wedge_free = 0
  /\ origin = "power" /\ booted = FALSE /\ netwatch_disabled = FALSE
  /\ up = 0 /\ net_ok = Never /\ low_since = Never /\ blk8_low_since = Never
  /\ since_probe = 0 /\ probe_posted = FALSE /\ probe_ok = Never
  /\ api_traffic = Never /\ ota = "none"
  /\ wifi = FALSE /\ wedged = FALSE /\ blk8_low = FALSE /\ heap \in HeapLevels
  /\ storm = 0 /\ flaps = 0
  /\ healthy = 0 /\ crater_run = Never

-----------------------------------------------------------------------------
(* The interval.  Every tick first lets one unit of time pass; a tcpip      *)
(* thread that runs has by then served a probe posted before.               *)

Now == Later(up, Window + 1)

ProbeServed == probe_posted => wedged

TimePasses ==
  /\ up' = Now
  /\ probe_ok' = Later(probe_ok, Stale)
  /\ api_traffic' = Later(api_traffic, Stale)
  /\ UNCHANGED envVars

ObserveTick ==
  /\ healthy' = IF wedged THEN 0
                ELSE IF healthy < ProbeEvery THEN healthy + 1 ELSE ProbeEvery
  /\ crater_run' = Clocked(blk8_low, crater_run, Blk8Hold)

(* Time the loop spends in something else: the interval misses its turn.    *)
Stall ==
  /\ "stall" \in Faults
  /\ ProbeServed
  /\ TimePasses
  /\ net_ok' = Later(net_ok, Stale)
  /\ low_since' = Later(low_since, Hold)
  /\ blk8_low_since' = Later(blk8_low_since, Blk8Hold)
  /\ since_probe' = Later(since_probe, ProbeEvery)
  /\ healthy' = 0
  /\ crater_run' = Later(crater_run, Blk8Hold)
  /\ UNCHANGED <<rtcVars, bootVars, probe_posted, loopHist>>

PowerOnOnly == origin = "power"                                     \* mutant

PowerEvent == origin \in {"power", "brownout"}

(* The first tick: the breaker decides from what RTC memory kept.           *)
BootTick ==
  /\ ~booted
  /\ ProbeServed
  /\ booted' = TRUE /\ magic' = TRUE /\ marker' = FALSE
  /\ IF ~magic \/ PowerEvent
     THEN /\ recov' = 0 /\ twdt' = 0 /\ trigger' = 0 /\ probe_fires' = 0
          /\ lifetime_reboots' = 0 /\ last_free' = 0 /\ wedge_free' = 0
     ELSE /\ recov' = IF marker \/ origin = "taskwdt" THEN recov ELSE 0
          /\ twdt' = IF origin = "taskwdt" THEN Counted(twdt, TwdtMax) ELSE twdt
          /\ wedge_free' = IF origin = "taskwdt" THEN last_free ELSE wedge_free
          /\ UNCHANGED <<trigger, probe_fires, lifetime_reboots, last_free>>
  /\ netwatch_disabled' = (twdt' >= TwdtTrip \/ recov' >= MaxRecov)
  /\ TimePasses
  /\ net_ok' = Later(net_ok, Stale)
  /\ since_probe' = Later(since_probe, ProbeEvery)
  /\ ObserveTick
  /\ UNCHANGED <<origin, low_since, blk8_low_since, probe_posted, loopHist>>

(* A tripped breaker: the interval does nothing until the next boot.        *)
DisabledTick ==
  /\ booted /\ netwatch_disabled
  /\ ProbeServed
  /\ TimePasses
  /\ net_ok' = Later(net_ok, Stale)
  /\ since_probe' = Later(since_probe, ProbeEvery)
  /\ ObserveTick
  /\ UNCHANGED <<rtcVars, bootVars, low_since, blk8_low_since, probe_posted,
                 loopHist>>

netwatch_ota_active == ota = "native"

(* An update in flight: the network clocks restart, the heap clock runs on. *)
OtaTick ==
  /\ booted /\ ~netwatch_disabled /\ netwatch_ota_active
  /\ ProbeServed
  /\ TimePasses
  /\ net_ok' = 0
  /\ low_since' = Never
  /\ blk8_low_since' = Later(blk8_low_since, Blk8Hold)
  /\ since_probe' = Later(since_probe, ProbeEvery)
  /\ ObserveTick
  /\ UNCHANGED <<rtcVars, bootVars, probe_posted, loopHist>>

(* What every watching tick computes before it reaches a detector.          *)
RecovForgotten == IF Now > Arm THEN 0 ELSE recov                    \* mutant

RecovNow == IF Now > Window THEN 0 ELSE recov
TwdtNow == IF Now > Window THEN 0 ELSE twdt
api_is_connected == api_traffic # Never
ProbeFiresNow == IF api_is_connected THEN 0 ELSE probe_fires
NetOkUnprobed == Later(Freshest(net_ok, api_traffic), Stale)        \* mutant
NetOkByPresence == IF api_is_connected THEN 0                       \* mutant
                   ELSE Later(Freshest(net_ok, probe_ok), Stale)

NetOkNow == Later(Freshest(Freshest(net_ok, api_traffic), probe_ok), Stale)
probe_ever == probe_ok # Never

(* A stamp of another task may land after the tick sampled its uptime: its  *)
(* age is then negative, and counts as fresh.                               *)
StampMayLand == IF wedged THEN {FALSE} ELSE BOOLEAN
StaleFor(landed) == IF landed THEN 0 ELSE NetOkNow

ClientPresent == wifi /\ api_is_connected
ProbeUncapped == wifi /\ probe_ever                                 \* mutant

ProbePresent == wifi /\ probe_ever /\ ProbeFiresNow < ProbeCap
ArmedNow(landed) ==
  (ClientPresent \/ ProbePresent) /\ (landed \/ NetOkNow # Never)

CraterOnOldClock ==                                                 \* mutant
  /\ Now >= Arm
  /\ blk8_low_since # Never
  /\ Later(blk8_low_since, Blk8Hold) >= Blk8Hold

CraterForClients ==                                                 \* mutant
  /\ Now >= Arm /\ ClientPresent
  /\ blk8_low
  /\ blk8_low_since # Never
  /\ Later(blk8_low_since, Blk8Hold) >= Blk8Hold

CraterFires ==
  /\ Now >= Arm
  /\ blk8_low
  /\ blk8_low_since # Never
  /\ Later(blk8_low_since, Blk8Hold) >= Blk8Hold

StaleNow(landed) == ArmedNow(landed) /\ StaleFor(landed) >= Stale

NetStaleFires(landed) ==
  /\ Now >= Arm
  /\ StaleNow(landed)
  /\ low_since # Never
  /\ Later(low_since, Hold) >= Hold

Watching == booted /\ ~netwatch_disabled /\ ~netwatch_ota_active /\ ProbeServed

(* A tick that watches and finds nothing to restart for.                    *)
WatchTick ==
  /\ Watching
  /\ ~CraterFires
  /\ \E landed \in StampMayLand :
       /\ ~NetStaleFires(landed)
       /\ net_ok' = IF landed THEN 0 ELSE NetOkNow
       /\ low_since' = IF Now < Arm THEN low_since
                       ELSE Clocked(StaleNow(landed), low_since, Hold)
  /\ blk8_low_since' = IF Now < Arm THEN blk8_low_since
                       ELSE Clocked(blk8_low, blk8_low_since, Blk8Hold)
  /\ recov' = RecovNow /\ twdt' = TwdtNow /\ probe_fires' = ProbeFiresNow
  /\ last_free' = heap
  /\ LET due == Later(since_probe, ProbeEvery) >= ProbeEvery
     IN  /\ since_probe' = IF due THEN 0 ELSE Later(since_probe, ProbeEvery)
         /\ \/ probe_posted' = (probe_posted \/ due)
            \/ wedged /\ UNCHANGED probe_posted    \* the mailbox was full
  /\ TimePasses
  /\ ObserveTick
  /\ UNCHANGED <<magic, marker, trigger, lifetime_reboots, wedge_free,
                 bootVars, loopHist>>

(* Breaker state goes to RTC memory first, then esp_restart.                *)
Restart(cause) ==
  /\ trigger' = cause
  /\ recov' = RecovNow + 1
  /\ marker' = TRUE
  /\ lifetime_reboots' = Counted(lifetime_reboots, LifeMax)
  /\ twdt' = TwdtNow /\ last_free' = heap
  /\ RamAfterReset("watchdog")
  /\ storm' = IF Now > Window THEN 1 ELSE storm + 1
  /\ UNCHANGED <<magic, wedge_free>>

CraterTick ==
  /\ Watching
  /\ CraterFires
  /\ Restart(4)
  /\ probe_fires' = ProbeFiresNow
  /\ UNCHANGED flaps

NetStaleTick ==
  /\ Watching
  /\ ~CraterFires
  /\ \E landed \in StampMayLand : NetStaleFires(landed)
  /\ Restart(IF ClientPresent THEN 2 ELSE 3)
  /\ IF ClientPresent
     THEN probe_fires' = ProbeFiresNow /\ UNCHANGED flaps
     ELSE /\ probe_fires' = Counted(ProbeFiresNow, ProbeMax)
          /\ flaps' = flaps + 1

Tick == BootTick \/ DisabledTick \/ OtaTick \/ WatchTick
          \/ CraterTick \/ NetStaleTick

-----------------------------------------------------------------------------
(* The other tasks: the tcpip thread, the httpd worker and the API server.  *)

(* probe_cb, on the tcpip thread.                                           *)
ProbeCallback ==
  /\ probe_posted /\ ~wedged
  /\ probe_ok' = 0 /\ probe_posted' = FALSE
  /\ UNCHANGED <<rtcVars, bootVars, up, net_ok, low_since, blk8_low_since,
                 since_probe, api_traffic, envVars, loopHist, tickHist>>

(* JsonSlotGet::handleRequest, on the httpd worker.                         *)
HttpdStamp ==
  /\ ~wedged
  /\ net_ok' = 0
  /\ UNCHANGED <<rtcVars, bootVars, up, low_since, blk8_low_since, since_probe,
                 probe_posted, probe_ok, api_traffic, envVars, loopHist,
                 tickHist>>

(* A client connects, or a connected one is heard from.                     *)
ApiTraffic ==
  /\ wifi /\ ~wedged
  /\ api_traffic' = 0
  /\ flaps' = 0
  /\ UNCHANGED <<rtcVars, bootVars, up, net_ok, low_since, blk8_low_since,
                 since_probe, probe_posted, probe_ok, envVars, storm, tickHist>>

ApiDrop ==
  /\ api_is_connected
  /\ api_traffic' = Never
  /\ UNCHANGED <<rtcVars, bootVars, up, net_ok, low_since, blk8_low_since,
                 since_probe, probe_posted, probe_ok, envVars, loopHist,
                 tickHist>>

-----------------------------------------------------------------------------
(* The environment.                                                         *)

Wifi ==
  /\ "wifi" \in Faults
  /\ wifi' = ~wifi
  /\ UNCHANGED <<ota, wedged, blk8_low, heap, healthy, crater_run>>

Wedge ==
  /\ "wedge" \in Faults
  /\ wedged' = ~wedged
  /\ healthy' = 0
  /\ UNCHANGED <<ota, wifi, blk8_low, heap, crater_run>>

Heap ==
  /\ blk8_low' \in (IF "crater" \in Faults THEN BOOLEAN ELSE {FALSE})
  /\ heap' \in HeapLevels
  /\ <<blk8_low, heap>>' # <<blk8_low, heap>>
  /\ UNCHANGED <<ota, wifi, wedged, healthy, crater_run>>

(* on_begin, then on_error or on_end of an update over the ESPHome port;    *)
(* an update over the web page's /update has no such hooks.                 *)
Ota ==
  /\ IF ota # "none"
     THEN ota' = "none"
     ELSE \/ "ota" \in Faults /\ ota' = "native"
          \/ "webota" \in Faults /\ ota' = "web"
  /\ UNCHANGED <<wifi, wedged, blk8_low, heap, healthy, crater_run>>

Environment ==
  /\ Wifi \/ Wedge \/ Heap \/ Ota
  /\ UNCHANGED <<rtcVars, bootVars, clockVars, loopHist>>

Reset == PowerCycle \/ UserRestart \/ Panic \/ TaskWdtReset

Next == Tick \/ Stall \/ ProbeCallback \/ HttpdStamp \/ ApiTraffic \/ ApiDrop
          \/ Environment \/ Reset

Spec == Init /\ [][Next]_vars

(* loopTask runs its interval every second whatever the other tasks do      *)
(* (strong fairness: ProbeServed only bounds the latency of a callback, it  *)
(* is nothing the loop waits for); the tcpip thread, unless it is wedged,   *)
(* serves its mailbox.                                                      *)
FairSpec == Spec /\ SF_vars(Tick) /\ WF_vars(ProbeCallback)

-----------------------------------------------------------------------------
(* Properties.                                                              *)

WatchdogReboot == booted /\ ~booted' /\ origin' = "watchdog"

(* The K = 3 breaker: however wedges, craters and task-WDT resets           *)
(* interleave, no more than MaxRecov watchdog reboots follow one another    *)
(* with less than Window of uptime each.                                    *)
StormBounded == storm <= MaxRecov

(* The flap cap: a device nobody connects to is rebooted on the word of the *)
(* probe alone at most ProbeCap times between two power cycles, however far *)
(* apart the reboots are.                                                   *)
FlapsBounded == flaps <= ProbeCap

(* Unplugging the device is the user's fix: after a power event the first   *)
(* tick leaves the watchdog running, whatever RTC memory held.              *)
PowerCycleRearms == booted /\ origin \in {"power", "brownout"} => ~netwatch_disabled

(* The lifetime counter in /wd/info.json never lags behind the breaker's:   *)
(* it forgets nothing but at a power cycle.                                 *)
LifetimeCountsAll == magic => recov <= lifetime_reboots \/ lifetime_reboots = LifeMax

(* No false alarm: once the tcpip thread has run, and the loop has ticked,  *)
(* for one probe period, a quiet network restarts nothing.                  *)
NoRebootWhileHealthy ==
  [][WatchdogReboot /\ trigger' \in {2, 3} => healthy < ProbeEvery]_vars

(* A crater restart needs Blk8Hold of ticks that all saw the heap below     *)
(* the floor: "a low_since timestamp that ANY sample >= floor resets".      *)
CraterIsContinuous ==
  [][WatchdogReboot /\ trigger' = 4 => /\ blk8_low /\ crater_run # Never
                                       /\ crater_run + 1 >= Blk8Hold]_vars

(* The watchdog never cuts an update short.                                 *)
OtaNotInterrupted == [][WatchdogReboot => ota = "none"]_vars

Guarding == booted /\ ~netwatch_disabled /\ ~netwatch_ota_active

(* A wedged network stack is not left wedged while a client or the proven   *)
(* probe stands guard over it.                                              *)
WedgeIsCaught ==
  []<>~(/\ Guarding /\ wedged /\ wifi
        /\ api_is_connected \/ (probe_ever /\ probe_fires < ProbeCap))

(* A heap that stays cratered is not left so, clients or no clients.        *)
CraterIsCaught == []<>~(Guarding /\ blk8_low)
=============================================================================
