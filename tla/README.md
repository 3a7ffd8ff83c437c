# Winterdash in TLA+

Winterdash is ESPHome firmware for a small ESP32 board that listens to the Bluetooth
advertisements of a Victron battery charger, shows its state on a screen and a web page,
and reports it to Home Assistant. This directory holds TLA+ models of the parts whose
correctness depends on the order of events, TLC configurations that check them on small
instances, and TLAPS proofs that hold for every value of the constants.

Contents: [Running](#running) · [The system](#the-system) · [Plan](#plan) ·
[Netwatch](#netwatch-the-network-self-recovery-watchdog) ·
[Gallery](#gallery-the-custom-banner-store) · [Charger and log](#charger-log-and-page) ·
[Event streams](#event-streams) · [Mailboxes](#mailboxes) · [Scan](#the-setup-scan) ·
[Owners](#owners-of-the-stream) · [Display](#display-and-buttons) ·
[Disagreements](#disagreements-with-the-documentation) · [Not modelled](#not-modelled)

Paths below are relative to the repository's `esphome/` unless they start with `web/` or
`.github/`. Every definition of a model names its lines in `PROJECT.json`, "map".

## Running

    tlc -workers 2 -config Charger.cfg MCCharger.tla      # one run
    tlapm ChargerProofs.tla                               # one module's proofs

| module | what it is | run by |
|---|---|---|
| `Netwatch.tla` | the watchdog interval, its breaker in RTC memory, the probe | `MCNetwatch.tla` |
| `NetwatchProofs.tla` | its theorems | |
| `Gallery.tla` | uploads, flash, intents, consumer, renderers | `MCGallery.tla` |
| `BannerStore.tla` | the abstract store that `Gallery` implements | (a property of `GallerySaves.cfg`) |
| `GalleryProofs.tla` | its theorems | |
| `ChargeLog.tla` | the ring of charge events and its JSON slot | through the next two |
| `Charger.tla` | producers, data mode and compute tick (composes `ChargeLog`) | `MCCharger.tla` |
| `ChargerProofs.tla` | its theorems | |
| `LogPage.tla` | a dashboard page that follows the log (composes `ChargeLog`) | `MCViews.tla` |
| `Owners.tla` | the dashboards that compete for one event stream | `MCViews.tla` |
| `DashboardProofs.tla` | the theorems of these two, and of `MCViews` as a whole | |
| `Display.tla` | the T-Display's screens, overlays, menu and buttons; the setup access point | `MCViews.tla` |
| `DisplayProofs.tla` | its theorems | |
| `EventSource.tla` | the event streams: sessions, buffers, queues, teardown | `MCWeb.tla` |
| `EventSourceProofs.tla` | its theorems | |
| `Mailboxes.tla` | bindkey, settings and JSON documents handed over without a lock | `MCWeb.tla` |
| `MailboxesProofs.tla` | its theorems | |
| `BleScan.tla` | the table of devices behind the pairing page | `MCWeb.tla` |
| `WebProofs.tla` | its theorems, and those of `MCWeb` as a whole | |

`MCWeb` and `MCViews` put three parts each into one run. The parts share no variable in
the code either, so nothing is gained by interleaving them: a variable `part` says which
one moves in a behaviour, the others keep their initial state, and the properties of each
part are checked in the full state space of that part. `WebImplementsItsParts` and
`ViewsImplementTheirParts` prove that the composition is what it should be: `WebSpec =>
StreamSpec /\ MailSpec /\ ScanSpec`, and the same for the views, so every theorem about
a part is one about the whole. `WebTypesAreKept` and `ViewTypesAreKept` use it for the
type invariants that the two runs check.

## The system

**Tasks.** `loopTask` runs every ESPHome interval, `on_value` handler, BLE callback and
the screen, one lambda after the other. The **httpd worker** serves one request at a
time (`esp_http_server` has one task) and may run between any two instructions of
`loopTask`. The **tcpip thread** serves posted callbacks and sends. Browsers and Home
Assistant come and go. What survives a reset: NVS globals (written about once a minute),
RTC slow memory, the flash partition `storage`.

| component | state | operations | interacts through |
|---|---|---|---|
| **Netwatch** (`packages/core.yaml` 883-1085, `netwatch_rtc.h`, `netwatch_probe.*`, `api_traffic.*`) | RTC breaker counters, `millis()` stamps, `netwatch_disabled`, `netwatch_ota_active` | 1 s interval, probe post and callback, OTA hooks | stamps from httpd and tcpip threads; reboots the chip |
| **Gallery** (`web_dashboard.h` 119-940, `core.yaml` 1295-1379, `display_*`) | flash slots, intent words, the display's and the screensaver's mapping, `bnr_sel`, `bnr_fav`, preset | four uploads, commit, select, delete, favorite, consume, draw, flush | volatile words between httpd and loopTask; pixels mapped from flash |
| **Status computation** (`core.yaml` 572-871, `status_compute.h`) | `bat_present`, `nl_since`, mode, offline latch, published mirrors | the 250 ms tick | reads the canonical sensors, writes mirrors, logs events |
| **Producers** (`packages/victron_ble.yaml`, `packages/mock_data.yaml`) | throttles, publish-on-change statics, the simulator's script | a packet, a simulator interval | `demo_active`, `mode_epoch`, `last_packet_ms` |
| **Charge log** (`charge_log.h`, `core.yaml` 433-449) | ring, dedup label, total count | note, reset, rebuild | its JSON slot |
| **Dashboard page** (`web/dashboard.html`) | `lastLc`, `M.clog`, open cards | 8 s poll, fetch, open and close | HTTP |
| **Mailboxes** (`web_dashboard.h` 275-300, 940-1037; `core.yaml` 578-583; `display_*`) | bindkey buffer and flag, config fields and flag, double-buffered JSON slots, owner epoch | post, drain, publish, read, claim | atomics between httpd and loopTask |
| **BLE setup scan** (`ble_scan.h`, `core.yaml` 132-175, 453-459) | device table (24), scan window | add with eviction, prune, clear | `slot_scan` |
| **Onboarding** (`wifi_reset.h`, `components/captive_portal`, `core.yaml` 1258-1288) | `ap_setup_shown`, `wifi_reset_pending`, `post_onboard_reboot_at` | forget Wi-Fi, access point up and down, delayed reboot | NVS, Wi-Fi driver, DNS server |
| **HTTP server** (`components/web_server_idf`) | event-stream sessions, their deferred queues and buffers | accept with eviction, send, retry, drop, multipart upload | sockets; called by every handler |
| **Display, inputs, LEDs** (`packages/display_*`, `input_*`, `led_*`, `backlight_model.h`, `wd_font_buf.h`) | page, overlay, splash, screensaver, dim level | draw 500 ms, housekeeping 500 ms, buttons 200 ms | compute's outputs |
| **Telemetry** (`core.yaml` 1092-1211) | none of its own | 15 s and 6 s JSON builds | the slots |
| **Boards, presets, tools, site, release scripts, generated headers** | configuration and data | build time | |

**What is hard, and what makes each part correct.**

- *Netwatch*: resets of six kinds interleave while three counters in RTC memory are kept
  or cleared from a marker and a reset reason; stamps land in the middle of a tick. It
  must reboot a wedged device, never a healthy one, and never for ever.
- *Gallery*: browsers send the requests of a save in any order, several at once, or stop
  half way; the display reads flash that the httpd worker erases. No slot may be erased
  that is committed or on screen, nothing incomplete may be committed, and the screen
  must follow the selection.
- *Compute and producers*: state made in one data mode outlives the change to the other,
  in a sensor, a static, a throttle or a log. Nothing of one mode may be shown or logged
  in the other, and log and status word must agree.
- *Log and page*: the page learns of a new log only from a count that is sampled twice
  on its way. The slot must be the true end of the history, and an open card must catch
  up.
- *Mailboxes*: a second post while the first is drained must not be lost, halved or
  wiped; a document that is read must be one that was published whole.
- *BLE scan*: the table is bounded, and a charger that is on the air is on the list
  whatever else is.
- *Onboarding*: the setup page comes and goes with the access point and is not loaded
  once it has been deleted.
- *HTTP server*: the vector of sessions is written by one task while another iterates
  over it and deletes from it; viewers are capped by closes that happen later; a dead
  client is dropped after bounded tries; what a viewer got last of an entity is its
  newest state.
- *Owners*: of the pages in view the one that claimed last keeps the stream, although
  the count it compares with is seconds old.
- *Display*: a fault always reaches the screen; no press acts on a menu that is not in
  view; a system action is never fired by a stale hold.

## Plan

Ordered by what would hurt most; all of these are written, checked and proved about.

1. **Netwatch**: the one part that restarts the chip.
2. **Gallery**, **BannerStore**: the one part with concurrent writers and raw flash.
3. **ChargeLog**, **LogPage**, **Charger**: what the device tells its users.
4. **EventSource**, **Mailboxes**, **BleScan**: what lies between httpd and loopTask.
5. **Owners**, **Display**: what the users do with it.

Left, in this order:

- the CYD's page logic and touch input, as a second instance of `Display` with its own
  input module;
- `connDead`, the page's reconnect watchdog, composed with `Owners` and `EventSource`;
- credentials, the captive portal and its DNS server as an `Onboarding` module around
  the access point that `Display` has.

## Netwatch: the network self-recovery watchdog

State and actions of `Netwatch.tla` and the code they stand for:

| model | code |
|---|---|
| `magic recov marker twdt trigger probe_fires lifetime_reboots last_free wedge_free` | the `netwatch_rtc_*` fields, RTC slow memory |
| `booted`, `netwatch_disabled` | the static `first` of the interval, the global |
| `up net_ok low_since blk8_low_since since_probe probe_posted probe_ok api_traffic` | the `millis()` stamps, kept as ages |
| `BootTick` | the first tick: the boot breaker |
| `DisabledTick`, `OtaTick` | the two early returns |
| `WatchTick`, `CraterTick`, `NetStaleTick` | a full tick that ends quietly, in the crater detector, in the network detector |
| `ProbeCallback` | `probe_cb` on the tcpip thread |
| `HttpdStamp` | the stamp of `JsonSlotGet::handleRequest` on the httpd worker |
| `ApiTraffic`, `ApiDrop` | what `api_last_traffic_ms` and `api_is_connected` see |
| `Ota` | the hooks of the `esphome` OTA platform, and uploads to `/update` that have none |
| `PowerCycle UserRestart Panic TaskWdtReset Stall Wifi Wedge Heap` | the environment |

**Time.** A tick is one unit. A stamp is the time since it was set, `Never` when it is 0
in the code, and saturates at the largest value the code can tell apart (`Stale`,
`Hold`, `Blk8Hold`, `ProbeEvery`, `Window + 1`). This keeps the state space finite
without a bound on the number of ticks. The wrap of `millis()` after 49.7 days is not
modelled: the code's differences are wrap-safe but for the maximum in
`api_last_traffic_ms`.

**Races.** `StampMayLand` is the stamp of another task between the sample of `up` at the
start of a tick and the read of `g_net_ok_ms` near its end: the clamp in the code exists
for it. A probe that is posted stays posted while the stack is wedged, and a full
mailbox loses it.

**Bounds.** `Arm = 2`, `Window = 5..6`, `Stale = 3..4`, `Hold = 1`, `Blk8Hold = 2`,
`ProbeEvery = 1..2`, `MaxRecov = 2`, `TwdtTrip = 2`, `ProbeCap = 2`, and saturations
`TwdtMax`, `ProbeMax`, `LifeMax` of 1 or 2. The ratios keep every order of the code's
times that matters: `Arm < Window`, an armed boot can reach a wedge restart and a crater
restart within `Window`, `ProbeEvery < Stale`. RTC memory after a power loss holds
either a value below every threshold or one above them all (`Garbage`). The theorems
hold for all values.

| run | environment | checks | states |
|---|---|---|---|
| `NetwatchNet` | craters, wedges, Wi-Fi drops, power losses; fair | `FlapsBounded CraterIsContinuous WedgeIsCaught CraterIsCaught` | 418,000 |
| `NetwatchBreaker` | every kind of boot, garbage in RTC memory, wedges, Wi-Fi drops, stalls of the loop, updates with hooks | `TypeOK PowerCycleRearms StormBounded NoRebootWhileHealthy` | 2,106,000 |
| `NetwatchWebOta` | uploads to `/update` | `OtaNotInterrupted` **violated**: that path has no hooks | |

They show that what is bad does not stay bad (`WedgeIsCaught`, `CraterIsCaught`), that a
healthy stack is never restarted, also not after the loop was stalled or an update ran,
and that storms and flaps end. `TypeOK` says of the counters in RTC memory that they fit
their bytes once the magic number is there: the count of task-WDT resets goes on through
every reset of a loop that has long tripped the breaker, and one that wrapped would start
the loop over. `StormBounded` speaks of restarts by the watchdog: a panic or a reset by
the user ends a storm by definition, so a device that alternates between panics and
watchdog restarts is seen by the breaker's counts only. The restarts in that run are those
of the network detector; that craters, which count in the same way, do not lengthen a
storm is the theorem's.

**Fairness.** `SF_vars(Tick)`: loopTask runs its interval every second whatever the
other tasks do. Strong rather than weak, because the model blocks a tick while a posted
probe of a healthy stack is unserved (this bounds the latency of the callback to one
unit, it is nothing the loop waits for). `WF_vars(ProbeCallback)`: a tcpip thread that
is not wedged serves its mailbox. Nothing is assumed of the environment: a wedge, a
crater or a dead Wi-Fi may last for ever.

**Proofs** (`NetwatchProofs.tla`). Assumed: the three named assumptions on the
constants. Type correctness first (`TypeCorrect`). The breaker's theorems follow from
`BreakerInv`: a storm is never longer than the breaker's count of it, *or* the uptime
already ended it; while a boot has not run its first tick the count is kept only because
the marker or the reset reason says so. `StormBounded` alone is not inductive: nothing
in it ties `storm` to `recov`. `FlapInv` ties the history of probe-only restarts to
`probe_fires`, which a client clears together with it. `HealthInv` bounds the age of the
freshest stamp by how long the stack has been seen to run (a probe is served within
`ProbeEvery` plus one), hence below `Stale`; this is where `ProbeEvery < Stale` is used.
`LifetimeAccounts`
(`LifetimeCountsAll`: the lifetime counter is the number of restarts that were counted)
is stated by the proofs only. `CraterInv` says the code's crater clock is never older than the true run of cratered
ticks, which holds only without the update branch: the theorem assumes `"ota" \notin
Faults`, because that branch is the one place that leaves the crater clock running (see
Disagreements).

The liveness properties stay with TLC, their safety is proved. `CratersRunOut` and
`WedgesRunOut` give each fault a countdown, at most `Arm + Blk8Hold + 1` or `Arm + Stale
+ Hold + 1`: while the watchdog stands guard over the fault, every tick takes one off at
least and no other step adds any. It is what must not be broken by a clock that is
restarted in the wrong branch, and the reason why `SF(Tick)` suffices. The wedge needs
the freshest of three stamps, which jumps when a client leaves; the rank counts `Hold +
1` until that stamp is as old as the detector asks for.

## Gallery: the custom-banner store

| model | code |
|---|---|
| `word0`, `region` | the first word of a slot; for each of its regions, the saves that programmed its head and its body |
| `nvs` | the restored copies of preset, `bnr_sel`, `bnr_fav` |
| `h` | the request the httpd worker serves: `PostDash ScanSlot GalleryFull EraseRegion WriteFirst WriteLast PostRegion` |
| `armed` | `slot_` of an upload handler object after a connection broke: `UploadAborted`, `Bodyless` |
| `gallery_pending` ... `gallery_fav` | the five volatile words |
| `CoreRead CoreReset CoreSelect CoreDelete FavRead FavApply HealAndPublish` | the consumer in the 500 ms housekeeping, a step for each access to a shared word |
| `Draw DrawSwap DrawRelease`, `drawn`, `mapped` | `build_custom`, `release_custom` and the change test of the draw |
| `SaverTick SaverHide`, `saver` | `render_saver` and its cache |
| `Commit CommitAny CommitRefused SelectSaved SelectOrDelete Favorite PickPreset` | `GalleryCommit`, `GalleryCmd`, the preset entity |
| `NvsFlush`, `Crash` | the preferences' interval, any reset |

**Flash.** Programming NOR flash only clears bits, so a second writer *adds* itself to a
region's set of writers and only an erase empties it; `Clean` is a region with one
writer. The first word goes erased, `WDB1`, zero, and back to erased only by the erase
of its slot. A half-programmed word reads as neither and is treated as erased by every
reader, so it is not a value of its own.

**Granularity.** One step for each access to a word that both tasks use, for each slot
the allocator looks at, for each region of an erase and for the two halves of an upload.
The draw and the consumer are timers of one scheduler and never run inside each other
(`At("idle")`). The multipart reader of `web_server_idf.cpp` calls a handler twice at
index 0, so `SecondPass` allocates and erases again.

| run | bounds | checks | states |
|---|---|---|---|
| `GallerySaves` | 2 slots, 2 saves one at a time, select, delete, 1 reset; fair | `SelectionIsLive IsBannerStore ScreenFollows DeletedIsReleased` | 323,000 |
| `GalleryRaces` | 1 slot, 2 concurrent saves, delete, commit, preset | `TypeOK EraseIsSafe CommittedIsComplete MappedIsIntact` | 1,070,000 |
| `GalleryMirror` | 2 slots, 2 saves one at a time, screensaver, favorites, bodyless posts, no delete | `SaverInSync` | 2,900,000 |
| `GalleryBaked` | 1 slot, delete and preset, no display | `DeleteSparesBaked` **violated** | |

Two slots are the least for which one can be on screen while another is written, and one
slot the least for which every race meets itself: a third slot adds no new pair. Two
saves are the least for which regions mix. `OneAtATime` separates what holds for one
page from what holds for any number; `IsBannerStore` needs it (two pages on one slot can
commit a mixture, which the CRC of the draw, and so `MappedIsIntact`, catches). Saves
are interchangeable (symmetry) except in `GalleryBaked` and in `GallerySaves`, whose
liveness forbids it: there `PostsInOrder` says which of them is posted first, and nothing
is assumed of when or whether a browser posts.

**Fairness.** `SF_vars(CoreRead)`, `SF_vars(Draw)`: both are 500 ms timers of one
scheduler, so each comes round again and again even if the other keeps it from being
continuously enabled; `WF_vars(Core)`, `WF_vars(DrawEnd)`: a lambda that began ends.
Nothing of browsers and resets: `ScreenFollows` claims nothing after one,
`DeletedIsReleased` holds through it.

**Proofs** (`GalleryProofs.tla`). Assumed: `GalleryAssumption`. `GalleryInv` is `Typed
/\ SlotIsFree /\ BodyIsBlank /\ MapIsKnown /\ MappedIsIntact`. `MappedIsIntact` alone is
not inductive: nothing in it keeps an upload from writing the very slot that is mapped,
or a second save from writing over the pixels of a first. What excludes it is that the
slot a save erases or writes its pixels to is neither used nor mapped (`SlotIsFree`),
that the body it writes to is blank, also under a handler that an aborted upload left
half way (`BodyIsBlank`), and that the word the allocator reads names the mapping
whenever the slot could be chosen (`MapIsKnown`): the draw maps before it publishes, and
between the two the slot is still committed. `EraseSpares` and `MappingStays` follow;
`CommitsAreComplete` and `SelectionStaysLive` follow from `GalleryInv` and the facts
about which step writes flash (`FlashSteps`, `EraseFacts`). They hold for any number of
concurrent saves, requests and resets, so `OneAtATime` is irrelevant to them.

`BannersAreWhole` is the refinement: `Spec => IsBannerStore` under `OneAtATime` and
without bodyless posts (a stray post programs a header into a slot that is not its own;
two pages mix their saves; stray posts are run in `GalleryMirror` and covered by
`EraseSpares` and `MappingStays`). It needs two more parts. `OneSave`: the worker serves
the one save that is under way. `Filled`: what the slot of that save holds is a function of the
step it has come to (`Holds`), an erase under way leaves blank regions behind it, and a
slot that has all its headers is one whole banner. The last is what makes a commit safe
whoever sends it and when: the header of the last region is the last thing a save writes
and the first region the first an erase takes, so a slot that is being filled has a
header missing, and `CommitsAreComplete` says that such a slot is not used. Hence erases
and writes stutter, the commit of an erased word is a `Publish`, a delete is a `Remove`
if the slot is still used, and a repeated commit or delete stutters (`StoreStep`).

`SaverMirrors` is `Spec => SaverInSync`, for any number of slots, saves and resets, under
`OneAtATime` and with neither `delete` nor `preset` among the requests. TLC refutes it
without any one of the three: the renderer compares slot numbers, not pictures, so
whatever lets a number come to mean another picture behind its back is fatal
(a delete and a save that re-uses the slot while the saver is
hidden is one such run: see Disagreements). Resets, aborted uploads, stray posts, favorites and
repeated commits are harmless. The invariant has five parts: `OneSave`; a
slot that was asked for, selected or written to NVS stays used (`UsedStays`), for which
slot 0, the selection a fresh NVS starts from, must be the first one to be used
(`ZeroIsFirst`); a save finds the saver's header blank until it writes it
(`HeadIsBlank`); and what the saver has cached is what the flash holds (`Mirrors`).

`ScreensAreCurrent` is the safety in the two liveness properties: a display at rest that
has nothing more to draw shows the selection (`ScreenIsCurrent`) and keeps no deleted
slot (`DeletedIsFree`). It needs that a draw never finds a dead selection - the tick that
may leave one heals it before it ends - and that a used slot loads, which is `StoreInv`
again. What is left to fairness is that the draw comes round. It assumes no resets and no
hand on the preset.

## Charger, log and page

`ChargeLog.tla` is the ring of `charge_log.h` with `note`, `reset`, `to_json` and the
rebuild that `core.yaml` skips while the heap is low. It has no next-state relation of
its own: `Charger` takes its operations into the compute tick, `LogPage` puts the reader
beside it.

| `Charger.tla` | code |
|---|---|
| `LivePacket(r)`, `DemoFrame` | the `on_value` handlers of `victron_ble.yaml`, the simulator of `mock_data.yaml` |
| `published`, `forced`, `live_pub` | the producers' statics `last`, `ep` and `pub_ms` |
| `state_raw cur temp last_packet` | the canonical sensors and the stamp |
| `Tick` | the 250 ms interval: mode, `ForgetOtherMode`, `Scode`, no-load guard (`ZeroSince FoundEmpty`), `Word`, `Mirrored`, `Logged` |
| `SetMode`, `SetKeys` | the owner's select and key entities |
| `Flush`, `Restart`, `Crash` | the preferences' interval, `safe_reboot()` (which flushes), any other reset |
| `era`, `drew` | history variables: changes of the mode, a current not yet answered |

| `LogPage.tla` | code |
|---|---|
| `LogEvent SwitchMode Boot SyncClock` | what the compute tick, a boot and the time sync do to the log |
| `BuildLive` | the 6 s interval that publishes `lc` |
| `PollLive`, `Moved` | `pollOwner()` and its comparison |
| `OpenCard CloseCard FetchLog FetchLost Reload` | `secPollStart`, `secPollStop`, `pollLog`, a request that fails, a new page |
| `era`, `history`, `mishaps` | history variables |

**Eras.** A value carries the era in which it was published; no code reads it. "Of this
mode" is then a plain comparison. The invariants are about the state *between* actions;
`demo_active` changes in the tick that also forgets.

**Time.** One unit is a tick; ages saturate as in Netwatch. The 2 s interval of the
simulator is counted (`demo_due`, scaled to `DemoEvery` ticks); Live may publish again
after one tick at the earliest and after `Throttle` ticks for sure (1.5 s in the code),
which allows more than the code does.

| run | bounds | checks | states |
|---|---|---|---|
| `Charger` | ring of 2, script of 4 frames, 3 packets, `Timeout` 3, `DataClear` 5, `NoLoad` 2, `Throttle` 3, 3 mode changes between boots; key changes, restarts, crashes | `TypeOK ShownIsOfThisMode LogMatchesWord LoadIsNoticed` | 877,000 |
| `Views`, log part | ring of 2, 3 events an era, 1 switch or reboot, every fault, low heap; fair | `ViewTypeOK SlotIsTail CardFollows` | 814,000 with the other parts |

`CAP = 2` with three events an era evicts; `Timeout < DataClear` reach both the offline
word and the cleared mirrors; three mode changes allow Live, Demo, Live and back. The
script has every class of frame the real one has: no load, charging, a fault, a silence.

**Fairness** (`LogPage`). `WF_vars(BuildLive)`: an interval of the loop.
`WF_vars(PollLive)`, `WF_vars(FetchLog)`: the timers of a page that is open. A page that
is hidden or a network that is down shows as `FetchLost`, which is a premise of
`CardFollows` and not a fairness. A page that has stood down for a newer one does not poll
(`Owners`): the fairness of the poll takes a page that is not dormant. The premises (`Undisturbed`) are the four ways in
which the code really does not follow; each is listed below.

**Proofs.** `DashboardProofs.tla`, first half: `LogInv` is `LogTyped /\ PageTyped /\ RingIsTail /\
SlotIsCurrent`. `SlotIsTail` speaks of the slot only; what is inductive is that the
*ring* is the tail of the history with `total_count` its length, and that a slot that is
not starved is `to_json` of ring and count. It needs `MaxCount < CountMod` (fewer than
2^32 events in an era), an assumption of the module. `CardsAtRestAreCurrent` is the safety
in `CardFollows`, under the same premises: an open card that awaits no answer and has seen
the present count shows the log as it is. No count on its way to the page is from the
future, and a card shows an old log only while a newer count has yet to arrive
(`SeenInv`, `CardInv`). That the counts do arrive stays with TLC.

`ChargerProofs.tla`: `TypeCorrect` by `Typed`, a conjunction over the five groups of
variables. `LoadsAreNoticed` by `LoadIsStillThere`: a load that no tick has seen is
still in the sensor, because its producer may not publish again yet; it holds whatever
the faults are. `ModesDoNotMix` by `ModeInv`: before the first tick no producer has
spoken (`FirstTick`), after it the producers look at the mode of the last tick
(`ModeIsSynced`); the producer that is on either owes a forced publish of the phase, or
has published none, or has published it in this era (`StateIsOfThisMode`); once a packet
is on record, phase and current are of this era (`DataIsOfThisMode`), which needs the
Live throttle to be open whenever a first packet may come (`ThrottleIsOpen`). That last
part fails for two changes of mode within 1.5 s, so these theorems assume `"quick"
\notin Faults`; the run makes the same choice, and the failure is described below.
`ShownIsOfThisMode` alone is not inductive: it says nothing of the sensors that the next
tick mirrors. `LogsDoNotMix` adds `LogIsSynced`, `LogAgreesWithWord` adds `WordInv`: the
dedup label is the label of the newest event, and the word is of its class.

## Event streams

| `EventSource.tla` | code (`components/web_server_idf/web_server_idf.cpp`) |
|---|---|
| `sessions`, `ses`, `home`, `freed` | `sessions_`, the members of each response object, the heap block it lives in, the deleted ones |
| `ses[v].fd dump queue buf fails` | `fd_`, the entities iterator, `deferred_queue_`, `event_buffer_` with `event_bytes_sent_`, `consecutive_send_failures_` |
| `ses[v].got`, `missed`, `value` | history: what the browser has, a change that fell into the dump, the entity's state |
| `Connect`, then `PushBack`, then `EnableLoop` | `handleRequest` on the httpd task: eviction and constructor, `push_back`, the wake-up |
| `Destroy`, `Break` | `destroy` as the socket's `free_ctx`; a peer that vanishes |
| `Publish`, `Offers` | `deferrable_send_state`, to every session |
| `EnablePending LoopServe LoopEnd` | the loop's wake-up, and `AsyncEventSource::loop` session by session: serve, go to sleep |
| `LoopDelete LoopOverwrite LoopPop`, `reap` | the three statements that remove a dead session (529-532): `delete`, `sessions_[i] = sessions_.back()`, `pop_back()` |
| `torn` | history: an append has met the pop of a removal |
| `Flushes Retries Drains` | `process_buffer_`, `try_send_nodefer`, `process_deferred_queue_` for every answer the socket may give |

**Granularity.** httpd may run between any two sessions of a pass, between the three
statements of a removal, and between its own `push_back` and wake-up. Within one session's
`loop()` nothing is interleaved: of a session the tasks share only `fd_`, which is atomic
and is read once at the top of each call. The vector has no lock. An append between the
overwrite and the pop of a removal is the one the pop removes, and the session the
overwrite copied is left in the vector twice. An append and a pop that overlap are two
updates of one length, of which either is lost: the vector ends with the new session
(`Appended`) or without its last (`Front`). A reallocation under the loop's feet is left
out. What a vector with a session in it twice does is followed up to the second `delete`
of that session (`LoopDelete` is not taken for an object that is freed already: the code
would delete it again, which is undefined), and freed memory is taken to keep its zero
`fd_`.
An event holds no text: a version number stands for the state it was made from, and a
partial send for the bytes that went out.

**Heap blocks.** `destroy` gets the pointer of the object it was registered with. The
loop deletes an object only after `fd_` is 0, and `fd_` becomes 0 in `destroy` or when a
session gives itself up with its socket still open. In the second case `destroy` comes
later and writes 0 to `fd_` of whatever object got the block: `Connect` may take any
freed block, and `Destroy(v)` hits whoever lives at `home[v]`.

| part of `Web` | bounds | checks |
|---|---|---|
| events | 2 viewers, a cap of 1, 1 source with 2 changes, 2 refusals in a row; fair | `VectorHoldsTheAlive CapHolds CaughtUp StreamsSettle`, its types in `WebTypeOK` |
| events, run `WebReap` | the same, not fair | `NoSessionIsLost` **violated**: an append meets a removal |

The run `Web` has 173,000 states in its three parts. `NoSessionIsLost` is what the code
means to keep: between two removals every live session is in the vector and none is in it
twice. It fails, so the four properties of the passing run have the premise `~torn`: no
append has ever met the pop of a removal. They cover every other interleaving of the two
tasks, an append between the `delete` and the overwrite among them.

Two viewers are the least for which one is evicted for the other, one is deleted under
the other's iteration, and a block is used twice; two changes the least for which an
older event can overtake or hide a newer one. The theorems hold for all values.

**Fairness.** `WF(Httpd)`, `WF(Pass)`: each task goes on with what it is at.
`SF(EnablePending)`: the application looks at `pending_enable_loop_` between any two
passes. `SF(Destroy)` only for sockets that are broken or whose close was asked for:
httpd handles its own close queue and finds a broken peer. An open, silent client is
assumed to do nothing, and `StreamsSettle` says it is served or given up all the same.

**Proofs** (`EventSourceProofs.tla`). Assumed: `StreamAssumption`. The invariant is
`StreamInv == PlaceTyped /\ SesTyped /\ (torn \/ VectorInv /\ SessionsInv)`: types hold
whatever happened, the rest until an append meets a pop. `SessionsAreNotLost`
by `VectorInv`: besides the vector itself, that a block belongs to whoever connected and
that what httpd is about to push is alive; and for each stage of a removal what stands at
its place - a freed session after the `delete`, a copy of the last one after the
overwrite, also if httpd has appended in between.
`NothingIsStale` by `SessionsInv`: for each source of each session one of five holds
(`Fresh`) - it is ahead in the dump, it was missed, it waits in the queue, it is what the
buffer holds, or the browser has it. `CaughtUp` alone says nothing while anything waits.
Each of the send routines keeps it for all sources (`Holds`), and an offer establishes
it for the source that changed (`Told`); this needs that events are *generated when they
leave the queue*, which is why the dedup by entity loses nothing. `ViewersAreCapped` counts the live sessions off
along the vector, place by place: the counts rise strictly (`CountsRise`), so the sessions
spared by an eviction inject into `ToEvict + 1 .. LiveCount` (`EvictionMakesRoom`).
`StreamTypesAreKept` needs of the pass only that it stays within the vector, which
shrinks under it. Of `StreamsSettle` the part about waking up is proved (`WakeUpsArrive`):
a vector that is not empty has an awake loop, a pending flag, or a request that is about
to set it; no order of push, flag and `disable_loop()` forgets a session. The rest, that
queues drain or their viewer is given up, is TLC's.

**What the cap does not say.** `CapHolds` counts viewers that are served. A session that
gave itself up no longer counts although its socket is open, so httpd may hold more than
`WD_SSE_MAX_VIEWERS` clients (the comment at `web_server_idf.cpp` 483-485 says never).
With a cap of 2 or more, swap-and-pop reorders the vector and the first live one is not
the oldest (486-489 says the vector is ordered by arrival). The shipped cap is 1, where
both come to the same.

## Mailboxes

| `Mailboxes.tla` | code |
|---|---|
| `PostKey CopyKey RaiseKey` | `BindkeyPost` (`web_dashboard.h` 954-963): wipe, copy half by half, flag |
| `TakeKey CopyOut ApplyKey WipeKey` | the drain in the compute tick (`core.yaml` 578-581) |
| `PostCfg StoreCfg RaiseCfg` | `CfgPost`: one store for each field it has, then the flag |
| `TakeCfg ExchangeField` | the drain in the display's tick: flag first, then `exchange(-1)` field by field |
| `Seed NoSeed Assign Flip` | the settings as JSON, `JsonSlot::publish`: the inactive buffer, then the index |
| `ReadIndex ReadText Send` | `JsonSlotGet`: `JsonSlot::read`, the answer |

A step is one access to shared memory. Values carry the number of the post they came
from, so a mixture of two posts is a value of its own. `posts` is bounded by `MaxPosts`.

| part of `Web` | bounds | checks |
|---|---|---|
| mail | 2 fields, 2 posts; fair | `SeedIsWhole PostsAreApplied SeedFollows`, its types in `WebTypeOK` |

Two fields show a torn read and a drain split by a post; two posts one overtaking the
other. **Fairness**: `WF(Serves)`, `WF(Runs)`, both tasks finish what they are at.

**Premises.** `~overlapped`: no key is posted before the last one is applied (250 ms).
Otherwise the buffer is wiped or half replaced under the drain, and an accepted key is
lost or mixed: these are failures of the code that `PostsAreApplied` excludes and no run
shows. `~crowded`: no more than one publish meets a read; with two, the reader
copies from the buffer that is being written, which in C++ is undefined. The comment at
`web_dashboard.h` 272-273 rules it out by timing. The settings need no premise.

**Proofs** (`MailboxesProofs.tla`). Assumed: `MailAssumption`. `KeyInv` follows one key
through its places - request, buffer, tick, entity - and says which of them holds the
last accepted one. `CfgInv`, field by field: a value still in the mailbox is the last one
posted, a field that is empty there was applied, and somebody is on the way to every
value that waits: a post that has yet to raise the flag, the flag, or a drain that has
not reached the field. Without the last part the invariant is not inductive at the end
of a drain. `SlotInv`: until one publish has ended in a read, the reader's buffer is the
active one, and after it no publish is under way. `FormsShowWhatWasPosted` is the safety
in `SeedFollows`: with nothing left to do on either side, the active buffer holds the last
post in every field, whether or not two posts overlapped a drain. That both sides come to
rest stays with TLC.

## The setup scan

`BleScan.tla`: `PressScan` (`core.yaml` 453-459), `Hear` (`ble_scan.h` `add`),
`BuildList` (`to_json`: prune, sort, cut), `ScanTime` (the window). Names and signal
strength only order entries within the two groups, so `Lists` allows every order.

| part of `Web` | bounds | checks |
|---|---|---|
| scan | 2 chargers, 2 strangers, a table of 3, a list of 2, `MaxAge` 1, a window of 3 | `ChargerIsListed`, its types (with the bound of the table) in `WebTypeOK` |

The table is smaller than the number of devices and the list smaller than the table, so
every eviction and every cut happens; ages saturate one above `MaxAge`.

**Proofs** (`WebProofs.tla`). Assumed: `ScanAssumption`. `TableIsBounded` for any
capacity; `ListsAreOfThisWindow`: a list names only devices heard since the press and
not too long ago; `ChargersAreListed` by `SpokenFor` (a charger that said what it is
within `MaxAge` is in the table with its flag), which holds while chargers alone do not
fill the table. The premises are needed: with a table full of Victrons one of them is
evicted (`ble_scan.h` 41 says never), and a charger that is pruned loses its flag until
it says again what it is.

## Owners of the stream

`Owners.tla`: the device's `owner_epoch` and the count in the published `live.json`; for
each page `myOwner`, `dormant`, the stream, what it saw of the uptime, and its queue of
requests (`web/dashboard.html` 565-571, 626-666, 1404-1471). Users load, leave, hide,
show, tap and save; requests may be lost and the device may restart. `page[p].due` counts
the timers of a page that will call `connect()`: the one of the load (0.5 s) and those of
the Save button (1320, 1338), which closes the stream and opens it again 1.6 s later
whatever the page has become by then. The button is locked for 1.5 s after a save, so two
timers are the most. Left out: a save in the first 0.7 s of a page, before it has begun,
and the watchdog `connDead`.

| part of `Views` | bounds | checks |
|---|---|---|
| owners | 2 pages, 5 acts of users or mishaps; fair | `NewestIsAwake OneKeepsTheStream`, its types in `ViewTypeOK` |
| owners, run `ViewsSave` | 2 pages, 3 acts, no mishap; fair | `OthersStandDown` **violated**: a page overtaken between a save and its timer |

Two pages and five acts allow each to take the stream from the other and back, with a
save before or after.
**Fairness**: `WF` of the device's 6 s interval, and for each page of its timers, of its
polls and of its queue; nothing of the users.

**Proofs** (`DashboardProofs.tla`, second half). Assumed: `OwnerAssumption`. `QueueInv`:
a page that has not begun has no poll on its way, hence at most one ever
(`OnePollAtATime`). `CountInv`: while nothing is lost, nobody knows a higher count than
the device and the newest page knows the highest, so a stale `live.json` can only be too
low (`LastClaimStaysAwake`). `OwnersSettle` is the safety in `OneKeepsTheStream`: once
every page in view has made its claim, the count is back and the overtaken have stood
down, and no timer is left, the page that claimed last has a stream and no other in
view has one. It needs that a page in view streams, has a timer that will, or has stood
down, and that one with no number has a claim on its way (`PageInv`). That claims, counts
and timers get there stays with TLC.

Both it and `OneKeepsTheStream` have the premise `[]NoTimerWakes`: no page stands down
while a save's timer runs, or saves while it stands down. Without it they are false
(`ViewsSave`): the page opens a stream, stays dormant, polls no more and so never gives it
up, and on a board with one stream it takes that of the page that claimed last.

`~disturbed` is a real premise: after a restart the count begins again at 0, and a page
that claimed before it has a number that no later claim exceeds for a while: it does not
stand down, against `web/dashboard.html` 566-568. A claim whose answer is lost does the
same.

## Display and buttons

| `Display.tla` | code (`packages/display_tdisplay.yaml`, `core.yaml`, `input_tdisplay_2btn.yaml`) |
|---|---|
| `nav` | `current_page`, `in_menu`, `menu_sel`, `s2_hold_ms`, `saver_active` |
| `overlay` | `ov_prev`, from which `fault_active` and `offline_alert` follow |
| `Draw` | the takeover branches of the 500 ms draw |
| `Housekeeping`, `Ladder` | the display's 500 ms housekeeping, one operator for each rung, in the code's order |
| `CoreHousekeeping` | the core's: the latch `ap_setup_shown`, the reboot after onboarding, the Wi-Fi reset |
| `HoldBar` | the 200 ms interval that fires a row of the menu |
| `PressS1 PressS2 ReleaseS2` | the two buttons with their wake, swallow and menu logic |
| `ApRises ApFalls FirstMinuteEnds` | Wi-Fi and the clock |
| `s2 steady faultSeen` | history variables |

The three 500 ms intervals run one after the other (`turn`); the hold bar and the
buttons run between any two of them. Time counts in half seconds and saturates.

**Bounds and environment.** `MaxPresses` is less than the number of pages: a person does
not walk the whole cycle between two ticks. The theorem `MenuStaysInView` needs it,
because the access point's end and the network page set page 0 without closing the menu
(2193-2219, 2209); on the device that would take five presses in half a second. The access point rises only in the first minute (`ap_timeout: 0s` keeps it from
coming up later) and falls only after its page was up, since somebody has to type in
credentials.

| part of `Views` | bounds | checks |
|---|---|---|
| display | 3 pages, `return_timeout` 2, `dim_timeout` 1, holds of 1, 2 and 3, 2 presses a tick | `MenuIsInView FaultWasShown FreedIsNotLoaded HoldIsDeliberate`, its types in `ViewTypeOK` |

The dashboard, System and one page between them are the least for which a page can be
neither; different holds show a hold that is carried to another row.

**Proofs** (`DisplayProofs.tla`). Assumed: `DisplayAssumption`. Each rung of the ladder
is *tame*: it keeps the menu in view, and ends a hold unless it changes nothing; so
does their composition. `OwnedInv` says where the buttons cannot reach the menu, with
the budget of presses; `HoldInv` that a hold is as old as the press and that nothing has
moved since; `FaultInv` ties `prev_fault` to the overlay through the three turns;
`FreedInv` and `DimInv` give the last two. `MenuIsInView` alone is not inductive: the
latch, the display's copy of it and the page change in three different intervals.
`DimIsAtHome` (the screen is dim only on the dashboard or the saver) is proved only.

## Disagreements with the documentation

Found by a run that stays in the project:

- `NetwatchWebOta`: the watchdog may restart the device in the middle of an upload to
  `/update`.
- `GalleryBaked`: deleting the slot that was selected last resets a baked preset that is
  live.
- `WebReap`: a session that connects while the loop removes a dead one is lost from the
  vector, and the last session is in it twice.
- `ViewsSave`: a page that a newer one has superseded between its save and the timer of
  that save opens a stream again and keeps it.

Met while modelling, reproduced with TLC, and kept as an assumption or as a hazard:

- *The saver's cache.* The screensaver keeps the old descriptor over a slot that was deleted
  and saved again while it was hidden (`display_tdisplay.yaml` 337 compares preset and slot
  number; 312-314 calls it a mirror that "can never drift out of sync"). `GalleryMirror`
  with `"delete"` among its requests shows it.
- *Crater clock over an update.* The update branch of the interval (`core.yaml` 948-952)
  restarts every clock but `netwatch_blk8_low_since_ms`, so two short craters on both
  sides of an update count as one (`web_dashboard.h` 45 says any sample above the floor
  resets it).
- *An update that blocks the loop.* The update branch (`core.yaml` 948-951) restarts the
  clocks on each tick while the flag is set. If the upload keeps the loop from running for
  the whole of it, no tick sees the flag: the first one after it finds stale stamps and
  starts the hold of the network detector, against the comment there. `NetwatchBreaker` has
  this order: once the loop has ticked for a probe period (5 s, less than the hold of 8 s)
  a healthy stack has answered, and nothing is restarted.
- *`netwatch_rtc_twdt` outlives a user restart.* The comments at `core.yaml` 909 and 913
  say that an OTA or a user restart starts afresh and re-arms; the counter of task-WDT
  resets is not cleared by one, so at 5 the watchdog stays disabled (931) until the
  power goes.
- *Stale `wedge_free`.* A tick with the breaker tripped returns (`core.yaml` 947) before
  it caches the free heap (963); `netwatch_rtc.h` 27-28 describes the value as the heap
  at the wedge.
- *Concurrent saves.* Two pages may be given one slot, so the commit is not the last
  write of `web_dashboard.h` 854; a commit of a deleted slot answers 200 and changes
  nothing (893); an intent stored between the consumer's read and its reset is lost
  (907).
- *Quick mode changes.* Live, Demo and Live again within 1.5 s: the state is published
  again because the epoch changed, the current and the voltage wait for the throttle
  (`victron_ble.yaml` 35, 48), and the simulator's values are shown as Live's.
  `core.yaml` 617-620 says the change wipes everything that would survive.
- *A lone zero.* One sample of 0.0 A and a silence shorter than the timeout clear
  `bat_present` (`core.yaml` 753-757): the guard counts time, not samples, against the
  comment at 736-738.
- *The simulator goes offline.* Its silent frames (89-98) last 22 s, longer than
  `ble_timeout_s` (20 s), so the offline state is reached at the end of every cycle;
  `mock_data.yaml` 112-114 counts 20 s against a threshold of 30 s and excludes it.
- *A card may stay behind.* (1) A mode switch or a reboot whose count returns to the
  number the page saw last (`web/dashboard.html` 1440; the comment at `core.yaml` 626
  counts on the drop to 0); (2) a card opened before the first poll; (3) a fetch that
  fails is not repeated; (4) a rebuild skipped for low heap. These are the premises of
  `CardFollows`.
- *`bat_present` learned from the simulator* is kept in Live and in NVS (`core.yaml`
  617-635 does not reset it).
- *The newest viewer*, *never more than the cap* and *never evicted*: see Event streams,
  Owners and Scan above.
- *A change during the dump* of an entity that the dump has already passed is dropped
  (`web_server_idf.cpp` 854-866): the viewer sees the next change. `missed` marks it.
- *2500 failed sends* are said to be about 20 s (`web_server_idf.h`): they are counted in
  calls, and every new event and every pass of the loop is one or more.
- *A favorite outlives its banner*: a delete leaves the bit (`core.yaml` 1328), and the
  next banner in the slot is a favorite.
- *A reset between the boot draw and the commit of a selection* leaves the screen on the
  old banner until the next change, so `ScreenFollows` claims nothing after a reset.

## Not modelled

- Proved is what is safety, under the premises named with each theorem; *liveness under
  fairness* needs `ENABLED` and rank induction and is checked by TLC: `WedgeIsCaught`,
  `CraterIsCaught`, `ScreenFollows`, `DeletedIsReleased`, `CardFollows`,
  `OneKeepsTheStream`, `StreamsSettle`, `SeedFollows`. For each of them a theorem states
  the safety it rests on: that the state at rest is the right one, or that a countdown
  only falls. No recursive operator and no induction over data is needed by the modules
  that have proofs.
- *Event streams*: headers, parameters, handler lookup and the multipart reader of the
  request path (what the reader does to an upload handler is in `Gallery`); a
  reallocation of the vector while the loop reads it.
- *Owners*: the page's watchdog `connDead` that reconnects after 20 s and 60 s; a save in
  the first 0.7 s of a page.
- *Display*: the CYD's page logic and touch input, the BOOT button of the headless
  board, pixels and texts. Banner and saver drawing are in `Gallery`.
- *Onboarding*: the captive portal's pages, the credentials, the DNS answer. The
  deadlines are `millis()` values whose zero means none (`core.yaml` 1275), so one that
  falls on the wrap after 49.7 days is missed.
- In the other modelled parts: the voltage windows and notes, unit conversion, colours,
  elapsed-time stamps and the time zone of the compute tick; the times of log events;
  the read-only handlers of the gallery; `min_free` of netwatch, which nothing reads
  back; the wrap of `millis()`.
- *Status LEDs and backlight* show a priority of conditions, recomputed on each tick
  from nothing else. *Telemetry* fills JSON slots. *Font buffers* are allocated by the
  serial draw.
- Left out for good: character-level parsing (multipart, BLE payloads, JSON), drawing,
  fonts, build and release scripts, static pages.
- *Generated and baked data* are most of the C and C++ of the repository: of its 22,225
  lines about 18,090 are `banners_baked_*.h`, `dashboard_html.h`, `convert_html.h`,
  `captive_index.h` and the like, which hold bytes and no behaviour. The firmware's
  behaviour is in `packages/*.yaml` to a larger part than in C++.
