------------------------------ MODULE Gallery ------------------------------
(***************************************************************************)
(* The custom-banner gallery: the upload handlers of web_dashboard.h on    *)
(* the single httpd worker, the intents they leave for loopTask, the       *)
(* consumer in the 500 ms housekeeping of packages/core.yaml, and the      *)
(* renderers of the display packages, which map the selected banner        *)
(* straight from NOR flash.                                                *)
(*                                                                         *)
(* A slot is four regions and the word that commits them.  What a region   *)
(* holds is the set of saves that programmed its head (the header block)   *)
(* and its body: programming NOR flash only clears bits, so a second       *)
(* writer adds its bits to those of the first, and only an erase takes     *)
(* them away.                                                              *)
(***************************************************************************)
EXTENDS Integers, FiniteSets

CONSTANTS
  NumSlots,     (* gallery_slot_cap(): min(NUM_SLOTS, partition / SLOT_SPAN)  *)
  Saves,        (* the runs of the page's saveToGallery(); each happens once  *)
  NoSave,       (* stands for no such run                                     *)
  Requests,     (* the other requests the clients send                        *)
  OneAtATime,   (* no save starts while another one is under way              *)
  HasDisplay,   (* a board with a screen; FALSE for the headless one          *)
  HasSaver,     (* the screensaver of a board with a screen is used           *)
  MaxCrashes    (* bound on the number of resets                              *)

RequestKinds == {"select", "delete", "favorite", "commit", "bodyless", "preset"}

ASSUME GalleryAssumption ==
  /\ NumSlots \in Nat \ {0}
  /\ NoSave \notin Saves
  /\ Requests \subseteq RequestKinds
  /\ OneAtATime \in BOOLEAN /\ HasDisplay \in BOOLEAN /\ HasSaver \in BOOLEAN
  /\ MaxCrashes \in Nat

VARIABLES
  (* The storage partition and NVS, which survive a reset.                  *)
  word0,                 (* the first word of each slot                     *)
  region,                (* what is programmed behind it                    *)
  nvs,                   (* the restored copies of the loop's three globals *)
  (* The httpd task.                                                        *)
  h,                     (* the request the single worker is serving        *)
  armed,                 (* the slot an aborted upload left in its handler  *)
  (* The words the two tasks share.                                         *)
  gallery_pending, gallery_fav_pending,
  gallery_active_slot, gallery_sel, gallery_fav,
  (* loopTask.                                                              *)
  loop,                  (* where the core consumer or the draw stands      *)
  banner_preset, bnr_sel, bnr_fav,
  drawn,                 (* last_banner, last_sel                           *)
  mapped,                (* the slot behind mmap_h, None without a mapping  *)
  saver,                 (* the screensaver's own cache and mapping         *)
  (* The browsers.                                                          *)
  step, slot_id,
  crashes

flashVars == <<word0, region, nvs>>
httpdVars == <<h, armed>>
sharedVars == <<gallery_pending, gallery_fav_pending, gallery_active_slot,
                gallery_sel, gallery_fav>>
loopVars == <<loop, banner_preset, bnr_sel, bnr_fav>>
screenVars == <<drawn, mapped, saver>>
clientVars == <<step, slot_id>>
vars == <<flashVars, httpdVars, sharedVars, loopVars, screenVars, clientVars, crashes>>

None == -1
Slots == 0 .. (NumSlots - 1)
SlotOrNone == Slots \cup {None}

(* The regions of a slot in their order, and the steps of a save in theirs. *)
Layout == <<"dash", "saver", "hero", "thumb">>
Regions == {"dash", "saver", "hero", "thumb"}
Parts == {"head", "body"}
NextStep == [dash |-> "saver", saver |-> "hero", hero |-> "thumb",
             thumb |-> "commit", commit |-> "select", select |-> "done"]
Finished == {"done", "gone"}
Presets == {"Battery", "Sedan", "Custom"}

Blank == [p \in Parts |-> {}]
Idle == [pc |-> "idle", region |-> "dash", save |-> NoSave, slot |-> None, k |-> 0, pass |-> 0]
IdleLoop == [pc |-> "idle", got |-> None]
Delete(s) == 256 + s
Intents == Slots \cup {Delete(s) : s \in Slots}

NotDrawn == [preset |-> "", sel |-> -2]
SaverUnused == [up |-> FALSE, preset |-> "", sel |-> -999, map |-> None, of |-> {}, custom |-> FALSE]

TypeOK ==
  /\ word0 \in [Slots -> {"erased", "WDB1", "zero"}]
  /\ region \in [Slots -> [Regions -> [Parts -> SUBSET Saves]]]
  /\ nvs \in [preset : Presets, sel : SlotOrNone, fav : SUBSET Slots]
  /\ h \in [pc : {"idle", "scan", "erase", "first", "last"}, region : Regions,
            save : Saves \cup {NoSave}, slot : -1 .. NumSlots, k : 0 .. 4, pass : 0 .. 2]
  /\ armed \in [Regions -> SlotOrNone]
  /\ gallery_pending \in Intents \cup {None}
  /\ gallery_fav_pending \in Intents \cup {None}
  /\ gallery_active_slot \in SlotOrNone
  /\ gallery_sel \in SlotOrNone /\ gallery_fav \in SUBSET Slots
  /\ loop \in [pc : {"idle", "reset", "apply", "fav", "favreset", "heal", "swap", "release"},
               got : Intents \cup {None}]
  /\ banner_preset \in Presets /\ bnr_sel \in SlotOrNone /\ bnr_fav \in SUBSET Slots
  /\ drawn \in [preset : Presets \cup {""}, sel : SlotOrNone \cup {-2}]
  /\ mapped \in SlotOrNone
  /\ saver \in [up : BOOLEAN, preset : Presets \cup {""}, sel : SlotOrNone \cup {-999},
                map : SlotOrNone, of : SUBSET Saves, custom : BOOLEAN]
  /\ step \in [Saves -> Regions \cup {"commit", "select"} \cup Finished]
  /\ slot_id \in [Saves -> SlotOrNone]
  /\ crashes \in 0 .. MaxCrashes

Init ==
  /\ word0 = [s \in Slots |-> "erased"]
  /\ region = [s \in Slots |-> [r \in Regions |-> Blank]]
  /\ nvs = [preset |-> "Battery", sel |-> 0, fav |-> {}]
  /\ h = Idle /\ armed = [r \in Regions |-> None]
  /\ gallery_pending = None /\ gallery_fav_pending = None
  /\ gallery_active_slot = None /\ gallery_sel = None /\ gallery_fav = {}
  /\ loop = IdleLoop
  /\ banner_preset = "Battery" /\ bnr_sel = 0 /\ bnr_fav = {}
  /\ drawn = NotDrawn /\ mapped = None /\ saver = SaverUnused
  /\ step = [v \in Saves |-> "dash"] /\ slot_id = [v \in Saves |-> None]
  /\ crashes = 0

-----------------------------------------------------------------------------
(* Reading the partition.                                                   *)

LogicalMax == NumSlots + 1                                          \* mutant

gallery_slot_cap == NumSlots

gallery_slot_used(s) == s \in Slots /\ word0[s] = "WDB1"

(* One writer: the bytes are what that save meant them to be.              *)
Clean(part) == Cardinality(part) = 1

(* GalleryCommit looks at headers only; two of them programmed over each   *)
(* other may still look like one.                                          *)
HeadersButThumb(s) == \A r \in Regions \ {"thumb"} : region[s][r]["head"] # {}  \* mutant

HeadersPresent(s) == \A r \in Regions : region[s][r]["head"] # {}
HeadersMayFail(s) == \E r \in Regions : ~Clean(region[s][r]["head"])

(* build_custom: magic, dimensions and the CRC over the pixels.            *)
DashHeaderLoads(s) == gallery_slot_used(s)                          \* mutant

DashLoads(s) ==
  /\ gallery_slot_used(s)
  /\ Clean(region[s]["dash"]["body"])
  /\ region[s]["dash"]["head"] = region[s]["dash"]["body"]

-----------------------------------------------------------------------------
(* A save, one request after another on the single worker.                  *)

StartsAlone(v) ==
  OneAtATime => \A w \in Saves \ {v} : step[w] \in {"dash"} \cup Finished

Scan(v, pass) ==
  [pc |-> "scan", region |-> "dash", save |-> v, slot |-> 0, k |-> 1, pass |-> pass]

(* The first call of handleUpload for the dash region, index 0.             *)
PostDash(v) ==
  /\ step[v] = "dash" /\ h.pc = "idle" /\ StartsAlone(v)
  /\ h' = Scan(v, 1)
  /\ armed' = [armed EXCEPT !["dash"] = None]
  /\ UNCHANGED <<flashVars, sharedVars, loopVars, screenVars, clientVars, crashes>>

(* gallery_next_free, a slot at a time: used ones and the one that is being *)
(* rendered are passed over.                                                *)
TakenIfUsed(s) == gallery_slot_used(s)                              \* mutant

Taken(s) == s = gallery_active_slot \/ gallery_slot_used(s)

ScanSlot ==
  /\ h.pc = "scan" /\ h.slot < gallery_slot_cap
  /\ h' = IF Taken(h.slot) THEN [h EXCEPT !.slot = @ + 1] ELSE [h EXCEPT !.pc = "erase"]
  /\ UNCHANGED <<flashVars, armed, sharedVars, loopVars, screenVars, clientVars, crashes>>

(* The multipart reader announces the file with an empty call at index 0    *)
(* and delivers its first bytes at index 0 again, so the handler allocates  *)
(* and erases twice; what the second pass says counts.                      *)
SecondPass == Scan(h.save, 2)

(* No slot is left: 409 when the second pass says so.                       *)
GalleryFull ==
  /\ h.pc = "scan" /\ h.slot = gallery_slot_cap
  /\ IF h.pass = 1 THEN h' = SecondPass /\ step' = step
                   ELSE h' = Idle /\ step' = [step EXCEPT ![h.save] = "gone"]
  /\ UNCHANGED <<flashVars, armed, sharedVars, loopVars, screenVars, slot_id, crashes>>

ErasedDash(s, k) == IF k = 1 THEN [region EXCEPT ![s][Layout[k]] = Blank] ELSE region  \* mutant

Erased(s, k) == [region EXCEPT ![s][Layout[k]] = Blank]

(* gallery_erase_slot, a region at a time: it yields between sectors.       *)
EraseRegion ==
  /\ h.pc = "erase"
  /\ region' = Erased(h.slot, h.k)
  /\ word0' = IF h.k = 1 THEN [word0 EXCEPT ![h.slot] = "erased"] ELSE word0
  /\ h' = IF h.k < 4 THEN [h EXCEPT !.k = @ + 1]
          ELSE IF h.pass = 1 THEN SecondPass
          ELSE [h EXCEPT !.pc = "first"]
  /\ UNCHANGED <<nvs, armed, sharedVars, loopVars, screenVars, clientVars, crashes>>

(* The first call of handleUpload for one of the other regions.             *)
PostRegion(v) ==
  /\ step[v] \in Regions \ {"dash"} /\ h.pc = "idle"
  /\ h' = [pc |-> "first", region |-> step[v], save |-> v, slot |-> slot_id[v],
            k |-> 0, pass |-> 0]
  /\ armed' = [armed EXCEPT ![step[v]] = None]
  /\ UNCHANGED <<flashVars, sharedVars, loopVars, screenVars, clientVars, crashes>>

Programmed(s, r, part, v) == [region EXCEPT ![s][r][part] = @ \cup {v}]

(* The .wdb regions start with their header; a WebP's header is written    *)
(* when its length is known.  The dash region leaves word0 alone.           *)
FirstPart(r) == IF r \in {"dash", "saver"} THEN "head" ELSE "body"
LastPart(r) == IF r \in {"dash", "saver"} THEN "body" ELSE "head"

WriteFirst ==
  /\ h.pc = "first"
  /\ region' = Programmed(h.slot, h.region, FirstPart(h.region), h.save)
  /\ h' = [h EXCEPT !.pc = "last"]
  /\ UNCHANGED <<word0, nvs, armed, sharedVars, loopVars, screenVars, clientVars, crashes>>

(* The rest of the file, handleRequest, the answer, reset_().               *)
WriteLast ==
  /\ h.pc = "last"
  /\ region' = Programmed(h.slot, h.region, LastPart(h.region), h.save)
  /\ step' = [step EXCEPT ![h.save] = NextStep[h.region]]
  /\ slot_id' = [slot_id EXCEPT ![h.save] = h.slot]
  /\ h' = Idle
  /\ UNCHANGED <<word0, nvs, armed, sharedVars, loopVars, screenVars, crashes>>

(* An erase or a write fails, or the file is too large: the rest of the     *)
(* body is dropped, the answer is an error, the page gives up.  A failed    *)
(* erase of the first pass is tried again by the second.                    *)
UploadFails ==
  /\ h.pc \in {"erase", "first", "last"}
  /\ IF h.pc = "erase" /\ h.pass = 1
       THEN h' = SecondPass /\ step' = step
       ELSE h' = Idle /\ step' = [step EXCEPT ![h.save] = "gone"]
  /\ UNCHANGED <<flashVars, armed, sharedVars, loopVars, screenVars, slot_id, crashes>>

(* The connection breaks: the multipart loop returns without a call of      *)
(* handleRequest, and the handler keeps its fields.                         *)
UploadAborted ==
  /\ h.pc \in {"first", "last"}
  /\ h' = Idle
  /\ armed' = [armed EXCEPT ![h.region] = h.slot]
  /\ step' = [step EXCEPT ![h.save] = "gone"]
  /\ UNCHANGED <<flashVars, sharedVars, loopVars, screenVars, slot_id, crashes>>

(* The browser goes away between two requests.                              *)
Abandon(v) ==
  /\ step[v] \notin Finished \cup {"dash"} /\ h.save # v
  /\ step' = [step EXCEPT ![v] = "gone"]
  /\ UNCHANGED <<flashVars, httpdVars, sharedVars, loopVars, screenVars, slot_id, crashes>>

(* GalleryCommit: programs the first word and leaves the intent to select.  *)
CommitWord(s) == IF word0[s] = "zero" THEN "zero" ELSE "WDB1"

CommitSlot(s) ==
  /\ HeadersPresent(s)
  /\ word0' = [word0 EXCEPT ![s] = CommitWord(s)]
  /\ gallery_pending' = s
  /\ UNCHANGED <<region, nvs, httpdVars, gallery_fav_pending, gallery_active_slot,
                 gallery_sel, gallery_fav, loopVars, screenVars, slot_id, crashes>>

Commit(v) ==
  /\ step[v] = "commit" /\ h.pc = "idle"
  /\ CommitSlot(slot_id[v])
  /\ step' = [step EXCEPT ![v] = "select"]

(* 409 incomplete.                                                          *)
CommitRefused(v) ==
  /\ step[v] = "commit" /\ h.pc = "idle"
  /\ ~HeadersPresent(slot_id[v]) \/ HeadersMayFail(slot_id[v])
  /\ step' = [step EXCEPT ![v] = "gone"]
  /\ UNCHANGED <<flashVars, httpdVars, sharedVars, loopVars, screenVars, slot_id, crashes>>

(* The page's closing select, which a device error does not fail.           *)
SelectSaved(v) ==
  /\ step[v] = "select" /\ h.pc = "idle"
  /\ gallery_pending' = IF gallery_slot_used(slot_id[v]) THEN slot_id[v] ELSE gallery_pending
  /\ step' = [step EXCEPT ![v] = "done"]
  /\ UNCHANGED <<flashVars, httpdVars, gallery_fav_pending, gallery_active_slot,
                 gallery_sel, gallery_fav, loopVars, screenVars, slot_id, crashes>>

-----------------------------------------------------------------------------
(* The other requests.                                                      *)

(* GalleryCmd, SELECT and DELETE.                                           *)
SelectOrDelete(s) ==
  /\ h.pc = "idle" /\ gallery_slot_used(s)
  /\ \/ "select" \in Requests /\ gallery_pending' = s
     \/ "delete" \in Requests /\ gallery_pending' = Delete(s)
  /\ UNCHANGED <<flashVars, httpdVars, gallery_fav_pending, gallery_active_slot,
                 gallery_sel, gallery_fav, loopVars, screenVars, clientVars, crashes>>

(* GalleryCmd, FAVORITE; the slot need not be used.                         *)
Favorite(s) ==
  /\ "favorite" \in Requests /\ h.pc = "idle"
  /\ gallery_fav_pending' \in {s, 256 + s}
  /\ UNCHANGED <<flashVars, httpdVars, gallery_pending, gallery_active_slot,
                 gallery_sel, gallery_fav, loopVars, screenVars, clientVars, crashes>>

(* A commit of any slot, from a page that is out of date or tries again.    *)
CommitAny(s) ==
  /\ "commit" \in Requests /\ h.pc = "idle"
  /\ CommitSlot(s)
  /\ UNCHANGED step

(* A POST without a multipart body reaches handleRequest alone.  With the   *)
(* fields of an aborted upload still set it flushes the staged tail and, in *)
(* a WebP region, writes a header.                                          *)
Bodyless(r) ==
  /\ "bodyless" \in Requests /\ h.pc = "idle" /\ armed[r] # None
  /\ \E v \in Saves : region' = Programmed(armed[r], r, LastPart(r), v)
  /\ armed' = [armed EXCEPT ![r] = None]
  /\ UNCHANGED <<word0, nvs, h, sharedVars, loopVars, screenVars, clientVars, crashes>>

-----------------------------------------------------------------------------
(* The consumer in core.yaml, a step for each access to a shared word.      *)

At(pc) == loop.pc = pc
Goto(pc) == [loop EXCEPT !.pc = pc]

CoreRead ==
  /\ At("idle")
  /\ loop' = [pc |-> IF gallery_pending = None THEN "fav" ELSE "reset", got |-> gallery_pending]
  /\ UNCHANGED <<flashVars, httpdVars, sharedVars, banner_preset, bnr_sel, bnr_fav,
                 screenVars, clientVars, crashes>>

CoreReset ==
  /\ At("reset")
  /\ gallery_pending' = None
  /\ loop' = Goto("apply")
  /\ UNCHANGED <<flashVars, httpdVars, gallery_fav_pending, gallery_active_slot, gallery_sel,
                 gallery_fav, banner_preset, bnr_sel, bnr_fav, screenVars, clientVars, crashes>>

CoreSelect ==
  /\ At("apply") /\ loop.got \in Slots
  /\ bnr_sel' = loop.got /\ banner_preset' = "Custom"
  /\ loop' = Goto("fav")
  /\ UNCHANGED <<flashVars, httpdVars, sharedVars, bnr_fav, screenVars, clientVars, crashes>>

(* Clears the first word; the mapping stays for the display to release.     *)
CoreDelete ==
  /\ At("apply") /\ loop.got \notin Slots
  /\ LET s == loop.got - 256 IN
       /\ word0' = [word0 EXCEPT ![s] = "zero"]
       /\ IF bnr_sel = s THEN bnr_sel' = None /\ banner_preset' = "Battery"
                         ELSE UNCHANGED <<bnr_sel, banner_preset>>
  /\ loop' = Goto("fav")
  /\ UNCHANGED <<region, nvs, httpdVars, sharedVars, bnr_fav, screenVars, clientVars, crashes>>

FavRead ==
  /\ At("fav")
  /\ loop' = [pc |-> IF gallery_fav_pending = None THEN "heal" ELSE "favreset",
              got |-> gallery_fav_pending]
  /\ UNCHANGED <<flashVars, httpdVars, sharedVars, banner_preset, bnr_sel, bnr_fav,
                 screenVars, clientVars, crashes>>

FavApply ==
  /\ At("favreset")
  /\ gallery_fav_pending' = None
  /\ bnr_fav' = IF loop.got \in Slots THEN bnr_fav \ {loop.got} ELSE bnr_fav \cup {loop.got - 256}
  /\ loop' = Goto("heal")
  /\ UNCHANGED <<flashVars, httpdVars, gallery_pending, gallery_active_slot, gallery_sel,
                 gallery_fav, banner_preset, bnr_sel, screenVars, clientVars, crashes>>

(* Self-heal, then publish.                                                 *)
NeverDead == FALSE                                                  \* mutant

Dead == banner_preset = "Custom" /\ ~gallery_slot_used(bnr_sel)

HealAndPublish ==
  /\ At("heal")
  /\ bnr_sel' = IF Dead THEN None ELSE bnr_sel
  /\ banner_preset' = IF Dead THEN "Battery" ELSE banner_preset
  /\ gallery_sel' = IF banner_preset' = "Custom" THEN bnr_sel' ELSE None
  /\ gallery_fav' = bnr_fav
  /\ loop' = IdleLoop
  /\ UNCHANGED <<flashVars, httpdVars, gallery_pending, gallery_fav_pending,
                 gallery_active_slot, bnr_fav, screenVars, clientVars, crashes>>

(* Home Assistant or the page sets the preset entity.                       *)
PickPreset(p) ==
  /\ "preset" \in Requests /\ At("idle")
  /\ banner_preset' = p
  /\ UNCHANGED <<flashVars, httpdVars, sharedVars, loop, bnr_sel, bnr_fav, screenVars,
                 clientVars, crashes>>

-----------------------------------------------------------------------------
(* The draw interval: maps the new target, then swaps or releases.          *)

PresetChanged == banner_preset # drawn.preset                       \* mutant

CustomChanged ==                                                    \* mutant
  banner_preset = "Custom" /\ (banner_preset # drawn.preset \/ bnr_sel # drawn.sel)

TargetChanged ==
  \/ banner_preset # drawn.preset
  \/ banner_preset = "Custom" /\ bnr_sel # drawn.sel

Draw ==
  /\ HasDisplay /\ At("idle") /\ TargetChanged
  /\ drawn' = [preset |-> banner_preset, sel |-> bnr_sel]
  /\ loop' = Goto(IF banner_preset = "Custom" /\ DashLoads(bnr_sel) THEN "swap" ELSE "release")
  /\ mapped' = IF loop'.pc = "swap" THEN bnr_sel ELSE None
  /\ UNCHANGED <<flashVars, httpdVars, sharedVars, banner_preset, bnr_sel, bnr_fav, saver,
                 clientVars, crashes>>

DrawSwap ==
  /\ At("swap")
  /\ gallery_active_slot' = mapped
  /\ loop' = IdleLoop
  /\ UNCHANGED <<flashVars, httpdVars, gallery_pending, gallery_fav_pending, gallery_sel,
                 gallery_fav, banner_preset, bnr_sel, bnr_fav, screenVars, clientVars, crashes>>

DrawRelease ==
  /\ At("release")
  /\ gallery_active_slot' = None
  /\ IF banner_preset = "Custom" THEN bnr_sel' = None /\ banner_preset' = "Battery"
                                 ELSE UNCHANGED <<bnr_sel, banner_preset>>
  /\ loop' = IdleLoop
  /\ UNCHANGED <<flashVars, httpdVars, gallery_pending, gallery_fav_pending, gallery_sel,
                 gallery_fav, bnr_fav, screenVars, clientVars, crashes>>

(* render_saver: its own cache and its own mapping.                         *)
SaverPresetStale == banner_preset # saver.preset                    \* mutant

SaverStale == banner_preset # saver.preset \/ (banner_preset = "Custom" /\ bnr_sel # saver.sel)
SaverLoads == bnr_sel \in Slots /\ banner_preset = "Custom" /\ region[bnr_sel]["saver"]["head"] # {}

Rendered ==
  IF ~SaverStale THEN saver
  ELSE [up |-> saver.up, preset |-> banner_preset, sel |-> bnr_sel, custom |-> SaverLoads,
        map |-> IF SaverLoads THEN bnr_sel ELSE saver.map,
        of |-> IF SaverLoads THEN region[bnr_sel]["saver"]["head"] ELSE saver.of]

SaverTick ==
  /\ HasSaver /\ HasDisplay /\ At("idle")
  /\ saver' = [Rendered EXCEPT !.up = TRUE]
  /\ UNCHANGED <<flashVars, httpdVars, sharedVars, loopVars, drawn, mapped, clientVars, crashes>>

SaverHide ==
  /\ saver.up /\ At("idle")
  /\ saver' = [saver EXCEPT !.up = FALSE]
  /\ UNCHANGED <<flashVars, httpdVars, sharedVars, loopVars, drawn, mapped, clientVars, crashes>>

-----------------------------------------------------------------------------
(* Preferences are flushed key by key, every minute; a reset may come at    *)
(* any time.                                                                *)

NvsFlush ==
  /\ MaxCrashes > 0
  /\ nvs' \in {[nvs EXCEPT !.preset = banner_preset], [nvs EXCEPT !.sel = bnr_sel],
               [nvs EXCEPT !.fav = bnr_fav]}
  /\ UNCHANGED <<word0, region, httpdVars, sharedVars, loopVars, screenVars, clientVars, crashes>>

Crash ==
  /\ crashes < MaxCrashes
  /\ crashes' = crashes + 1
  /\ step' = [v \in Saves |-> IF h.save = v THEN "gone" ELSE step[v]]
  /\ h' = Idle /\ armed' = [r \in Regions |-> None]
  /\ gallery_pending' = None /\ gallery_fav_pending' = None
  /\ gallery_active_slot' = None /\ gallery_sel' = None /\ gallery_fav' = {}
  /\ loop' = IdleLoop
  /\ banner_preset' = nvs.preset /\ bnr_sel' = nvs.sel /\ bnr_fav' = nvs.fav
  /\ drawn' = NotDrawn /\ mapped' = None /\ saver' = SaverUnused
  /\ UNCHANGED <<flashVars, slot_id>>

-----------------------------------------------------------------------------
Upload ==
  \/ ScanSlot \/ GalleryFull \/ EraseRegion
  \/ WriteFirst \/ WriteLast \/ UploadFails \/ UploadAborted

Save(v) ==
  \/ PostDash(v) \/ PostRegion(v) \/ Commit(v) \/ CommitRefused(v)
  \/ SelectSaved(v) \/ Abandon(v)

Core == CoreReset \/ CoreSelect \/ CoreDelete \/ FavRead \/ FavApply \/ HealAndPublish
DrawEnd == DrawSwap \/ DrawRelease

Next ==
  \/ \E v \in Saves : Save(v)
  \/ Upload
  \/ \E s \in Slots : SelectOrDelete(s) \/ Favorite(s) \/ CommitAny(s)
  \/ \E r \in Regions : Bodyless(r)
  \/ CoreRead \/ Core
  \/ \E p \in Presets : PickPreset(p)
  \/ Draw \/ DrawEnd \/ SaverTick \/ SaverHide
  \/ NvsFlush \/ Crash

Spec == Init /\ [][Next]_vars

(* Both intervals are timers of one scheduler: each of them comes round     *)
(* again and again, and what it has begun it finishes.                      *)
Fairness ==
  /\ SF_vars(CoreRead) /\ WF_vars(Core) /\ SF_vars(Draw) /\ WF_vars(DrawEnd)

FairSpec == Spec /\ Fairness

-----------------------------------------------------------------------------
(* Properties.                                                              *)

(* gallery_next_free: what the worker erases is neither a committed banner  *)
(* nor the slot the display draws from.                                     *)
EraseIsSafe ==
  h.pc = "erase" => ~gallery_slot_used(h.slot) /\ mapped # h.slot

(* GalleryCommit: whatever the clients send, a slot that reads as used has  *)
(* the headers of all its regions.                                          *)
CommittedIsComplete ==
  \A s \in Slots, r \in Regions : gallery_slot_used(s) => region[s][r]["head"] # {}

(* build_custom: the pixels behind a mapping are one save's, whole, for as  *)
(* long as the mapping stands, through deletes and new uploads.             *)
MappedIsIntact ==
  mapped # None => /\ Clean(region[mapped]["dash"]["head"])
                   /\ region[mapped]["dash"]["body"] = region[mapped]["dash"]["head"]

(* What GET /gallery calls the selection is a used slot, whatever was       *)
(* deleted and whatever a reset restored; the consumer's tick is the only   *)
(* moment it may lag.                                                       *)
SelectionIsLive ==
  loop.pc \notin {"fav", "favreset", "heal"} /\ gallery_sel # None
    => gallery_slot_used(gallery_sel)

(* With one page saving at a time the partition is the abstract store: a    *)
(* banner appears whole and at once, through aborted uploads, failed        *)
(* writes, resets and deletes.                                              *)
Content(s) ==
  LET whole == {v \in Saves : \A r \in Regions, p \in Parts : region[s][r][p] = {v}}
  IN  IF whole = {} THEN {NoSave} ELSE whole

Abstract == INSTANCE BannerStore WITH
  Banners <- {{v} : v \in Saves},
  Places <- Slots,
  Free <- {},
  store <- [s \in Slots |-> IF gallery_slot_used(s) THEN Content(s) ELSE {}]

IsBannerStore == Abstract!Spec

(* The draw catches up: again and again the screen shows the selection,     *)
(* while no reset comes between a draw and the commit of what it drew.      *)
ScreenFollows ==
  []<>(crashes > 0 \/ mapped = IF banner_preset = "Custom" /\ gallery_slot_used(bnr_sel) THEN bnr_sel ELSE None)

(* A deleted slot does not stay reserved for the display.                   *)
DeletedIsReleased ==
  \A s \in Slots : (word0[s] = "zero") ~> (gallery_active_slot # s)

(* core.yaml:1313: "deleted the selection -> fall back to Battery": a       *)
(* delete leaves a baked preset alone.                                      *)
DeleteSparesBaked ==
  [][CoreDelete /\ banner_preset # "Custom" => banner_preset' = banner_preset]_vars

(* display_tdisplay.yaml:312: the screensaver is "a MIRROR of the live       *)
(* dashboard (top-bar chrome + status + banner)": a refresh leaves on it    *)
(* the banner that is in the selected slot now.                             *)
SaverInSync ==
  [][SaverTick /\ saver'.custom => saver'.of = region[bnr_sel]["saver"]["head"]]_vars
=============================================================================
