--------------------------- MODULE GalleryProofs ---------------------------
(***************************************************************************)
(* Theorems about the custom-banner gallery, for any number of slots,      *)
(* saves and resets, and any mixture of requests.                          *)
(***************************************************************************)
EXTENDS Gallery, TLAPS, FiniteSetTheorems

Uploading == {"first", "last"}
Words == {"erased", "WDB1", "zero"}
RegionType == [Slots -> [Regions -> [Parts -> SUBSET Saves]]]

-----------------------------------------------------------------------------
(* The partition.                                                           *)

LEMMA SlotFacts ==
  /\ None \notin Slots /\ 0 \in 0..NumSlots
  /\ \A n \in 0..NumSlots : n # NumSlots => n \in Slots
  /\ \A i \in Intents : i \notin Slots => i - 256 \in Slots
  /\ \A s \in Slots : s \in Intents /\ 256 + s \in Intents
  BY GalleryAssumption DEF None, Slots, Intents, Delete

(* A region is erased as a whole and alone.                                 *)
LEMMA ErasedFacts ==
  ASSUME NEW s \in Slots, NEW k \in 1..4, region \in RegionType
  PROVE  /\ Erased(s, k) \in RegionType
         /\ \A t \in Slots \ {s} : Erased(s, k)[t] = region[t]
         /\ \A r \in Regions \ {Layout[k]} : Erased(s, k)[s][r] = region[s][r]
         /\ Erased(s, k)[s][Layout[k]] = Blank
         /\ Layout[k] \in Regions /\ (Layout[k] = "dash" <=> k = 1)
<1>1. Layout[k] \in Regions /\ (Layout[k] = "dash" <=> k = 1)
  <2>1. k = 1 \/ k = 2 \/ k = 3 \/ k = 4
    OBVIOUS
  <2> QED  BY <2>1 DEF Layout, Regions
<1>2. Blank \in [Parts -> SUBSET Saves]
  BY DEF Blank
<1> HIDE DEF Blank
<1> DEFINE r0 == Layout[k]
<1>3. Erased(s, k) = [region EXCEPT ![s] = [region[s] EXCEPT ![r0] = Blank]]
  BY DEF Erased
<1> HIDE DEF r0
<1>4. r0 \in Regions
  BY <1>1 DEF r0
<1>5. [region[s] EXCEPT ![r0] = Blank] \in [Regions -> [Parts -> SUBSET Saves]]
  BY <1>2, <1>4 DEF RegionType
<1>6. Erased(s, k) \in RegionType
  BY <1>3, <1>5 DEF RegionType
<1> QED  BY <1>1, <1>3, <1>4, <1>6 DEF RegionType, r0

(* Programming adds one save's bits to one part of one region.              *)
LEMMA ProgrammedFacts ==
  ASSUME NEW s \in Slots, NEW r \in Regions, NEW p \in Parts, NEW v \in Saves,
         region \in RegionType
  PROVE  /\ Programmed(s, r, p, v) \in RegionType
         /\ \A t \in Slots \ {s} : Programmed(s, r, p, v)[t] = region[t]
         /\ \A q \in Regions \ {r} : Programmed(s, r, p, v)[s][q] = region[s][q]
         /\ \A q \in Parts \ {p} : Programmed(s, r, p, v)[s][r][q] = region[s][r][q]
         /\ Programmed(s, r, p, v)[s][r][p] = region[s][r][p] \cup {v}
<1> DEFINE part == [region[s][r] EXCEPT ![p] = region[s][r][p] \cup {v}]
           slot == [region[s] EXCEPT ![r] = part]
<1>1. part \in [Parts -> SUBSET Saves]
  BY DEF RegionType
<1>2. Programmed(s, r, p, v) = [region EXCEPT ![s] = slot]
  BY DEF Programmed
<1>3. /\ part[p] = region[s][r][p] \cup {v}
      /\ \A q \in Parts \ {p} : part[q] = region[s][r][q]
  BY DEF RegionType
<1> HIDE DEF part
<1>4. /\ slot \in [Regions -> [Parts -> SUBSET Saves]]
      /\ slot[r] = part /\ \A q \in Regions \ {r} : slot[q] = region[s][q]
  BY <1>1 DEF RegionType
<1> HIDE DEF slot
<1> QED  BY <1>2, <1>3, <1>4 DEF RegionType

LEMMA PartFacts == \A r \in Regions : FirstPart(r) \in Parts /\ LastPart(r) \in Parts
  BY DEF FirstPart, LastPart, Parts

-----------------------------------------------------------------------------
(* Type correctness.                                                        *)

(* TypeOK by the owner of the state.  It is not inductive by itself: a      *)
(* worker, the loop and a client must hold a slot by the time they use one. *)
FlashType ==
  /\ word0 \in [Slots -> Words] /\ region \in RegionType
  /\ nvs \in [preset : Presets, sel : SlotOrNone, fav : SUBSET Slots]

Workers ==
  [pc : {"idle", "scan", "erase", "first", "last"}, region : Regions,
   save : Saves \cup {NoSave}, slot : -1 .. NumSlots, k : 0 .. 4, pass : 0 .. 2]

WorkerType ==
  /\ h \in Workers
  /\ armed \in [Regions -> SlotOrNone]
  /\ h.pc = "scan" => h.slot \in 0 .. NumSlots /\ h.k = 1
  /\ h.pc = "erase" => h.k \in 1 .. 4
  /\ h.pc \in {"erase"} \cup Uploading => h.slot \in Slots
  /\ h.pc # "idle" => h.save \in Saves
  /\ h.pc \in {"scan", "erase"} => h.region = "dash"

SharedType ==
  /\ gallery_pending \in Intents \cup {None} /\ gallery_fav_pending \in Intents \cup {None}
  /\ gallery_active_slot \in SlotOrNone
  /\ gallery_sel \in SlotOrNone /\ gallery_fav \in SUBSET Slots

LoopType ==
  /\ loop \in [pc : {"idle", "reset", "apply", "fav", "favreset", "heal", "swap", "release"},
               got : Intents \cup {None}]
  /\ loop.pc \in {"reset", "apply", "favreset"} => loop.got \in Intents
  /\ banner_preset \in Presets /\ bnr_sel \in SlotOrNone /\ bnr_fav \in SUBSET Slots

Targets == [preset : Presets \cup {""}, sel : SlotOrNone \cup {-2}]

SaverCaches ==
  [up : BOOLEAN, preset : Presets \cup {""}, sel : SlotOrNone \cup {-999},
   map : SlotOrNone, of : SUBSET Saves, custom : BOOLEAN]

ScreenType == drawn \in Targets /\ mapped \in SlotOrNone /\ saver \in SaverCaches

ClientType ==
  /\ step \in [Saves -> Regions \cup {"commit", "select"} \cup Finished]
  /\ slot_id \in [Saves -> SlotOrNone]
  /\ \A v \in Saves : step[v] \notin {"dash"} \cup Finished => slot_id[v] \in Slots

Typed ==
  /\ FlashType /\ WorkerType /\ SharedType /\ LoopType /\ ScreenType /\ ClientType
  /\ crashes \in 0 .. MaxCrashes

LEMMA TypedImpliesType == Typed => TypeOK
  BY DEF Typed, TypeOK, FlashType, WorkerType, SharedType, LoopType, ScreenType,
         ClientType, Words, RegionType, Workers, Targets, SaverCaches

(* A part keeps its type while its state is left alone.                     *)
LEMMA TypeFrame ==
  /\ FlashType /\ UNCHANGED flashVars => FlashType'
  /\ WorkerType /\ UNCHANGED httpdVars => WorkerType'
  /\ SharedType /\ UNCHANGED sharedVars => SharedType'
  /\ LoopType /\ UNCHANGED loopVars => LoopType'
  /\ ScreenType /\ UNCHANGED screenVars => ScreenType'
  /\ ClientType /\ UNCHANGED clientVars => ClientType'
<1>1. FlashType /\ UNCHANGED flashVars => FlashType'
  BY DEF FlashType, flashVars
<1>2. WorkerType /\ UNCHANGED httpdVars => WorkerType'
  BY DEF WorkerType, httpdVars
<1>3. SharedType /\ UNCHANGED sharedVars => SharedType'
  BY DEF SharedType, sharedVars
<1>4. LoopType /\ UNCHANGED loopVars => LoopType'
  BY DEF LoopType, loopVars
<1>5. ScreenType /\ UNCHANGED screenVars => ScreenType'
  BY DEF ScreenType, screenVars
<1>6. ClientType /\ UNCHANGED clientVars => ClientType'
  BY DEF ClientType, clientVars
<1> QED  BY <1>1, <1>2, <1>3, <1>4, <1>5, <1>6

LEMMA TypedInit == Init => Typed
<1> SUFFICES ASSUME Init PROVE Typed
  OBVIOUS
<1>1. 0 \in Slots /\ None \in SlotOrNone /\ None \in -1 .. NumSlots
  BY GalleryAssumption DEF SlotOrNone, Slots, None
<1>2. FlashType
  BY <1>1 DEF Init, FlashType, RegionType, Blank, Words, Presets, SlotOrNone
<1>3. WorkerType
  BY <1>1 DEF Init, WorkerType, Workers, Idle, Regions, Uploading
<1>4. SharedType /\ LoopType
  BY <1>1 DEF Init, SharedType, LoopType, IdleLoop, Presets, SlotOrNone
<1>5. ScreenType
  <2>1. drawn = NotDrawn /\ saver = SaverUnused /\ mapped = None
    BY DEF Init
  <2> QED  BY <1>1, <2>1 DEF ScreenType, Targets, SaverCaches, NotDrawn, SaverUnused
<1>6. ClientType
  BY <1>1 DEF Init, ClientType, Regions
<1>7. crashes \in 0 .. MaxCrashes
  BY GalleryAssumption DEF Init
<1> QED  BY <1>2, <1>3, <1>4, <1>5, <1>6, <1>7 DEF Typed

LEMMA UploadTyped ==
  ASSUME Typed, Upload
  PROVE  Typed'
<1> USE DEF Typed
<1>0. NumSlots \in Nat \ {0} /\ Slots = 0 .. (NumSlots - 1) /\ None = -1
  BY GalleryAssumption DEF Slots, None
<1>1. CASE ScanSlot
  <2>1. WorkerType'
    <3>1. h.slot + 1 \in 0 .. NumSlots /\ h.slot \in Slots
      BY <1>0, <1>1 DEF ScanSlot, WorkerType, gallery_slot_cap
    <3>2. CASE Taken(h.slot)
      BY <1>0, <1>1, <3>1, <3>2 DEF ScanSlot, WorkerType, Workers, Uploading
    <3>3. CASE ~Taken(h.slot)
      BY <1>1, <3>1, <3>3 DEF ScanSlot, WorkerType, Workers, Uploading
    <3> QED  BY <3>2, <3>3
  <2> QED  BY <1>1, <2>1, TypeFrame DEF ScanSlot
<1>2. CASE GalleryFull
  <2>1. WorkerType'
    BY <1>0, <1>2 DEF GalleryFull, SecondPass, Scan, WorkerType, Workers, Idle, Uploading
  <2>2. ClientType'
    BY <1>2 DEF GalleryFull, WorkerType, ClientType, Finished
  <2> QED  BY <1>2, <2>1, <2>2, TypeFrame DEF GalleryFull
<1>3. CASE EraseRegion
  <2>1. h.slot \in Slots /\ h.k \in 1 .. 4
    BY <1>3 DEF EraseRegion, WorkerType
  <2>2. FlashType'
    BY <1>3, <2>1, ErasedFacts DEF EraseRegion, FlashType, Words
  <2>3. WorkerType'
    <3>1. CASE h.k < 4
      BY <1>3, <2>1, <3>1 DEF EraseRegion, WorkerType, Workers, Uploading
    <3>2. CASE h.k = 4 /\ h.pass = 1
      BY <1>0, <1>3, <3>2 DEF EraseRegion, SecondPass, Scan, WorkerType, Workers, Uploading
    <3>3. CASE h.k = 4 /\ h.pass # 1
      BY <1>3, <2>1, <3>3 DEF EraseRegion, WorkerType, Workers, Uploading
    <3> QED  BY <2>1, <3>1, <3>2, <3>3
  <2> QED  BY <1>3, <2>2, <2>3, TypeFrame DEF EraseRegion
<1>4. CASE WriteFirst
  <2>1. FlashType'
    BY <1>4, ProgrammedFacts, PartFacts DEF WriteFirst, FlashType, WorkerType, Workers, Uploading
  <2>2. WorkerType'
    BY <1>4 DEF WriteFirst, WorkerType, Workers, Uploading
  <2> QED  BY <1>4, <2>1, <2>2, TypeFrame DEF WriteFirst
<1>5. CASE WriteLast
  <2>1. NextStep[h.region] \in Regions \cup {"commit", "select"}
    BY DEF WorkerType, Workers, Regions, NextStep
  <2>2. FlashType'
    BY <1>5, ProgrammedFacts, PartFacts DEF WriteLast, FlashType, WorkerType, Workers, Uploading
  <2>3. WorkerType'
    BY <1>0, <1>5 DEF WriteLast, WorkerType, Workers, Idle, Uploading, Regions
  <2>4. ClientType'
    BY <1>5, <2>1 DEF WriteLast, WorkerType, Workers, ClientType, Uploading, SlotOrNone
  <2> QED  BY <1>5, <2>2, <2>3, <2>4, TypeFrame DEF WriteLast
<1>6. CASE UploadFails
  <2>1. WorkerType'
    <3>1. CASE h.pc = "erase" /\ h.pass = 1
      BY <1>0, <1>6, <3>1 DEF UploadFails, SecondPass, Scan, WorkerType, Workers, Uploading
    <3>2. CASE ~(h.pc = "erase" /\ h.pass = 1)
      BY <1>0, <1>6, <3>2 DEF UploadFails, WorkerType, Workers, Idle, Regions, Uploading
    <3> QED  BY <3>1, <3>2
  <2>2. ClientType'
    BY <1>6 DEF UploadFails, WorkerType, ClientType, Finished
  <2> QED  BY <1>6, <2>1, <2>2, TypeFrame DEF UploadFails
<1>7. CASE UploadAborted
  <2>1. WorkerType'
    BY <1>0, <1>7 DEF UploadAborted, WorkerType, Workers, Idle, Uploading, Regions, SlotOrNone
  <2>2. ClientType'
    BY <1>7 DEF UploadAborted, WorkerType, Workers, ClientType, Finished
  <2> QED  BY <1>7, <2>1, <2>2, TypeFrame DEF UploadAborted
<1> QED  BY <1>1, <1>2, <1>3, <1>4, <1>5, <1>6, <1>7 DEF Upload

(* A commit programs the word of one slot and leaves an intent.             *)
LEMMA CommitTyped ==
  ASSUME Typed, NEW s \in Slots, CommitSlot(s)
  PROVE  FlashType' /\ WorkerType' /\ SharedType' /\ LoopType' /\ ScreenType'
         /\ crashes' = crashes /\ slot_id' = slot_id
<1> USE DEF Typed, CommitSlot
<1>1. FlashType'
  BY DEF FlashType, CommitWord, Words
<1>2. SharedType'
  BY SlotFacts DEF SharedType
<1> QED  BY <1>1, <1>2, TypeFrame

LEMMA SaveTyped ==
  ASSUME Typed, NEW v \in Saves, Save(v)
  PROVE  Typed'
<1> USE DEF Typed
<1>0. NumSlots \in Nat \ {0} /\ Slots = 0 .. (NumSlots - 1) /\ None = -1
  BY GalleryAssumption DEF Slots, None
<1>1. CASE PostDash(v)
  <2>1. WorkerType'
    BY <1>0, <1>1 DEF PostDash, Scan, WorkerType, Workers, Uploading, SlotOrNone, Regions
  <2> QED  BY <1>1, <2>1, TypeFrame DEF PostDash
<1>2. CASE PostRegion(v)
  <2>1. slot_id[v] \in Slots
    BY <1>2 DEF PostRegion, ClientType, Regions, Finished
  <2>2. WorkerType'
    BY <1>0, <1>2, <2>1 DEF PostRegion, WorkerType, Workers, Uploading, SlotOrNone
  <2> QED  BY <1>2, <2>2, TypeFrame DEF PostRegion
<1>3. CASE Commit(v)
  <2>1. slot_id[v] \in Slots
    BY <1>3 DEF Commit, ClientType, Finished
  <2>2. ClientType'
    BY <1>3, <2>1 DEF Commit, CommitSlot, ClientType, Finished
  <2> QED  BY <1>3, <2>1, <2>2, CommitTyped DEF Commit
<1>4. CASE CommitRefused(v)
  <2>1. ClientType'
    BY <1>4 DEF CommitRefused, ClientType, Finished
  <2> QED  BY <1>4, <2>1, TypeFrame DEF CommitRefused
<1>5. CASE SelectSaved(v)
  <2>1. SharedType'
    BY <1>5, SlotFacts DEF SelectSaved, SharedType, gallery_slot_used
  <2>2. ClientType'
    BY <1>5 DEF SelectSaved, ClientType, Finished
  <2> QED  BY <1>5, <2>1, <2>2, TypeFrame DEF SelectSaved
<1>6. CASE Abandon(v)
  <2>1. ClientType'
    BY <1>6 DEF Abandon, ClientType, Finished
  <2> QED  BY <1>6, <2>1, TypeFrame DEF Abandon
<1> QED  BY <1>1, <1>2, <1>3, <1>4, <1>5, <1>6 DEF Save

LEMMA RequestTyped ==
  ASSUME Typed,
         \/ \E s \in Slots : SelectOrDelete(s) \/ Favorite(s) \/ CommitAny(s)
         \/ \E r \in Regions : Bodyless(r)
  PROVE  Typed'
<1> USE DEF Typed
<1>1. ASSUME NEW s \in Slots, SelectOrDelete(s) \/ Favorite(s)
      PROVE  Typed'
  <2>1. SharedType'
    BY <1>1, SlotFacts DEF SelectOrDelete, Favorite, SharedType, Intents
  <2>2. UNCHANGED <<flashVars, httpdVars, loopVars, screenVars, clientVars, crashes>>
    BY <1>1 DEF SelectOrDelete, Favorite
  <2> QED  BY <2>1, <2>2, TypeFrame
<1>2. ASSUME NEW s \in Slots, CommitAny(s)
      PROVE  Typed'
  <2>1. CommitSlot(s) /\ step' = step
    BY <1>2 DEF CommitAny
  <2> QED  BY <2>1, CommitTyped DEF ClientType
<1>3. ASSUME NEW r \in Regions, Bodyless(r)
      PROVE  Typed'
  <2>1. FlashType'
    BY <1>3, ProgrammedFacts, PartFacts DEF Bodyless, FlashType, WorkerType, SlotOrNone
  <2>2. WorkerType'
    BY <1>3 DEF Bodyless, WorkerType, SlotOrNone
  <2> QED  BY <1>3, <2>1, <2>2, TypeFrame DEF Bodyless
<1> QED  BY <1>1, <1>2, <1>3

LEMMA LoopTyped ==
  ASSUME Typed, CoreRead \/ Core \/ \E p \in Presets : PickPreset(p)
  PROVE  Typed'
<1> USE DEF Typed
<1>0. "Battery" \in Presets /\ "Custom" \in Presets /\ None \in SlotOrNone
  BY DEF Presets, SlotOrNone
<1>1. CASE CoreRead
  <2>1. LoopType'
    BY <1>1 DEF CoreRead, LoopType, SharedType
  <2> QED  BY <1>1, <2>1, TypeFrame DEF CoreRead
<1>2. CASE CoreReset
  <2>1. SharedType' /\ LoopType'
    BY <1>2 DEF CoreReset, At, Goto, LoopType, SharedType
  <2> QED  BY <1>2, <2>1, TypeFrame DEF CoreReset
<1>3. CASE CoreSelect
  <2>1. LoopType'
    BY <1>0, <1>3 DEF CoreSelect, Goto, LoopType, SlotOrNone
  <2> QED  BY <1>3, <2>1, TypeFrame DEF CoreSelect
<1>4. CASE CoreDelete
  <2>1. loop.got - 256 \in Slots
    BY <1>4, SlotFacts DEF CoreDelete, At, LoopType
  <2>2. FlashType'
    BY <1>4, <2>1 DEF CoreDelete, FlashType, Words
  <2>3. LoopType'
    BY <1>0, <1>4 DEF CoreDelete, Goto, LoopType
  <2> QED  BY <1>4, <2>2, <2>3, TypeFrame DEF CoreDelete
<1>5. CASE FavRead
  <2>1. LoopType'
    BY <1>5 DEF FavRead, LoopType, SharedType
  <2> QED  BY <1>5, <2>1, TypeFrame DEF FavRead
<1>6. CASE FavApply
  <2>1. loop.got \in Intents
    BY <1>6 DEF FavApply, At, LoopType
  <2>2. bnr_fav' \in SUBSET Slots
    BY <1>6, <2>1, SlotFacts DEF FavApply, LoopType
  <2>3. SharedType' /\ LoopType'
    BY <1>6, <2>2 DEF FavApply, Goto, LoopType, SharedType
  <2> QED  BY <1>6, <2>3, TypeFrame DEF FavApply
<1>7. CASE HealAndPublish
  <2>1. bnr_sel' \in SlotOrNone /\ banner_preset' \in Presets
    BY <1>0, <1>7 DEF HealAndPublish, LoopType
  <2>2. SharedType' /\ LoopType'
    BY <1>0, <1>7, <2>1 DEF HealAndPublish, IdleLoop, LoopType, SharedType
  <2> QED  BY <1>7, <2>2, TypeFrame DEF HealAndPublish
<1>8. ASSUME NEW p \in Presets, PickPreset(p)
      PROVE  Typed'
  <2>1. LoopType'
    BY <1>8 DEF PickPreset, LoopType
  <2> QED  BY <1>8, <2>1, TypeFrame DEF PickPreset
<1> QED  BY <1>1, <1>2, <1>3, <1>4, <1>5, <1>6, <1>7, <1>8 DEF Core

LEMMA ScreenTyped ==
  ASSUME Typed, Draw \/ DrawEnd \/ SaverTick \/ SaverHide
  PROVE  Typed'
<1> USE DEF Typed
<1>0. "Battery" \in Presets /\ None \in SlotOrNone
  BY DEF Presets, SlotOrNone
<1>1. CASE Draw
  <2>1. ScreenType'
    BY <1>0, <1>1 DEF Draw, ScreenType, Targets, LoopType
  <2>2. LoopType'
    BY <1>1 DEF Draw, Goto, LoopType
  <2> QED  BY <1>1, <2>1, <2>2, TypeFrame DEF Draw
<1>2. CASE DrawSwap
  <2>1. SharedType' /\ LoopType'
    BY <1>2 DEF DrawSwap, IdleLoop, ScreenType, SharedType, LoopType
  <2> QED  BY <1>2, <2>1, TypeFrame DEF DrawSwap
<1>3. CASE DrawRelease
  <2>1. SharedType' /\ LoopType'
    BY <1>0, <1>3 DEF DrawRelease, IdleLoop, SharedType, LoopType
  <2> QED  BY <1>3, <2>1, TypeFrame DEF DrawRelease
<1>4. /\ Rendered \in SaverCaches
      /\ \A c \in SaverCaches, b \in BOOLEAN : [c EXCEPT !.up = b] \in SaverCaches
  <2> DEFINE Flags == BOOLEAN
             Names == Presets \cup {""}
             Numbers == SlotOrNone \cup {-999}
             Sources == SUBSET Saves
             map == IF SaverLoads THEN bnr_sel ELSE saver.map
             of == IF SaverLoads THEN region[bnr_sel]["saver"]["head"] ELSE saver.of
  <2>1. SaverLoads => bnr_sel \in SlotOrNone /\ region[bnr_sel]["saver"]["head"] \in Sources
    BY DEF SaverLoads, FlashType, RegionType, Regions, Parts, SlotOrNone
  <2>2. SaverLoads \in Flags /\ banner_preset \in Names /\ bnr_sel \in Numbers
    BY DEF SaverLoads, LoopType
  <2>3. SaverCaches = [up : Flags, preset : Names, sel : Numbers, map : SlotOrNone,
                       of : Sources, custom : Flags]
    BY DEF SaverCaches
  <2> HIDE DEF Flags, Names, Numbers, Sources
  <2>4. saver.up \in Flags /\ saver.map \in SlotOrNone /\ saver.of \in Sources
    BY <2>3 DEF ScreenType
  <2>5. map \in SlotOrNone /\ of \in Sources
    BY <2>1, <2>4
  <2> HIDE DEF map, of
  <2>6. [up |-> saver.up, preset |-> banner_preset, sel |-> bnr_sel, custom |-> SaverLoads,
         map |-> map, of |-> of] \in SaverCaches
    BY <2>2, <2>3, <2>4, <2>5
  <2>7. \A c \in SaverCaches, b \in Flags : [c EXCEPT !.up = b] \in SaverCaches
    BY <2>3
  <2> QED  BY <2>6, <2>7 DEF Rendered, ScreenType, map, of, Flags
<1>5. CASE SaverTick
  <2>1. saver' \in SaverCaches
    BY <1>4, <1>5 DEF SaverTick
  <2>2. ScreenType'
    BY <1>5, <2>1 DEF SaverTick, ScreenType
  <2> QED  BY <1>5, <2>2, TypeFrame DEF SaverTick
<1>6. CASE SaverHide
  <2>1. saver' \in SaverCaches
    BY <1>4, <1>6 DEF SaverHide, ScreenType
  <2>2. ScreenType'
    BY <1>6, <2>1 DEF SaverHide, ScreenType
  <2> QED  BY <1>6, <2>2, TypeFrame DEF SaverHide
<1> QED  BY <1>1, <1>2, <1>3, <1>5, <1>6 DEF DrawEnd

LEMMA ResetTyped ==
  ASSUME Typed, NvsFlush \/ Crash
  PROVE  Typed'
<1> USE DEF Typed
<1>1. CASE NvsFlush
  <2>1. nvs' \in [preset : Presets, sel : SlotOrNone, fav : SUBSET Slots]
    BY <1>1 DEF NvsFlush, FlashType, LoopType
  <2>2. FlashType'
    BY <1>1, <2>1 DEF NvsFlush, FlashType
  <2> QED  BY <1>1, <2>2, TypeFrame DEF NvsFlush
<1>2. CASE Crash
  <2>0. None \in SlotOrNone /\ None \in -1 .. NumSlots
    BY GalleryAssumption DEF SlotOrNone, None
  <2>1. WorkerType'
    BY <1>2, <2>0 DEF Crash, WorkerType, Workers, Idle, Regions, Uploading
  <2>2. SharedType' /\ LoopType'
    BY <1>2, <2>0 DEF Crash, SharedType, LoopType, IdleLoop, FlashType
  <2>3. drawn' \in Targets /\ saver' \in SaverCaches
    <3>1. drawn' = NotDrawn /\ saver' = SaverUnused
      BY <1>2 DEF Crash
    <3> QED  BY <2>0, <3>1 DEF Targets, SaverCaches, NotDrawn, SaverUnused
  <2>4. ScreenType'
    BY <1>2, <2>0, <2>3 DEF Crash, ScreenType
  <2>5. ClientType'
    BY <1>2 DEF Crash, ClientType, Finished
  <2>6. crashes' \in 0 .. MaxCrashes
    BY <1>2, GalleryAssumption DEF Crash
  <2> QED  BY <1>2, <2>1, <2>2, <2>4, <2>5, <2>6, TypeFrame DEF Crash
<1> QED  BY <1>1, <1>2

LEMMA TypedStep == Typed /\ [Next]_vars => Typed'
<1> SUFFICES ASSUME Typed, [Next]_vars PROVE Typed'
  OBVIOUS
<1>1. CASE UNCHANGED vars
  BY <1>1, TypeFrame
     DEF Typed, vars, flashVars, httpdVars, sharedVars, loopVars, screenVars, clientVars
<1> QED  BY <1>1, SaveTyped, UploadTyped, RequestTyped, LoopTyped, ScreenTyped,
            ResetTyped DEF Next

(* Every variable keeps its type.                                           *)
THEOREM TypeCorrect == Spec => []TypeOK
  BY TypedInit, TypedStep, TypedImpliesType, PTL DEF Spec

-----------------------------------------------------------------------------
(* What is erased and what is shown.                                        *)

(* The slot a save writes its pixels to is free and not on the screen.      *)
SlotIsFree ==
  h.pc \in {"erase"} \cup Uploading /\ h.region = "dash"
    => ~gallery_slot_used(h.slot) /\ mapped # h.slot

(* No pixels are written over others: not by the request that is served,    *)
(* and not by a handler that an aborted upload left half way.               *)
BodyIsBlank ==
  /\ h.pc = "erase" /\ h.k > 1 => region[h.slot]["dash"]["body"] = {}
  /\ h.pc \in Uploading /\ h.region = "dash" => region[h.slot]["dash"]["body"] = {}
  /\ h.pc # "idle" /\ h.region = "dash" => armed["dash"] = None
  /\ armed["dash"] # None => region[armed["dash"]]["dash"]["body"] = {}

(* The published slot is the mapped one but for the moment between the new  *)
(* mapping and its publication, when the slot is still used.                *)
MapIsKnown ==
  /\ mapped # None => mapped = gallery_active_slot \/ loop.pc = "swap"
  /\ loop.pc = "swap" => mapped \in Slots /\ gallery_slot_used(mapped)
  /\ loop.pc = "release" => mapped = None

GalleryInv == Typed /\ SlotIsFree /\ BodyIsBlank /\ MapIsKnown /\ MappedIsIntact

LEMMA BlankFacts == Blank["body"] = {} /\ Blank["head"] = {} /\ ~Clean({})
<1>1. Cardinality({}) = 0
  BY FS_EmptySet
<1> QED  BY <1>1 DEF Blank, Parts, Clean

(* A region that holds no pixels is not on the screen.                      *)
LEMMA BlankIsNotMapped ==
  ASSUME GalleryInv, NEW s \in Slots, region[s]["dash"]["body"] = {}
  PROVE  mapped # s
  BY SlotFacts, BlankFacts DEF GalleryInv, MappedIsIntact

LEMMA GalleryInvInit == Init => GalleryInv
<1> SUFFICES ASSUME Init PROVE GalleryInv
  OBVIOUS
<1>1. /\ h.pc = "idle" /\ armed["dash"] = None /\ mapped = None
      /\ loop.pc = "idle"
  BY DEF Init, Idle, IdleLoop, Regions
<1> QED  BY <1>1, TypedInit
         DEF GalleryInv, SlotIsFree, BodyIsBlank, MapIsKnown, MappedIsIntact, Uploading

(* A step that leaves alone what the invariant speaks of.                   *)
LEMMA GalleryFrame ==
  ASSUME GalleryInv, Typed',
         UNCHANGED <<word0, region, h, armed, mapped, gallery_active_slot>>,
         loop'.pc = loop.pc \/ {loop.pc, loop'.pc} \cap {"swap", "release"} = {}
  PROVE  GalleryInv'
<1>1. SlotIsFree'
  BY DEF GalleryInv, SlotIsFree, gallery_slot_used
<1>2. BodyIsBlank'
  BY DEF GalleryInv, BodyIsBlank
<1>3. MapIsKnown'
  BY DEF GalleryInv, MapIsKnown, gallery_slot_used
<1>4. MappedIsIntact'
  BY DEF GalleryInv, MappedIsIntact, Clean
<1> QED  BY <1>1, <1>2, <1>3, <1>4 DEF GalleryInv

LEMMA UploadSafe ==
  ASSUME GalleryInv, Upload, Typed'
  PROVE  GalleryInv'
<1> USE DEF GalleryInv
<1>0. None \notin Slots /\ WorkerType /\ FlashType /\ LoopType /\ ScreenType
  BY SlotFacts DEF Typed
<1>1. CASE ScanSlot
  <2>0. UNCHANGED <<word0, region, armed, mapped, gallery_active_slot, loop>>
    BY <1>1 DEF ScanSlot, flashVars, sharedVars, loopVars, screenVars
  <2>1. CASE Taken(h.slot)
    <3>1. h'.pc = "scan" /\ h'.region = "dash"
      BY <1>0, <1>1, <2>1 DEF ScanSlot, WorkerType, Workers
    <3> QED  BY <1>0, <1>1, <2>0, <3>1
         DEF SlotIsFree, BodyIsBlank, MapIsKnown, MappedIsIntact, WorkerType,
             Uploading, gallery_slot_used, Clean, ScanSlot
  <2>2. CASE ~Taken(h.slot)
    <3>1. h'.pc = "erase" /\ h'.region = "dash" /\ h'.slot = h.slot /\ h'.k = 1
      BY <1>0, <1>1, <2>2 DEF ScanSlot, WorkerType, Workers
    <3>2. ~gallery_slot_used(h.slot) /\ mapped # h.slot
      <4>1. h.slot \in 0 .. NumSlots /\ h.slot # NumSlots
        BY <1>0, <1>1 DEF ScanSlot, WorkerType, gallery_slot_cap
      <4>2. h.slot \in Slots
        BY <4>1, SlotFacts
      <4> QED  BY <1>0, <2>2, <4>2 DEF Taken, MapIsKnown
    <3> QED  BY <1>0, <1>1, <2>0, <3>1, <3>2
         DEF SlotIsFree, BodyIsBlank, MapIsKnown, MappedIsIntact, WorkerType,
             Uploading, gallery_slot_used, Clean, ScanSlot
  <2> QED  BY <2>1, <2>2
<1>2. CASE GalleryFull \/ UploadFails
  <2>0. UNCHANGED <<word0, region, armed, mapped, gallery_active_slot, loop>>
    BY <1>2 DEF GalleryFull, UploadFails, flashVars, sharedVars, loopVars, screenVars
  <2>1. h'.pc = "idle" \/ (h.pc \in {"scan", "erase"} /\ h'.pc = "scan" /\ h'.region = "dash")
    BY <1>2 DEF GalleryFull, UploadFails, SecondPass, Scan, Idle
  <2> QED  BY <1>0, <2>0, <2>1
       DEF SlotIsFree, BodyIsBlank, MapIsKnown, MappedIsIntact, WorkerType,
           Uploading, gallery_slot_used, Clean
<1>3. CASE EraseRegion
  <2>0. UNCHANGED <<armed, mapped, gallery_active_slot, loop>>
    BY <1>3 DEF EraseRegion, sharedVars, loopVars, screenVars
  <2>1. h.slot \in Slots /\ h.k \in 1 .. 4 /\ h.region = "dash" /\ h.pc = "erase"
    BY <1>0, <1>3 DEF EraseRegion, WorkerType
  <2>2. /\ \A s \in Slots \ {h.slot} : region'[s] = region[s]
        /\ region'[h.slot]["dash"]["body"] = {}
    BY <1>0, <1>3, <2>1, ErasedFacts, BlankFacts
       DEF EraseRegion, FlashType, BodyIsBlank, Regions
  <2>3. ~gallery_slot_used(h.slot) /\ mapped # h.slot
    BY <2>1 DEF SlotIsFree
  <2>4. \A s \in Slots : gallery_slot_used(s)' <=> gallery_slot_used(s)
    BY <1>0, <1>3, <2>1, <2>3 DEF EraseRegion, gallery_slot_used, FlashType
  <2>5. /\ h'.slot = h.slot \/ (h'.pc = "scan" /\ h'.region = "dash")
        /\ h'.pc \in {"erase", "scan", "first"} /\ h'.region = "dash"
    BY <1>0, <1>3, <2>1 DEF EraseRegion, SecondPass, Scan, WorkerType, Workers
  <2>6. SlotIsFree'
    BY <2>0, <2>1, <2>3, <2>4, <2>5 DEF SlotIsFree, Uploading
  <2>7. BodyIsBlank'
    BY <1>0, <2>0, <2>1, <2>2, <2>5 DEF BodyIsBlank, Uploading
  <2>8. MapIsKnown' /\ MappedIsIntact'
    BY <1>0, <2>0, <2>2, <2>3, <2>4 DEF MapIsKnown, MappedIsIntact, ScreenType, SlotOrNone, Clean
  <2> QED  BY <2>6, <2>7, <2>8
<1>4. CASE WriteFirst
  <2>0. UNCHANGED <<word0, armed, mapped, gallery_active_slot, loop>>
    BY <1>4 DEF WriteFirst, sharedVars, loopVars, screenVars
  <2>1. h.slot \in Slots /\ h.save \in Saves /\ h.region \in Regions /\ h.pc = "first"
    BY <1>0, <1>4 DEF WriteFirst, WorkerType, Workers, Uploading
  <2>2. h'.pc = "last" /\ h'.slot = h.slot /\ h'.region = h.region
    BY <1>0, <1>4 DEF WriteFirst, WorkerType, Workers
  <2>3. /\ \A s \in Slots \ {h.slot} : region'[s] = region[s]
        /\ h.region # "dash" => region'[h.slot]["dash"] = region[h.slot]["dash"]
        /\ region'[h.slot]["dash"]["body"] = region[h.slot]["dash"]["body"]
    <3>1. h.region = "dash" => FirstPart(h.region) = "head"
      BY DEF FirstPart
    <3>2. "dash" \in Regions /\ "body" \in Parts
      BY DEF Regions, Parts
    <3> QED  BY <1>0, <1>4, <2>1, <3>1, <3>2, ProgrammedFacts, PartFacts
             DEF WriteFirst, FlashType
  <2>4. SlotIsFree' /\ BodyIsBlank' /\ MapIsKnown'
    BY <1>0, <2>0, <2>1, <2>2, <2>3
       DEF SlotIsFree, BodyIsBlank, MapIsKnown, Uploading, gallery_slot_used,
           WorkerType, SlotOrNone, Regions
  <2>5. MappedIsIntact'
    BY <1>0, <2>0, <2>1, <2>3
       DEF MappedIsIntact, SlotIsFree, Uploading, ScreenType, SlotOrNone, Clean
  <2> QED  BY <2>4, <2>5
<1>5. CASE WriteLast
  <2>0. UNCHANGED <<word0, armed, mapped, gallery_active_slot, loop>>
    BY <1>5 DEF WriteLast, sharedVars, loopVars, screenVars
  <2>1. h.slot \in Slots /\ h.save \in Saves /\ h.region \in Regions /\ h.pc = "last"
    BY <1>0, <1>5 DEF WriteLast, WorkerType, Workers, Uploading
  <2>2. h'.pc = "idle"
    BY <1>5 DEF WriteLast, Idle
  <2>3. /\ \A s \in Slots \ {h.slot} : region'[s] = region[s]
        /\ h.region # "dash" => region'[h.slot]["dash"] = region[h.slot]["dash"]
    <3>1. "dash" \in Regions
      BY DEF Regions
    <3> QED  BY <1>0, <1>5, <2>1, <3>1, ProgrammedFacts, PartFacts
             DEF WriteLast, FlashType
  <2>4. SlotIsFree' /\ BodyIsBlank' /\ MapIsKnown'
    BY <1>0, <2>0, <2>1, <2>2, <2>3
       DEF SlotIsFree, BodyIsBlank, MapIsKnown, Uploading, gallery_slot_used,
           WorkerType, SlotOrNone, Regions
  <2>5. MappedIsIntact'
    BY <1>0, <2>0, <2>1, <2>3
       DEF MappedIsIntact, SlotIsFree, Uploading, ScreenType, SlotOrNone, Clean
  <2> QED  BY <2>4, <2>5
<1>6. CASE UploadAborted
  <2>0. UNCHANGED <<word0, region, mapped, gallery_active_slot, loop>> /\ h'.pc = "idle"
    BY <1>6 DEF UploadAborted, flashVars, sharedVars, loopVars, screenVars, Idle
  <2>1. armed' = [armed EXCEPT ![h.region] = h.slot] /\ h.pc \in Uploading
    BY <1>6 DEF UploadAborted, Uploading
  <2>2. BodyIsBlank'
    BY <1>0, <2>0, <2>1 DEF BodyIsBlank, WorkerType, Workers, Uploading, Regions
  <2> QED  BY <1>0, <2>0, <2>2
       DEF SlotIsFree, MapIsKnown, MappedIsIntact, Uploading, gallery_slot_used, Clean
<1> QED  BY <1>1, <1>2, <1>3, <1>4, <1>5, <1>6 DEF Upload

(* A commit needs an idle worker, so no slot is being written to.           *)
LEMMA CommitSafe ==
  ASSUME GalleryInv, NEW s, CommitSlot(s), h.pc = "idle", Typed'
  PROVE  GalleryInv'
<1>1. UNCHANGED <<region, h, armed, mapped, gallery_active_slot, loop>>
  BY DEF CommitSlot, httpdVars, loopVars, screenVars
<1>2. \A t \in Slots : gallery_slot_used(t) => gallery_slot_used(t)'
  BY DEF CommitSlot, CommitWord, gallery_slot_used, GalleryInv, Typed, FlashType
<1> QED  BY <1>1, <1>2
         DEF GalleryInv, SlotIsFree, BodyIsBlank, MapIsKnown, MappedIsIntact, Uploading, Clean

LEMMA SaveSafe ==
  ASSUME GalleryInv, NEW v \in Saves, Save(v), Typed'
  PROVE  GalleryInv'
<1> USE DEF GalleryInv
<1>1. CASE PostDash(v) \/ PostRegion(v)
  <2>0. UNCHANGED <<word0, region, mapped, gallery_active_slot, loop>>
    BY <1>1 DEF PostDash, PostRegion, flashVars, sharedVars, loopVars, screenVars
  <2>1. \/ h'.pc = "scan" /\ h'.region = "dash" /\ armed' = [armed EXCEPT !["dash"] = None]
        \/ /\ step[v] # "dash" /\ h'.pc = "first" /\ h'.region # "dash"
           /\ armed' = [armed EXCEPT ![step[v]] = None]
    BY <1>1 DEF PostDash, PostRegion, Scan
  <2>2. armed'["dash"] = None \/ (armed'["dash"] = armed["dash"] /\ h'.region # "dash")
    <3>1. armed \in [Regions -> SlotOrNone] /\ "dash" \in Regions
      BY DEF Typed, WorkerType, Regions
    <3>2. CASE armed' = [armed EXCEPT !["dash"] = None]
      BY <3>1, <3>2
    <3>3. CASE /\ step[v] # "dash" /\ h'.region # "dash"
               /\ armed' = [armed EXCEPT ![step[v]] = None]
      BY <3>1, <3>3
    <3> QED  BY <2>1, <3>2, <3>3
  <2>3. /\ h'.pc \in {"scan", "first"}
        /\ h'.region = "dash" => h'.pc = "scan" /\ armed'["dash"] = None
    BY <2>1, <2>2
  <2>4. SlotIsFree' /\ BodyIsBlank'
    BY <2>0, <2>2, <2>3 DEF SlotIsFree, BodyIsBlank, Uploading
  <2> QED  BY <2>0, <2>4 DEF MapIsKnown, MappedIsIntact, gallery_slot_used, Clean
<1>2. CASE Commit(v)
  <2>1. CommitSlot(slot_id[v]) /\ h.pc = "idle"
    BY <1>2 DEF Commit
  <2> QED  BY <2>1, CommitSafe
<1>3. CASE CommitRefused(v) \/ SelectSaved(v) \/ Abandon(v)
  BY <1>3, GalleryFrame
     DEF CommitRefused, SelectSaved, Abandon, flashVars, httpdVars, sharedVars,
         loopVars, screenVars
<1> QED  BY <1>1, <1>2, <1>3 DEF Save

LEMMA RequestSafe ==
  ASSUME GalleryInv, Typed',
         \/ \E s \in Slots : SelectOrDelete(s) \/ Favorite(s) \/ CommitAny(s)
         \/ \E r \in Regions : Bodyless(r)
  PROVE  GalleryInv'
<1> USE DEF GalleryInv
<1>1. ASSUME NEW s \in Slots, SelectOrDelete(s) \/ Favorite(s)
      PROVE  GalleryInv'
  BY <1>1, GalleryFrame
     DEF SelectOrDelete, Favorite, flashVars, httpdVars, loopVars, screenVars
<1>2. ASSUME NEW s \in Slots, CommitAny(s)
      PROVE  GalleryInv'
  BY <1>2, CommitSafe DEF CommitAny
<1>3. ASSUME NEW r \in Regions, Bodyless(r)
      PROVE  GalleryInv'
  <2>0. UNCHANGED <<word0, h, mapped, gallery_active_slot, loop>> /\ h.pc = "idle"
    BY <1>3 DEF Bodyless, sharedVars, loopVars, screenVars
  <2>1. armed[r] \in Slots /\ armed' = [armed EXCEPT ![r] = None]
    BY <1>3 DEF Bodyless, Typed, WorkerType, SlotOrNone
  <2>2. PICK v \in Saves : region' = Programmed(armed[r], r, LastPart(r), v)
    BY <1>3 DEF Bodyless
  <2>3. /\ \A s \in Slots \ {armed[r]} : region'[s] = region[s]
        /\ r # "dash" => region'[armed[r]]["dash"] = region[armed[r]]["dash"]
    <3>1. "dash" \in Regions
      BY DEF Regions
    <3> QED  BY <2>1, <2>2, <3>1, ProgrammedFacts, PartFacts DEF Typed, FlashType
  <2>4. r = "dash" => mapped # armed[r]
    BY <2>1, BlankIsNotMapped, SlotFacts DEF BodyIsBlank
  <2>5. MappedIsIntact'
    BY <2>0, <2>1, <2>3, <2>4
       DEF MappedIsIntact, Typed, ScreenType, SlotOrNone, Clean
  <2>6. armed'["dash"] = None \/ (r # "dash" /\ armed'["dash"] = armed["dash"])
    BY <2>1 DEF Typed, WorkerType, Regions
  <2>7. armed["dash"] \in SlotOrNone
    BY DEF Typed, WorkerType, Regions
  <2>8. BodyIsBlank'
    BY <2>0, <2>1, <2>3, <2>6, <2>7 DEF BodyIsBlank, Uploading, SlotOrNone
  <2>9. SlotIsFree' /\ MapIsKnown'
    BY <2>0 DEF SlotIsFree, MapIsKnown, Uploading, gallery_slot_used
  <2> QED  BY <2>5, <2>8, <2>9
<1> QED  BY <1>1, <1>2, <1>3

LEMMA LoopSafe ==
  ASSUME GalleryInv, Typed', CoreRead \/ Core \/ \E p \in Presets : PickPreset(p)
  PROVE  GalleryInv'
<1> USE DEF GalleryInv
<1>1. /\ UNCHANGED <<region, h, armed, mapped, gallery_active_slot>>
      /\ {loop.pc, loop'.pc} \cap {"swap", "release"} = {}
  <2>1. CASE CoreRead \/ CoreReset \/ CoreSelect \/ CoreDelete
    BY <2>1 DEF CoreRead, CoreReset, CoreSelect, CoreDelete, At, Goto, Typed, LoopType,
                flashVars, httpdVars, sharedVars, screenVars
  <2>2. CASE FavRead \/ FavApply \/ HealAndPublish
    BY <2>2 DEF FavRead, FavApply, HealAndPublish, At, Goto, IdleLoop, Typed, LoopType,
                flashVars, httpdVars, sharedVars, screenVars
  <2>3. CASE \E p \in Presets : PickPreset(p)
    BY <2>3 DEF PickPreset, At, flashVars, httpdVars, sharedVars, screenVars
  <2> QED  BY <2>1, <2>2, <2>3 DEF Core
<1>2. CASE CoreDelete
  <2>1. \A s \in Slots : gallery_slot_used(s)' => gallery_slot_used(s)
    BY <1>2 DEF CoreDelete, gallery_slot_used, Typed, FlashType
  <2>2. SlotIsFree'
    BY <1>1, <2>1 DEF SlotIsFree, gallery_slot_used
  <2> QED  BY <1>1, <2>2 DEF BodyIsBlank, MapIsKnown, MappedIsIntact, Clean
<1>3. CASE ~CoreDelete
  <2>1. UNCHANGED word0
    BY <1>3 DEF Core, CoreRead, CoreReset, CoreSelect, FavRead, FavApply, HealAndPublish,
                PickPreset, flashVars
  <2> QED  BY <1>1, <2>1, GalleryFrame
<1> QED  BY <1>2, <1>3

LEMMA ScreenSafe ==
  ASSUME GalleryInv, Typed', Draw \/ DrawEnd \/ SaverTick \/ SaverHide
  PROVE  GalleryInv'
<1> USE DEF GalleryInv
<1>1. CASE Draw
  <2>0. UNCHANGED <<word0, region, h, armed, gallery_active_slot>>
    BY <1>1 DEF Draw, flashVars, httpdVars, sharedVars
  <2>1. \/ DashLoads(bnr_sel) /\ loop'.pc = "swap" /\ mapped' = bnr_sel
        \/ loop'.pc = "release" /\ mapped' = None
    BY <1>1 DEF Draw, Goto, Typed, LoopType
  <2>2. CASE DashLoads(bnr_sel) /\ loop'.pc = "swap" /\ mapped' = bnr_sel
    BY <2>0, <2>2, SlotFacts
       DEF DashLoads, SlotIsFree, BodyIsBlank, MapIsKnown, MappedIsIntact, Clean,
           gallery_slot_used
  <2>3. CASE loop'.pc = "release" /\ mapped' = None
    BY <2>0, <2>3, SlotFacts
       DEF SlotIsFree, BodyIsBlank, MapIsKnown, MappedIsIntact, gallery_slot_used,
           Typed, WorkerType
  <2> QED  BY <2>1, <2>2, <2>3
<1>2. CASE DrawEnd
  <2>0. UNCHANGED <<word0, region, h, armed, mapped>> /\ loop'.pc = "idle"
    BY <1>2 DEF DrawEnd, DrawSwap, DrawRelease, IdleLoop, flashVars, httpdVars, screenVars
  <2>1. mapped # None => mapped = gallery_active_slot'
    BY <1>2 DEF DrawEnd, DrawSwap, DrawRelease, At, MapIsKnown
  <2> QED  BY <2>0, <2>1
           DEF SlotIsFree, BodyIsBlank, MapIsKnown, MappedIsIntact, gallery_slot_used, Clean
<1>3. CASE SaverTick \/ SaverHide
  BY <1>3, GalleryFrame
     DEF SaverTick, SaverHide, flashVars, httpdVars, sharedVars, loopVars
<1> QED  BY <1>1, <1>2, <1>3

LEMMA ResetSafe ==
  ASSUME GalleryInv, Typed', NvsFlush \/ Crash
  PROVE  GalleryInv'
<1> USE DEF GalleryInv
<1>1. CASE NvsFlush
  BY <1>1, GalleryFrame DEF NvsFlush, httpdVars, sharedVars, loopVars, screenVars
<1>2. CASE Crash
  <2>1. h'.pc = "idle" /\ armed'["dash"] = None /\ mapped' = None /\ loop'.pc = "idle"
    BY <1>2 DEF Crash, Idle, IdleLoop, Regions
  <2> QED  BY <2>1 DEF SlotIsFree, BodyIsBlank, MapIsKnown, MappedIsIntact, Uploading
<1> QED  BY <1>1, <1>2

LEMMA GalleryInvStep == GalleryInv /\ [Next]_vars => GalleryInv'
<1> SUFFICES ASSUME GalleryInv, [Next]_vars PROVE GalleryInv'
  OBVIOUS
<1>1. Typed'
  BY TypedStep DEF GalleryInv
<1>2. CASE UNCHANGED vars
  BY <1>1, <1>2, GalleryFrame
     DEF vars, flashVars, httpdVars, sharedVars, loopVars, screenVars
<1> QED  BY <1>1, <1>2, SaveSafe, UploadSafe, RequestSafe, LoopSafe, ScreenSafe,
            ResetSafe DEF Next

LEMMA GalleryInvAlways == Spec => []GalleryInv
  BY GalleryInvInit, GalleryInvStep, PTL DEF Spec

(* An upload never erases a committed banner or the one on the screen,      *)
(* whatever the browsers send and however often the chip resets.            *)
THEOREM EraseSpares == Spec => []EraseIsSafe
<1>1. GalleryInv => EraseIsSafe
  BY DEF GalleryInv, Typed, WorkerType, SlotIsFree, EraseIsSafe
<1> QED  BY <1>1, GalleryInvAlways, PTL

(* The pixels behind the display's mapping are one save's, whole, as long   *)
(* as the mapping stands.                                                   *)
THEOREM MappingStays == Spec => []MappedIsIntact
<1>1. GalleryInv => MappedIsIntact
  BY DEF GalleryInv
<1> QED  BY <1>1, GalleryInvAlways, PTL

-----------------------------------------------------------------------------
(* What a used slot holds, and what is selected.                            *)

(* The only steps that write to the partition.                              *)
LEMMA FlashSteps ==
  ASSUME GalleryInv, [Next]_vars
  PROVE  \/ UNCHANGED <<word0, region>>
         \/ EraseRegion \/ CoreDelete
         \/ \E s \in Slots : CommitSlot(s)
         \/ /\ UNCHANGED word0
            /\ \E s \in Slots, r \in Regions, p \in Parts, v \in Saves :
                 region' = Programmed(s, r, p, v)
<1> USE DEF GalleryInv
<1>1. CASE UNCHANGED vars
  BY <1>1 DEF vars, flashVars
<1>2. ASSUME NEW v \in Saves, Save(v)
      PROVE  UNCHANGED <<word0, region>> \/ \E s \in Slots : CommitSlot(s)
  <2>1. CASE Commit(v)
    <3>1. slot_id[v] \in Slots
      BY <2>1 DEF Commit, Typed, ClientType, Finished
    <3> QED  BY <2>1, <3>1 DEF Commit
  <2> QED  BY <1>2, <2>1
           DEF Save, PostDash, PostRegion, CommitRefused, SelectSaved, Abandon, flashVars
<1>3. CASE WriteFirst
  BY <1>3, PartFacts DEF WriteFirst, Typed, WorkerType, Workers, Uploading
<1>4. CASE WriteLast
  BY <1>4, PartFacts DEF WriteLast, Typed, WorkerType, Workers, Uploading
<1>5. CASE ScanSlot \/ GalleryFull \/ UploadFails \/ UploadAborted
  BY <1>5 DEF ScanSlot, GalleryFull, UploadFails, UploadAborted, flashVars
<1>6. ASSUME NEW r \in Regions, Bodyless(r)
      PROVE  /\ UNCHANGED word0
             /\ \E s \in Slots, p \in Parts, v \in Saves : region' = Programmed(s, r, p, v)
  BY <1>6, PartFacts DEF Bodyless, Typed, WorkerType, SlotOrNone
<1>7. ASSUME NEW s \in Slots, SelectOrDelete(s) \/ Favorite(s) \/ CommitAny(s)
      PROVE  UNCHANGED <<word0, region>> \/ CommitSlot(s)
  BY <1>7 DEF SelectOrDelete, Favorite, CommitAny, flashVars
<1>8. CASE CoreRead \/ Core \/ \E p \in Presets : PickPreset(p)
  BY <1>8 DEF Core, CoreRead, CoreReset, CoreSelect, FavRead, FavApply, HealAndPublish,
              PickPreset, flashVars
<1>9. CASE Draw \/ DrawEnd \/ SaverTick \/ SaverHide \/ NvsFlush \/ Crash
  BY <1>9 DEF Draw, DrawEnd, DrawSwap, DrawRelease, SaverTick, SaverHide, NvsFlush, Crash,
              flashVars
<1> QED  BY <1>1, <1>2, <1>3, <1>4, <1>5, <1>6, <1>7, <1>8, <1>9 DEF Next, Upload

(* An erase spares what is used and leaves its own slot unused.             *)
LEMMA EraseFacts ==
  ASSUME GalleryInv, EraseRegion
  PROVE  /\ \A s \in Slots : gallery_slot_used(s)' <=> gallery_slot_used(s)
         /\ \A s \in Slots : gallery_slot_used(s) => region'[s] = region[s]
<1>1. h.slot \in Slots /\ h.k \in 1 .. 4 /\ ~gallery_slot_used(h.slot)
  BY DEF GalleryInv, EraseRegion, Typed, WorkerType, SlotIsFree
<1>2. \A s \in Slots : gallery_slot_used(s)' <=> gallery_slot_used(s)
  BY <1>1 DEF GalleryInv, EraseRegion, gallery_slot_used, Typed, FlashType
<1>3. \A s \in Slots \ {h.slot} : region'[s] = region[s]
  BY <1>1, ErasedFacts DEF GalleryInv, EraseRegion, Typed, FlashType
<1> QED  BY <1>1, <1>2, <1>3

(* A used slot has the headers of all its regions.                          *)
THEOREM CommitsAreComplete == Spec => []CommittedIsComplete
<1>1. Init => CommittedIsComplete
  BY DEF Init, CommittedIsComplete, gallery_slot_used
<1>2. ASSUME GalleryInv, CommittedIsComplete, [Next]_vars
      PROVE  CommittedIsComplete'
  <2> USE DEF CommittedIsComplete
  <2>0. Typed
    BY <1>2 DEF GalleryInv
  <2>1. CASE UNCHANGED <<word0, region>>
    BY <1>2, <2>1 DEF gallery_slot_used
  <2>2. CASE EraseRegion
    BY <1>2, <2>2, EraseFacts
  <2>3. CASE CoreDelete
    BY <1>2, <2>0, <2>3 DEF CoreDelete, gallery_slot_used, Typed, FlashType
  <2>4. ASSUME NEW s \in Slots, CommitSlot(s)
        PROVE  CommittedIsComplete'
    BY <1>2, <2>0, <2>4
       DEF CommitSlot, HeadersPresent, gallery_slot_used, Typed, FlashType
  <2>5. ASSUME NEW s \in Slots, NEW r \in Regions, NEW p \in Parts, NEW v \in Saves,
               region' = Programmed(s, r, p, v), UNCHANGED word0
        PROVE  CommittedIsComplete'
    <3>1. \A t \in Slots, q \in Regions : region[t][q]["head"] \subseteq region'[t][q]["head"]
      BY <2>0, <2>5, ProgrammedFacts DEF Typed, FlashType, Parts
    <3> QED  BY <1>2, <2>5, <3>1 DEF gallery_slot_used
  <2> QED  BY <1>2, <2>1, <2>2, <2>3, <2>4, <2>5, FlashSteps
<1>3. GalleryInv /\ CommittedIsComplete /\ [Next]_vars => CommittedIsComplete'
  BY <1>2
<1> QED  BY <1>1, <1>3, GalleryInvAlways, PTL DEF Spec

(* What is published as the selection is a used slot between the consumer's *)
(* ticks, whatever was deleted and whatever a reset restored.               *)
THEOREM SelectionStaysLive == Spec => []SelectionIsLive
<1>1. Init => SelectionIsLive
  BY DEF Init, SelectionIsLive
<1>2. ASSUME GalleryInv, SelectionIsLive, [Next]_vars
      PROVE  SelectionIsLive'
  <2> USE DEF SelectionIsLive
  <2>0. Typed
    BY <1>2 DEF GalleryInv
  <2>1. ~CoreDelete => \A s \in Slots : gallery_slot_used(s) => gallery_slot_used(s)'
    <3>1. ASSUME NEW s \in Slots, CommitSlot(s), NEW t \in Slots, gallery_slot_used(t)
          PROVE  gallery_slot_used(t)'
      BY <2>0, <3>1 DEF CommitSlot, CommitWord, gallery_slot_used, Typed, FlashType
    <3>2. ASSUME UNCHANGED word0, NEW t \in Slots, gallery_slot_used(t)
          PROVE  gallery_slot_used(t)'
      BY <3>2 DEF gallery_slot_used
    <3> QED  BY <1>2, <3>1, <3>2, EraseFacts, FlashSteps
  <2>2. CASE Core
    <3>1. CASE CoreReset
      BY <1>2, <2>1, <3>1 DEF CoreReset, CoreDelete, At, Goto, gallery_slot_used, Typed, LoopType
    <3>2. CASE CoreSelect \/ CoreDelete
      BY <3>2, <2>0 DEF CoreSelect, CoreDelete, Goto, Typed, LoopType
    <3>3. CASE FavRead \/ FavApply
      BY <3>3, <2>0 DEF FavRead, FavApply, Goto, Typed, LoopType
    <3>4. CASE HealAndPublish
      BY <3>4 DEF HealAndPublish, Dead, gallery_slot_used, flashVars
    <3> QED  BY <2>2, <3>1, <3>2, <3>3, <3>4 DEF Core
  <2>3. CASE CoreRead
    BY <1>2, <2>3 DEF CoreRead, At, gallery_slot_used, flashVars, sharedVars
  <2>4. CASE Draw \/ DrawEnd
    <3>1. UNCHANGED <<word0, gallery_sel>>
      BY <2>4 DEF Draw, DrawEnd, DrawSwap, DrawRelease, flashVars, sharedVars
    <3>2. loop.pc \in {"idle", "swap", "release"}
      BY <2>4 DEF Draw, DrawEnd, DrawSwap, DrawRelease, At
    <3> QED  BY <1>2, <3>1, <3>2 DEF gallery_slot_used
  <2>5. CASE Crash
    BY <2>5 DEF Crash
  <2>6. CASE UNCHANGED <<loop, gallery_sel>> /\ ~CoreDelete
    BY <1>2, <2>1, <2>6 DEF gallery_slot_used
  <2>7. Core \/ CoreRead \/ Draw \/ DrawEnd \/ Crash \/ (UNCHANGED <<loop, gallery_sel>> /\ ~CoreDelete)
    <3>1. CASE \E v \in Saves : Save(v)
      BY <3>1 DEF Save, PostDash, PostRegion, Commit, CommitSlot, CommitRefused, SelectSaved,
                  Abandon, Core, sharedVars, loopVars
    <3>2. CASE Upload
      BY <3>2 DEF Upload, ScanSlot, GalleryFull, EraseRegion, WriteFirst, WriteLast,
                  UploadFails, UploadAborted, Core, sharedVars, loopVars
    <3>3. CASE \/ \E s \in Slots : SelectOrDelete(s) \/ Favorite(s) \/ CommitAny(s)
               \/ \E r \in Regions : Bodyless(r)
      BY <3>3 DEF SelectOrDelete, Favorite, CommitAny, CommitSlot, Bodyless, Core,
                  sharedVars, loopVars
    <3>4. CASE \/ \E p \in Presets : PickPreset(p)
               \/ SaverTick \/ SaverHide \/ NvsFlush \/ UNCHANGED vars
      BY <3>4 DEF PickPreset, SaverTick, SaverHide, NvsFlush, vars, Core, sharedVars, loopVars
    <3> QED  BY <1>2, <3>1, <3>2, <3>3, <3>4 DEF Next
  <2> QED  BY <2>2, <2>3, <2>4, <2>5, <2>6, <2>7
<1>3. GalleryInv /\ SelectionIsLive /\ [Next]_vars => SelectionIsLive'
  BY <1>2
<1> QED  BY <1>1, <1>3, GalleryInvAlways, PTL DEF Spec

-----------------------------------------------------------------------------
(* One save after another, the partition is the abstract store.             *)

(* The regions that are complete when a save has come to a step.            *)
Past(t) ==
  CASE t = "dash" -> {} [] t = "saver" -> {"dash"} [] t = "hero" -> {"dash", "saver"}
    [] t = "thumb" -> {"dash", "saver", "hero"} [] OTHER -> Regions

(* The slot holds what v has programmed by then, and nothing else; half way *)
(* through the region its first part is there too.                          *)
Holds(s, v, t, half) ==
  \A r \in Regions, p \in Parts :
    region[s][r][p] = IF r \in Past(t) \/ (half /\ r = t /\ p = FirstPart(t)) THEN {v} ELSE {}

Whole(s, v) == \A r \in Regions, p \in Parts : region[s][r][p] = {v}

(* The worker serves the save that is under way.                            *)
OneSave ==
  /\ \A v, w \in Saves :
       step[v] \notin {"dash"} \cup Finished /\ step[w] \notin {"dash"} \cup Finished => v = w
  /\ h.pc # "idle" =>
       /\ step[h.save] = h.region
       /\ \A v \in Saves \ {h.save} : step[v] \in {"dash"} \cup Finished

(* Headers everywhere are the headers of one whole banner: a slot that is   *)
(* being filled has none in its last region.                                *)
Filled ==
  /\ \A v \in Saves :
       h.pc = "idle" /\ step[v] \in {"saver", "hero", "thumb"}
         => Holds(slot_id[v], v, step[v], FALSE)
  /\ h.pc \in Uploading => /\ h.region # "dash" => h.slot = slot_id[h.save]
                           /\ Holds(h.slot, h.save, h.region, h.pc = "last")
  /\ h.pc = "erase" => \A i \in 1 .. 4 : i < h.k => region[h.slot][Layout[i]] = Blank
  /\ \A s \in Slots : HeadersPresent(s) => \E v \in Saves : Whole(s, v)

StoreInv == GalleryInv /\ CommittedIsComplete /\ OneSave /\ Filled

LEMMA StoreInvInit == Init => OneSave /\ Filled
<1> SUFFICES ASSUME Init PROVE OneSave /\ Filled
  OBVIOUS
<1>1. /\ h.pc = "idle" /\ \A v \in Saves : step[v] = "dash"
      /\ \A s \in Slots, r \in Regions : region[s][r] = Blank
  BY DEF Init, Idle
<1>2. \A s \in Slots : ~HeadersPresent(s)
  BY <1>1, BlankFacts DEF HeadersPresent, Regions
<1> QED  BY <1>1, <1>2 DEF OneSave, Filled, Uploading

(* A step of a save that is not being served only takes the save further.   *)
LEMMA SaveMovesOn ==
  ASSUME OneSave, Filled, UNCHANGED <<region, slot_id, h>>,
         \A v \in Saves :
           step'[v] # step[v] =>
             /\ step[v] \notin {"dash"} \cup Finished /\ step'[v] \in {"select"} \cup Finished
             /\ h.pc # "idle" => h.save # v,
         h.pc # "idle" => h.save \in Saves
  PROVE  OneSave' /\ Filled'
<1>1. \A v \in Saves : step'[v] \notin {"dash"} \cup Finished => step[v] \notin {"dash"} \cup Finished
  OBVIOUS
<1>2. h.pc # "idle" => step'[h.save] = step[h.save]
  OBVIOUS
<1>3. OneSave'
  BY <1>1, <1>2 DEF OneSave
<1>4. \A v \in Saves : step'[v] \in {"saver", "hero", "thumb"} => step'[v] = step[v]
  BY DEF Finished
<1>5. \A v \in Saves :
        h'.pc = "idle" /\ step'[v] \in {"saver", "hero", "thumb"}
          => Holds(slot_id[v], v, step[v], FALSE)'
  <2>1. ASSUME NEW v \in Saves, h'.pc = "idle", step'[v] \in {"saver", "hero", "thumb"}
        PROVE  Holds(slot_id[v], v, step[v], FALSE)'
    <3>1. Holds(slot_id[v], v, step[v], FALSE) /\ step'[v] = step[v]
      BY <1>4, <2>1 DEF Filled
    <3> QED  BY <3>1 DEF Holds
  <2> QED  BY <2>1
<1>6. h'.pc \in Uploading => /\ h'.region # "dash" => h'.slot = slot_id'[h'.save]
                            /\ Holds(h.slot, h.save, h.region, h.pc = "last")'
  BY DEF Filled, Holds
<1>7. \A s \in Slots : HeadersPresent(s)' => \E v \in Saves : Whole(s, v)'
  BY DEF Filled, HeadersPresent, Whole
<1>8. h'.pc = "erase" => \A i \in 1 .. 4 : i < h'.k => region'[h'.slot][Layout[i]] = Blank
  BY DEF Filled
<1>9. Filled'
  BY <1>5, <1>6, <1>7, <1>8 DEF Filled
<1> QED  BY <1>3, <1>9

(* A save that fails is over and leaves the worker idle.                    *)
LEMMA SaveEnds ==
  ASSUME OneSave, Filled, UNCHANGED <<region, slot_id>>, h'.pc = "idle",
         \A v \in Saves :
           /\ step'[v] = step[v] \/ step'[v] \in Finished
           /\ h.pc # "idle" /\ h.save = v => step'[v] \in Finished
  PROVE  OneSave' /\ Filled'
<1>1. OneSave'
  BY DEF OneSave
<1>2. ASSUME NEW v \in Saves, step'[v] \in {"saver", "hero", "thumb"}
      PROVE  step'[v] = step[v] /\ h.pc = "idle"
  BY <1>2 DEF OneSave, Finished
<1>3. \A v \in Saves :
        h'.pc = "idle" /\ step'[v] \in {"saver", "hero", "thumb"}
          => Holds(slot_id[v], v, step[v], FALSE)'
  BY <1>2 DEF Filled, Holds
<1>4. \A s \in Slots : HeadersPresent(s)' => \E v \in Saves : Whole(s, v)'
  BY DEF Filled, HeadersPresent, Whole
<1>5. Filled'
  BY <1>3, <1>4 DEF Filled, Uploading
<1> QED  BY <1>1, <1>5

(* The search for a slot.                                                   *)
LEMMA SaveLooks ==
  ASSUME OneSave, Filled, Typed, UNCHANGED <<region, slot_id, step>>,
         h'.pc = "scan" \/ (h'.pc = "erase" /\ h'.k = 1),
         step[h'.save] = h'.region,
         \A v \in Saves \ {h'.save} : step[v] \in {"dash"} \cup Finished
  PROVE  OneSave' /\ Filled'
<1>1. OneSave'
  BY DEF OneSave
<1>2. Filled'
  BY DEF Filled, Holds, HeadersPresent, Whole, Uploading
<1> QED  BY <1>1, <1>2

(* The first erase takes a header away, and the last leaves the slot blank. *)
LEMMA EraseFills ==
  ASSUME StoreInv, EraseRegion
  PROVE  OneSave' /\ Filled'
<1> USE DEF StoreInv, GalleryInv
<1>0. WorkerType /\ FlashType
  BY DEF Typed
<1>1. /\ h.slot \in Slots /\ h.k \in 1 .. 4 /\ h.save \in Saves /\ h.pc = "erase"
      /\ h.region = "dash" /\ UNCHANGED <<step, slot_id>>
  BY <1>0 DEF EraseRegion, WorkerType, clientVars
<1>2. /\ h'.region = "dash" /\ h'.save = h.save
      /\ \/ h'.pc = "erase" /\ h'.slot = h.slot /\ h'.k = h.k + 1
         \/ h'.pc = "scan"
         \/ h'.pc = "first" /\ h'.slot = h.slot /\ h.k = 4
  BY <1>0, <1>1 DEF EraseRegion, SecondPass, Scan, WorkerType, Workers
<1>3. OneSave'
  BY <1>1, <1>2 DEF OneSave
<1>4. /\ \A s \in Slots \ {h.slot} : region'[s] = region[s]
      /\ \A i \in 1 .. 4 : i < h.k + 1 => region'[h.slot][Layout[i]] = Blank
  <2>1. \A i \in 1 .. 4 : Layout[i] \in Regions /\ (i # h.k => Layout[i] # Layout[h.k])
    BY <1>1 DEF Layout, Regions
  <2>2. \A i \in 1 .. 4 : i < h.k => region[h.slot][Layout[i]] = Blank
    BY <1>1 DEF Filled
  <2>3. /\ \A s \in Slots \ {h.slot} : region'[s] = region[s]
        /\ \A r \in Regions \ {Layout[h.k]} : region'[h.slot][r] = region[h.slot][r]
        /\ region'[h.slot][Layout[h.k]] = Blank
    BY <1>0, <1>1, ErasedFacts DEF EraseRegion, FlashType
  <2>4. \A i \in 1 .. 4 : i < h.k + 1 => i < h.k \/ i = h.k
    BY <1>1
  <2> QED  BY <2>1, <2>2, <2>3, <2>4
<1>5. h'.pc = "first" => Holds(h.slot, h.save, "dash", FALSE)'
  <2>1. Layout[1] = "dash" /\ Layout[2] = "saver" /\ Layout[3] = "hero" /\ Layout[4] = "thumb"
    BY DEF Layout
  <2>2. h'.pc = "first" => \A r \in Regions : region'[h.slot][r] = Blank
    BY <1>2, <1>4, <2>1 DEF Regions
  <2>3. \A p \in Parts : Blank[p] = {}
    BY DEF Blank
  <2>4. Past("dash") = {}
    BY DEF Past
  <2> QED  BY <1>1, <1>2, <2>2, <2>3, <2>4 DEF Holds
<1>6. ASSUME NEW s \in Slots, HeadersPresent(s)'
      PROVE  \E v \in Saves : Whole(s, v)'
  <2>1. region'[h.slot]["dash"] = Blank
    <3>1. Layout[1] = "dash" /\ 1 \in 1 .. 4 /\ 1 < h.k + 1
      BY <1>1 DEF Layout
    <3> QED  BY <1>4, <3>1
  <2>2. s # h.slot
    BY <1>6, <2>1, BlankFacts DEF HeadersPresent, Regions
  <2> QED  BY <1>4, <1>6, <2>2 DEF Filled, HeadersPresent, Whole
<1>7. Filled'
  <2>1. h'.pc # "idle" /\ h'.pc # "last"
    BY <1>2
  <2>2. h'.pc = "erase" => \A i \in 1 .. 4 : i < h'.k => region'[h'.slot][Layout[i]] = Blank
    BY <1>2, <1>4
  <2>3. h'.pc \in Uploading => /\ h'.pc = "first" /\ h'.slot = h.slot /\ h'.region = "dash"
                               /\ h'.save = h.save
    BY <1>2 DEF Uploading
  <2>4. h'.pc \in Uploading => Holds(h.slot, h.save, h.region, h.pc = "last")'
    BY <1>2, <1>5, <2>3 DEF Holds
  <2> QED  BY <1>6, <2>1, <2>2, <2>3, <2>4 DEF Filled
<1> QED  BY <1>3, <1>7

LEMMA PastFacts ==
  /\ Past("dash") = {} /\ Past("commit") = Regions
  /\ \A r \in Regions :
       /\ Past(NextStep[r]) = Past(r) \cup {r}
       /\ NextStep[r] \in {"saver", "hero", "thumb", "commit"}
       /\ NextStep[r] = "commit" <=> r = "thumb"
       /\ "thumb" \notin Past(r)
       /\ Parts = {FirstPart(r), LastPart(r)} /\ FirstPart(r) # LastPart(r)
       /\ r = "thumb" => FirstPart(r) # "head"
  BY DEF Past, NextStep, Regions, Parts, FirstPart, LastPart

(* Blank regions are programmed, so what they hold is the save's alone.     *)
LEMMA FirstHolds ==
  ASSUME region \in RegionType, NEW s \in Slots, NEW v \in Saves, NEW r \in Regions,
         Holds(s, v, r, FALSE), region' = Programmed(s, r, FirstPart(r), v)
  PROVE  Holds(s, v, r, TRUE)' /\ ~HeadersPresent(s)'
<1>0. /\ \A q \in Regions \ {r} : region'[s][q] = region[s][q]
      /\ \A p \in Parts \ {FirstPart(r)} : region'[s][r][p] = region[s][r][p]
      /\ region'[s][r][FirstPart(r)] = region[s][r][FirstPart(r)] \cup {v}
  <2>1. FirstPart(r) \in Parts
    BY PartFacts
  <2> QED  BY <2>1, ProgrammedFacts
<1>2. ASSUME NEW q \in Regions, NEW p \in Parts
      PROVE  region'[s][q][p] = IF q \in Past(r) \/ (q = r /\ p = FirstPart(r)) THEN {v} ELSE {}
  <2>1. region[s][q][p] = IF q \in Past(r) THEN {v} ELSE {}
    BY DEF Holds
  <2>2. region'[s][q][p] =
          IF q = r /\ p = FirstPart(r) THEN region[s][q][p] \cup {v} ELSE region[s][q][p]
    BY <1>0
  <2> QED  BY <2>1, <2>2
<1>3. Holds(s, v, r, TRUE)'
  BY <1>2 DEF Holds
<1>4. region'[s]["thumb"]["head"] = {}
  <2>1. "thumb" \in Regions /\ "head" \in Parts
    BY DEF Regions, Parts
  <2> QED  BY <1>2, <2>1, PastFacts
<1> QED  BY <1>3, <1>4 DEF HeadersPresent, Regions

LEMMA LastHolds ==
  ASSUME region \in RegionType, NEW s \in Slots, NEW v \in Saves, NEW r \in Regions,
         Holds(s, v, r, TRUE), region' = Programmed(s, r, LastPart(r), v)
  PROVE  /\ Holds(s, v, NextStep[r], FALSE)'
         /\ HeadersPresent(s)' => Whole(s, v)'
<1>0. /\ \A q \in Regions \ {r} : region'[s][q] = region[s][q]
      /\ \A p \in Parts \ {LastPart(r)} : region'[s][r][p] = region[s][r][p]
      /\ region'[s][r][LastPart(r)] = region[s][r][LastPart(r)] \cup {v}
  <2>1. LastPart(r) \in Parts
    BY PartFacts
  <2> QED  BY <2>1, ProgrammedFacts
<1>2. ASSUME NEW q \in Regions, NEW p \in Parts
      PROVE  region'[s][q][p] = IF q \in Past(r) \cup {r} THEN {v} ELSE {}
  <2>1. region[s][q][p] = IF q \in Past(r) \/ (q = r /\ p = FirstPart(r)) THEN {v} ELSE {}
    BY DEF Holds
  <2>2. region'[s][q][p] =
          IF q = r /\ p = LastPart(r) THEN region[s][q][p] \cup {v} ELSE region[s][q][p]
    BY <1>0
  <2>3. p = FirstPart(r) \/ p = LastPart(r)
    BY PastFacts
  <2> QED  BY <2>1, <2>2, <2>3
<1>3. Holds(s, v, NextStep[r], FALSE)'
  <2>1. Past(NextStep[r]) = Past(r) \cup {r}
    BY PastFacts
  <2> QED  BY <1>2, <2>1 DEF Holds
<1>4. CASE r = "thumb"
  <2>1. \A q \in Regions : q \in Past(r) \cup {r}
    BY <1>4, PastFacts
  <2> QED  BY <1>2, <1>3, <2>1 DEF Whole
<1>5. CASE r # "thumb"
  <2>1. "thumb" \in Regions /\ "head" \in Parts /\ "thumb" \notin Past(r) \cup {r}
    BY <1>5, PastFacts DEF Regions, Parts
  <2>2. region'[s]["thumb"]["head"] = {}
    BY <1>2, <2>1
  <2> QED  BY <1>3, <2>2 DEF HeadersPresent, Regions
<1> QED  BY <1>4, <1>5

LEMMA WriteFills ==
  ASSUME StoreInv, WriteFirst \/ WriteLast
  PROVE  OneSave' /\ Filled'
<1> USE DEF StoreInv, GalleryInv
<1>0. WorkerType /\ FlashType /\ ClientType
  BY DEF Typed
<1>1. /\ h.slot \in Slots /\ h.save \in Saves /\ h.region \in Regions /\ h.pc \in Uploading
      /\ region \in RegionType
  BY <1>0 DEF WriteFirst, WriteLast, WorkerType, Workers, Uploading, FlashType
<1>2. Holds(h.slot, h.save, h.region, h.pc = "last")
  BY <1>1 DEF Filled
<1>3. \A s \in Slots \ {h.slot} : region'[s] = region[s]
  BY <1>1, ProgrammedFacts, PartFacts DEF WriteFirst, WriteLast
<1>4. PICK s \in Slots, v \in Saves, r \in Regions : s = h.slot /\ v = h.save /\ r = h.region
  BY <1>1
<1>5. \A w \in Saves : step[w] \notin {"dash"} \cup Finished => w = v
  BY <1>1, <1>4 DEF OneSave, Uploading
<1>6. \A t \in Slots : HeadersPresent(t)' => \E w \in Saves : Whole(t, w)'
  <2>1. ASSUME NEW t \in Slots, t # s, HeadersPresent(t)'
        PROVE  \E w \in Saves : Whole(t, w)'
    BY <1>3, <1>4, <2>1 DEF Filled, HeadersPresent, Whole
  <2>2. HeadersPresent(s)' => Whole(s, v)'
    <3>1. CASE WriteFirst
      BY <1>1, <1>2, <1>4, <3>1, FirstHolds DEF WriteFirst
    <3>2. CASE WriteLast
      BY <1>1, <1>2, <1>4, <3>2, LastHolds DEF WriteLast
    <3> QED  BY <3>1, <3>2
  <2> QED  BY <2>1, <2>2
<1>7. CASE WriteFirst
  <2>1. /\ h'.pc = "last" /\ UNCHANGED <<step, slot_id>>
        /\ h'.slot = h.slot /\ h'.save = h.save /\ h'.region = h.region
    BY <1>0, <1>7 DEF WriteFirst, WorkerType, Workers, clientVars
  <2>2. Holds(s, v, r, TRUE)'
    BY <1>1, <1>2, <1>4, <1>7, FirstHolds DEF WriteFirst
  <2>3. Holds(h.slot, h.save, h.region, h.pc = "last")'
    BY <1>4, <2>1, <2>2 DEF Holds
  <2>4. OneSave'
    BY <1>1, <2>1 DEF OneSave, Uploading
  <2>5. h'.region # "dash" => h'.slot = slot_id'[h'.save]
    BY <1>1, <2>1 DEF Filled
  <2> QED  BY <1>6, <2>1, <2>3, <2>4, <2>5 DEF Filled
<1>8. CASE WriteLast
  <2>1. /\ h'.pc = "idle" /\ step' = [step EXCEPT ![v] = NextStep[r]]
        /\ slot_id' = [slot_id EXCEPT ![v] = s]
    BY <1>4, <1>8 DEF WriteLast, Idle
  <2>2. Holds(s, v, NextStep[r], FALSE)'
    BY <1>1, <1>2, <1>4, <1>8, LastHolds DEF WriteLast
  <2>3. step'[v] = NextStep[r] /\ slot_id'[v] = s /\ \A w \in Saves \ {v} : step'[w] = step[w]
    BY <1>0, <2>1 DEF ClientType
  <2>4. \A w \in Saves : step'[w] \notin {"dash"} \cup Finished => w = v
    BY <1>5, <2>3
  <2>5. OneSave'
    BY <2>1, <2>4 DEF OneSave
  <2>6. ASSUME NEW w \in Saves, step'[w] \in {"saver", "hero", "thumb"}
        PROVE  Holds(slot_id[w], w, step[w], FALSE)'
    <3>1. w = v
      BY <2>4, <2>6 DEF Finished
    <3> QED  BY <2>2, <2>3, <3>1 DEF Holds
  <2> QED  BY <1>6, <2>1, <2>5, <2>6 DEF Filled, Uploading
<1> QED  BY <1>7, <1>8

(* The first call for one of the other regions.                             *)
LEMMA RegionFills ==
  ASSUME StoreInv, NEW v \in Saves, PostRegion(v)
  PROVE  OneSave' /\ Filled'
<1> USE DEF StoreInv, GalleryInv
<1>1. /\ step[v] \in {"saver", "hero", "thumb"} /\ h.pc = "idle"
      /\ UNCHANGED <<region, step, slot_id>>
      /\ h'.pc = "first" /\ h'.region = step[v] /\ h'.save = v /\ h'.slot = slot_id[v]
  BY DEF PostRegion, flashVars, clientVars, Regions
<1>2. step[v] \notin {"dash"} \cup Finished
  BY <1>1 DEF Finished
<1>3. OneSave'
  BY <1>1, <1>2 DEF OneSave
<1>4. Holds(slot_id[v], v, step[v], FALSE)
  BY <1>1 DEF Filled
<1>5. Holds(h.slot, h.save, h.region, h.pc = "last")'
  BY <1>1, <1>4 DEF Holds
<1>6. \A s \in Slots : HeadersPresent(s)' => \E w \in Saves : Whole(s, w)'
  BY <1>1 DEF Filled, HeadersPresent, Whole
<1> QED  BY <1>1, <1>3, <1>5, <1>6 DEF Filled

LEMMA StoreInvStep ==
  ASSUME OneAtATime, "bodyless" \notin Requests, StoreInv, [Next]_vars
  PROVE  OneSave' /\ Filled'
<1> USE DEF StoreInv, GalleryInv
<1>0. WorkerType /\ ClientType
  BY DEF Typed
<1>1. h.pc # "idle" => h.save \in Saves
  BY <1>0 DEF WorkerType
<1>2. CASE UNCHANGED <<region, slot_id, h, step>>
  <2>1. \A v \in Saves : step'[v] = step[v]
    BY <1>2
  <2> QED  BY <1>1, <1>2, <2>1, SaveMovesOn
<1>3. ASSUME NEW v \in Saves, Save(v)
      PROVE  OneSave' /\ Filled'
  <2>1. CASE PostDash(v)
    <3>1. /\ h'.pc = "scan" /\ h'.save = v /\ h'.region = "dash" /\ step[v] = "dash"
          /\ UNCHANGED <<region, step, slot_id>>
      BY <2>1 DEF PostDash, Scan, flashVars, clientVars
    <3>2. \A w \in Saves \ {v} : step[w] \in {"dash"} \cup Finished
      BY <2>1 DEF PostDash, StartsAlone
    <3> QED  BY <3>1, <3>2, SaveLooks
  <2>2. CASE PostRegion(v)
    BY <2>2, RegionFills
  <2>3. CASE Commit(v) \/ CommitRefused(v) \/ SelectSaved(v) \/ Abandon(v)
    <3>1. /\ UNCHANGED <<region, slot_id, h>>
          /\ step[v] \notin {"dash"} \cup Finished
          /\ h.pc # "idle" => h.save # v
      BY <2>3 DEF Commit, CommitSlot, CommitRefused, SelectSaved, Abandon, flashVars, httpdVars,
                  Finished
    <3>2. step' \in {[step EXCEPT ![v] = a] : a \in {"select"} \cup Finished}
      BY <2>3 DEF Commit, CommitRefused, SelectSaved, Abandon, Finished
    <3>3. \A w \in Saves : step'[w] # step[w] => w = v /\ step'[v] \in {"select"} \cup Finished
      BY <1>0, <3>2 DEF ClientType
    <3> QED  BY <1>1, <3>1, <3>3, SaveMovesOn
  <2> QED  BY <1>3, <2>1, <2>2, <2>3 DEF Save
<1>4. CASE Upload
  <2>1. CASE ScanSlot
    <3>1. /\ h'.pc = "scan" \/ (h'.pc = "erase" /\ h'.k = 1)
          /\ h'.save = h.save /\ h'.region = h.region /\ h.pc = "scan"
          /\ UNCHANGED <<region, step, slot_id>>
      BY <1>0, <2>1 DEF ScanSlot, WorkerType, Workers, flashVars, clientVars
    <3> QED  BY <3>1, SaveLooks DEF OneSave
  <2>2. CASE EraseRegion
    BY <2>2, EraseFills
  <2>3. CASE WriteFirst \/ WriteLast
    BY <2>3, WriteFills
  <2>4. CASE (GalleryFull \/ UploadFails) /\ h' = SecondPass
    <3>1. /\ h'.pc = "scan" /\ h'.save = h.save /\ h'.region = "dash" /\ h.region = "dash"
          /\ h.pc # "idle" /\ UNCHANGED <<region, slot_id>>
      BY <1>0, <2>4
         DEF GalleryFull, UploadFails, SecondPass, Scan, WorkerType, Idle, flashVars
    <3>2. step' = step
      BY <2>4 DEF GalleryFull, UploadFails, SecondPass, Scan, Idle
    <3> QED  BY <3>1, <3>2, SaveLooks DEF OneSave
  <2>5. CASE GalleryFull \/ UploadFails \/ UploadAborted
    <3>1. h' = SecondPass \/ h' = Idle
      BY <2>5 DEF GalleryFull, UploadFails, UploadAborted
    <3>2. CASE h' = Idle
      <4>1. /\ h'.pc = "idle" /\ UNCHANGED <<region, slot_id>>
            /\ step' = [step EXCEPT ![h.save] = "gone"]
        BY <2>5, <3>2
           DEF GalleryFull, UploadFails, UploadAborted, SecondPass, Scan, Idle, flashVars
      <4>2. \A v \in Saves : IF v = h.save THEN step'[v] = "gone" ELSE step'[v] = step[v]
        BY <1>0, <4>1 DEF ClientType
      <4> QED  BY <4>1, <4>2, SaveEnds DEF Finished
    <3>3. h' = SecondPass => GalleryFull \/ UploadFails
      BY <2>5 DEF UploadAborted, SecondPass, Scan, Idle
    <3> QED  BY <2>4, <3>1, <3>2, <3>3
  <2> QED  BY <1>4, <2>1, <2>2, <2>3, <2>5 DEF Upload
<1>5. CASE Crash
  <2>1. h'.pc = "idle" /\ UNCHANGED <<region, slot_id>>
    BY <1>5 DEF Crash, Idle, flashVars
  <2>2. \A v \in Saves : IF h.save = v THEN step'[v] = "gone" ELSE step'[v] = step[v]
    BY <1>5 DEF Crash
  <2> QED  BY <2>1, <2>2, SaveEnds DEF Finished
<1>6. CASE \/ \E s \in Slots : SelectOrDelete(s) \/ Favorite(s) \/ CommitAny(s)
           \/ CoreRead \/ Core \/ \E p \in Presets : PickPreset(p)
           \/ Draw \/ DrawEnd \/ SaverTick \/ SaverHide \/ NvsFlush \/ UNCHANGED vars
  <2>1. UNCHANGED <<region, slot_id, h, step>>
    <3>1. CASE \E s \in Slots : SelectOrDelete(s) \/ Favorite(s) \/ CommitAny(s)
      BY <3>1 DEF SelectOrDelete, Favorite, CommitAny, CommitSlot, flashVars, httpdVars, clientVars
    <3>2. CASE CoreRead \/ Core \/ \E p \in Presets : PickPreset(p)
      BY <3>2 DEF Core, CoreRead, CoreReset, CoreSelect, CoreDelete, FavRead, FavApply,
                  HealAndPublish, PickPreset, flashVars, httpdVars, clientVars
    <3>3. CASE Draw \/ DrawEnd \/ SaverTick \/ SaverHide \/ NvsFlush \/ UNCHANGED vars
      BY <3>3 DEF Draw, DrawEnd, DrawSwap, DrawRelease, SaverTick, SaverHide, NvsFlush, vars,
                  flashVars, httpdVars, clientVars
    <3> QED  BY <1>6, <3>1, <3>2, <3>3
  <2> QED  BY <1>2, <2>1
<1>7. \A r \in Regions : ~Bodyless(r)
  BY DEF Bodyless
<1> QED  BY <1>3, <1>4, <1>5, <1>6, <1>7 DEF Next

(* A used slot is one whole banner.                                         *)
LEMMA UsedIsWhole ==
  ASSUME StoreInv, NEW s \in Slots, HeadersPresent(s)
  PROVE  \E v \in Saves : Content(s) = {v}
<1>1. PICK v \in Saves : Whole(s, v)
  BY DEF StoreInv, Filled
<1>2. \A w \in Saves : (\A r \in Regions, p \in Parts : region[s][r][p] = {w}) <=> w = v
  <2>1. "dash" \in Regions /\ "head" \in Parts
    BY DEF Regions, Parts
  <2>2. ASSUME NEW w \in Saves, \A r \in Regions, p \in Parts : region[s][r][p] = {w}
        PROVE  w = v
    <3>1. {w} = {v}
      BY <1>1, <2>1, <2>2 DEF Whole
    <3> QED  BY <3>1
  <2> QED  BY <1>1, <2>2 DEF Whole
<1>3. {w \in Saves : \A r \in Regions, p \in Parts : region[s][r][p] = {w}} = {v}
  BY <1>2
<1> QED  BY <1>3 DEF Content

Shown == [s \in Slots |-> IF gallery_slot_used(s) THEN Content(s) ELSE {}]

(* The partition steps as the store does or not at all.                     *)
LEMMA StoreStep ==
  ASSUME StoreInv, [Next]_vars, "bodyless" \notin Requests
  PROVE  [Abstract!Next]_Shown
<1> USE DEF StoreInv, GalleryInv
<1>0. FlashType /\ WorkerType /\ LoopType
  BY DEF Typed
<1>1. ASSUME \A s \in Slots : gallery_slot_used(s)' <=> gallery_slot_used(s),
             \A s \in Slots : gallery_slot_used(s) => region'[s] = region[s]
      PROVE  UNCHANGED Shown
  <2>1. ASSUME NEW s \in Slots, gallery_slot_used(s)
        PROVE  Content(s)' = Content(s)
    <3>1. region'[s] = region[s]
      BY <1>1, <2>1
    <3> QED  BY <3>1 DEF Content
  <2> QED  BY <1>1, <2>1 DEF Shown
<1>2. CASE UNCHANGED <<word0, region>>
  BY <1>1, <1>2 DEF gallery_slot_used
<1>3. CASE EraseRegion
  BY <1>1, <1>3, EraseFacts
<1>4. CASE WriteFirst \/ WriteLast
  <2>1. /\ h.slot \in Slots /\ h.save \in Saves /\ h.region \in Regions /\ h.pc \in Uploading
        /\ region \in RegionType /\ word0' = word0
    BY <1>0, <1>4 DEF WriteFirst, WriteLast, WorkerType, Workers, Uploading, FlashType
  <2>2. \A s \in Slots \ {h.slot} : region'[s] = region[s]
    BY <1>4, <2>1, ProgrammedFacts, PartFacts DEF WriteFirst, WriteLast
  <2>3. region[h.slot]["thumb"]["head"] = {}
    <3>1. Holds(h.slot, h.save, h.region, h.pc = "last")
      BY <2>1 DEF Filled
    <3>2. "thumb" \in Regions /\ "head" \in Parts
      BY DEF Regions, Parts
    <3> QED  BY <2>1, <3>1, <3>2, PastFacts DEF Holds
  <2>4. ~gallery_slot_used(h.slot)
    BY <2>1, <2>3 DEF CommittedIsComplete, Regions
  <2> QED  BY <1>1, <2>1, <2>2, <2>4 DEF gallery_slot_used
<1>5. ASSUME NEW s \in Slots, CommitSlot(s)
      PROVE  UNCHANGED Shown \/ Abstract!Next
  <2>1. region' = region /\ word0' = [word0 EXCEPT ![s] = CommitWord(s)]
    BY <1>5 DEF CommitSlot
  <2>2. CASE word0[s] # "erased"
    <3>1. word0' = word0
      BY <1>0, <2>1, <2>2 DEF CommitWord, FlashType, Words
    <3> QED  BY <1>2, <2>1, <3>1
  <2>3. CASE word0[s] = "erased"
    <3>1. PICK v \in Saves : Content(s) = {v}
      BY <1>5, UsedIsWhole DEF CommitSlot
    <3>2. /\ ~gallery_slot_used(s) /\ gallery_slot_used(s)'
          /\ \A t \in Slots \ {s} : gallery_slot_used(t)' <=> gallery_slot_used(t)
      BY <1>0, <2>1, <2>3 DEF CommitWord, gallery_slot_used, FlashType
    <3>3. \A t \in Slots : Content(t)' = Content(t)
      BY <2>1 DEF Content
    <3>4. Shown' = [Shown EXCEPT ![s] = {v}] /\ Shown[s] = {}
      BY <3>1, <3>2, <3>3 DEF Shown
    <3> QED  BY <3>4 DEF Abstract!Next, Abstract!Publish, Shown
  <2> QED  BY <2>2, <2>3
<1>6. CASE CoreDelete
  <2>1. PICK s \in Slots : s = loop.got - 256
    BY <1>0, <1>6, SlotFacts DEF CoreDelete, At, LoopType
  <2>2. region' = region /\ word0' = [word0 EXCEPT ![s] = "zero"]
    BY <1>6, <2>1 DEF CoreDelete
  <2>3. /\ ~gallery_slot_used(s)'
        /\ \A t \in Slots \ {s} : gallery_slot_used(t)' <=> gallery_slot_used(t)
    BY <1>0, <2>1, <2>2 DEF gallery_slot_used, FlashType
  <2>4. CASE ~gallery_slot_used(s)
    BY <1>1, <2>1, <2>2, <2>3, <2>4
  <2>5. CASE gallery_slot_used(s)
    <3>1. \A t \in Slots : Content(t)' = Content(t)
      BY <2>2 DEF Content
    <3>2. PICK v \in Saves : Content(s) = {v}
      BY <2>1, <2>5, UsedIsWhole DEF CommittedIsComplete, HeadersPresent
    <3>3. Shown' = [Shown EXCEPT ![s] = {}] /\ Shown[s] # {}
      BY <2>1, <2>3, <2>5, <3>1, <3>2 DEF Shown
    <3> QED  BY <2>1, <3>3 DEF Abstract!Next, Abstract!Remove, Shown
  <2> QED  BY <2>4, <2>5
<1>7. \/ UNCHANGED <<word0, region>>
      \/ EraseRegion \/ WriteFirst \/ WriteLast \/ CoreDelete
      \/ \E s \in Slots : CommitSlot(s)
  <2>1. UNCHANGED vars => UNCHANGED <<word0, region>>
    BY DEF vars, flashVars
  <2>2. ASSUME NEW v \in Saves, Save(v)
        PROVE  UNCHANGED <<word0, region>> \/ \E s \in Slots : CommitSlot(s)
    <3>1. Commit(v) => slot_id[v] \in Slots
      BY DEF Commit, Typed, ClientType, Finished
    <3> QED  BY <2>2, <3>1
             DEF Save, Commit, PostDash, PostRegion, CommitRefused, SelectSaved, Abandon, flashVars
  <2>3. Upload => UNCHANGED <<word0, region>> \/ EraseRegion \/ WriteFirst \/ WriteLast
    BY DEF Upload, ScanSlot, GalleryFull, UploadFails, UploadAborted, flashVars
  <2>4. ASSUME NEW s \in Slots, SelectOrDelete(s) \/ Favorite(s) \/ CommitAny(s)
        PROVE  UNCHANGED <<word0, region>> \/ CommitSlot(s)
    BY <2>4 DEF SelectOrDelete, Favorite, CommitAny, flashVars
  <2>5. CoreRead \/ Core \/ (\E p \in Presets : PickPreset(p))
          => CoreDelete \/ UNCHANGED <<word0, region>>
    BY DEF Core, CoreRead, CoreReset, CoreSelect, FavRead, FavApply, HealAndPublish,
           PickPreset, flashVars
  <2>6. Draw \/ DrawEnd \/ SaverTick \/ SaverHide \/ NvsFlush \/ Crash
          => UNCHANGED <<word0, region>>
    BY DEF Draw, DrawEnd, DrawSwap, DrawRelease, SaverTick, SaverHide, NvsFlush, Crash, flashVars
  <2>7. \A r \in Regions : ~Bodyless(r)
    BY DEF Bodyless
  <2> QED  BY <2>1, <2>2, <2>3, <2>4, <2>5, <2>6, <2>7 DEF Next
<1> QED  BY <1>2, <1>3, <1>4, <1>5, <1>6, <1>7

(* While one page saves at a time and no body arrives without its request,  *)
(* the partition is the abstract store: a banner appears whole and at once  *)
(* and goes at once, whatever is aborted, fails, is deleted or is committed *)
(* again, and however often the chip resets.                                *)
THEOREM BannersAreWhole ==
  ASSUME OneAtATime, "bodyless" \notin Requests
  PROVE  Spec => IsBannerStore
<1>1. Init => Abstract!Init
  BY DEF Init, Abstract!Init, gallery_slot_used
<1>2. StoreInv /\ [Next]_vars => (OneSave /\ Filled)'
  BY StoreInvStep
<1>3. StoreInv /\ [Next]_vars => [Abstract!Next]_Shown
  BY StoreStep
<1> QED  BY <1>1, <1>2, <1>3, StoreInvInit, GalleryInvAlways, CommitsAreComplete, PTL
         DEF Spec, IsBannerStore, Abstract!Spec, Shown, StoreInv

-----------------------------------------------------------------------------
(* One save after another, and nothing that takes a banner away: the        *)
(* screensaver's copy is the banner in the selected slot.                   *)

(* Neither the loop's steps nor the other requests touch a save.            *)
LEMMA QuietSteps ==
  ASSUME \/ \E s \in Slots : SelectOrDelete(s) \/ Favorite(s) \/ CommitAny(s)
         \/ \E r \in Regions : Bodyless(r)
         \/ CoreRead \/ Core \/ \E p \in Presets : PickPreset(p)
         \/ Draw \/ DrawEnd \/ SaverTick \/ SaverHide \/ NvsFlush \/ UNCHANGED vars
  PROVE  UNCHANGED <<h, step, slot_id>>
<1>1. CASE \/ \E s \in Slots : SelectOrDelete(s) \/ Favorite(s) \/ CommitAny(s)
           \/ \E r \in Regions : Bodyless(r)
  BY <1>1 DEF SelectOrDelete, Favorite, CommitAny, CommitSlot, Bodyless, httpdVars, clientVars
<1>2. CASE CoreRead \/ Core \/ \E p \in Presets : PickPreset(p)
  BY <1>2 DEF Core, CoreRead, CoreReset, CoreSelect, CoreDelete, FavRead, FavApply,
              HealAndPublish, PickPreset, httpdVars, clientVars
<1>3. CASE Draw \/ DrawEnd \/ SaverTick \/ SaverHide \/ NvsFlush \/ UNCHANGED vars
  BY <1>3 DEF Draw, DrawEnd, DrawSwap, DrawRelease, SaverTick, SaverHide, NvsFlush, vars,
              httpdVars, clientVars
<1> QED  BY <1>1, <1>2, <1>3

(* A save under way is alone, whatever the other requests are.              *)
LEMMA OneSaveEnds ==
  ASSUME OneSave, h'.pc = "idle",
         \A v \in Saves : \/ step'[v] = step[v] \/ step'[v] \in Finished
                          \/ h.pc # "idle" /\ v = h.save
  PROVE  OneSave'
BY DEF OneSave

LEMMA OneSaveGoesOn ==
  ASSUME OneSave, UNCHANGED step, step[h'.save] = h'.region,
         \A v \in Saves \ {h'.save} : step[v] \in {"dash"} \cup Finished
  PROVE  OneSave'
BY DEF OneSave

LEMMA OneSaveMovesOn ==
  ASSUME OneSave, UNCHANGED h, NEW v \in Saves, step[v] \notin {"dash"} \cup Finished,
         h.pc # "idle" => h.save # v /\ h.save \in Saves,
         \A w \in Saves \ {v} : step'[w] = step[w]
  PROVE  OneSave'
<1>1. h.pc = "idle"
  BY DEF OneSave
<1>2. \A w \in Saves : w # v => step'[w] \in {"dash"} \cup Finished
  BY DEF OneSave
<1> QED  BY <1>1, <1>2 DEF OneSave

LEMMA OneSaveStep ==
  ASSUME OneAtATime, Typed, OneSave, [Next]_vars
  PROVE  OneSave'
<1>0. WorkerType /\ ClientType /\ (h.pc # "idle" => h.save \in Saves)
  BY DEF Typed, WorkerType
<1>1. CASE UNCHANGED <<h, step>>
  BY <1>1 DEF OneSave
<1>2. ASSUME NEW v \in Saves, Save(v) PROVE OneSave'
  <2>1. CASE PostDash(v)
    <3>1. h'.save = v /\ h'.region = "dash" /\ step[v] = "dash" /\ step' = step
      BY <2>1 DEF PostDash, Scan, clientVars
    <3>2. \A w \in Saves \ {v} : step[w] \in {"dash"} \cup Finished
      BY <2>1 DEF PostDash, StartsAlone
    <3> QED  BY <3>1, <3>2, OneSaveGoesOn
  <2>2. CASE PostRegion(v)
    <3>1. h'.save = v /\ h'.region = step[v] /\ step' = step
      BY <2>2 DEF PostRegion, clientVars
    <3>2. step[v] \notin {"dash"} \cup Finished
      BY <2>2 DEF PostRegion, Regions, Finished
    <3>3. \A w \in Saves \ {v} : step[w] \in {"dash"} \cup Finished
      BY <3>2 DEF OneSave
    <3> QED  BY <3>1, <3>3, OneSaveGoesOn
  <2>3. CASE Commit(v) \/ CommitRefused(v) \/ SelectSaved(v) \/ Abandon(v)
    <3>1. /\ UNCHANGED h /\ step[v] \notin {"dash"} \cup Finished
          /\ h.pc # "idle" => h.save # v
      BY <2>3 DEF Commit, CommitSlot, CommitRefused, SelectSaved, Abandon, httpdVars, Finished
    <3>2. step' \in {[step EXCEPT ![v] = a] : a \in {"select"} \cup Finished}
      BY <2>3 DEF Commit, CommitRefused, SelectSaved, Abandon, Finished
    <3>3. \A w \in Saves \ {v} : step'[w] = step[w]
      BY <1>0, <3>2 DEF ClientType
    <3> QED  BY <1>0, <3>1, <3>3, OneSaveMovesOn
  <2> QED  BY <1>2, <2>1, <2>2, <2>3 DEF Save
<1>3. CASE Upload
  <2>1. h.pc # "idle"
    BY <1>3 DEF Upload, ScanSlot, GalleryFull, EraseRegion, WriteFirst, WriteLast, UploadFails,
                UploadAborted
  <2>2. CASE h'.pc = "idle"
    <3>1. \/ step' = step
          \/ \E a \in {"gone", NextStep[h.region]} : step' = [step EXCEPT ![h.save] = a]
      BY <1>3 DEF Upload, ScanSlot, GalleryFull, EraseRegion, WriteFirst, WriteLast, UploadFails,
                  UploadAborted, clientVars
    <3>2. \A v \in Saves \ {h.save} : step'[v] = step[v]
      BY <1>0, <3>1 DEF ClientType
    <3> QED  BY <2>1, <2>2, <3>2, OneSaveEnds
  <2>3. CASE h'.pc # "idle"
    <3>1. /\ step' = step /\ h'.save = h.save
          /\ h'.region = h.region \/ (h'.region = "dash" /\ h.pc \in {"scan", "erase"})
      <4>1. CASE ScanSlot \/ WriteFirst
        <5>1. h' \in {[h EXCEPT !.slot = @ + 1], [h EXCEPT !.pc = "erase"], [h EXCEPT !.pc = "last"]}
          BY <4>1 DEF ScanSlot, WriteFirst
        <5>2. h'.save = h.save /\ h'.region = h.region
          BY <1>0, <5>1 DEF WorkerType, Workers
        <5>3. step' = step
          BY <4>1 DEF ScanSlot, WriteFirst, clientVars
        <5> QED  BY <5>2, <5>3
      <4>2. CASE EraseRegion
        BY <1>0, <4>2 DEF EraseRegion, SecondPass, Scan, clientVars, WorkerType, Workers
      <4>3. CASE GalleryFull \/ UploadFails \/ UploadAborted \/ WriteLast
        BY <1>0, <2>3, <4>3 DEF GalleryFull, UploadFails, UploadAborted, WriteLast, Idle,
                                SecondPass, Scan, WorkerType, Workers
      <4> QED  BY <1>3, <4>1, <4>2, <4>3 DEF Upload
    <3>2. h'.region = h.region
      BY <1>0, <3>1 DEF WorkerType
    <3>3. /\ step[h'.save] = h'.region
          /\ \A v \in Saves \ {h'.save} : step[v] \in {"dash"} \cup Finished
      BY <2>1, <3>1, <3>2 DEF OneSave
    <3> QED  BY <3>1, <3>3, OneSaveGoesOn
  <2> QED  BY <2>2, <2>3
<1>4. CASE Crash
  <2>1. /\ h'.pc = "idle"
        /\ \A v \in Saves : step'[v] = step[v] \/ step'[v] \in Finished
    BY <1>4 DEF Crash, Idle, Finished
  <2> QED  BY <2>1, OneSaveEnds
<1>5. CASE \/ \E s \in Slots : SelectOrDelete(s) \/ Favorite(s) \/ CommitAny(s)
           \/ \E r \in Regions : Bodyless(r)
           \/ CoreRead \/ Core \/ \E p \in Presets : PickPreset(p)
           \/ Draw \/ DrawEnd \/ SaverTick \/ SaverHide \/ NvsFlush \/ UNCHANGED vars
  <2>1. UNCHANGED <<h, step>>
    BY <1>5, QuietSteps
  <2> QED  BY <1>1, <2>1
<1> QED  BY <1>2, <1>3, <1>4, <1>5 DEF Next

(* Nothing takes a banner away, or the selection.                           *)
NoneIsTaken == Requests \cap {"delete", "preset"} = {}

(* The header of a region.                                                  *)
Head(r, s) == region[s][r]["head"]

(* The search for a slot begins at 0, so that 0 is used before any other    *)
(* slot is written to.                                                      *)
ZeroIsFirst ==
  /\ \A s \in Slots : Head("dash", s) # {} => s = 0 \/ gallery_slot_used(0)
  /\ h.pc \in {"scan", "erase"} \/ (h.pc \in Uploading /\ h.region = "dash")
       => h.slot = 0 \/ gallery_slot_used(0)
  /\ gallery_active_slot # None => gallery_slot_used(gallery_active_slot)

(* What is asked for, is being applied or is selected is used for good; the *)
(* selection NVS starts from and may restore, slot 0, is used as soon as    *)
(* any is.                                                                  *)
UsedStays ==
  /\ \A s \in Slots : word0[s] # "zero"
  /\ gallery_pending # None => gallery_slot_used(gallery_pending)
  /\ loop.pc \in {"reset", "apply"} => gallery_slot_used(loop.got)
  /\ "Custom" \in {banner_preset, nvs.preset} => gallery_slot_used(0)
  /\ bnr_sel \notin {0, None} => gallery_slot_used(bnr_sel)
  /\ nvs.sel \notin {0, None} => gallery_slot_used(nvs.sel)

(* A save finds the saver's header unwritten, so that nobody has committed  *)
(* the slot before.                                                         *)
HeadIsBlank ==
  /\ h.pc = "erase" /\ h.k > 2 => Head("saver", h.slot) = {}
  /\ h.pc \in Uploading /\ h.region = "dash" => Head("saver", h.slot) = {}
  /\ h.pc = "first" /\ h.region = "saver" => Head("saver", h.slot) = {}
  /\ \A v \in Saves : step[v] = "saver" /\ ~(h.pc = "last" /\ h.save = v)
                        => Head("saver", slot_id[v]) = {}

(* The screensaver's copy is of a used slot, and is what the slot holds.    *)
Mirrors ==
  saver.custom => /\ saver.preset = "Custom" /\ gallery_slot_used(saver.sel)
                  /\ saver.of = Head("saver", saver.sel)

MirrorInv == CommittedIsComplete /\ OneSave /\ ZeroIsFirst /\ UsedStays /\ HeadIsBlank /\ Mirrors

LEMMA UsedSteps ==
  ASSUME GalleryInv, [Next]_vars
  PROVE  /\ ~CoreDelete => \A s \in Slots : gallery_slot_used(s) => gallery_slot_used(s)'
         /\ \A s \in Slots : gallery_slot_used(s)' => gallery_slot_used(s) \/ CommitSlot(s)
<1>0. Typed
  BY DEF GalleryInv
<1>1. CASE UNCHANGED word0
  BY <1>1 DEF gallery_slot_used
<1>2. CASE EraseRegion
  BY <1>2, EraseFacts
<1>3. CASE CoreDelete
  BY <1>0, <1>3 DEF CoreDelete, gallery_slot_used, Typed, FlashType
<1>4. ASSUME NEW s \in Slots, CommitSlot(s)
      PROVE  /\ \A t \in Slots : gallery_slot_used(t) => gallery_slot_used(t)'
             /\ \A t \in Slots : gallery_slot_used(t)' => gallery_slot_used(t) \/ t = s
  BY <1>0, <1>4 DEF CommitSlot, CommitWord, gallery_slot_used, Typed, FlashType
<1> QED  BY <1>1, <1>2, <1>3, <1>4, FlashSteps

(* Only a save's first write to one of the .wdb regions writes its header,  *)
(* and only an erase takes one away.                                        *)
LEMMA HeadSteps ==
  ASSUME GalleryInv, [Next]_vars, NEW r \in {"dash", "saver"}
  PROVE  /\ ~WriteFirst => \A s \in Slots : Head(r, s)' \in {Head(r, s), {}}
         /\ WriteFirst => \A s \in Slots : s # h.slot \/ h.region # r
                                             => Head(r, s)' = Head(r, s)
         /\ ~EraseRegion /\ ~WriteFirst => \A s \in Slots : Head(r, s)' = Head(r, s)
<1>0. Typed /\ FlashType /\ WorkerType /\ r \in Regions /\ "head" \in Parts
  BY DEF GalleryInv, Typed, Regions, Parts
<1>1. CASE UNCHANGED region
  BY <1>1 DEF Head
<1>2. CASE EraseRegion
  <2>1. h.slot \in Slots /\ h.k \in 1 .. 4 /\ region' = Erased(h.slot, h.k)
    BY <1>0, <1>2 DEF EraseRegion, WorkerType
  <2>2. /\ \A s \in Slots \ {h.slot} : region'[s] = region[s]
        /\ \A q \in Regions \ {Layout[h.k]} : region'[h.slot][q] = region[h.slot][q]
        /\ region'[h.slot][Layout[h.k]] = Blank
    BY <1>0, <2>1, ErasedFacts DEF FlashType
  <2>3. ~WriteFirst
    BY <1>2 DEF EraseRegion, WriteFirst
  <2> QED  BY <1>0, <1>2, <2>2, <2>3, BlankFacts DEF Head
<1>3. ASSUME NEW t \in Slots, NEW q \in Regions, NEW p \in Parts, NEW v \in Saves,
             region' = Programmed(t, q, p, v)
      PROVE  \A s \in Slots : s # t \/ q # r \/ p # "head" => Head(r, s)' = Head(r, s)
  BY <1>0, <1>3, ProgrammedFacts DEF FlashType, Head
<1>4. CASE WriteFirst
  <2>1. h.slot \in Slots /\ h.region \in Regions /\ h.save \in Saves
    BY <1>0, <1>4 DEF WriteFirst, Uploading, WorkerType, Workers
  <2>2. region' = Programmed(h.slot, h.region, FirstPart(h.region), h.save)
    BY <1>4 DEF WriteFirst
  <2> QED  BY <1>3, <1>4, <2>1, <2>2, PartFacts
<1>5. CASE WriteLast
  <2>1. h.slot \in Slots /\ h.region \in Regions /\ h.save \in Saves
    BY <1>0, <1>5 DEF WriteLast, Uploading, WorkerType, Workers
  <2>2. region' = Programmed(h.slot, h.region, LastPart(h.region), h.save)
    BY <1>5 DEF WriteLast
  <2>3. h.region = r => LastPart(h.region) # "head"
    BY DEF LastPart
  <2>4. ~WriteFirst
    BY <1>5 DEF WriteLast, WriteFirst
  <2> QED  BY <1>3, <2>1, <2>2, <2>3, <2>4, PartFacts
<1>6. ASSUME NEW q \in Regions, Bodyless(q)
      PROVE  ~WriteFirst /\ \A s \in Slots : Head(r, s)' = Head(r, s)
  <2>1. PICK v \in Saves : region' = Programmed(armed[q], q, LastPart(q), v)
    BY <1>6 DEF Bodyless
  <2>2. armed[q] \in Slots /\ ~WriteFirst
    BY <1>0, <1>6 DEF Bodyless, WorkerType, SlotOrNone, WriteFirst
  <2>3. q = r => LastPart(q) # "head"
    BY DEF LastPart
  <2> QED  BY <1>3, <2>1, <2>2, <2>3, PartFacts
<1>7. CASE ~(\/ EraseRegion \/ WriteFirst \/ WriteLast \/ \E q \in Regions : Bodyless(q))
  <2>1. CASE \E v \in Saves : Save(v)
    BY <1>1, <2>1 DEF Save, PostDash, PostRegion, Commit, CommitSlot, CommitRefused, SelectSaved,
                      Abandon, flashVars
  <2>2. CASE ScanSlot \/ GalleryFull \/ UploadFails \/ UploadAborted
    BY <1>1, <2>2 DEF ScanSlot, GalleryFull, UploadFails, UploadAborted, flashVars
  <2>3. CASE \E t \in Slots : SelectOrDelete(t) \/ Favorite(t) \/ CommitAny(t)
    BY <1>1, <2>3 DEF SelectOrDelete, Favorite, CommitAny, CommitSlot, flashVars
  <2>4. CASE CoreRead \/ Core \/ \E p \in Presets : PickPreset(p)
    BY <1>1, <2>4 DEF Core, CoreRead, CoreReset, CoreSelect, CoreDelete, FavRead, FavApply,
                      HealAndPublish, PickPreset, flashVars
  <2>5. CASE Draw \/ DrawEnd \/ SaverTick \/ SaverHide \/ NvsFlush \/ Crash \/ UNCHANGED vars
    BY <1>1, <2>5 DEF Draw, DrawEnd, DrawSwap, DrawRelease, SaverTick, SaverHide, NvsFlush,
                      Crash, vars, flashVars
  <2> QED  BY <1>7, <2>1, <2>2, <2>3, <2>4, <2>5 DEF Next, Upload
<1> QED  BY <1>2, <1>4, <1>5, <1>6, <1>7

LEMMA ZeroIsUsed ==
  ASSUME CommittedIsComplete, ZeroIsFirst, NEW s \in Slots, gallery_slot_used(s)
  PROVE  gallery_slot_used(0)
<1>1. Head("dash", s) # {}
  BY DEF CommittedIsComplete, Head, Regions
<1> QED  BY <1>1 DEF ZeroIsFirst

LEMMA ZeroIsFirstStep ==
  ASSUME GalleryInv, CommittedIsComplete, ZeroIsFirst, [Next]_vars, ~CoreDelete
  PROVE  ZeroIsFirst'
<1>0. Typed /\ WorkerType /\ 0 \in Slots
  BY GalleryAssumption DEF GalleryInv, Typed, Slots
<1>1. \A s \in Slots : gallery_slot_used(s) => gallery_slot_used(s)'
  BY UsedSteps
<1>2. gallery_slot_used(0) => gallery_slot_used(0)'
  BY <1>0, <1>1
<1>3. ASSUME NEW s \in Slots, Head("dash", s)' # {} PROVE s = 0 \/ gallery_slot_used(0)
  <2>1. CASE Head("dash", s) # {}
    BY <2>1 DEF ZeroIsFirst
  <2>2. CASE Head("dash", s) = {}
    <3>1. WriteFirst /\ s = h.slot /\ h.region = "dash"
      BY <1>3, <2>2, HeadSteps
    <3> QED  BY <3>1 DEF WriteFirst, ZeroIsFirst, Uploading
  <2> QED  BY <2>1, <2>2
<1>4. gallery_active_slot # None => gallery_slot_used(0)
  BY ZeroIsUsed DEF ZeroIsFirst, gallery_slot_used
<1>5. ASSUME h'.pc \in {"scan", "erase"} \/ (h'.pc \in Uploading /\ h'.region = "dash")
      PROVE  h'.slot = 0 \/ gallery_slot_used(0)
  <2>1. CASE h' = h
    BY <1>5, <2>1 DEF ZeroIsFirst
  <2>2. CASE ScanSlot
    <3>1. CASE Taken(h.slot)
      <4>1. h.slot \in Slots
        BY <1>0, <2>2, SlotFacts DEF ScanSlot, WorkerType, gallery_slot_cap
      <4>2. gallery_slot_used(h.slot) \/ gallery_active_slot # None
        BY <3>1, <4>1, SlotFacts DEF Taken
      <4> QED  BY <1>4, <4>1, <4>2, ZeroIsUsed
    <3>2. CASE ~Taken(h.slot)
      <4>1. h' = [h EXCEPT !.pc = "erase"] /\ h.pc = "scan"
        BY <2>2, <3>2 DEF ScanSlot
      <4>2. h'.slot = h.slot
        BY <1>0, <4>1 DEF WorkerType, Workers
      <4> QED  BY <4>1, <4>2 DEF ZeroIsFirst
    <3> QED  BY <3>1, <3>2
  <2>3. CASE /\ h'.slot = h.slot /\ h'.region = h.region
             /\ h.pc = "erase" \/ (h.pc \in Uploading /\ h'.pc \in Uploading)
    <3>1. h.pc \in {"scan", "erase"} \/ (h.pc \in Uploading /\ h.region = "dash")
      BY <1>5, <2>3 DEF Uploading
    <3> QED  BY <2>3, <3>1 DEF ZeroIsFirst
  <2>4. CASE h'.slot = 0
    BY <2>4
  <2>5. \/ h' = h \/ ScanSlot \/ h'.slot = 0
        \/ (/\ h'.slot = h.slot /\ h'.region = h.region
            /\ h.pc = "erase" \/ (h.pc \in Uploading /\ h'.pc \in Uploading))
    <3>1. ASSUME NEW v \in Saves, Save(v) PROVE h' = h \/ h'.slot = 0
      <4>1. CASE PostRegion(v)
        BY <1>5, <4>1 DEF PostRegion
      <4>2. CASE PostDash(v)
        BY <4>2 DEF PostDash, Scan
      <4>3. CASE Commit(v) \/ CommitRefused(v) \/ SelectSaved(v) \/ Abandon(v)
        BY <4>3 DEF Commit, CommitSlot, CommitRefused, SelectSaved, Abandon, httpdVars
      <4> QED  BY <3>1, <4>1, <4>2, <4>3 DEF Save
    <3>2. CASE GalleryFull \/ UploadFails \/ UploadAborted \/ WriteLast \/ Crash
      <4>1. h' = Idle \/ h' = SecondPass
        BY <3>2 DEF GalleryFull, UploadFails, UploadAborted, WriteLast, Crash
      <4> QED  BY <1>5, <4>1 DEF Idle, SecondPass, Scan, Uploading
    <3>3. CASE EraseRegion
      <4>1. /\ h.pc = "erase"
            /\ h' \in {[h EXCEPT !.k = @ + 1], SecondPass, [h EXCEPT !.pc = "first"]}
        BY <3>3 DEF EraseRegion
      <4>2. h'.slot = 0 \/ (h'.slot = h.slot /\ h'.region = h.region)
        BY <1>0, <4>1 DEF SecondPass, Scan, WorkerType, Workers
      <4> QED  BY <4>1, <4>2
    <3>4. CASE WriteFirst
      <4>1. h.pc = "first" /\ h' = [h EXCEPT !.pc = "last"]
        BY <3>4 DEF WriteFirst
      <4> QED  BY <1>0, <4>1 DEF WorkerType, Workers, Uploading
    <3> QED  BY <3>1, <3>2, <3>3, <3>4, QuietSteps DEF Next, Upload
  <2> QED  BY <2>1, <2>2, <2>3, <2>4, <2>5
<1>6. gallery_active_slot' # None => gallery_slot_used(gallery_active_slot)'
  <2>1. ASSUME NEW s \in Slots, gallery_active_slot' = s, gallery_slot_used(s)
        PROVE  gallery_slot_used(gallery_active_slot)'
    BY <1>1, <2>1 DEF gallery_slot_used
  <2>2. CASE DrawSwap
    BY <2>1, <2>2 DEF DrawSwap, At, GalleryInv, MapIsKnown
  <2>3. CASE DrawRelease \/ Crash
    BY <2>3 DEF DrawRelease, Crash
  <2>4. CASE gallery_active_slot' = gallery_active_slot
    BY <2>1, <2>4 DEF ZeroIsFirst, gallery_slot_used
  <2>5. DrawSwap \/ DrawRelease \/ Crash \/ gallery_active_slot' = gallery_active_slot
    <3>1. CASE \E v \in Saves : Save(v)
      BY <3>1 DEF Save, PostDash, PostRegion, Commit, CommitSlot, CommitRefused, SelectSaved,
                  Abandon, sharedVars
    <3>2. CASE Upload
      BY <3>2 DEF Upload, ScanSlot, GalleryFull, EraseRegion, WriteFirst, WriteLast,
                  UploadFails, UploadAborted, sharedVars
    <3>3. CASE \/ \E s \in Slots : SelectOrDelete(s) \/ Favorite(s) \/ CommitAny(s)
               \/ \E r \in Regions : Bodyless(r)
      BY <3>3 DEF SelectOrDelete, Favorite, CommitAny, CommitSlot, Bodyless, sharedVars
    <3>4. CASE CoreRead \/ Core \/ \E p \in Presets : PickPreset(p)
      BY <3>4 DEF Core, CoreRead, CoreReset, CoreSelect, CoreDelete, FavRead, FavApply,
                  HealAndPublish, PickPreset, sharedVars
    <3>5. CASE Draw \/ DrawEnd \/ SaverTick \/ SaverHide \/ NvsFlush \/ Crash \/ UNCHANGED vars
      BY <3>5 DEF Draw, DrawEnd, SaverTick, SaverHide, NvsFlush, vars, sharedVars
    <3> QED  BY <3>1, <3>2, <3>3, <3>4, <3>5 DEF Next
  <2> QED  BY <2>2, <2>3, <2>4, <2>5
<1>7. \A s \in Slots : Head("dash", s)' # {} => s = 0 \/ gallery_slot_used(0)'
  BY <1>2, <1>3
<1>8. h'.pc \in {"scan", "erase"} \/ (h'.pc \in Uploading /\ h'.region = "dash")
        => h'.slot = 0 \/ gallery_slot_used(0)'
  BY <1>2, <1>5
<1> QED  BY <1>6, <1>7, <1>8 DEF ZeroIsFirst

(* The steps that write to what loopTask owns.                              *)
LEMMA LoopSteps ==
  ASSUME [Next]_vars
  PROVE  \/ UNCHANGED <<loop, banner_preset, bnr_sel>>
         \/ CoreRead \/ Core \/ (\E p \in Presets : PickPreset(p)) \/ Draw \/ DrawEnd \/ Crash
<1>1. CASE UNCHANGED vars
  BY <1>1 DEF vars, loopVars
<1>2. CASE \E v \in Saves : Save(v)
  BY <1>2 DEF Save, PostDash, PostRegion, Commit, CommitSlot, CommitRefused, SelectSaved,
              Abandon, loopVars
<1>3. CASE Upload
  BY <1>3 DEF Upload, ScanSlot, GalleryFull, EraseRegion, WriteFirst, WriteLast, UploadFails,
              UploadAborted, loopVars
<1>4. CASE \/ \E s \in Slots : SelectOrDelete(s) \/ Favorite(s) \/ CommitAny(s)
           \/ \E r \in Regions : Bodyless(r)
           \/ SaverTick \/ SaverHide \/ NvsFlush
  BY <1>4 DEF SelectOrDelete, Favorite, CommitAny, CommitSlot, Bodyless, SaverTick, SaverHide,
              NvsFlush, loopVars
<1> QED  BY <1>1, <1>2, <1>3, <1>4 DEF Next

LEMMA UsedStaysStep ==
  ASSUME NoneIsTaken, GalleryInv, CommittedIsComplete, ZeroIsFirst, UsedStays, [Next]_vars
  PROVE  UsedStays' /\ ~CoreDelete
<1>0. Typed /\ FlashType /\ SharedType /\ LoopType
  BY DEF GalleryInv, Typed
<1>1. ~CoreDelete
  BY DEF CoreDelete, UsedStays, At, gallery_slot_used
<1>2. \A s \in Slots : gallery_slot_used(s) => gallery_slot_used(s)'
  BY <1>1, UsedSteps
<1>3. \A s \in Slots : CommitSlot(s) => gallery_slot_used(s)'
  BY <1>0 DEF CommitSlot, CommitWord, UsedStays, gallery_slot_used, FlashType
<1>4. \A s \in Slots : word0'[s] # "zero"
  <2>1. CASE UNCHANGED word0
    BY <2>1 DEF UsedStays
  <2>2. CASE EraseRegion
    BY <1>0, <2>2 DEF EraseRegion, UsedStays, FlashType
  <2>3. ASSUME NEW s \in Slots, CommitSlot(s) PROVE \A t \in Slots : word0'[t] # "zero"
    BY <1>0, <2>3 DEF CommitSlot, CommitWord, UsedStays, FlashType
  <2> QED  BY <1>1, <2>1, <2>2, <2>3, FlashSteps
<1>5. gallery_pending' # None => gallery_slot_used(gallery_pending)'
  <2>1. CASE gallery_pending' = gallery_pending
    <3>1. gallery_pending # None => gallery_pending \in Slots
      BY DEF UsedStays, gallery_slot_used
    <3>2. ASSUME gallery_pending # None PROVE gallery_slot_used(gallery_pending)'
      <4>1. PICK s \in Slots : s = gallery_pending
        BY <3>1, <3>2
      <4>2. gallery_slot_used(s)'
        BY <1>2, <3>2, <4>1 DEF UsedStays
      <4> QED  BY <2>1, <4>1, <4>2 DEF gallery_slot_used
    <3> QED  BY <2>1, <3>2
  <2>2. ASSUME NEW s \in Slots, gallery_pending' = s, CommitSlot(s) \/ gallery_slot_used(s)
        PROVE  gallery_slot_used(gallery_pending)'
    <3>1. gallery_slot_used(s)'
      BY <1>2, <1>3, <2>2
    <3> QED  BY <2>2, <3>1 DEF gallery_slot_used
  <2>3. CASE gallery_pending' = None
    BY <2>3
  <2>4. \/ gallery_pending' \in {gallery_pending, None}
        \/ \E s \in Slots : gallery_pending' = s /\ (CommitSlot(s) \/ gallery_slot_used(s))
    <3>1. ASSUME NEW v \in Saves, Save(v)
          PROVE  \/ gallery_pending' = gallery_pending
                 \/ \E s \in Slots : gallery_pending' = s /\ (CommitSlot(s) \/ gallery_slot_used(s))
      <4>1. CASE Commit(v)
        <5>1. slot_id[v] \in Slots
          BY <1>0, <4>1 DEF Commit, Typed, ClientType, Finished
        <5> QED  BY <4>1, <5>1 DEF Commit, CommitSlot
      <4>2. CASE SelectSaved(v)
        BY <4>2 DEF SelectSaved, gallery_slot_used
      <4>3. CASE PostDash(v) \/ PostRegion(v) \/ CommitRefused(v) \/ Abandon(v)
        BY <4>3 DEF PostDash, PostRegion, CommitRefused, Abandon, sharedVars
      <4> QED  BY <3>1, <4>1, <4>2, <4>3 DEF Save
    <3>2. CASE Upload
      BY <3>2 DEF Upload, ScanSlot, GalleryFull, EraseRegion, WriteFirst, WriteLast,
                  UploadFails, UploadAborted, sharedVars
    <3>3. ASSUME NEW s \in Slots, SelectOrDelete(s) \/ Favorite(s) \/ CommitAny(s)
          PROVE  \/ gallery_pending' = gallery_pending
                 \/ gallery_pending' = s /\ (CommitSlot(s) \/ gallery_slot_used(s))
      BY <3>3 DEF SelectOrDelete, Favorite, CommitAny, CommitSlot, NoneIsTaken
    <3>4. CASE \E r \in Regions : Bodyless(r)
      BY <3>4 DEF Bodyless, sharedVars
    <3>5. CASE CoreRead \/ Core \/ \E p \in Presets : PickPreset(p)
      BY <3>5 DEF Core, CoreRead, CoreReset, CoreSelect, CoreDelete, FavRead, FavApply,
                  HealAndPublish, PickPreset, sharedVars
    <3>6. CASE Draw \/ DrawEnd \/ SaverTick \/ SaverHide \/ NvsFlush \/ Crash \/ UNCHANGED vars
      BY <3>6 DEF Draw, DrawEnd, DrawSwap, DrawRelease, SaverTick, SaverHide, NvsFlush, Crash,
                  vars, sharedVars
    <3> QED  BY <3>1, <3>2, <3>3, <3>4, <3>5, <3>6 DEF Next
  <2> QED  BY <2>1, <2>2, <2>3, <2>4
<1>7. loop'.pc \in {"reset", "apply"} => gallery_slot_used(loop.got)'
  <2>1. ASSUME loop'.pc \in {"reset", "apply"}
        PROVE  gallery_slot_used(loop'.got)
    <3>1. CASE CoreRead
      BY <2>1, <3>1 DEF CoreRead, UsedStays
    <3>2. CASE CoreReset
      BY <1>0, <3>2 DEF CoreReset, UsedStays, At, Goto, LoopType
    <3>3. CASE UNCHANGED loop
      BY <2>1, <3>3 DEF UsedStays
    <3>4. CASE CoreSelect \/ CoreDelete \/ FavRead \/ FavApply \/ HealAndPublish \/ Draw \/ DrawEnd \/ Crash
      BY <1>0, <2>1, <3>4 DEF CoreSelect, CoreDelete, FavRead, FavApply, HealAndPublish, Draw,
               DrawEnd, DrawSwap, DrawRelease, Crash, Goto, IdleLoop, LoopType
    <3>5. UNCHANGED loop \/ CoreRead \/ Core \/ Draw \/ DrawEnd \/ Crash
      BY LoopSteps DEF PickPreset
    <3> QED  BY <3>1, <3>2, <3>3, <3>4, <3>5 DEF Core
  <2>2. ASSUME loop'.pc \in {"reset", "apply"} PROVE gallery_slot_used(loop.got)'
    <3>1. PICK s \in Slots : s = loop'.got
      BY <2>1, <2>2 DEF gallery_slot_used
    <3>2. gallery_slot_used(s)'
      BY <1>2, <2>1, <2>2, <3>1
    <3> QED  BY <3>1, <3>2 DEF gallery_slot_used
  <2> QED  BY <2>2
<1>8. 0 \in Slots /\ (gallery_slot_used(0) => gallery_slot_used(0)')
  BY <1>2, GalleryAssumption DEF Slots
<1>9. /\ "Custom" \in {banner_preset', nvs'.preset} => gallery_slot_used(0)
      /\ bnr_sel' \notin {0, None} => gallery_slot_used(bnr_sel')
      /\ nvs'.sel \notin {0, None} => gallery_slot_used(nvs'.sel)
  <2>1. CASE UNCHANGED <<banner_preset, bnr_sel, nvs>>
    BY <2>1 DEF UsedStays
  <2>2. CASE CoreSelect
    <3>1. gallery_slot_used(loop.got) /\ loop.got \in Slots /\ nvs' = nvs
      BY <2>2 DEF CoreSelect, UsedStays, At, flashVars
    <3>2. gallery_slot_used(0)
      BY <3>1, ZeroIsUsed
    <3> QED  BY <2>2, <3>1, <3>2 DEF CoreSelect, UsedStays
  <2>3. CASE HealAndPublish
    BY <2>3 DEF HealAndPublish, UsedStays, flashVars
  <2>4. CASE DrawRelease
    BY <2>4 DEF DrawRelease, UsedStays, flashVars
  <2>5. CASE NvsFlush
    <3>1. UNCHANGED <<banner_preset, bnr_sel>>
      BY <2>5 DEF NvsFlush, loopVars
    <3>2. nvs'.preset \in {nvs.preset, banner_preset} /\ nvs'.sel \in {nvs.sel, bnr_sel}
      BY <1>0, <2>5 DEF NvsFlush, FlashType
    <3> QED  BY <3>1, <3>2 DEF UsedStays
  <2>6. CASE Crash
    BY <2>6 DEF Crash, UsedStays, flashVars
  <2>7. \/ UNCHANGED <<banner_preset, bnr_sel, nvs>>
        \/ CoreSelect \/ HealAndPublish \/ DrawRelease \/ NvsFlush \/ Crash
    <3>1. CASE UNCHANGED vars
      BY <3>1 DEF vars, loopVars, flashVars
    <3>2. CASE \E v \in Saves : Save(v)
      BY <3>2 DEF Save, PostDash, PostRegion, Commit, CommitSlot, CommitRefused, SelectSaved,
                  Abandon, loopVars, flashVars
    <3>3. CASE Upload
      BY <3>3 DEF Upload, ScanSlot, GalleryFull, EraseRegion, WriteFirst, WriteLast, UploadFails,
                  UploadAborted, loopVars, flashVars
    <3>4. CASE \/ \E s \in Slots : SelectOrDelete(s) \/ Favorite(s) \/ CommitAny(s)
               \/ \E r \in Regions : Bodyless(r)
               \/ SaverTick \/ SaverHide
      BY <3>4 DEF SelectOrDelete, Favorite, CommitAny, CommitSlot, Bodyless, SaverTick, SaverHide,
                  loopVars, flashVars
    <3>5. CASE CoreRead \/ Core \/ \E p \in Presets : PickPreset(p)
      BY <1>1, <3>5 DEF Core, CoreRead, CoreReset, FavRead, FavApply, PickPreset, NoneIsTaken,
                        flashVars
    <3>6. CASE Draw \/ DrawSwap
      BY <3>6 DEF Draw, DrawSwap, flashVars
    <3> QED  BY <3>1, <3>2, <3>3, <3>4, <3>5, <3>6 DEF Next, DrawEnd
  <2> QED  BY <2>1, <2>2, <2>3, <2>4, <2>5, <2>6, <2>7
<1>10. bnr_sel' \notin {0, None} => gallery_slot_used(bnr_sel)'
  BY <1>2, <1>9 DEF gallery_slot_used
<1>11. nvs'.sel \notin {0, None} => gallery_slot_used(nvs.sel)'
  BY <1>2, <1>9 DEF gallery_slot_used
<1> QED  BY <1>1, <1>4, <1>5, <1>7, <1>8, <1>9, <1>10, <1>11 DEF UsedStays

(* A save that finds the header unwritten still does after the step.        *)
LEMMA HeadIsBlankStep ==
  ASSUME GalleryInv, OneSave, HeadIsBlank, [Next]_vars
  PROVE  HeadIsBlank'
<1>0. Typed /\ WorkerType /\ ClientType /\ FlashType
  BY DEF GalleryInv, Typed
<1>1. /\ ~WriteFirst => \A s \in Slots : Head("saver", s)' \in {Head("saver", s), {}}
      /\ WriteFirst => \A s \in Slots : s # h.slot \/ h.region # "saver"
                                          => Head("saver", s)' = Head("saver", s)
      /\ ~EraseRegion /\ ~WriteFirst => \A s \in Slots : Head("saver", s)' = Head("saver", s)
  BY HeadSteps
<1>2. \A v \in Saves : step[v] = "saver" => slot_id[v] \in Slots
  BY <1>0 DEF ClientType, Finished
<1>3. CASE WriteFirst
  <2>1. /\ h.pc = "first" /\ h' = [h EXCEPT !.pc = "last"] /\ UNCHANGED <<step, slot_id>>
        /\ h.slot \in Slots
    BY <1>0, <1>3 DEF WriteFirst, clientVars, WorkerType, Uploading
  <2>2. /\ h'.pc = "last" /\ h'.region = h.region /\ h'.save = h.save /\ h'.slot = h.slot
    BY <1>0, <2>1 DEF WorkerType, Workers
  <2>3. h.region = "dash" => Head("saver", h.slot)' = {}
    <3>1. ASSUME h.region = "dash" PROVE Head("saver", h.slot)' = {}
      <4>1. PICK s \in Slots : s = h.slot
        BY <2>1
      <4>2. Head("saver", s)' = Head("saver", s)
        BY <1>1, <1>3, <3>1
      <4>3. Head("saver", s) = {}
        BY <2>1, <3>1, <4>1 DEF HeadIsBlank, Uploading
      <4> QED  BY <2>2, <4>1, <4>2, <4>3 DEF Head
    <3> QED  BY <3>1
  <2>4. ASSUME NEW v \in Saves, step'[v] = "saver", h'.save # v
        PROVE  Head("saver", slot_id[v])' = {}
    BY <2>1, <2>2, <2>4 DEF OneSave, Finished
  <2> QED  BY <2>2, <2>3, <2>4 DEF HeadIsBlank
<1>4. CASE ~WriteFirst
  <2>1. ASSUME NEW s \in Slots, Head("saver", s) = {} PROVE Head("saver", s)' = {}
    BY <1>1, <1>4, <2>1
  <2>2. ASSUME NEW v \in Saves, step[v] = "saver", ~(h.pc = "last" /\ h.save = v), slot_id' = slot_id
        PROVE  Head("saver", slot_id[v])' = {}
    <3>1. PICK s \in Slots : s = slot_id[v]
      BY <1>2, <2>2
    <3>2. Head("saver", s)' = {}
      BY <2>1, <2>2, <3>1 DEF HeadIsBlank
    <3> QED  BY <2>2, <3>1, <3>2 DEF Head
  <2>3. CASE EraseRegion
    <3>1. PICK s \in Slots : s = h.slot
      BY <1>0, <2>3 DEF EraseRegion, WorkerType
    <3>2. /\ h.k \in 1 .. 4 /\ region' = Erased(s, h.k)
          /\ UNCHANGED <<step, slot_id>> /\ h.pc = "erase"
      BY <1>0, <2>3, <3>1 DEF EraseRegion, WorkerType, clientVars
    <3>3. h' = IF h.k < 4 THEN [h EXCEPT !.k = @ + 1]
               ELSE IF h.pass = 1 THEN SecondPass ELSE [h EXCEPT !.pc = "first"]
      BY <2>3 DEF EraseRegion
    <3>4. /\ h'.pc = "erase" => h'.k = h.k + 1 /\ h'.slot = s
          /\ h'.pc \in Uploading => h'.slot = s /\ h.k = 4 /\ h'.region = "dash"
          /\ h'.pc # "last"
      <4>1. CASE h.k < 4
        <5>1. h' = [h EXCEPT !.k = h.k + 1]
          BY <3>3, <4>1
        <5> QED  BY <1>0, <3>1, <3>2, <5>1 DEF Uploading, WorkerType, Workers
      <4>2. CASE ~(h.k < 4)
        BY <1>0, <3>1, <3>2, <3>3, <4>2 DEF SecondPass, Scan, Uploading, WorkerType, Workers
      <4> QED  BY <4>1, <4>2
    <3>5. CASE h.k = 1
      <4>1. \A v \in Saves : step'[v] = "saver" => Head("saver", slot_id[v])' = {}
        BY <2>2, <3>2
      <4> QED  BY <3>4, <3>5, <4>1 DEF HeadIsBlank, Uploading
    <3>6. CASE h.k # 1
      <4>1. Head("saver", s)' = {}
        <5>1. CASE h.k = 2
          <6>1. region'[s]["saver"] = Blank
            BY <1>0, <3>2, <5>1, ErasedFacts DEF FlashType, Layout
          <6> QED  BY <6>1, BlankFacts DEF Head
        <5>2. CASE h.k > 2
          <6>1. Head("saver", s) = {}
            BY <3>1, <3>2, <5>2 DEF HeadIsBlank
          <6> QED  BY <2>1, <6>1
        <5> QED  BY <3>2, <3>6, <5>1, <5>2
      <4>2. \A v \in Saves : step'[v] = "saver" => Head("saver", slot_id[v])' = {}
        BY <2>2, <3>2
      <4> QED  BY <3>4, <4>1, <4>2 DEF HeadIsBlank, Head, Uploading
    <3> QED  BY <3>5, <3>6
  <2>4. ASSUME NEW v \in Saves, PostRegion(v) PROVE HeadIsBlank'
    <3>1. /\ h.pc = "idle" /\ UNCHANGED <<step, slot_id>> /\ h'.pc = "first"
          /\ h'.region = step[v] /\ h'.slot = slot_id[v] /\ step[v] # "dash"
      BY <2>4 DEF PostRegion, clientVars
    <3>2. \A w \in Saves : step'[w] = "saver" => Head("saver", slot_id[w])' = {}
      BY <2>2, <3>1
    <3> QED  BY <3>1, <3>2 DEF HeadIsBlank, Head, Uploading
  <2>5. CASE WriteLast
    <3>1. PICK s \in Slots : s = h.slot
      BY <1>0, <2>5 DEF WriteLast, WorkerType, Uploading
    <3>2. /\ h.pc = "last" /\ h.save \in Saves /\ h.region \in Regions /\ h'.pc = "idle"
          /\ step' = [step EXCEPT ![h.save] = NextStep[h.region]]
          /\ slot_id' = [slot_id EXCEPT ![h.save] = h.slot]
      BY <1>0, <2>5 DEF WriteLast, WorkerType, Workers, Idle
    <3>3. ASSUME NEW v \in Saves, step'[v] = "saver" PROVE Head("saver", slot_id[v])' = {}
      <4>1. v = h.save
        BY <1>0, <3>2, <3>3 DEF OneSave, ClientType, Finished
      <4>2. slot_id'[v] = s /\ NextStep[h.region] = "saver"
        BY <1>0, <3>1, <3>2, <3>3, <4>1 DEF ClientType
      <4>3. h.region = "dash"
        BY <3>2, <4>2 DEF NextStep, Regions
      <4>4. Head("saver", s)' = {}
        BY <2>1, <3>1, <3>2, <4>3 DEF HeadIsBlank, Uploading
      <4> QED  BY <4>2, <4>4 DEF Head
    <3> QED  BY <3>2, <3>3 DEF HeadIsBlank, Uploading
  <2>6. CASE \/ \E v \in Saves : PostDash(v)
             \/ ScanSlot \/ GalleryFull \/ UploadFails \/ UploadAborted \/ Crash
    <3>1. h'.pc \in {"scan", "idle"} \/ (h'.pc = "erase" /\ h'.k = 1)
      <4>1. CASE ScanSlot
        BY <1>0, <4>1 DEF ScanSlot, WorkerType, Workers
      <4> QED  BY <2>6, <4>1 DEF PostDash, GalleryFull, UploadFails, UploadAborted, Crash,
                                 SecondPass, Scan, Idle
    <3>2. slot_id' = slot_id
      BY <2>6 DEF PostDash, ScanSlot, GalleryFull, UploadFails, UploadAborted, Crash, clientVars
    <3>3. ASSUME NEW v \in Saves, step'[v] = "saver"
          PROVE  step[v] = "saver" /\ ~(h.pc = "last" /\ h.save = v)
      <4>1. CASE Crash
        BY <3>3, <4>1 DEF Crash
      <4>2. CASE \/ \E w \in Saves : PostDash(w)
                 \/ ScanSlot \/ GalleryFull \/ UploadFails \/ UploadAborted
        <5>1. \/ step' = step /\ h.pc # "last"
              \/ step' = [step EXCEPT ![h.save] = "gone"]
          BY <4>2 DEF PostDash, ScanSlot, GalleryFull, UploadFails, UploadAborted, clientVars
        <5> QED  BY <1>0, <3>3, <5>1 DEF ClientType
      <4> QED  BY <2>6, <4>1, <4>2
    <3>4. \A v \in Saves : step'[v] = "saver" => Head("saver", slot_id[v])' = {}
      BY <2>2, <3>2, <3>3
    <3> QED  BY <3>1, <3>4 DEF HeadIsBlank, Uploading
  <2>7. CASE /\ UNCHANGED <<h, slot_id>>
             /\ \A v \in Saves : step'[v] = "saver" => step[v] = "saver"
    <3>1. ASSUME NEW v \in Saves, step'[v] = "saver", ~(h'.pc = "last" /\ h'.save = v)
          PROVE  Head("saver", slot_id[v])' = {}
      BY <2>2, <2>7, <3>1
    <3>2. ASSUME h.pc \in {"erase"} \cup Uploading, Head("saver", h.slot) = {}
          PROVE  Head("saver", h.slot)' = {}
      <4>1. PICK s \in Slots : s = h.slot
        BY <1>0, <3>2 DEF WorkerType
      <4>2. Head("saver", s)' = {}
        BY <2>1, <3>2, <4>1
      <4> QED  BY <2>7, <4>1, <4>2 DEF Head
    <3> QED  BY <2>7, <3>1, <3>2 DEF HeadIsBlank, Uploading
  <2>8. CASE \E v \in Saves : Commit(v) \/ CommitRefused(v) \/ SelectSaved(v) \/ Abandon(v)
    <3>1. PICK v \in Saves : Commit(v) \/ CommitRefused(v) \/ SelectSaved(v) \/ Abandon(v)
      BY <2>8
    <3>2. /\ UNCHANGED <<h, slot_id>>
          /\ \E a \in {"gone", "done", "select"} : step' = [step EXCEPT ![v] = a]
      BY <3>1 DEF Commit, CommitSlot, CommitRefused, SelectSaved, Abandon, httpdVars
    <3>3. \A w \in Saves : step'[w] = "saver" => step[w] = "saver"
      BY <1>0, <3>2 DEF ClientType
    <3> QED  BY <2>7, <3>2, <3>3
  <2>9. CASE \/ \E s \in Slots : SelectOrDelete(s) \/ Favorite(s) \/ CommitAny(s)
             \/ \E r \in Regions : Bodyless(r)
             \/ CoreRead \/ Core \/ \E p \in Presets : PickPreset(p)
             \/ Draw \/ DrawEnd \/ SaverTick \/ SaverHide \/ NvsFlush \/ UNCHANGED vars
    <3>1. UNCHANGED <<h, step, slot_id>>
      BY <2>9, QuietSteps
    <3> QED  BY <2>7, <3>1
  <2> QED
    BY <1>4, <2>3, <2>4, <2>5, <2>6, <2>8, <2>9 DEF Next, Save, Upload
<1> QED  BY <1>3, <1>4

LEMMA MirrorsStep ==
  ASSUME NoneIsTaken, GalleryInv, CommittedIsComplete, ZeroIsFirst, UsedStays, HeadIsBlank,
         Mirrors, [Next]_vars
  PROVE  /\ Mirrors'
         /\ SaverTick /\ saver'.custom => saver'.of = region[bnr_sel]["saver"]["head"]
<1>0. ~CoreDelete /\ saver \in SaverCaches
  BY UsedStaysStep DEF GalleryInv, Typed, ScreenType
<1>1. ASSUME NEW s \in Slots, gallery_slot_used(s)
      PROVE  gallery_slot_used(s)' /\ Head("saver", s)' = Head("saver", s)
  <2>1. CASE EraseRegion
    BY <1>1, <2>1, EraseFacts DEF Head
  <2>2. CASE WriteFirst
    <3>1. Head("saver", s) # {}
      BY <1>1 DEF CommittedIsComplete, Head, Regions
    <3>2. s # h.slot \/ h.region # "saver"
      BY <2>2, <3>1 DEF WriteFirst, HeadIsBlank
    <3> QED  BY <1>0, <1>1, <2>2, <3>2, UsedSteps, HeadSteps
  <2>3. CASE ~EraseRegion /\ ~WriteFirst
    BY <1>0, <1>1, <2>3, UsedSteps, HeadSteps
  <2> QED  BY <1>0, <1>1, <2>1, <2>2, <2>3, UsedSteps
<1>2. CASE SaverTick
  <2>1. saver' = [Rendered EXCEPT !.up = TRUE] /\ UNCHANGED <<word0, region, banner_preset, bnr_sel>>
    BY <1>2 DEF SaverTick, flashVars, loopVars
  <2>2. CASE ~SaverStale
    <3>1. /\ saver'.custom = saver.custom /\ saver'.preset = saver.preset
          /\ saver'.sel = saver.sel /\ saver'.of = saver.of
      BY <1>0, <2>1, <2>2 DEF Rendered, SaverCaches
    <3>2. saver.custom => bnr_sel = saver.sel
      BY <2>2 DEF SaverStale, Mirrors
    <3> QED  BY <2>1, <3>1, <3>2 DEF Mirrors, gallery_slot_used, Head
  <2>3. CASE SaverStale
    <3>1. /\ saver'.custom = SaverLoads /\ saver'.preset = banner_preset /\ saver'.sel = bnr_sel
          /\ saver'.of = IF SaverLoads THEN region[bnr_sel]["saver"]["head"] ELSE saver.of
      BY <2>1, <2>3 DEF Rendered
    <3>2. saver'.custom => banner_preset = "Custom" /\ gallery_slot_used(bnr_sel)
      BY <3>1, SlotFacts DEF SaverLoads, UsedStays
    <3> QED  BY <2>1, <3>1, <3>2 DEF Mirrors, gallery_slot_used, Head
  <2> QED  BY <2>2, <2>3
<1>3. CASE Crash
  BY <1>3 DEF Crash, SaverUnused, SaverTick, At, Mirrors
<1>4. CASE ~SaverTick /\ ~Crash
  <2>1. /\ saver'.custom = saver.custom /\ saver'.preset = saver.preset
        /\ saver'.sel = saver.sel /\ saver'.of = saver.of
    <3>1. CASE SaverHide
      BY <1>0, <3>1 DEF SaverHide, SaverCaches
    <3>2. CASE ~SaverHide
      <4>1. CASE \E v \in Saves : Save(v)
        BY <4>1 DEF Save, PostDash, PostRegion, Commit, CommitSlot, CommitRefused, SelectSaved,
                    Abandon, screenVars
      <4>2. CASE Upload
        BY <4>2 DEF Upload, ScanSlot, GalleryFull, EraseRegion, WriteFirst, WriteLast,
                    UploadFails, UploadAborted, screenVars
      <4>3. CASE \/ \E s \in Slots : SelectOrDelete(s) \/ Favorite(s) \/ CommitAny(s)
                 \/ \E r \in Regions : Bodyless(r)
        BY <4>3 DEF SelectOrDelete, Favorite, CommitAny, CommitSlot, Bodyless, screenVars
      <4>4. CASE CoreRead \/ Core \/ \E p \in Presets : PickPreset(p)
        BY <1>0, <4>4 DEF Core, CoreRead, CoreReset, CoreSelect, FavRead, FavApply,
                          HealAndPublish, PickPreset, screenVars
      <4>5. CASE Draw \/ DrawEnd \/ NvsFlush \/ UNCHANGED vars
        BY <4>5 DEF Draw, DrawEnd, DrawSwap, DrawRelease, NvsFlush, vars, screenVars
      <4> QED  BY <1>4, <3>2, <4>1, <4>2, <4>3, <4>4, <4>5 DEF Next
    <3> QED  BY <3>1, <3>2
  <2>2. ASSUME saver'.custom PROVE Mirrors'
    <3>1. PICK s \in Slots : s = saver.sel
      BY <2>1, <2>2 DEF Mirrors, gallery_slot_used
    <3>2. saver.preset = "Custom" /\ gallery_slot_used(s) /\ saver.of = Head("saver", s)
      BY <2>1, <2>2, <3>1 DEF Mirrors
    <3>3. gallery_slot_used(s)' /\ Head("saver", s)' = Head("saver", s)
      BY <1>1, <3>2
    <3> QED  BY <2>1, <3>1, <3>2, <3>3 DEF Mirrors, gallery_slot_used, Head
  <2>3. Mirrors'
    BY <2>2 DEF Mirrors
  <2> QED  BY <1>4, <2>3
<1> QED  BY <1>2, <1>3, <1>4

(* As long as pages save one after another and nothing deletes a banner or  *)
(* sets the preset behind the selection's back, the screensaver mirrors the *)
(* dashboard: a refresh leaves on it what the selected slot holds, for any  *)
(* number of slots, saves and resets and whatever is selected, committed    *)
(* again, aborted or posted without a body.  None of the three premises can *)
(* go: the renderer keeps its picture until the selection is another one.   *)
THEOREM SaverMirrors ==
  ASSUME OneAtATime, NoneIsTaken
  PROVE  Spec => SaverInSync
<1>1. Init => OneSave /\ ZeroIsFirst /\ UsedStays /\ HeadIsBlank /\ Mirrors
  <2> SUFFICES ASSUME Init PROVE OneSave /\ ZeroIsFirst /\ UsedStays /\ HeadIsBlank /\ Mirrors
    OBVIOUS
  <2>1. OneSave /\ HeadIsBlank
    BY DEF Init, Idle, OneSave, HeadIsBlank, Uploading
  <2>2. UsedStays
    BY DEF Init, IdleLoop, UsedStays
  <2>4. ZeroIsFirst
    <3>1. \A s \in Slots : Head("dash", s) = {}
      BY BlankFacts DEF Init, Head, Regions
    <3> QED  BY <3>1 DEF Init, Idle, ZeroIsFirst, Uploading
  <2>3. Mirrors
    BY DEF Init, SaverUnused, Mirrors
  <2> QED  BY <2>1, <2>2, <2>3, <2>4
<1>2. GalleryInv /\ MirrorInv /\ [Next]_vars =>
        /\ (OneSave /\ ZeroIsFirst /\ UsedStays /\ HeadIsBlank /\ Mirrors)'
        /\ SaverTick /\ saver'.custom => saver'.of = region[bnr_sel]["saver"]["head"]
  BY OneSaveStep, UsedStaysStep, ZeroIsFirstStep, HeadIsBlankStep, MirrorsStep DEF MirrorInv, GalleryInv
<1> QED  BY <1>1, <1>2, GalleryInvAlways, CommitsAreComplete, PTL DEF Spec, SaverInSync, MirrorInv

-----------------------------------------------------------------------------
(* What is safety in ScreenFollows and in DeletedIsReleased.                *)

(* A screen that has nothing to draw shows the selection.                   *)
ScreenIsCurrent ==
  At("idle") /\ ~TargetChanged =>
    mapped = IF banner_preset = "Custom" /\ gallery_slot_used(bnr_sel) THEN bnr_sel ELSE None

(* And a deleted slot is then not kept from the next save.                  *)
DeletedIsFree ==
  At("idle") /\ ~TargetChanged =>
    \A s \in Slots : word0[s] = "zero" => gallery_active_slot # s

(* The display maps what it draws, the slot it keeps is the one it maps, and *)
(* the draw never finds a dead selection: the tick that may leave one heals  *)
(* it before it ends.                                                        *)
ScreenInv ==
  /\ mapped = IF drawn.preset = "Custom" THEN drawn.sel ELSE None
  /\ loop.pc \notin {"fav", "favreset", "heal"} /\ banner_preset = "Custom"
       => gallery_slot_used(bnr_sel)

(* Between draws the slot the display keeps is the one it has mapped.       *)
KeptInv ==
  /\ loop.pc = "release" => mapped = None
  /\ loop.pc \notin {"swap", "release"} => gallery_active_slot = mapped

LEMMA UsedLoads ==
  ASSUME StoreInv, NEW s \in Slots, gallery_slot_used(s)
  PROVE  DashLoads(s)
<1>1. HeadersPresent(s)
  BY DEF StoreInv, CommittedIsComplete, HeadersPresent
<1>2. PICK v \in Saves : Whole(s, v)
  BY <1>1 DEF StoreInv, Filled
<1>3. region[s]["dash"]["head"] = {v} /\ region[s]["dash"]["body"] = {v}
  BY <1>2 DEF Whole, Regions, Parts
<1>4. Cardinality({v}) = 1
  BY FS_Singleton
<1> QED  BY <1>3, <1>4 DEF DashLoads, Clean

(* Only a draw and a reset change what is drawn or mapped; and only the end *)
(* of a draw what is kept.                                                  *)
LEMMA ScreenFrame ==
  ASSUME [Next]_vars, ~Draw, ~Crash
  PROVE  UNCHANGED <<drawn, mapped>> /\ (~DrawEnd => UNCHANGED gallery_active_slot)
<1>1. CASE \/ \E v \in Saves : Save(v)
           \/ \E s \in Slots : SelectOrDelete(s) \/ Favorite(s) \/ CommitAny(s)
  BY <1>1 DEF Save, PostDash, PostRegion, Commit, CommitSlot, CommitRefused, SelectSaved,
              Abandon, SelectOrDelete, Favorite, CommitAny, screenVars, sharedVars
<1>2. CASE Upload \/ \E r \in Regions : Bodyless(r)
  BY <1>2 DEF Upload, ScanSlot, GalleryFull, EraseRegion, WriteFirst, WriteLast,
              UploadFails, UploadAborted, Bodyless, screenVars, sharedVars
<1>3. CASE \/ \E p \in Presets : PickPreset(p)
           \/ CoreRead \/ Core \/ DrawEnd \/ SaverTick \/ SaverHide \/ NvsFlush \/ UNCHANGED vars
  BY <1>3 DEF PickPreset, CoreRead, Core, CoreReset, CoreSelect, CoreDelete, FavRead, FavApply,
              HealAndPublish, DrawEnd, DrawSwap, DrawRelease, SaverTick, SaverHide, NvsFlush,
              screenVars, sharedVars, vars
<1> QED  BY <1>1, <1>2, <1>3 DEF Next

LEMMA ScreenStep ==
  ASSUME StoreInv, ScreenInv, [Next]_vars, MaxCrashes = 0, "preset" \notin Requests
  PROVE  ScreenInv'
<1>0. GalleryInv /\ Typed /\ LoopType /\ ~Crash /\ ~(\E p \in Presets : PickPreset(p))
  BY DEF StoreInv, GalleryInv, Typed, Crash, PickPreset
<1>1. CASE Draw
  <2>1. /\ drawn' = [preset |-> banner_preset, sel |-> bnr_sel]
        /\ UNCHANGED <<banner_preset, bnr_sel, word0>> /\ loop.pc = "idle"
    BY <1>1 DEF Draw, At, flashVars
  <2>2. CASE banner_preset = "Custom"
    <3>1. bnr_sel \in Slots /\ gallery_slot_used(bnr_sel)
      BY <2>1, <2>2 DEF ScreenInv, gallery_slot_used
    <3>2. DashLoads(bnr_sel)
      BY <3>1, UsedLoads
    <3>3. loop' = Goto("swap") /\ mapped' = bnr_sel
      BY <1>0, <1>1, <2>2, <3>2 DEF Draw, Goto, LoopType
    <3> QED  BY <2>1, <2>2, <3>1, <3>3 DEF ScreenInv, gallery_slot_used
  <2>3. CASE banner_preset # "Custom"
    <3>1. mapped' = None
      BY <1>0, <1>1, <2>3 DEF Draw, Goto, LoopType
    <3> QED  BY <2>1, <2>3, <3>1 DEF ScreenInv
  <2> QED  BY <2>2, <2>3
<1>2. CASE ~Draw
  <2>1. UNCHANGED <<drawn, mapped>>
    BY <1>0, <1>2, ScreenFrame
  <2>2. ~CoreDelete => \A s \in Slots : gallery_slot_used(s) => gallery_slot_used(s)'
    <3>1. GalleryInv
      BY <1>0
    <3> QED  BY <3>1, UsedSteps
  <2>3. CASE UNCHANGED <<loop, banner_preset, bnr_sel>>
    <3>1. ~CoreDelete
      BY <1>0, <2>3 DEF CoreDelete, At, Goto, LoopType
    <3> QED  BY <2>1, <2>2, <2>3, <3>1 DEF ScreenInv, gallery_slot_used
  <2>4. CASE CoreRead \/ CoreReset \/ DrawSwap
    <3>1. ~CoreDelete /\ UNCHANGED <<banner_preset, bnr_sel>>
      BY <2>4 DEF CoreRead, CoreReset, DrawSwap, CoreDelete, At
    <3>2. loop.pc \in {"idle", "reset", "swap"}
      BY <2>4 DEF CoreRead, CoreReset, DrawSwap, At
    <3> QED  BY <2>1, <2>2, <3>1, <3>2 DEF ScreenInv, gallery_slot_used
  <2>5. CASE CoreSelect \/ CoreDelete \/ FavRead \/ FavApply
    <3>1. loop'.pc \in {"fav", "favreset", "heal"}
      BY <1>0, <2>5 DEF CoreSelect, CoreDelete, FavRead, FavApply, Goto, LoopType
    <3> QED  BY <2>1, <3>1 DEF ScreenInv
  <2>6. CASE HealAndPublish
    <3>1. banner_preset' = "Custom" => ~Dead /\ banner_preset = "Custom" /\ bnr_sel' = bnr_sel
      BY <2>6 DEF HealAndPublish
    <3>2. UNCHANGED word0
      BY <2>6 DEF HealAndPublish, flashVars
    <3> QED  BY <2>1, <3>1, <3>2 DEF ScreenInv, Dead, gallery_slot_used
  <2>7. CASE DrawRelease
    <3>1. banner_preset' # "Custom"
      BY <2>7 DEF DrawRelease
    <3> QED  BY <2>1, <3>1 DEF ScreenInv
  <2> QED  BY <1>0, <1>2, <2>3, <2>4, <2>5, <2>6, <2>7, LoopSteps DEF Core, DrawEnd
<1> QED  BY <1>1, <1>2

LEMMA KeptStep ==
  ASSUME LoopType, KeptInv, [Next]_vars
  PROVE  KeptInv'
<1>1. CASE Draw
  <2>1. loop'.pc \in {"swap", "release"} /\ (loop'.pc = "release" => mapped' = None)
    BY <1>1 DEF Draw, Goto, LoopType
  <2> QED  BY <2>1 DEF KeptInv
<1>2. CASE Crash
  BY <1>2 DEF Crash, IdleLoop, KeptInv
<1>3. CASE DrawEnd
  <2>1. loop'.pc = "idle" /\ mapped' = mapped /\ gallery_active_slot' = mapped
    BY <1>3 DEF DrawEnd, DrawSwap, DrawRelease, At, IdleLoop, screenVars, KeptInv
  <2> QED  BY <2>1 DEF KeptInv
<1>4. CASE ~Draw /\ ~Crash /\ ~DrawEnd
  <2>1. UNCHANGED <<mapped, gallery_active_slot>>
    BY <1>4, ScreenFrame
  <2>2. CASE UNCHANGED loop
    BY <2>1, <2>2 DEF KeptInv
  <2>3. CASE CoreRead \/ Core \/ (\E p \in Presets : PickPreset(p))
    <3>1. loop.pc \notin {"swap", "release"} /\ loop'.pc \notin {"swap", "release"}
      BY <2>3 DEF CoreRead, Core, CoreReset, CoreSelect, CoreDelete, FavRead, FavApply,
                  HealAndPublish, PickPreset, At, Goto, IdleLoop, LoopType
    <3> QED  BY <2>1, <3>1 DEF KeptInv
  <2> QED  BY <1>4, <2>2, <2>3, LoopSteps
<1> QED  BY <1>1, <1>2, <1>3, <1>4

(* While one page saves at a time, no stray request writes into a slot, the *)
(* preset entity is left alone and the chip does not reset: a screen that   *)
(* has nothing more to draw shows the selection, or no banner if there is   *)
(* none, whatever is selected, deleted, committed again or aborted; and it  *)
(* keeps no slot that was deleted, so that one can be saved into again.     *)
THEOREM ScreensAreCurrent ==
  ASSUME OneAtATime, "bodyless" \notin Requests, "preset" \notin Requests, MaxCrashes = 0
  PROVE  Spec => []ScreenIsCurrent /\ []DeletedIsFree
<1>1. Init => ScreenInv /\ KeptInv
  <2>1. NotDrawn.preset # "Custom"
    BY DEF NotDrawn
  <2>2. Init => /\ drawn = NotDrawn /\ mapped = None /\ banner_preset = "Battery"
                /\ gallery_active_slot = None
    BY DEF Init
  <2> QED  BY <2>1, <2>2 DEF ScreenInv, KeptInv
<1>2. ScreenInv => ScreenIsCurrent
  BY DEF ScreenInv, ScreenIsCurrent, TargetChanged, At
<1>3. ScreenIsCurrent /\ KeptInv => DeletedIsFree
  <2>1. None \notin Slots
    BY DEF None, Slots
  <2>2. \A s \in Slots : word0[s] = "zero" => ~gallery_slot_used(s)
    BY DEF gallery_slot_used
  <2>3. At("idle") /\ KeptInv => gallery_active_slot = mapped
    BY DEF KeptInv, At
  <2> QED  BY <2>1, <2>2, <2>3 DEF ScreenIsCurrent, DeletedIsFree
<1>4. StoreInv => LoopType
  BY DEF StoreInv, GalleryInv, Typed
<1>5. StoreInv /\ [Next]_vars => (OneSave /\ Filled)'
  BY StoreInvStep
<1>6. StoreInv /\ ScreenInv /\ [Next]_vars => ScreenInv'
  BY ScreenStep
<1>7. LoopType /\ KeptInv /\ [Next]_vars => KeptInv'
  BY KeptStep
<1> QED  BY <1>1, <1>2, <1>3, <1>4, <1>5, <1>6, <1>7, StoreInvInit, GalleryInvAlways,
            CommitsAreComplete, PTL
         DEF Spec, StoreInv
=============================================================================
