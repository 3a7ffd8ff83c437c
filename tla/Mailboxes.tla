----------------------------- MODULE Mailboxes -----------------------------
(***************************************************************************)
(* What the httpd task and loopTask hand each other without a lock: the    *)
(* bindkey and the display configuration, posted by the page and applied   *)
(* by a timer of the loop, and the JSON document that the loop publishes   *)
(* and the page fetches, here /wd/cfg.json.  A step is one access to       *)
(* shared memory; a text is copied half by half, or field by field.        *)
(***************************************************************************)
EXTENDS Integers

CONSTANTS
  NumFields,   (* the fields of /wd/cfg that a board owns                  *)
  MaxPosts     (* bound on the posts                                       *)

ASSUME MailAssumption == NumFields \in Nat \ {0} /\ MaxPosts \in Nat

Fields == 1..NumFields
Unset == -1                  (* "unchanged this POST"                      *)
Empty == <<0, 0>>            (* the two halves of a key: all bytes NUL     *)

VARIABLES
  request,     (* what the httpd task is at: step, position, argument      *)
  tick,        (* what loopTask is at: step, position                      *)
  posts,       (* posts so far; a post's values carry its number           *)
  bindkey_buf, bindkey_pending,
  bindkey,     (* the key the entity holds                                 *)
  cfg, cfg_pending,
  setting,     (* the settings as applied, field by field                  *)
  seeded,      (* the text the seed published last, "last" in the code     *)
  buf, active, (* the members of JsonSlot                                  *)
  body,        (* the httpd task's copy of the document                    *)
  (* Only for the properties:                                              *)
  wanted,      (* the last value stored for each field                     *)
  wantedKey,   (* the last key accepted                                    *)
  overlapped,  (* a key was posted before the one before it was applied    *)
  promised,    (* the document that was current when the read began        *)
  flipped,     (* a publish has ended during this read                     *)
  crowded      (* and a further one has begun                              *)

keyVars == <<bindkey_buf, bindkey_pending, bindkey, wantedKey, overlapped>>
cfgVars == <<cfg, cfg_pending, setting, wanted>>
slotVars == <<seeded, buf, active>>
readVars == <<body, promised, flipped, crowded>>
mailVars == <<request, tick, posts, keyVars, cfgVars, slotVars, readVars>>

NoPost == [pc |-> "idle", n |-> 0, arg |-> {}]
NoTick == [pc |-> "idle", n |-> 0]
Blank == [f \in Fields |-> Unset]

MailInit ==
  /\ request = NoPost /\ tick = NoTick /\ posts = 0
  /\ bindkey_buf = Empty /\ bindkey_pending = FALSE /\ bindkey = Empty
  /\ cfg = Blank /\ cfg_pending = FALSE
  /\ setting = [f \in Fields |-> 0] /\ seeded = Blank
  /\ buf = [i \in {0, 1} |-> Blank] /\ active = 0 /\ body = Blank
  /\ wanted = setting /\ wantedKey = Empty /\ overlapped = FALSE
  /\ promised = Blank /\ flipped = FALSE /\ crowded = FALSE

TakingKey == tick.pc \in {"copy1", "copy0", "copy2"}

At(step) == request.pc = step
Goes(step) == request' = [request EXCEPT !.pc = step]
Ticks(step) == tick' = [tick EXCEPT !.pc = step]

-----------------------------------------------------------------------------
(* The httpd task.                                                         *)

(* BindkeyPost: a key, or the empty value that clears it.  memset first.    *)
PostKey ==
  /\ At("idle") /\ posts < MaxPosts
  /\ posts' = posts + 1
  /\ \E k \in {0, posts'} : request' = [pc |-> "key1", n |-> k, arg |-> {}]
  /\ bindkey_buf' = Empty
  /\ overlapped' = (overlapped \/ bindkey_pending \/ TakingKey \/ tick.pc = "wipe")
  /\ UNCHANGED <<tick, bindkey_pending, bindkey, wantedKey, cfgVars, slotVars, readVars>>

CopyKey ==
  /\ \/ At("key1") /\ bindkey_buf' = [bindkey_buf EXCEPT ![1] = request.n] /\ Goes("key2")
     \/ At("key2") /\ bindkey_buf' = [bindkey_buf EXCEPT ![2] = request.n] /\ Goes("raise")
  /\ UNCHANGED <<tick, posts, bindkey_pending, bindkey, wantedKey, overlapped,
                 cfgVars, slotVars, readVars>>

RaiseKey ==
  /\ At("raise")
  /\ bindkey_pending' = TRUE
  /\ wantedKey' = <<request.n, request.n>>
  /\ request' = NoPost
  /\ UNCHANGED <<tick, posts, bindkey_buf, bindkey, overlapped, cfgVars, slotVars, readVars>>

(* CfgPost: any of the fields, one store each.                              *)
PostCfg ==
  /\ At("idle") /\ posts < MaxPosts
  /\ posts' = posts + 1
  /\ \E F \in SUBSET Fields : request' = [pc |-> "store", n |-> posts', arg |-> F]
  /\ UNCHANGED <<tick, keyVars, cfgVars, slotVars, readVars>>

StoreCfg ==
  /\ At("store")
  /\ \E f \in request.arg :
       /\ \A g \in request.arg : f <= g
       /\ cfg' = [cfg EXCEPT ![f] = request.n]
       /\ wanted' = [wanted EXCEPT ![f] = request.n]
       /\ request' = [request EXCEPT !.arg = @ \ {f}]
  /\ UNCHANGED <<tick, posts, keyVars, cfg_pending, setting, slotVars, readVars>>

RaiseCfg ==
  /\ At("store") /\ request.arg = {}
  /\ cfg_pending' = TRUE
  /\ request' = NoPost
  /\ UNCHANGED <<tick, posts, keyVars, cfg, setting, wanted, slotVars, readVars>>

(* JsonSlotGet: the index is loaded once, then the text is copied.          *)
ReadIndex ==
  /\ At("idle")
  /\ request' = [pc |-> "read", n |-> active, arg |-> Fields]
  /\ promised' = buf[active] /\ flipped' = FALSE /\ crowded' = FALSE
  /\ body' = Blank
  /\ UNCHANGED <<tick, posts, keyVars, cfgVars, slotVars>>

ReadText ==
  /\ At("read")
  /\ \E f \in request.arg :
       /\ \A g \in request.arg : f <= g
       /\ body' = [body EXCEPT ![f] = buf[request.n][f]]
       /\ request' = [request EXCEPT !.arg = @ \ {f}]
  /\ UNCHANGED <<tick, posts, keyVars, cfgVars, slotVars, promised, flipped, crowded>>

Send ==
  /\ At("read") /\ request.arg = {}
  /\ request' = NoPost
  /\ UNCHANGED <<tick, posts, keyVars, cfgVars, slotVars, readVars>>

-----------------------------------------------------------------------------
(* loopTask.                                                               *)

(* The compute tick takes the key.  Only the first half decides whether     *)
(* the C string is empty; then it is applied, then the buffer wiped.        *)
TakeKeyWiped ==                                                       \* mutant
  /\ tick.pc = "idle" /\ bindkey_pending
  /\ bindkey_pending' = FALSE /\ bindkey_buf' = Empty
  /\ Ticks("copy1")
  /\ UNCHANGED <<request, posts, bindkey, wantedKey, overlapped,
                 cfgVars, slotVars, readVars>>

TakeKey ==
  /\ tick.pc = "idle" /\ bindkey_pending
  /\ bindkey_pending' = FALSE
  /\ Ticks("copy1")
  /\ UNCHANGED <<request, posts, bindkey_buf, bindkey, wantedKey, overlapped,
                 cfgVars, slotVars, readVars>>

CopyOut ==
  /\ tick.pc = "copy1"
  /\ tick' = [pc |-> IF bindkey_buf[1] = 0 THEN "copy0" ELSE "copy2", n |-> bindkey_buf[1]]
  /\ UNCHANGED <<request, posts, keyVars, cfgVars, slotVars, readVars>>

ApplyKey ==
  /\ \/ tick.pc = "copy0" /\ bindkey' = Empty
     \/ tick.pc = "copy2" /\ bindkey' = <<tick.n, bindkey_buf[2]>>
  /\ Ticks("wipe")
  /\ UNCHANGED <<request, posts, bindkey_buf, bindkey_pending, wantedKey, overlapped,
                 cfgVars, slotVars, readVars>>

WipeKey ==
  /\ tick.pc = "wipe"
  /\ bindkey_buf' = Empty
  /\ tick' = NoTick
  /\ UNCHANGED <<request, posts, bindkey_pending, bindkey, wantedKey, overlapped,
                 cfgVars, slotVars, readVars>>

(* The display's configuration tick: the flag is cleared before the fields  *)
(* are exchanged, one after the other.                                      *)
TakeCfg ==
  /\ tick.pc = "idle" /\ cfg_pending
  /\ cfg_pending' = FALSE
  /\ tick' = [pc |-> "take", n |-> 1]
  /\ UNCHANGED <<request, posts, keyVars, cfg, setting, wanted, slotVars, readVars>>

Emptied(f) == [cfg EXCEPT ![f] = Unset]

Exchanged(f) == IF cfg[f] >= 0 THEN cfg[f] ELSE setting[f]

ExchangeField ==
  /\ tick.pc = "take" /\ tick.n \in Fields
  /\ cfg' = Emptied(tick.n)
  /\ setting' = [setting EXCEPT ![tick.n] = Exchanged(tick.n)]
  /\ tick' = [tick EXCEPT !.n = @ + 1]
  /\ UNCHANGED <<request, posts, keyVars, cfg_pending, wanted, slotVars, readVars>>

(* The end of the tick: the settings are published if their text is new.    *)
Taken == tick.pc = "idle" \/ (tick.pc = "take" /\ tick.n > NumFields)

FirstFieldMoved == setting[1] # seeded[1]                             \* mutant
Moved == setting # seeded

Seed ==
  /\ Taken /\ Moved
  /\ seeded' = setting
  /\ tick' = [pc |-> "assign", n |-> 1]
  /\ crowded' = (crowded \/ (At("read") /\ flipped))
  /\ UNCHANGED <<request, posts, keyVars, cfgVars, buf, active, body, promised, flipped>>

NoSeed ==
  /\ tick.pc = "take" /\ tick.n > NumFields /\ ~Moved
  /\ tick' = NoTick
  /\ UNCHANGED <<request, posts, keyVars, cfgVars, slotVars, readVars>>

(* JsonSlot::publish: into the buffer that is not active, then the index.   *)
OtherIsActive == active                                               \* mutant
Other == 1 - active

Assign ==
  /\ tick.pc = "assign" /\ tick.n \in Fields
  /\ buf' = [buf EXCEPT ![Other][tick.n] = seeded[tick.n]]
  /\ tick' = [tick EXCEPT !.n = @ + 1]
  /\ UNCHANGED <<request, posts, keyVars, cfgVars, seeded, active, readVars>>

Flip ==
  /\ tick.pc = "assign" /\ tick.n > NumFields
  /\ active' = Other
  /\ flipped' = TRUE
  /\ tick' = NoTick
  /\ UNCHANGED <<request, posts, keyVars, cfgVars, seeded, buf, body, promised, crowded>>

-----------------------------------------------------------------------------
Serves == CopyKey \/ RaiseKey \/ StoreCfg \/ RaiseCfg \/ ReadText \/ Send
Runs == \/ TakeKey \/ CopyOut \/ ApplyKey \/ WipeKey
        \/ TakeCfg \/ ExchangeField \/ Seed \/ NoSeed \/ Assign \/ Flip

MailNext == PostKey \/ PostCfg \/ ReadIndex \/ Serves \/ Runs

MailSpec == MailInit /\ [][MailNext]_mailVars

(* Both tasks finish what they are at, and the loop's timers come round.    *)
MailFairness == WF_mailVars(Serves) /\ WF_mailVars(Runs)

MailFairSpec == MailSpec /\ MailFairness

-----------------------------------------------------------------------------
(* Properties.                                                              *)

(* Types of all that the two tasks share.                                   *)
MailTypeOK ==
  /\ request \in [pc : {"idle", "key1", "key2", "raise", "store", "read"},
                  n : 0..(MaxPosts + 1), arg : SUBSET Fields]
  /\ tick \in [pc : {"idle", "copy1", "copy0", "copy2", "wipe", "take", "assign"},
               n : 0..(MaxPosts + NumFields + 1)]
  /\ posts \in 0..MaxPosts
  /\ {bindkey_buf, bindkey, wantedKey} \subseteq (0..MaxPosts) \X (0..MaxPosts)
  /\ bindkey_pending \in BOOLEAN /\ cfg_pending \in BOOLEAN
  /\ {cfg, seeded, body, promised} \cup {buf[i] : i \in {0, 1}}
       \subseteq [Fields -> Unset..MaxPosts]
  /\ {setting, wanted} \subseteq [Fields -> 0..MaxPosts]
  /\ active \in {0, 1}
  /\ {overlapped, flipped, crowded} \subseteq BOOLEAN

(* web_dashboard.h:274: what is sent is the document that was current when  *)
(* the request came, whole, unless two publishes meet in one read.          *)
SeedIsWhole ==
  At("read") /\ request.arg = {} /\ ~crowded => body = promised

(* An accepted key is the one the entity ends up with, neither mixed with   *)
(* the one before nor wiped, as long as the page does not post a key before *)
(* the last one is applied.                                                 *)
KeyIsApplied ==
  ~overlapped /\ ~bindkey_pending /\ ~TakingKey => bindkey = wantedKey

(* Once the mailbox is quiet, each setting is the last value posted for it, *)
(* also when a post lands anywhere in the middle of a drain.                *)
CfgIsApplied ==
  ~At("store") /\ ~cfg_pending /\ tick.pc # "take" => setting = wanted

(* What a post was answered OK for is what the device ends up with.         *)
PostsAreApplied == KeyIsApplied /\ CfgIsApplied

(* However the posts fall, the form is in the end seeded from what they ask *)
(* for, all fields of it.                                                   *)
SeedFollows == <>[](posts > 0 => buf[active] = wanted)
=============================================================================
