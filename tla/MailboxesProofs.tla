-------------------------- MODULE MailboxesProofs --------------------------
(***************************************************************************)
(* Theorems about what the httpd task and the loop hand each other without *)
(* a lock, for any number of fields and any number of posts.               *)
(***************************************************************************)
EXTENDS Mailboxes, TLAPS

Texts == [Fields -> Unset..MaxPosts]
Keys == (0..MaxPosts) \X (0..MaxPosts)

MailTypes ==
  /\ request \in [pc : {"idle", "key1", "key2", "raise", "store", "read"},
                  n : 0..(MaxPosts + 1), arg : SUBSET Fields]
  /\ tick \in [pc : {"idle", "copy1", "copy0", "copy2", "wipe", "take", "assign"},
               n : 0..(MaxPosts + NumFields + 1)]
  /\ posts \in 0..MaxPosts
  /\ At("key1") \/ At("key2") \/ At("raise") \/ At("store") => request.n \in 0..MaxPosts
  /\ At("read") => request.n \in {0, 1}
  /\ tick.pc = "copy2" => tick.n \in 0..MaxPosts

KeyTypes ==
  /\ bindkey_buf \in Keys /\ bindkey \in Keys /\ wantedKey \in Keys
  /\ bindkey_pending \in BOOLEAN /\ overlapped \in BOOLEAN

CfgTypes ==
  /\ cfg \in Texts /\ cfg_pending \in BOOLEAN
  /\ setting \in [Fields -> 0..MaxPosts] /\ wanted \in [Fields -> 0..MaxPosts]

SlotTypes ==
  /\ seeded \in Texts /\ buf \in [{0, 1} -> Texts] /\ active \in {0, 1}
  /\ body \in Texts /\ promised \in Texts
  /\ flipped \in BOOLEAN /\ crowded \in BOOLEAN

MailTypesAll == MailTypes /\ KeyTypes /\ CfgTypes /\ SlotTypes

-----------------------------------------------------------------------------
(* Types, task by task.                                                    *)

LEMMA ConstantsFit ==
  /\ NumFields \in Nat \ {0} /\ MaxPosts \in Nat
  /\ Blank \in Texts /\ Empty \in Keys
  /\ [Fields -> 0..MaxPosts] \subseteq Texts
BY MailAssumption DEF Blank, Texts, Keys, Empty, Unset

LEMMA PostTypes ==
  ASSUME MailTypesAll, PostKey \/ PostCfg \/ ReadIndex
  PROVE  MailTypesAll'
<1> USE DEF MailTypesAll
<1>1. CASE PostKey
  <2>1. posts' \in 0..MaxPosts /\ posts' = posts + 1
    BY <1>1, ConstantsFit DEF PostKey, MailTypes
  <2>2. PICK k \in {0, posts'} : request' = [pc |-> "key1", n |-> k, arg |-> {}]
    BY <1>1 DEF PostKey
  <2>3. MailTypes'
    BY <1>1, <2>1, <2>2, ConstantsFit DEF PostKey, MailTypes, At
  <2>4. KeyTypes'
    BY <1>1, ConstantsFit DEF PostKey, KeyTypes
  <2> QED  BY <1>1, <2>3, <2>4 DEF PostKey, CfgTypes, SlotTypes, cfgVars, slotVars, readVars
<1>2. CASE PostCfg
  <2>1. posts' \in 0..MaxPosts
    BY <1>2, ConstantsFit DEF PostCfg, MailTypes
  <2>2. MailTypes'
    BY <1>2, <2>1, ConstantsFit DEF PostCfg, MailTypes, At
  <2> QED
    BY <1>2, <2>2 DEF PostCfg, KeyTypes, CfgTypes, SlotTypes, keyVars, cfgVars, slotVars, readVars
<1>3. CASE ReadIndex
  <2>1. MailTypes'
    BY <1>3, ConstantsFit DEF ReadIndex, MailTypes, SlotTypes, At
  <2>2. SlotTypes'
    BY <1>3, ConstantsFit DEF ReadIndex, SlotTypes, slotVars
  <2> QED  BY <1>3, <2>1, <2>2 DEF ReadIndex, KeyTypes, CfgTypes, keyVars, cfgVars
<1> QED  BY <1>1, <1>2, <1>3

LEMMA ServeTypes ==
  ASSUME MailTypesAll, Serves
  PROVE  MailTypesAll'
<1> USE DEF MailTypesAll
<1>1. CASE CopyKey
  <2>1. request.n \in 0..MaxPosts
    BY <1>1 DEF CopyKey, MailTypes, At
  <2>2. MailTypes'
    BY <1>1, <2>1 DEF CopyKey, MailTypes, At, Goes
  <2>3. KeyTypes'
    BY <1>1, <2>1 DEF CopyKey, KeyTypes, Keys
  <2> QED  BY <1>1, <2>2, <2>3 DEF CopyKey, CfgTypes, SlotTypes, cfgVars, slotVars, readVars
<1>2. CASE RaiseKey
  <2>1. MailTypes'
    BY <1>2, ConstantsFit DEF RaiseKey, MailTypes, At, NoPost
  <2>2. KeyTypes'
    BY <1>2 DEF RaiseKey, MailTypes, KeyTypes, Keys, At
  <2> QED  BY <1>2, <2>1, <2>2 DEF RaiseKey, CfgTypes, SlotTypes, cfgVars, slotVars, readVars
<1>3. CASE StoreCfg
  <2>1. PICK f \in request.arg : /\ cfg' = [cfg EXCEPT ![f] = request.n]
                                 /\ wanted' = [wanted EXCEPT ![f] = request.n]
                                 /\ request' = [request EXCEPT !.arg = @ \ {f}]
    BY <1>3 DEF StoreCfg
  <2>2. request.n \in 0..MaxPosts /\ request.arg \subseteq Fields
    BY <1>3 DEF StoreCfg, MailTypes, At
  <2>3. MailTypes'
    BY <1>3, <2>1, <2>2 DEF StoreCfg, MailTypes, At
  <2>4. CfgTypes'
    BY <1>3, <2>1, <2>2, ConstantsFit DEF StoreCfg, CfgTypes, Texts, Unset
  <2> QED  BY <1>3, <2>3, <2>4 DEF StoreCfg, KeyTypes, SlotTypes, keyVars, slotVars, readVars
<1>4. CASE RaiseCfg
  <2>1. MailTypes'
    BY <1>4, ConstantsFit DEF RaiseCfg, MailTypes, At, NoPost
  <2> QED
    BY <1>4, <2>1 DEF RaiseCfg, KeyTypes, CfgTypes, SlotTypes, keyVars, slotVars, readVars
<1>5. CASE ReadText
  <2>1. PICK f \in request.arg : /\ body' = [body EXCEPT ![f] = buf[request.n][f]]
                                 /\ request' = [request EXCEPT !.arg = @ \ {f}]
    BY <1>5 DEF ReadText
  <2>2. request.n \in {0, 1} /\ request.arg \subseteq Fields
    BY <1>5 DEF ReadText, MailTypes, At
  <2>3. MailTypes'
    BY <1>5, <2>1, <2>2 DEF ReadText, MailTypes, At
  <2>4. SlotTypes'
    BY <1>5, <2>1, <2>2 DEF ReadText, SlotTypes, Texts, slotVars
  <2> QED  BY <1>5, <2>3, <2>4 DEF ReadText, KeyTypes, CfgTypes, keyVars, cfgVars
<1>6. CASE Send
  <2>1. MailTypes'
    BY <1>6, ConstantsFit DEF Send, MailTypes, At, NoPost
  <2> QED
    BY <1>6, <2>1 DEF Send, KeyTypes, CfgTypes, SlotTypes, keyVars, cfgVars, slotVars, readVars
<1> QED  BY <1>1, <1>2, <1>3, <1>4, <1>5, <1>6 DEF Serves

LEMMA RunTypes ==
  ASSUME MailTypesAll, Runs
  PROVE  MailTypesAll'
<1> USE DEF MailTypesAll
<1>1. CASE TakeKey \/ CopyOut \/ ApplyKey \/ WipeKey
  <2>1. MailTypes'
    BY <1>1, ConstantsFit
       DEF TakeKey, CopyOut, ApplyKey, WipeKey, MailTypes, KeyTypes, Keys, At, Ticks, NoTick
  <2>2. KeyTypes'
    <3>1. CASE TakeKey \/ WipeKey
      BY <3>1, ConstantsFit DEF TakeKey, WipeKey, KeyTypes
    <3>2. CASE CopyOut
      BY <3>2 DEF CopyOut, KeyTypes, keyVars
    <3>3. CASE ApplyKey
      <4>1. tick.pc = "copy2" => <<tick.n, bindkey_buf[2]>> \in Keys
        BY DEF MailTypes, KeyTypes, Keys
      <4> QED  BY <3>3, <4>1, ConstantsFit DEF ApplyKey, KeyTypes
    <3> QED  BY <1>1, <3>1, <3>2, <3>3
  <2> QED
    BY <1>1, <2>1, <2>2
       DEF TakeKey, CopyOut, ApplyKey, WipeKey, CfgTypes, SlotTypes, cfgVars, slotVars, readVars
<1>2. CASE TakeCfg
  <2>1. MailTypes'
    BY <1>2, ConstantsFit DEF TakeCfg, MailTypes, At
  <2> QED
    BY <1>2, <2>1 DEF TakeCfg, KeyTypes, CfgTypes, SlotTypes, keyVars, slotVars, readVars
<1>3. CASE ExchangeField
  <2>1. MailTypes'
    BY <1>3, ConstantsFit DEF ExchangeField, MailTypes, At, Fields
  <2>2. Exchanged(tick.n) \in 0..MaxPosts
    BY <1>3, ConstantsFit DEF ExchangeField, Exchanged, CfgTypes, Texts, Unset
  <2>3. CfgTypes'
    BY <1>3, <2>2, ConstantsFit DEF ExchangeField, Emptied, CfgTypes, Texts, Unset
  <2> QED
    BY <1>3, <2>1, <2>3 DEF ExchangeField, KeyTypes, SlotTypes, keyVars, slotVars, readVars
<1>4. CASE Seed
  <2>1. MailTypes'
    BY <1>4, ConstantsFit DEF Seed, MailTypes, At
  <2>2. SlotTypes'
    BY <1>4, ConstantsFit DEF Seed, SlotTypes, CfgTypes
  <2> QED  BY <1>4, <2>1, <2>2 DEF Seed, KeyTypes, CfgTypes, keyVars, cfgVars
<1>5. CASE NoSeed
  <2>1. MailTypes'
    BY <1>5, ConstantsFit DEF NoSeed, MailTypes, At, NoTick
  <2> QED
    BY <1>5, <2>1 DEF NoSeed, KeyTypes, CfgTypes, SlotTypes, keyVars, cfgVars, slotVars, readVars
<1>6. CASE Assign
  <2>1. MailTypes'
    BY <1>6, ConstantsFit DEF Assign, MailTypes, At, Fields
  <2>2. SlotTypes'
    BY <1>6 DEF Assign, Other, SlotTypes, Texts, readVars
  <2> QED  BY <1>6, <2>1, <2>2 DEF Assign, KeyTypes, CfgTypes, keyVars, cfgVars
<1>7. CASE Flip
  <2>1. MailTypes'
    BY <1>7, ConstantsFit DEF Flip, MailTypes, At, NoTick
  <2>2. SlotTypes'
    BY <1>7 DEF Flip, Other, SlotTypes
  <2> QED  BY <1>7, <2>1, <2>2 DEF Flip, KeyTypes, CfgTypes, keyVars, cfgVars
<1> QED  BY <1>1, <1>2, <1>3, <1>4, <1>5, <1>6, <1>7 DEF Runs

LEMMA MailTypesHold == MailSpec => []MailTypesAll
<1>1. MailInit => MailTypesAll
  <2> SUFFICES ASSUME MailInit PROVE MailTypesAll
    OBVIOUS
  <2>1. MailTypes
    BY ConstantsFit DEF MailInit, MailTypes, NoPost, NoTick, At
  <2>2. KeyTypes
    BY ConstantsFit DEF MailInit, KeyTypes
  <2>3. setting \in [Fields -> 0..MaxPosts] /\ wanted = setting
    BY ConstantsFit DEF MailInit
  <2>4. CfgTypes
    BY <2>3, ConstantsFit DEF MailInit, CfgTypes
  <2>5. buf \in [{0, 1} -> Texts] /\ seeded \in Texts /\ body \in Texts /\ promised \in Texts
    BY ConstantsFit DEF MailInit
  <2>6. SlotTypes
    BY <2>5 DEF MailInit, SlotTypes
  <2> QED  BY <2>1, <2>2, <2>4, <2>6 DEF MailTypesAll
<1>2. MailTypesAll /\ [MailNext]_mailVars => MailTypesAll'
  <2>1. CASE UNCHANGED mailVars
    BY <2>1 DEF MailTypesAll, MailTypes, KeyTypes, CfgTypes, SlotTypes, At,
       mailVars, keyVars, cfgVars, slotVars, readVars
  <2>2. CASE MailTypesAll /\ MailNext
    BY <2>2, PostTypes, ServeTypes, RunTypes DEF MailNext
  <2> QED  BY <2>1, <2>2
<1> QED  BY <1>1, <1>2, PTL DEF MailSpec

(* Types of all that the two tasks share, for any number of fields.         *)
THEOREM MailTypesAreKept == MailSpec => []MailTypeOK
<1>1. MailTypesAll => MailTypeOK
  BY DEF MailTypesAll, MailTypes, KeyTypes, CfgTypes, SlotTypes, MailTypeOK, Texts, Keys
<1> QED  BY <1>1, MailTypesHold, PTL

-----------------------------------------------------------------------------
(* The key.  While no post overtakes one that is not applied, the key is in *)
(* one of three places: with the request that brings it, in the buffer, or  *)
(* with the tick that takes it.                                             *)

Posting == At("key1") \/ At("key2") \/ At("raise")

KeyInv ==
  ~overlapped =>
    /\ Posting => ~bindkey_pending /\ ~TakingKey /\ tick.pc # "wipe"
    /\ TakingKey \/ tick.pc = "wipe" => ~bindkey_pending
    /\ At("key2") => bindkey_buf[1] = request.n
    /\ At("raise") => bindkey_buf = <<request.n, request.n>>
    /\ bindkey_pending \/ TakingKey => bindkey_buf = wantedKey
    /\ tick.pc = "copy0" => wantedKey = Empty
    /\ tick.pc = "copy2" => tick.n = wantedKey[1]
    /\ ~bindkey_pending /\ ~TakingKey => bindkey = wantedKey
    /\ wantedKey[1] = wantedKey[2]

LEMMA KeyStep ==
  ASSUME MailTypesAll, KeyInv, MailNext
  PROVE  KeyInv'
<1> USE DEF KeyInv, Posting, TakingKey, At
<1>0. KeyTypes /\ request.n \in Int /\ tick.n \in Int
  BY MailAssumption DEF MailTypesAll, MailTypes
<1>1. CASE PostKey
  <2>1. request'.pc = "key1" /\ UNCHANGED <<tick, bindkey_pending, bindkey, wantedKey>>
    BY <1>1 DEF PostKey
  <2>2. ~overlapped' => ~overlapped /\ ~bindkey_pending /\ ~TakingKey /\ tick.pc # "wipe"
    BY <1>1 DEF PostKey
  <2> QED  BY <2>1, <2>2
<1>2. CASE CopyKey
  <2>1. bindkey_buf' \in Keys
    BY <1>2, ServeTypes DEF Serves, MailTypesAll, KeyTypes
  <2>2. At("key2") => bindkey_buf'[1] = bindkey_buf[1] /\ bindkey_buf'[2] = request.n
    BY <1>0, <1>2 DEF CopyKey, KeyTypes, Keys
  <2>3. At("key1") => bindkey_buf'[1] = request.n
    BY <1>0, <1>2 DEF CopyKey, KeyTypes, Keys
  <2>4. bindkey_buf' = <<bindkey_buf'[1], bindkey_buf'[2]>>
    BY <2>1 DEF Keys
  <2>5. /\ At("key1") => request' = [request EXCEPT !.pc = "key2"]
        /\ At("key2") => request' = [request EXCEPT !.pc = "raise"]
        /\ At("key1") \/ At("key2")
    BY <1>2 DEF CopyKey, Goes
  <2>6. /\ request'.n = request.n
        /\ At("key1") => request'.pc = "key2"
        /\ At("key2") => request'.pc = "raise"
    BY <2>5 DEF MailTypesAll, MailTypes
  <2>7. ~overlapped' /\ At("key2") => bindkey_buf' = <<request'.n, request'.n>>
    BY <1>2, <2>2, <2>4, <2>6 DEF CopyKey
  <2> QED  BY <1>2, <2>3, <2>5, <2>6, <2>7 DEF CopyKey
<1>3. CASE RaiseKey
  BY <1>3 DEF RaiseKey, NoPost
<1>4. CASE StoreCfg
  <2>1. request'.pc = "store" /\ request.pc = "store"
    BY <1>4 DEF StoreCfg, MailTypesAll, MailTypes
  <2> QED  BY <1>4, <2>1 DEF StoreCfg, keyVars
<1>5. CASE ReadText
  <2>1. request'.pc = "read" /\ request.pc = "read"
    BY <1>5 DEF ReadText, MailTypesAll, MailTypes
  <2> QED  BY <1>5, <2>1 DEF ReadText, keyVars
<1>6. CASE PostCfg \/ RaiseCfg \/ ReadIndex \/ Send
  <2>1. UNCHANGED <<tick, keyVars>> /\ request'.pc \in {"store", "read", "idle"}
    BY <1>6 DEF PostCfg, RaiseCfg, ReadIndex, Send, NoPost
  <2> QED  BY <2>1 DEF keyVars
<1>7. CASE TakeKey
  <2>1. tick.pc = "idle" /\ tick'.pc = "copy1"
    BY <1>7 DEF TakeKey, Ticks, MailTypesAll, MailTypes
  <2> QED  BY <1>7, <2>1 DEF TakeKey
<1>8. CASE CopyOut
  <2>1. tick'.n = bindkey_buf[1] /\ tick'.pc = (IF bindkey_buf[1] = 0 THEN "copy0" ELSE "copy2")
    BY <1>8 DEF CopyOut
  <2>2. wantedKey = <<wantedKey[1], wantedKey[2]>>
    BY <1>0 DEF KeyTypes, Keys
  <2>3. tick.pc = "copy1" /\ UNCHANGED <<request, keyVars>>
    BY <1>8 DEF CopyOut
  <2>4. ~overlapped /\ bindkey_buf[1] = 0 => wantedKey = Empty
    BY <2>2, <2>3 DEF Empty
  <2> QED  BY <2>1, <2>3, <2>4 DEF keyVars
<1>9. CASE ApplyKey
  <2>1. tick'.pc = "wipe"
    BY <1>9 DEF ApplyKey, Ticks, MailTypesAll, MailTypes
  <2>2. wantedKey = <<wantedKey[1], wantedKey[2]>>
    BY <1>0 DEF KeyTypes, Keys
  <2>3. ~overlapped => bindkey' = wantedKey
    BY <1>9, <2>2 DEF ApplyKey
  <2> QED  BY <1>9, <2>1, <2>3 DEF ApplyKey
<1>10. CASE WipeKey
  BY <1>10 DEF WipeKey, NoTick
<1>11. CASE TakeCfg \/ ExchangeField \/ Seed \/ NoSeed \/ Assign \/ Flip
  <2>1. UNCHANGED <<request, keyVars>> /\ tick.pc \in {"idle", "take", "assign"}
    BY <1>11 DEF TakeCfg, ExchangeField, Seed, NoSeed, Assign, Flip, Taken
  <2>2. tick'.pc \in {"idle", "take", "assign"}
    BY <1>11 DEF TakeCfg, ExchangeField, Seed, NoSeed, Assign, Flip, NoTick, MailTypesAll, MailTypes
  <2> QED  BY <2>1, <2>2 DEF keyVars
<1> QED
  BY <1>1, <1>2, <1>3, <1>4, <1>5, <1>6, <1>7, <1>8, <1>9, <1>10, <1>11 DEF MailNext, Serves, Runs

-----------------------------------------------------------------------------
(* The settings.  A value still in the mailbox is the last one posted, a    *)
(* field that is empty there was applied, and somebody is on the way to     *)
(* every value that waits: a post, the flag, or a drain before that field.  *)

CfgInv ==
  \A f \in Fields :
    /\ cfg[f] # Unset => cfg[f] = wanted[f]
    /\ cfg[f] = Unset => setting[f] = wanted[f]
    /\ cfg[f] # Unset => At("store") \/ cfg_pending \/ (tick.pc = "take" /\ tick.n <= f)

LEMMA CfgStep ==
  ASSUME MailTypesAll, CfgInv, MailNext
  PROVE  CfgInv'
<1> USE DEF MailTypesAll, At
<1>0. /\ tick.n \in Int /\ Fields \subseteq Int /\ NumFields \in Nat
      /\ cfg \in [Fields -> Int] /\ setting \in [Fields -> Int] /\ wanted \in [Fields -> Int]
  BY MailAssumption DEF MailTypes, CfgTypes, Texts, Fields, Unset
<1>1. CASE StoreCfg
  <2>1. PICK f \in request.arg : /\ cfg' = [cfg EXCEPT ![f] = request.n]
                                 /\ wanted' = [wanted EXCEPT ![f] = request.n]
                                 /\ request' = [request EXCEPT !.arg = @ \ {f}]
    BY <1>1 DEF StoreCfg
  <2>2. /\ f \in Fields /\ request.n \in Nat
        /\ request'.pc = "store" /\ UNCHANGED <<tick, cfg_pending, setting>>
    BY <1>1, <2>1, MailAssumption DEF StoreCfg, MailTypes
  <2>3. cfg'[f] # Unset /\ cfg'[f] = wanted'[f]
    BY <1>0, <2>1, <2>2 DEF Unset
  <2>4. \A g \in Fields \ {f} : cfg'[g] = cfg[g] /\ wanted'[g] = wanted[g]
    BY <1>0, <2>1
  <2> QED  BY <2>2, <2>3, <2>4 DEF CfgInv
<1>2. CASE RaiseCfg
  BY <1>2 DEF RaiseCfg, CfgInv
<1>3. CASE PostKey \/ PostCfg \/ ReadIndex \/ CopyKey \/ RaiseKey \/ ReadText \/ Send
  <2>1. UNCHANGED <<tick, cfgVars>> /\ request.pc # "store"
    BY <1>3 DEF PostKey, PostCfg, ReadIndex, CopyKey, RaiseKey, ReadText, Send
  <2> QED  BY <2>1 DEF cfgVars, CfgInv
<1>4. CASE TakeCfg
  <2>1. tick'.pc = "take" /\ tick'.n = 1 /\ UNCHANGED <<cfg, setting, wanted>>
    BY <1>4 DEF TakeCfg
  <2>2. \A f \in Fields : tick'.n <= f
    BY <2>1, MailAssumption DEF Fields
  <2> QED  BY <2>1, <2>2 DEF CfgInv
<1>5. CASE ExchangeField
  <2>1. /\ tick.n \in Fields /\ tick'.n = tick.n + 1 /\ tick'.pc = "take" /\ tick.pc = "take"
        /\ UNCHANGED <<request, cfg_pending, wanted>>
    BY <1>5 DEF ExchangeField, MailTypes
  <2>2. cfg' = [cfg EXCEPT ![tick.n] = Unset]
    BY <1>5 DEF ExchangeField, Emptied
  <2>3. setting' = [setting EXCEPT ![tick.n] = Exchanged(tick.n)]
    BY <1>5 DEF ExchangeField
  <2>4. cfg[tick.n] \in Unset..MaxPosts
    BY <2>1 DEF CfgTypes, Texts
  <2>5. Exchanged(tick.n) = wanted[tick.n]
    BY <2>1, <2>4, MailAssumption DEF Exchanged, CfgInv, Unset
  <2>6. cfg'[tick.n] = Unset /\ setting'[tick.n] = wanted[tick.n]
    BY <1>0, <2>1, <2>2, <2>3, <2>5
  <2>7. \A g \in Fields \ {tick.n} : cfg'[g] = cfg[g] /\ setting'[g] = setting[g]
    BY <1>0, <2>2, <2>3
  <2>8. \A g \in Fields \ {tick.n} : tick.n <= g => tick'.n <= g
    BY <1>0, <2>1 DEF Fields
  <2> QED  BY <2>1, <2>6, <2>7, <2>8 DEF CfgInv
<1>6. CASE TakeKey \/ CopyOut \/ ApplyKey \/ WipeKey \/ Assign \/ Flip
  <2>1. UNCHANGED <<request, cfgVars>> /\ tick.pc # "take"
    BY <1>6 DEF TakeKey, CopyOut, ApplyKey, WipeKey, Assign, Flip
  <2> QED  BY <2>1 DEF cfgVars, CfgInv
<1>7. CASE Seed \/ NoSeed
  <2>1. UNCHANGED <<request, cfgVars>> /\ (tick.pc = "take" => tick.n > NumFields)
    BY <1>7 DEF Seed, NoSeed, Taken
  <2>2. \A f \in Fields : ~(tick.pc = "take" /\ tick.n <= f)
    BY <1>0, <2>1 DEF Fields
  <2> QED  BY <2>1, <2>2 DEF cfgVars, CfgInv
<1> QED  BY <1>1, <1>2, <1>3, <1>4, <1>5, <1>6, <1>7 DEF MailNext, Serves, Runs

(* For any number of fields and posts: the key that was accepted last and   *)
(* the values posted last are the ones in force once the mailboxes are      *)
(* quiet, wherever in a drain a post landed.                                *)
THEOREM MailIsDelivered == MailSpec => []PostsAreApplied
<1>1. MailInit => KeyInv /\ CfgInv
  <2>1. MailInit => KeyInv
    BY DEF MailInit, KeyInv, Posting, TakingKey, At, NoPost, NoTick, Empty
  <2>2. MailInit => CfgInv
    BY DEF MailInit, CfgInv, Blank
  <2> QED  BY <2>1, <2>2
<1>2. MailTypesAll /\ KeyInv /\ CfgInv /\ [MailNext]_mailVars => KeyInv' /\ CfgInv'
  <2>1. CASE UNCHANGED mailVars
    BY <2>1 DEF KeyInv, CfgInv, Posting, TakingKey, At, mailVars, keyVars, cfgVars
  <2>2. CASE MailTypesAll /\ KeyInv /\ CfgInv /\ MailNext
    BY <2>2, KeyStep, CfgStep
  <2> QED  BY <2>1, <2>2
<1>3. MailTypesAll /\ KeyInv /\ CfgInv => PostsAreApplied
  <2> SUFFICES ASSUME MailTypesAll, KeyInv, CfgInv
               PROVE  KeyIsApplied /\ CfgIsApplied
    BY DEF PostsAreApplied
  <2>1. KeyIsApplied
    BY DEF KeyInv, KeyIsApplied
  <2>2. ASSUME ~At("store"), ~cfg_pending, tick.pc # "take"
        PROVE  setting = wanted
    <3>1. \A f \in Fields : setting[f] = wanted[f]
      BY <2>2 DEF CfgInv
    <3> QED  BY <3>1 DEF MailTypesAll, CfgTypes
  <2> QED  BY <2>1, <2>2 DEF CfgIsApplied
<1> QED  BY <1>1, <1>2, <1>3, MailTypesHold, PTL DEF MailSpec

-----------------------------------------------------------------------------
(* The document.  The buffer whose index a request holds is written only by *)
(* a publish that began after another one had ended in the same read.       *)

SlotInv ==
  At("read") /\ ~crowded =>
    /\ ~flipped => request.n = active
    /\ flipped => tick.pc # "assign"
    /\ buf[request.n] = promised
    /\ \A f \in Fields \ request.arg : body[f] = promised[f]

LEMMA SlotStep ==
  ASSUME MailTypesAll, SlotInv, MailNext
  PROVE  SlotInv'
<1> USE DEF MailTypesAll, SlotInv, At
<1>1. CASE ReadIndex
  BY <1>1 DEF ReadIndex, slotVars
<1>2. CASE ReadText
  <2>1. PICK f \in request.arg : /\ body' = [body EXCEPT ![f] = buf[request.n][f]]
                                 /\ request' = [request EXCEPT !.arg = @ \ {f}]
    BY <1>2 DEF ReadText
  <2>2. f \in Fields /\ UNCHANGED <<tick, slotVars, promised, flipped, crowded>>
    BY <1>2 DEF ReadText, MailTypes
  <2>3. request'.n = request.n /\ request'.arg = request.arg \ {f} /\ request.pc = "read"
    BY <1>2, <2>1 DEF ReadText, MailTypes
  <2>4. body'[f] = buf[request.n][f] /\ \A g \in Fields \ {f} : body'[g] = body[g]
    BY <2>1, <2>2 DEF SlotTypes, Texts
  <2>5. \A g \in Fields \ request'.arg : g = f \/ g \in Fields \ request.arg
    BY <2>3
  <2> QED  BY <2>2, <2>3, <2>4, <2>5 DEF slotVars
<1>3. CASE PostKey \/ PostCfg \/ CopyKey \/ RaiseKey \/ StoreCfg \/ RaiseCfg \/ Send
  <2>1. request'.pc # "read"
    BY <1>3
       DEF PostKey, PostCfg, CopyKey, RaiseKey, StoreCfg, RaiseCfg, Send, Goes, NoPost, MailTypes
  <2> QED  BY <2>1
<1>4. CASE TakeKey \/ CopyOut \/ ApplyKey \/ WipeKey \/ TakeCfg \/ ExchangeField \/ NoSeed
  <2>1. UNCHANGED <<request, slotVars, readVars>> /\ tick'.pc # "assign"
    BY <1>4 DEF TakeKey, CopyOut, ApplyKey, WipeKey, TakeCfg, ExchangeField, NoSeed,
       Ticks, NoTick, MailTypes
  <2> QED  BY <2>1 DEF slotVars, readVars
<1>5. CASE Seed
  BY <1>5 DEF Seed
<1>6. CASE Assign
  <2>1. /\ tick.pc = "assign" /\ tick'.pc = "assign" /\ tick.n \in Fields
        /\ UNCHANGED <<request, active, readVars>>
    BY <1>6 DEF Assign, MailTypes
  <2>2. Other \in {0, 1} /\ Other # active
    BY DEF Other, SlotTypes
  <2>3. buf'[active] = buf[active]
    BY <1>6, <2>2 DEF Assign, SlotTypes
  <2> QED  BY <2>1, <2>3 DEF readVars
<1>7. CASE Flip
  BY <1>7 DEF Flip, NoTick
<1> QED  BY <1>1, <1>2, <1>3, <1>4, <1>5, <1>6, <1>7 DEF MailNext, Serves, Runs

(* For any number of fields: a request is answered with the document that   *)
(* was current when it came, whole, unless two publishes meet in its copy.  *)
THEOREM ReadersSeeOneDocument == MailSpec => []SeedIsWhole
<1>1. MailInit => SlotInv
  BY DEF MailInit, SlotInv, At, NoPost
<1>2. MailTypesAll /\ SlotInv /\ [MailNext]_mailVars => SlotInv'
  <2>1. CASE UNCHANGED mailVars
    BY <2>1 DEF SlotInv, At, mailVars, slotVars, readVars
  <2>2. CASE MailTypesAll /\ SlotInv /\ MailNext
    BY <2>2, SlotStep
  <2> QED  BY <2>1, <2>2
<1>3. MailTypesAll /\ SlotInv => SeedIsWhole
  <2> SUFFICES ASSUME MailTypesAll, SlotInv, At("read"), request.arg = {}, ~crowded
               PROVE  body = promised
    BY DEF SeedIsWhole
  <2>1. \A f \in Fields : body[f] = promised[f]
    BY DEF SlotInv
  <2> QED  BY <2>1 DEF MailTypesAll, SlotTypes, Texts
<1> QED  BY <1>1, <1>2, <1>3, MailTypesHold, PTL DEF MailSpec

-----------------------------------------------------------------------------
(* The seed: what is safety in SeedFollows.                                 *)

(* When neither task has anything left to do for the settings, the form is  *)
(* seeded from what was posted last, all fields of it.                      *)
SeedIsCurrent ==
  ~At("store") /\ ~cfg_pending /\ tick.pc \notin {"take", "assign"} /\ ~Moved
    => buf[active] = wanted

(* The page is given the text that was published last; a publish that is    *)
(* under way has copied the fields before the one it is at.                 *)
SeedInv ==
  /\ tick.pc # "assign" => buf[active] = seeded
  /\ tick.pc = "assign" =>
       /\ tick.n \in 1..(NumFields + 1)
       /\ \A f \in Fields : f < tick.n => buf[Other][f] = seeded[f]

LEMMA SeedStep ==
  ASSUME MailTypesAll, SeedInv, MailNext
  PROVE  SeedInv'
<1>0. /\ NumFields \in Nat \ {0} /\ Fields = 1..NumFields
      /\ seeded \in Texts /\ buf \in [{0, 1} -> Texts] /\ active \in {0, 1} /\ Other \in {0, 1}
      /\ Other # active /\ tick.n \in Int
  BY MailAssumption DEF MailTypesAll, MailTypes, SlotTypes, Fields, Other
<1>1. CASE Assign
  <2>1. /\ tick.pc = "assign" /\ tick.n \in Fields /\ tick'.pc = "assign" /\ tick'.n = tick.n + 1
        /\ buf' = [buf EXCEPT ![Other][tick.n] = seeded[tick.n]]
        /\ UNCHANGED <<seeded, active>>
    BY <1>1 DEF Assign, MailTypesAll, MailTypes
  <2>2. buf[Other] \in Texts /\ Other' = Other
    BY <1>0, <2>1 DEF Other
  <2>3. ASSUME NEW f \in Fields, f < tick.n + 1 PROVE buf'[Other][f] = seeded[f]
    <3>1. f = tick.n \/ f < tick.n
      BY <1>0, <2>3
    <3>2. buf'[Other] = [buf[Other] EXCEPT ![tick.n] = seeded[tick.n]]
      BY <1>0, <2>1
    <3> QED  BY <2>1, <2>2, <2>3, <3>1, <3>2 DEF SeedInv, Texts
  <2> QED  BY <1>0, <2>1, <2>2, <2>3 DEF SeedInv
<1>2. CASE Flip
  <2>1. tick.pc = "assign" /\ tick.n > NumFields /\ active' = Other /\ UNCHANGED <<seeded, buf>>
        /\ tick' = NoTick
    BY <1>2 DEF Flip
  <2>2. \A f \in Fields : buf[Other][f] = seeded[f]
    BY <1>0, <2>1 DEF SeedInv
  <2>3. buf[Other] = seeded
    BY <1>0, <2>2 DEF Texts
  <2> QED  BY <1>0, <2>1, <2>3 DEF SeedInv, NoTick
<1>3. CASE Seed
  BY <1>0, <1>3 DEF Seed, SeedInv
<1>4. CASE TakeKey \/ CopyOut \/ ApplyKey \/ WipeKey \/ TakeCfg \/ ExchangeField \/ NoSeed
  <2>1. tick.pc # "assign" /\ tick'.pc # "assign" /\ UNCHANGED <<seeded, buf, active>>
    BY <1>4 DEF TakeKey, CopyOut, ApplyKey, WipeKey, TakeCfg, ExchangeField, NoSeed, Ticks, NoTick,
                slotVars, MailTypesAll, MailTypes
  <2> QED  BY <2>1 DEF SeedInv
<1>5. CASE PostKey \/ PostCfg \/ ReadIndex \/ Serves
  <2>1. UNCHANGED <<tick, seeded, buf, active>>
    BY <1>5 DEF PostKey, PostCfg, ReadIndex, Serves, CopyKey, RaiseKey, StoreCfg, RaiseCfg,
                ReadText, Send, slotVars
  <2> QED  BY <2>1 DEF SeedInv, Other
<1> QED  BY <1>1, <1>2, <1>3, <1>4, <1>5 DEF MailNext, Runs

(* For any number of fields and posts: no post is left out of the form, and *)
(* none half, once the posts, the drain and the publish are through.        *)
THEOREM FormsShowWhatWasPosted == MailSpec => []SeedIsCurrent
<1>1. MailInit => SeedInv
  BY DEF MailInit, SeedInv, NoTick
<1>2. MailTypesAll /\ SeedInv /\ [MailNext]_mailVars => SeedInv'
  <2>1. CASE UNCHANGED mailVars
    BY <2>1 DEF SeedInv, Other, mailVars, slotVars
  <2>2. CASE MailTypesAll /\ SeedInv /\ MailNext
    BY <2>2, SeedStep
  <2> QED  BY <2>1, <2>2
<1>3. SeedInv /\ PostsAreApplied => SeedIsCurrent
  BY DEF SeedInv, PostsAreApplied, CfgIsApplied, SeedIsCurrent, Moved
<1> QED  BY <1>1, <1>2, <1>3, MailTypesHold, MailIsDelivered, PTL DEF MailSpec
=============================================================================
