------------------------------ MODULE WebProofs ------------------------------
(***************************************************************************)
(* Theorems about the list of nearby devices, for any number of devices    *)
(* around and any size of the table and of the list; and, from them and    *)
(* those about the event streams and the mailboxes, about the three parts  *)
(* as MCWeb composes them.                                                 *)
(***************************************************************************)
EXTENDS MCWeb, EventSourceProofs, MailboxesProofs, FiniteSetTheorems, TLAPS

-----------------------------------------------------------------------------
(* The size of the table.                                                  *)

LEMMA DevicesAreFinite ==
  ASSUME NEW S \in SUBSET Devices
  PROVE  IsFiniteSet(S) /\ Cardinality(S) \in Nat
BY ScanAssumption, FS_Subset, FS_CardinalityType

(* With one entry taken out when the table is full, one more fits.          *)
LEMMA TableFits ==
  ASSUME devices \subseteq Devices, Cardinality(devices) <= MAX_DEVICES,
         NEW d \in Devices, NEW gone \in IF Full(d) THEN {{e} : e \in Victims} ELSE {{}}
  PROVE  Cardinality((devices \ gone) \cup {d}) <= MAX_DEVICES
<1>1. MAX_DEVICES \in Nat /\ IsFiniteSet(devices) /\ Cardinality(devices) \in Nat
  BY ScanAssumption, DevicesAreFinite
<1>2. CASE Full(d)
  <2>1. PICK e \in Victims : gone = {e}
    BY <1>2
  <2>2. e \in devices
    BY <2>1 DEF Victims, Stalest
  <2>3. Cardinality(devices \ {e}) = Cardinality(devices) - 1 /\ IsFiniteSet(devices \ {e})
    BY <1>1, <2>2, FS_RemoveElement
  <2> DEFINE rest == devices \ {e}
  <2>4. Cardinality(rest \cup {d}) \in {Cardinality(rest), Cardinality(rest) + 1}
    <3>1. IsFiniteSet(rest)
      BY <2>3
    <3> HIDE DEF rest
    <3> QED  BY <3>1, FS_AddElement
  <2>5. Cardinality(rest) = Cardinality(devices) - 1
    BY <2>3
  <2> QED  BY <1>1, <2>1, <2>4, <2>5
<1>3. CASE ~Full(d) /\ d \in devices
  BY <1>3
<1>4. CASE ~Full(d) /\ d \notin devices
  <2>1. Cardinality(devices) < MAX_DEVICES
    BY <1>1, <1>4, ScanAssumption DEF Full
  <2>2. Cardinality(devices \cup {d}) = Cardinality(devices) + 1
    BY <1>1, <1>4, FS_AddElement
  <2> QED  BY <1>1, <1>4, <2>1, <2>2
<1> QED  BY <1>2, <1>3, <1>4

-----------------------------------------------------------------------------
(* The inductive invariant: an entry is as old as what was last heard of    *)
(* its device, and while chargers cannot fill the table, one that spoke of  *)
(* itself not too long ago is in it, with its flag.                         *)

Heard == \A d \in devices : heard[d] = age[d]

SpokenFor ==
  Cardinality(Chargers) < MAX_DEVICES =>
    \A d \in Devices : said[d] \in 0..MaxAge =>
      d \in victron /\ heard[d] \in 0..said[d]

ScanInv == ScanTypeOK /\ Heard /\ SpokenFor

LEMMA ScanInitially == ScanInit => ScanInv
<1> SUFFICES ASSUME ScanInit PROVE ScanInv
  OBVIOUS
<1>1. Cardinality({}) = 0 /\ MAX_DEVICES \in Nat /\ MaxAge \in Nat /\ Window \in Nat
  BY FS_EmptySet, ScanAssumption
<1>2. ScanTypeOK
  BY <1>1 DEF ScanInit, ScanTypeOK, Never, TooOld
<1>3. Heard /\ SpokenFor
  BY <1>1 DEF ScanInit, Heard, SpokenFor, Never
<1> QED  BY <1>2, <1>3 DEF ScanInv

(* A full table of Victron entries would take more chargers than there are. *)
LEMMA VictronStays ==
  ASSUME ScanTypeOK, Cardinality(Chargers) < MAX_DEVICES,
         NEW d \in Devices, Full(d)
  PROVE  Victims \subseteq devices \ victron
<1>1. Cardinality(devices) >= MAX_DEVICES
  BY DEF Full
<1>2. devices \subseteq Devices /\ Chargers \subseteq Devices
      /\ victron \subseteq Chargers
  BY DEF ScanTypeOK, Devices
<1>3. /\ Cardinality(devices) \in Nat /\ Cardinality(Chargers) \in Nat
      /\ IsFiniteSet(Chargers) /\ MAX_DEVICES \in Nat
  BY <1>2, DevicesAreFinite, ScanAssumption
<1>4. ~(devices \subseteq Chargers)
  BY <1>1, <1>3, FS_Subset
<1> QED  BY <1>2, <1>4 DEF Victims, Stalest

LEMMA ScanStep == ScanInv /\ [ScanNext]_scanVars => ScanInv'
<1> SUFFICES ASSUME ScanInv, [ScanNext]_scanVars PROVE ScanInv'
  OBVIOUS
<1> USE DEF ScanInv
<1>0. /\ MAX_DEVICES \in Nat /\ MaxAge \in Nat /\ Window \in Nat \ {0}
      /\ Chargers \subseteq Devices
      /\ Cardinality(Chargers) \in Nat /\ TooOld \in Nat
  BY ScanAssumption, DevicesAreFinite DEF Devices, TooOld
<1>1. CASE PressScan
  <2>1. Cardinality({}) = 0
    BY FS_EmptySet
  <2>2. ScanTypeOK'
    BY <1>0, <1>1, <2>1 DEF PressScan, ScanTypeOK, Never, TooOld
  <2>3. Heard' /\ SpokenFor'
    BY <1>0, <1>1 DEF PressScan, Heard, SpokenFor, Never
  <2> QED  BY <2>2, <2>3
<1>2. ASSUME NEW d \in Devices, NEW vic \in BOOLEAN, Hear(d, vic)
      PROVE  ScanInv'
  <2>1. PICK gone \in IF Full(d) THEN {{e} : e \in Victims} ELSE {{}} :
          /\ devices' = (devices \ gone) \cup {d}
          /\ victron' = (victron \ gone) \cup (IF vic THEN {d} ELSE {})
          /\ age' = [e \in Devices |-> IF e \in gone \cup {d} THEN 0 ELSE age[e]]
    BY <1>2 DEF Hear
  <2>2. /\ heard' = [heard EXCEPT ![d] = 0]
        /\ said' = IF vic THEN [said EXCEPT ![d] = 0] ELSE said
        /\ open' = open /\ slot_scan' = slot_scan
        /\ vic => d \in Chargers
    BY <1>2 DEF Hear
  <2>3. Cardinality(devices') <= MAX_DEVICES
    BY <2>1, TableFits DEF ScanTypeOK
  <2>4. /\ devices' \subseteq Devices /\ victron' \subseteq devices' \cap Chargers
        /\ age' \in [Devices -> 0..TooOld]
    BY <1>0, <2>1, <2>2 DEF ScanTypeOK
  <2>5. heard' \in [Devices -> Never..TooOld] /\ said' \in [Devices -> Never..TooOld]
    BY <1>0, <2>2 DEF ScanTypeOK, Never
  <2>6. ScanTypeOK'
    BY <2>2, <2>3, <2>4, <2>5 DEF ScanTypeOK
  <2>7. Heard'
    BY <2>1, <2>2 DEF Heard, ScanTypeOK
  <2>8. ASSUME Cardinality(Chargers) < MAX_DEVICES,
               NEW e \in Devices, said'[e] \in 0..MaxAge
        PROVE  e \in victron' /\ heard'[e] \in 0..said'[e]
    <3>1. CASE e = d /\ vic
      BY <3>1, <2>1, <2>2 DEF ScanTypeOK
    <3>2. CASE ~(e = d /\ vic)
      <4>1. said'[e] = said[e]
        BY <3>2, <2>2 DEF ScanTypeOK
      <4>2. e \in victron /\ heard[e] \in 0..said[e]
        BY <4>1, <2>8 DEF SpokenFor
      <4>3. e \notin gone
        BY <2>1, <2>8, <4>2, VictronStays
      <4>4. heard'[e] \in 0..said[e]
        BY <2>2, <4>1, <4>2, <2>8 DEF ScanTypeOK
      <4> QED  BY <2>1, <4>1, <4>2, <4>3, <4>4
    <3> QED  BY <3>1, <3>2
  <2> QED  BY <2>6, <2>7, <2>8 DEF SpokenFor
<1>3. CASE BuildList
  <2>1. /\ devices' = Pruned /\ victron' = victron \cap Pruned
        /\ age' = [d \in Devices |-> IF d \in Pruned THEN age[d] ELSE 0]
        /\ slot_scan' \in Lists(Pruned)
        /\ open' = open /\ heard' = heard /\ said' = said
    BY <1>3 DEF BuildList
  <2>2. Pruned \subseteq devices
    BY DEF Pruned
  <2>3. Cardinality(Pruned) <= Cardinality(devices)
    BY <2>2, DevicesAreFinite, FS_Subset DEF ScanTypeOK
  <2>4. Cardinality(Pruned) <= MAX_DEVICES
    BY <1>0, <2>2, <2>3, DevicesAreFinite DEF ScanTypeOK
  <2>5. ScanTypeOK'
    BY <1>0, <2>1, <2>2, <2>4 DEF ScanTypeOK, Lists
  <2>6. Heard'
    BY <2>1, <2>2 DEF Heard, ScanTypeOK
  <2>7. ASSUME NEW d \in Devices, d \in victron, heard[d] \in 0..said[d], said[d] \in 0..MaxAge
        PROVE  d \in Pruned
    BY <1>0, <2>7 DEF Pruned, Heard, ScanTypeOK
  <2>8. SpokenFor'
    BY <2>1, <2>7 DEF SpokenFor
  <2> QED  BY <2>5, <2>6, <2>8
<1>4. CASE ScanTime
  <2>1. /\ age' = [d \in Devices |-> IF d \in devices THEN Older(age[d]) ELSE 0]
        /\ heard' = [d \in Devices |-> Passed(heard[d])]
        /\ said' = [d \in Devices |-> Passed(said[d])]
        /\ open' = IF open > 0 THEN open - 1 ELSE 0
        /\ devices' = devices /\ victron' = victron /\ slot_scan' = slot_scan
    BY <1>4 DEF ScanTime
  <2>2. ASSUME NEW n \in 0..TooOld
        PROVE  Older(n) \in 0..TooOld /\ Passed(n) = Older(n)
    BY <1>0 DEF Older, Passed, Never
  <2>3. ASSUME NEW n \in Never..TooOld PROVE Passed(n) \in Never..TooOld
    BY <1>0 DEF Older, Passed, Never
  <2>4. ScanTypeOK'
    BY <1>0, <2>1, <2>2, <2>3 DEF ScanTypeOK
  <2>5. Heard'
    BY <2>1, <2>2 DEF Heard, ScanTypeOK
  <2>6. ASSUME NEW d \in Devices, Passed(said[d]) \in 0..MaxAge
        PROVE  /\ said[d] \in 0..MaxAge
               /\ heard[d] \in 0..said[d] => Passed(heard[d]) \in 0..Passed(said[d])
    <3>1. said[d] \in Never..TooOld /\ heard[d] \in Never..TooOld
      BY DEF ScanTypeOK
    <3> QED  BY <1>0, <2>6, <3>1 DEF Passed, Older, Never, TooOld
  <2>7. SpokenFor'
    BY <2>1, <2>6 DEF SpokenFor
  <2> QED  BY <2>4, <2>5, <2>7
<1>5. CASE UNCHANGED scanVars
  BY <1>5 DEF scanVars, ScanTypeOK, Heard, SpokenFor
<1> QED  BY <1>1, <1>2, <1>3, <1>4, <1>5 DEF ScanNext

LEMMA ScanInvariant == ScanSpec => []ScanInv
BY ScanInitially, ScanStep, PTL DEF ScanSpec

-----------------------------------------------------------------------------
(* The theorems.                                                           *)

(* The table of advertisements never outgrows MAX_DEVICES.                  *)
THEOREM TableIsBounded == ScanSpec => []ScanTypeOK
<1>1. ScanInv => ScanTypeOK
  BY DEF ScanInv
<1> QED  BY <1>1, ScanInvariant, PTL

(* What is published was heard in this window, and lately.                  *)
THEOREM ListsAreOfThisWindow == ScanSpec => ListIsOfThisWindow
<1>1. ScanInv /\ [ScanNext]_scanVars =>
        [BuildList => \A d \in slot_scan' : heard[d] \in 0..MaxAge]_scanVars
  <2> SUFFICES ASSUME ScanInv, BuildList, NEW d \in slot_scan' PROVE heard[d] \in 0..MaxAge
    OBVIOUS
  <2>1. d \in Pruned
    BY DEF BuildList, Lists
  <2> QED  BY <2>1, ScanAssumption DEF ScanInv, ScanTypeOK, Heard, Pruned, TooOld
<1> QED  BY <1>1, ScanInvariant, PTL DEF ScanSpec, ListIsOfThisWindow

(* The list puts the Victron entries first.                                 *)
LEMMA VictronFirst ==
  ASSUME ScanTypeOK, Cardinality(Chargers) <= ListCap,
         NEW L \in Lists(Pruned), NEW d \in Pruned, d \in victron
  PROVE  d \in L
<1> SUFFICES ASSUME d \notin L PROVE FALSE
  OBVIOUS
<1>1. /\ L \subseteq Pruned
      /\ Cardinality(L) = IF Cardinality(Pruned) < ListCap THEN Cardinality(Pruned) ELSE ListCap
      /\ \A c \in L, e \in Pruned \ L : e \in victron => c \in victron
  BY DEF Lists
<1>2. Pruned \subseteq Devices /\ L \subseteq Devices /\ victron \subseteq Chargers
      /\ Chargers \subseteq Devices
  BY <1>1 DEF Pruned, ScanTypeOK, Devices
<1>3. /\ IsFiniteSet(L) /\ IsFiniteSet(Pruned) /\ IsFiniteSet(Chargers)
      /\ Cardinality(L) \in Nat /\ Cardinality(Pruned) \in Nat /\ Cardinality(Chargers) \in Nat
      /\ ListCap \in Nat
  BY <1>2, DevicesAreFinite, ScanAssumption
<1>4. L \cup {d} \subseteq Chargers
  BY <1>1, <1>2
<1>5. Cardinality(L \cup {d}) = Cardinality(L) + 1
  BY <1>3, FS_AddElement
<1>6. Cardinality(L) < ListCap
  BY <1>3, <1>4, <1>5, FS_Subset
<1>7. Cardinality(L \cup {d}) <= Cardinality(Pruned)
  BY <1>1, <1>3, FS_Subset
<1> QED  BY <1>1, <1>3, <1>5, <1>6, <1>7

(* A charger that has spoken of itself lately is on every list.             *)
THEOREM ChargersAreListed == ScanSpec => ChargerIsListed
<1>1. ScanInv /\ [ScanNext]_scanVars =>
        [BuildList /\ Cardinality(Chargers) < MAX_DEVICES /\ Cardinality(Chargers) <= ListCap
           => \A d \in Devices : said[d] \in 0..MaxAge => d \in slot_scan']_scanVars
  <2> SUFFICES ASSUME ScanInv, BuildList,
                      Cardinality(Chargers) < MAX_DEVICES, Cardinality(Chargers) <= ListCap,
                      NEW d \in Devices, said[d] \in 0..MaxAge
               PROVE  d \in slot_scan'
    OBVIOUS
  <2>1. d \in victron /\ d \in devices /\ age[d] \in 0..said[d] /\ age[d] \in Nat
    BY DEF ScanInv, SpokenFor, Heard, ScanTypeOK
  <2>2. d \in Pruned
    BY <2>1, ScanAssumption DEF Pruned
  <2> QED  BY <2>1, <2>2, VictronFirst DEF ScanInv, BuildList
<1> QED  BY <1>1, ScanInvariant, PTL DEF ScanSpec, ChargerIsListed

-----------------------------------------------------------------------------
(* The three parts together.  A step of one part leaves the variables of   *)
(* the others alone, so that the composition implements each of the three  *)
(* specifications.                                                         *)

LEMMA WebStepsAreOfOnePart ==
  ASSUME [WebNext]_webVars
  PROVE  [StreamNext]_streamVars /\ [MailNext]_mailVars /\ [ScanNext]_scanVars
<1>1. CASE UNCHANGED webVars
  BY <1>1 DEF webVars
<1>2. CASE WebNext
  BY <1>2 DEF WebNext
<1> QED  BY <1>1, <1>2

(* What the browser reaches on the device, streams, mailboxes and scan, is  *)
(* a behaviour of each of the three for itself.                             *)
THEOREM WebImplementsItsParts == WebSpec => StreamSpec /\ MailSpec /\ ScanSpec
<1>1. WebInit => StreamInit /\ MailInit /\ ScanInit
  BY DEF WebInit
<1> QED
  BY <1>1, WebStepsAreOfOnePart, PTL DEF WebSpec, StreamSpec, MailSpec, ScanSpec

(* For any number of viewers, posts and devices, whatever the three parts   *)
(* do: each keeps its types and its bounds.                                 *)
THEOREM WebTypesAreKept == WebSpec => []WebTypeOK
<1>1. StreamTypeOK /\ MailTypeOK /\ ScanTypeOK => WebTypeOK
  BY DEF WebTypeOK
<1> QED
  BY <1>1, WebImplementsItsParts, StreamTypesAreKept, MailTypesAreKept, TableIsBounded, PTL
=============================================================================
