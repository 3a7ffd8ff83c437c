------------------------------ MODULE BleScan ------------------------------
(***************************************************************************)
(* The list of nearby devices behind the pairing page.  A press of "Scan"  *)
(* opens a window in which advertisements fill a small table; every few    *)
(* seconds of the window the table is pruned by age and published.  Of an  *)
(* entry only the age and the Victron flag matter here; what a device says *)
(* below RSSI_FLOOR never reaches the table.                               *)
(***************************************************************************)
EXTENDS Integers, FiniteSets

CONSTANTS
  Chargers, Strangers,   (* the devices around                             *)
  MAX_DEVICES,
  ListCap,               (* entries in the JSON, 20                        *)
  MaxAge,                (* 12 s, in units of the model                    *)
  Window                 (* 20 s, in units of the model                    *)

Devices == Chargers \cup Strangers

ASSUME ScanAssumption ==
  /\ Chargers \cap Strangers = {} /\ IsFiniteSet(Devices)
  /\ MAX_DEVICES \in Nat \ {0} /\ ListCap \in Nat \ {0}
  /\ MaxAge \in Nat /\ Window \in Nat \ {0}

VARIABLES
  devices,     (* the table: the devices that have an entry                *)
  age,         (* time since an entry was written, up to TooOld            *)
  victron,     (* the entries flagged as Victron                           *)
  open,        (* what is left of the scan window                          *)
  slot_scan,   (* the devices on the published list                        *)
  (* Only for the properties: what was heard since the press.              *)
  heard,       (* time since an advertisement was let in, up to TooOld     *)
  said         (* time since one that told it is a charger                 *)

scanVars == <<devices, age, victron, open, slot_scan, heard, said>>

TooOld == MaxAge + 1
Older(n) == IF n < TooOld THEN n + 1 ELSE n
Never == -1
Passed(n) == IF n = Never THEN Never ELSE Older(n)

ScanInit ==
  /\ devices = {} /\ age = [d \in Devices |-> 0] /\ victron = {}
  /\ open = 0 /\ slot_scan = {}
  /\ heard = [d \in Devices |-> Never] /\ said = heard

(* The button: the table is emptied, the published list is not.             *)
PressScan ==
  /\ devices' = {} /\ victron' = {} /\ age' = [d \in Devices |-> 0]
  /\ open' = Window
  /\ heard' = [d \in Devices |-> Never] /\ said' = heard'
  /\ UNCHANGED slot_scan

(* The stalest of the entries that may go: the others before any Victron.   *)
Stalest(S) == {d \in S : \A e \in S : age[e] <= age[d]}
VictimsByAge == Stalest(devices)                                      \* mutant
Victims == IF devices \subseteq victron THEN Stalest(devices)
           ELSE Stalest(devices \ victron)

FullTooLate(d) == d \notin devices /\ Cardinality(devices) > MAX_DEVICES   \* mutant
Full(d) == d \notin devices /\ Cardinality(devices) >= MAX_DEVICES

(* add(), in the window.  A charger says in some advertisements only that   *)
(* it is one; the flag stays.                                               *)
Hear(d, vic) ==
  /\ open > 0 /\ (vic => d \in Chargers)
  /\ \E gone \in IF Full(d) THEN {{e} : e \in Victims} ELSE {{}} :
       /\ devices' = (devices \ gone) \cup {d}
       /\ victron' = (victron \ gone) \cup (IF vic THEN {d} ELSE {})
       /\ age' = [e \in Devices |-> IF e \in gone \cup {d} THEN 0 ELSE age[e]]
  /\ heard' = [heard EXCEPT ![d] = 0]
  /\ said' = IF vic THEN [said EXCEPT ![d] = 0] ELSE said
  /\ UNCHANGED <<open, slot_scan>>

(* to_json: prune, sort, cut.  Signal strength and names order the entries  *)
(* within the two groups.                                                   *)
Pruned == {d \in devices : age[d] <= MaxAge}

Lists(S) ==
  {L \in SUBSET S :
     /\ Cardinality(L) = IF Cardinality(S) < ListCap THEN Cardinality(S) ELSE ListCap
     /\ \A d \in L, e \in S \ L : e \in victron => d \in victron}

BuildList ==
  /\ open > 0
  /\ devices' = Pruned
  /\ victron' = victron \cap Pruned
  /\ age' = [d \in Devices |-> IF d \in Pruned THEN age[d] ELSE 0]
  /\ slot_scan' \in Lists(Pruned)
  /\ UNCHANGED <<open, heard, said>>

(* Time goes by; a build that finds too little heap does nothing else.      *)
ScanTime ==
  /\ open' = IF open > 0 THEN open - 1 ELSE 0
  /\ age' = [d \in Devices |-> IF d \in devices THEN Older(age[d]) ELSE 0]
  /\ heard' = [d \in Devices |-> Passed(heard[d])]
  /\ said' = [d \in Devices |-> Passed(said[d])]
  /\ UNCHANGED <<devices, victron, slot_scan>>

ScanNext ==
  \/ PressScan \/ BuildList \/ ScanTime
  \/ \E d \in Devices, vic \in BOOLEAN : Hear(d, vic)

ScanSpec == ScanInit /\ [][ScanNext]_scanVars

-----------------------------------------------------------------------------
(* Properties.                                                              *)

(* Types; the table never outgrows MAX_DEVICES, whoever is on the air.      *)
ScanTypeOK ==
  /\ devices \subseteq Devices /\ Cardinality(devices) <= MAX_DEVICES
  /\ victron \subseteq devices \cap Chargers
  /\ age \in [Devices -> 0..TooOld]
  /\ open \in 0..Window /\ slot_scan \subseteq Devices
  /\ heard \in [Devices -> Never..TooOld] /\ said \in [Devices -> Never..TooOld]

(* A charger that said what it is since the press, and not too long ago, is *)
(* on every list that is built, however many strangers come and go; unless  *)
(* chargers alone can fill the table or the list.                           *)
ChargerIsListed ==
  [][BuildList /\ Cardinality(Chargers) < MAX_DEVICES /\ Cardinality(Chargers) <= ListCap
       => \A d \in Devices : said[d] \in 0..MaxAge => d \in slot_scan']_scanVars

(* A list shows only who was heard since the button was pressed, and not    *)
(* too long ago.                                                            *)
ListIsOfThisWindow ==
  [][BuildList => \A d \in slot_scan' : heard[d] \in 0..MaxAge]_scanVars
=============================================================================
