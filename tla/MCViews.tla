------------------------------ MODULE MCViews ------------------------------
(* Small instances of what the user looks at: the log card of a dashboard,  *)
(* the dashboards that compete for the device, and the device's own screen. *)
(* They share no variable; each behaviour moves one of them, from the one   *)
(* initial state of those that stand still.                                 *)
EXTENDS LogPage, Owners, Display

CONSTANTS p1, p2

TwoLabels == {"Bulk", "Float"}
EveryFault == FaultKinds

TwoPages == {p1, p2}
LostOrRestart == {"lost", "restart"}

ThreeScreens == <<0, 3, 5>>
Holds == <<1, 2, 3>>
HalfSeconds == [row \in 0..2 |-> Holds[row + 1]]

VARIABLE part

viewVars == <<vars, ownerVars, displayVars, part>>

ViewInit ==
  /\ Init /\ OwnerInit /\ DisplayInit
  /\ part \in {"log", "owners", "display"}
  /\ part # "display" => ~ap /\ ~netwatch_disabled

ViewNext ==
  /\ UNCHANGED part
  /\ \/ part = "log" /\ Next /\ UNCHANGED <<ownerVars, displayVars>>
     \/ part = "owners" /\ OwnerNext /\ UNCHANGED <<vars, displayVars>>
     \/ part = "display" /\ DisplayNext /\ UNCHANGED <<vars, ownerVars>>

(* Fairness of the part that moves.                                         *)
ViewSpec ==
  /\ ViewInit /\ [][ViewNext]_viewVars
  /\ WF_vars(part = "log" /\ BuildLive)
  /\ WF_vars(part = "log" /\ PollLive) /\ WF_vars(part = "log" /\ FetchLog)
  /\ WF_ownerVars(part = "owners" /\ BuildOwner)
  /\ \A p \in Pages : /\ WF_ownerVars(part = "owners" /\ Reconnect(p))
                      /\ WF_ownerVars(part = "owners" /\ (Begin(p) \/ Poll(p)))
                      /\ WF_ownerVars(part = "owners" /\ (Claim(p) \/ Heed(p)))

(* The types of the three parts, with their bounds: the ring keeps CAP      *)
(* events, a page one poll, and the highlight one of the four rows.         *)
ViewTypeOK == TypeOK /\ OwnerTypeOK /\ DisplayTypeOK
=============================================================================
