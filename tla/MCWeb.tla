------------------------------- MODULE MCWeb -------------------------------
(* Small instances of what stands between the browser and the loop.  The    *)
(* three parts share no variable, so that a property of one holds in every  *)
(* interleaving with the others as soon as it holds while they stand still: *)
(* each behaviour moves one part.                                           *)
EXTENDS EventSource, Mailboxes, BleScan

CONSTANTS v1, v2, s1, c1, c2, x1, x2

TwoViewers == {v1, v2}
OneSource == {s1}
TwoChargers == {c1, c2}
TwoStrangers == {x1, x2}

VARIABLE part

webVars == <<streamVars, mailVars, scanVars, part>>

WebInit ==
  /\ StreamInit /\ MailInit /\ ScanInit
  /\ part \in {"events", "mail", "scan"}

WebNext ==
  /\ UNCHANGED part
  /\ \/ part = "events" /\ StreamNext /\ UNCHANGED <<mailVars, scanVars>>
     \/ part = "mail" /\ MailNext /\ UNCHANGED <<streamVars, scanVars>>
     \/ part = "scan" /\ ScanNext /\ UNCHANGED <<streamVars, mailVars>>

(* Fairness of the part that moves; a stream that has not begun owes none.  *)
WebSpec ==
  /\ WebInit /\ [][WebNext]_webVars
  /\ StreamFairness
  /\ WF_mailVars(part = "mail" /\ Serves) /\ WF_mailVars(part = "mail" /\ Runs)

(* The types of the three parts, with their bounds: no event waits twice,   *)
(* and no more devices are kept than the table holds.                       *)
WebTypeOK == StreamTypeOK /\ MailTypeOK /\ ScanTypeOK
=============================================================================
