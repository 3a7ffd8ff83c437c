------------------------------- MODULE Owners -------------------------------
(***************************************************************************)
(* Which of the open dashboards may keep an event stream, on a board that  *)
(* serves only one.  A page claims ownership when it is loaded, shown or   *)
(* tapped; the device counts the claims and mirrors the count in           *)
(* /wd/live.json, and a page that polls a higher count than its own stands *)
(* down.  A page sends its requests one after the other, so that a request *)
(* and what the page makes of the answer are one step.                     *)
(***************************************************************************)
EXTENDS Integers, Sequences

CONSTANTS
  Pages,
  Mishaps,    (* what may go wrong: "lost" requests, a "restart"           *)
  MaxActs     (* bound on what the users do, and on the mishaps            *)

ASSUME OwnerAssumption ==
  Mishaps \subseteq {"lost", "restart"} /\ MaxActs \in Nat

NoOwner == -1      (* no answer yet: myOwner, or an empty slot             *)

VARIABLES
  owner_epoch,
  live,            (* "owner" of the published /wd/live.json               *)
  boots,           (* restarts so far; an uptime that dropped shows one    *)
  page,            (* the variables of a dashboard, and in "due" how many  *)
                   (* calls of connect() its timers hold                   *)
  wdQ,             (* its queue of requests                                *)
  acts,
  newest,          (* only for the properties: who was served a claim last *)
  disturbed        (* and whether a mishap has happened                    *)

ownerVars == <<owner_epoch, live, boots, page, wdQ, acts, newest, disturbed>>

NoPage == [up |-> FALSE, begun |-> FALSE, hidden |-> FALSE, dormant |-> FALSE,
           es |-> FALSE, due |-> 0, mine |-> NoOwner, seen |-> NoOwner]

OwnerInit ==
  /\ owner_epoch = 0 /\ live = NoOwner /\ boots = 0
  /\ page = [p \in Pages |-> NoPage] /\ wdQ = [p \in Pages |-> <<>>]
  /\ acts = 0 /\ newest = {} /\ disturbed = FALSE

Act == acts < MaxActs /\ acts' = acts + 1
Enqueued(p, job) == wdQ' = [wdQ EXCEPT ![p] = Append(@, job)]
Visible(p) == page[p].up /\ ~page[p].hidden

-----------------------------------------------------------------------------
(* The users.                                                              *)

(* A page that loads sets a timer for its first connect().                  *)
Load(p) ==
  /\ ~page[p].up /\ Act
  /\ page' = [page EXCEPT ![p] = [NoPage EXCEPT !.up = TRUE, !.due = 1]]
  /\ UNCHANGED <<owner_epoch, live, boots, wdQ, newest, disturbed>>

Leave(p) ==
  /\ page[p].up /\ Act
  /\ page' = [page EXCEPT ![p] = NoPage]
  /\ wdQ' = [wdQ EXCEPT ![p] = <<>>]
  /\ UNCHANGED <<owner_epoch, live, boots, newest, disturbed>>

(* visibilitychange: what waits in the queue is still sent.                 *)
Hide(p) ==
  /\ Visible(p) /\ Act
  /\ page' = [page EXCEPT ![p].hidden = TRUE, ![p].es = FALSE]
  /\ UNCHANGED <<owner_epoch, live, boots, wdQ, newest, disturbed>>

Show(p) ==
  /\ page[p].hidden /\ Act
  /\ page' = [page EXCEPT ![p].hidden = FALSE, ![p].es = TRUE]
  /\ Enqueued(p, "claim")
  /\ UNCHANGED <<owner_epoch, live, boots, newest, disturbed>>

Tap(p) ==
  /\ Visible(p) /\ page[p].dormant /\ Act
  /\ Enqueued(p, "claim")
  /\ UNCHANGED <<owner_epoch, live, boots, page, newest, disturbed>>

(* The Save button, which a page that stood down offers as well: the stream *)
(* is closed, and opened again 1.6 s later.  The button stays locked for    *)
(* 1.5 s, so that two timers are the most there are.                        *)
Save(p) ==
  /\ Visible(p) /\ page[p].begun /\ page[p].due < 2 /\ Act
  /\ page' = [page EXCEPT ![p].es = FALSE, ![p].due = @ + 1]
  /\ UNCHANGED <<owner_epoch, live, boots, wdQ, newest, disturbed>>

-----------------------------------------------------------------------------
(* A page's timers and requests.                                           *)

(* connect() off a timer: 0.5 s after the load and 1.6 s after a save,      *)
(* whether or not the page has been hidden or has stood down by then.       *)
Reconnect(p) ==
  /\ page[p].due > 0
  /\ page' = [page EXCEPT ![p].es = TRUE, ![p].due = @ - 1]
  /\ UNCHANGED <<owner_epoch, live, boots, wdQ, acts, newest, disturbed>>

(* 0.7 s after the load: a page that is hidden by then has its claim        *)
(* dropped.                                                                 *)
Begin(p) ==
  /\ page[p].up /\ ~page[p].begun /\ page[p].due = 0
  /\ page' = [page EXCEPT ![p].begun = TRUE]
  /\ wdQ' = IF page[p].hidden THEN wdQ
            ELSE [wdQ EXCEPT ![p] = @ \o <<"claim", "live">>]
  /\ UNCHANGED <<owner_epoch, live, boots, acts, newest, disturbed>>

(* The 8 s poll: not while hidden or dormant, and only one at a time.       *)
PollWaits(p) == \E i \in DOMAIN wdQ[p] : wdQ[p][i] = "live"

Poll(p) ==
  /\ Visible(p) /\ page[p].begun /\ ~page[p].dormant /\ ~PollWaits(p)
  /\ Enqueued(p, "live")
  /\ UNCHANGED <<owner_epoch, live, boots, page, acts, newest, disturbed>>

Asks(p, job) == wdQ[p] # <<>> /\ Head(wdQ[p]) = job
Answered(p) == wdQ' = [wdQ EXCEPT ![p] = Tail(@)]

(* GET /wd/claim and claim(): the answer wakes a dormant page.              *)
Claim(p) ==
  /\ Asks(p, "claim") /\ Answered(p)
  /\ owner_epoch' = owner_epoch + 1
  /\ page' = [page EXCEPT ![p].mine = owner_epoch', ![p].dormant = FALSE,
                          ![p].es = @ \/ (page[p].dormant /\ ~page[p].hidden)]
  /\ newest' = {p}
  /\ UNCHANGED <<live, boots, acts, disturbed>>

(* GET /wd/live.json and pollOwner().                                       *)
OvertakenOrEven(p) == page[p].mine # NoOwner /\ live >= page[p].mine  \* mutant
Overtaken(p) == page[p].mine # NoOwner /\ live > page[p].mine

Restarted(p) == page[p].seen # NoOwner /\ page[p].seen # boots

StayOpen(p) == [page[p] EXCEPT !.dormant = TRUE]                      \* mutant
StandDown(p) == [page[p] EXCEPT !.dormant = TRUE, !.es = FALSE]

Heed(p) ==
  /\ Asks(p, "live") /\ Answered(p)
  /\ page' = IF live = NoOwner THEN page
             ELSE IF Overtaken(p) THEN [page EXCEPT ![p] = StandDown(p)]
             ELSE [page EXCEPT ![p].es = @ \/ Restarted(p), ![p].seen = boots]
  /\ UNCHANGED <<owner_epoch, live, boots, acts, newest, disturbed>>

(* A request that fails, before or after the device has served it.          *)
Lose(p) ==
  /\ "lost" \in Mishaps /\ wdQ[p] # <<>> /\ Act /\ Answered(p)
  /\ \/ UNCHANGED owner_epoch
     \/ Head(wdQ[p]) = "claim" /\ owner_epoch' = owner_epoch + 1
  /\ disturbed' = TRUE
  /\ UNCHANGED <<live, boots, page, newest>>

-----------------------------------------------------------------------------
(* The device.                                                             *)

(* The 6 s interval.                                                        *)
BuildOwner ==
  /\ live' = owner_epoch
  /\ UNCHANGED <<owner_epoch, boots, page, wdQ, acts, newest, disturbed>>

Restart ==
  /\ "restart" \in Mishaps /\ Act
  /\ owner_epoch' = 0 /\ live' = NoOwner /\ boots' = boots + 1
  /\ newest' = {} /\ disturbed' = TRUE
  /\ UNCHANGED <<page, wdQ>>

-----------------------------------------------------------------------------
OwnerNext ==
  \/ \E p \in Pages : \/ Load(p) \/ Leave(p) \/ Hide(p) \/ Show(p) \/ Tap(p) \/ Save(p)
                      \/ Reconnect(p) \/ Begin(p) \/ Poll(p) \/ Claim(p) \/ Heed(p) \/ Lose(p)
  \/ BuildOwner \/ Restart

OwnerSpec == OwnerInit /\ [][OwnerNext]_ownerVars

(* The interval of the device, the timers of a page and its queue.          *)
OwnerFairness ==
  /\ WF_ownerVars(BuildOwner)
  /\ \A p \in Pages : /\ WF_ownerVars(Reconnect(p))
                      /\ WF_ownerVars(Begin(p) \/ Poll(p))
                      /\ WF_ownerVars(Claim(p) \/ Heed(p))

OwnerFairSpec == OwnerSpec /\ OwnerFairness

-----------------------------------------------------------------------------
(* Properties.                                                              *)

Counts == Nat \cup {NoOwner}

(* Types; polls do not pile up in a queue that is slow to be served.        *)
OwnerTypeOK ==
  /\ owner_epoch \in Nat /\ live \in Counts /\ boots \in Nat
  /\ page \in [Pages -> [up : BOOLEAN, begun : BOOLEAN, hidden : BOOLEAN,
                         dormant : BOOLEAN, es : BOOLEAN, due : 0..2,
                         mine : Counts, seen : Counts]]
  /\ wdQ \in [Pages -> Seq({"claim", "live"})]
  /\ \A p \in Pages : \A i, j \in 1..Len(wdQ[p]) :
       wdQ[p][i] = "live" /\ wdQ[p][j] = "live" => i = j
  /\ acts \in 0..MaxActs /\ newest \subseteq Pages /\ disturbed \in BOOLEAN

(* The page that claimed last is not sent to sleep, whatever the others do  *)
(* and however old the count is that it polls.                              *)
NewestIsAwake == ~disturbed => \A p \in newest : ~page[p].dormant

(* No page that stood down has a timer left that opens its stream.          *)
NoTimerWakes == \A p \in Pages : page[p].dormant => page[p].due = 0

(* When the users are done, of the pages in view exactly the one that       *)
(* claimed last keeps a stream, if no request was lost, the device did not  *)
(* restart, and no page stands down on a save or saves while it stands      *)
(* down.                                                                    *)
OneKeepsTheStream ==
  [](~disturbed /\ NoTimerWakes) =>
    <>[](\A p \in Pages : Visible(p) => (page[p].es <=> p \in newest))

(* "superseded by a newer tab: stay quiet": when the users are done, no     *)
(* page in view but the one that claimed last keeps a stream, also when one *)
(* of the others has saved.                                                 *)
OthersStandDown ==
  [](~disturbed) => <>[](\A p \in Pages : Visible(p) /\ p \notin newest => ~page[p].es)
=============================================================================
