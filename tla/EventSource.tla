---------------------------- MODULE EventSource ----------------------------
(***************************************************************************)
(* The event stream of the dashboard, GET /events.  The httpd task admits  *)
(* a viewer, evicting older ones on boards that can hold only MaxViewers,  *)
(* and marks a session dead when its socket closes; loopTask serves the    *)
(* sessions, deletes the dead ones and goes to sleep when none is left.    *)
(* The two meet in the vector of sessions, which no lock guards, in each   *)
(* session's fd and in the flag that wakes the loop.                       *)
(***************************************************************************)
EXTENDS Naturals, FiniteSets, SequencesExt

CONSTANTS
  Viewers,      (* connections to /events, each made at most once          *)
  Sources,      (* the entities whose state is streamed                    *)
  None,         (* no viewer, no event                                     *)
  MaxViewers,   (* WD_SSE_MAX_VIEWERS                                      *)
  MaxFails,     (* MAX_CONSECUTIVE_SEND_FAILURES                           *)
  MaxChanges    (* bound on the state changes of each source               *)

ASSUME StreamAssumption ==
  /\ IsFiniteSet(Viewers) /\ None \notin Viewers \cup Sources
  /\ None \notin [src : Sources \cup {None}, ver : Nat, left : 1..2]
  /\ MaxViewers \in Nat \ {0} /\ MaxFails \in Nat \ {0, 1} /\ MaxChanges \in Nat

VARIABLES
  sock,       (* httpd's side of a connection                              *)
  home,       (* the heap block a viewer's response object was given       *)
  freed,      (* the viewers whose object has been deleted                 *)
  ses,        (* the members of a response object                          *)
  sessions,   (* sessions_                                                 *)
  httpd,      (* the rest of handleRequest the httpd task has yet to do    *)
  loop,       (* how many sessions the pass over sessions_ has behind it   *)
  reap,       (* what is left to do of the removal of a dead session       *)
  awake,      (* WebServer::loop() is enabled                              *)
  pending,    (* pending_enable_loop_                                      *)
  value,      (* the state of a source, as a version number                *)
  torn        (* history: an append has met the pop of a removal           *)

httpVars == <<sock, home, httpd>>
loopVars == <<loop, reap, awake>>
streamVars == <<sock, home, freed, ses, sessions, httpd, loop, reap, awake, pending,
                value, torn>>

Kinds == {"all", "state"}
Deferred == [src : Sources, kind : Kinds]

(* An event in event_buffer_ with what is left of it: 2 while nothing has   *)
(* been sent, 1 after a partial send.                                       *)
Ping == [src |-> None, ver |-> 0, left |-> 2]
Buffers == {None} \cup [src : Sources \cup {None}, ver : 0..MaxChanges, left : 1..2]

Unborn == [fd |-> FALSE, dump |-> {}, queue |-> <<>>, buf |-> None, fails |-> 0,
           got |-> [s \in Sources |-> 0], missed |-> {}]
NoRequest == [pc |-> "idle", who |-> None]

StreamInit ==
  /\ sock = [v \in Viewers |-> "none"] /\ home = [v \in Viewers |-> None]
  /\ freed = {} /\ ses = [v \in Viewers |-> Unborn] /\ sessions = <<>>
  /\ httpd = NoRequest /\ loop = 0 /\ reap = "no" /\ awake = FALSE /\ pending = FALSE
  /\ value = [s \in Sources |-> 0] /\ torn = FALSE

Alive == {v \in Viewers : home[v] # None /\ v \notin freed}

-----------------------------------------------------------------------------
(* The members of one session.  Each operator gives the set of states a    *)
(* call may leave the session in, for all that the socket may answer.      *)

Sent(x) ==
  [x EXCEPT !.buf = None, !.fails = 0,
            !.got = [s \in Sources |-> IF s = x.buf.src THEN x.buf.ver ELSE @[s]]]

(* The socket takes nothing: after MaxFails times in a row the session      *)
(* gives itself up.  What else a dead session holds is never looked at.     *)
RefusedForever(x) == [x EXCEPT !.fails = IF @ < MaxFails THEN @ + 1 ELSE @]   \* mutant

Refused(x) ==
  IF x.fails + 1 < MaxFails THEN [x EXCEPT !.fails = @ + 1]
  ELSE [Unborn EXCEPT !.dump = x.dump]

(* process_buffer_                                                          *)
Flushes(v, x) ==
  IF x.buf = None \/ ~x.fd \/ sock[v] = "broken" THEN {x}
  ELSE {Sent(x), Refused(x)}
         \cup {[x EXCEPT !.buf.left = 1, !.fails = 0] : l \in {2} \cap {x.buf.left}}

(* An event's text is generated when it enters the buffer.                  *)
Loaded(x, s) == [x EXCEPT !.buf = [src |-> s, ver |-> value'[s], left |-> 2]]

(* The first k deferred events have gone out.                               *)
Shifted(x, k) ==
  LET out == {x.queue[i].src : i \in 1..k}
  IN  [x EXCEPT !.queue = SubSeq(@, k + 1, Len(@)),
                !.got = [s \in Sources |-> IF s \in out THEN value'[s] ELSE @[s]]]

NotSent(S) == {x \in S : x.buf # None \/ ~x.fd}

(* try_send_nodefer on a buffer that is still full.                         *)
Retries(v, x) ==
  IF x.queue = <<>> \/ ~x.fd THEN {x} ELSE NotSent(Flushes(v, x))

(* process_deferred_queue_ when the buffer is empty: all of the queue goes  *)
(* out, or the socket stops taking at its k + 1st event, which then leaves  *)
(* the queue for the buffer.                                                *)
DrainsFrom(v, x) ==
  LET Stops(k) ==
        UNION {Retries(v, y) : y \in
                 NotSent(Flushes(v, Loaded([Shifted(x, k) EXCEPT !.queue = Tail(@)],
                                           x.queue[k + 1].src)))}
  IN  IF sock[v] = "broken" THEN Stops(0)
      ELSE {Shifted(x, Len(x.queue))} \cup UNION {Stops(k) : k \in 0..(Len(x.queue) - 1)}

(* process_deferred_queue_                                                  *)
Drains(v, x) ==
  IF x.queue = <<>> \/ ~x.fd THEN {x}
  ELSE UNION {IF y.buf = None /\ y.fd THEN DrainsFrom(v, y) ELSE {y} : y \in Flushes(v, x)}

Pumps(v, x) == UNION {Drains(v, y) : y \in Flushes(v, x)}

(* deq_push_back_with_dedup_                                                *)
QueuedUnlessSending(x, e) ==                                          \* mutant
  IF e \in Range(x.queue) \/ (x.buf # None /\ e.src = x.buf.src) THEN x
  ELSE [x EXCEPT !.queue = Append(@, e)]

Queued(x, e) ==
  IF e \in Range(x.queue) THEN x ELSE [x EXCEPT !.queue = Append(@, e)]

(* deferrable_send_state: the viewer's own dump of all entities goes before *)
(* any bare change; missed remembers, for the properties, a change that is  *)
(* not sent on this account.                                                *)
Offered(v, x, e) ==
  IF ~x.fd THEN {x}
  ELSE IF x.buf # None \/ x.queue # <<>> THEN {Queued(x, e)}
  ELSE Flushes(v, Loaded(x, e.src))

Offers(v, x, e) ==
  IF ~x.fd THEN {x}
  ELSE IF e.kind = "state" /\ x.dump # {} THEN {[x EXCEPT !.missed = @ \cup {e.src}]}
  ELSE UNION {Offered(v, [y EXCEPT !.missed = @ \ {e.src}], e) : y \in Pumps(v, x)}

(* AsyncEventSource::deferrable_send_state: to every session of sessions_.  *)
Broadcasts(before, e) ==
  LET After(v) == IF v \in Range(sessions) THEN Offers(v, before[v], e) ELSE {before[v]}
  IN  {f \in [Viewers -> UNION {After(v) : v \in Viewers}] :
         \A v \in Viewers : f[v] \in After(v)}

-----------------------------------------------------------------------------
(* The httpd task.                                                         *)

(* The entries of sessions_ whose fd is set; for as long as a removal is    *)
(* under way one session may have two.                                      *)
Live(v) == v \in Range(sessions) /\ ses[v].fd
LivePlaces == {i \in DOMAIN sessions : Live(sessions[i])}
LiveCount == Cardinality(LivePlaces)

ToEvictTooFew == LiveCount - MaxViewers                               \* mutant
ToEvict == IF LiveCount < MaxViewers THEN 0 ELSE LiveCount - (MaxViewers - 1)

(* The first ToEvict live entries of sessions_; httpd_sess_trigger_close    *)
(* only queues the close.                                                   *)
Evicted ==
  {sessions[i] : i \in
     {j \in LivePlaces : Cardinality({k \in LivePlaces : k <= j}) <= ToEvict}}

(* handleRequest up to the new response, which may be given the block of a  *)
(* deleted one.  Its first event, the ping, need not fit the socket.        *)
Connect(v) ==
  /\ httpd = NoRequest /\ sock[v] = "none"
  /\ sock' = [u \in Viewers |-> IF u = v THEN "open"
                ELSE IF u \in Evicted /\ sock[u] = "open" THEN "closing" ELSE sock[u]]
  /\ \E block \in {v} \cup {home[u] : u \in freed} :
       /\ \A u \in Alive : home[u] # block
       /\ home' = [home EXCEPT ![v] = block]
  /\ \E b \in {None, Ping} :
       ses' = [ses EXCEPT ![v] = [Unborn EXCEPT !.fd = TRUE, !.dump = Sources, !.buf = b]]
  /\ httpd' = [pc |-> "push", who |-> v]
  /\ UNCHANGED <<freed, sessions, loopVars, pending, value, torn>>

(* Between the overwrite and the pop of a removal the pop takes the new     *)
(* session; when the two calls overlap, one of the lengths they store is    *)
(* lost.                                                                    *)
Appended == Append(sessions, httpd.who)

PushBack ==
  /\ httpd.pc = "push"
  /\ httpd' = [httpd EXCEPT !.pc = "wake"]
  /\ \/ sessions' = Appended /\ reap' = reap
     \/ reap = "pop" /\ sessions' \in {Appended, Front(sessions)} /\ reap' = "no"
  /\ torn' = (torn \/ reap = "pop")
  /\ UNCHANGED <<sock, home, freed, ses, loop, awake, pending, value>>

EnableLoop ==
  /\ httpd.pc = "wake"
  /\ pending' = TRUE
  /\ httpd' = NoRequest
  /\ UNCHANGED <<sock, home, freed, ses, sessions, loopVars, value, torn>>

(* httpd closes a socket: a queued close, a peer that is gone, or the purge *)
(* of the least recently used one.  Its free_ctx is destroy(), which writes *)
(* to whatever object is in the block now.                                  *)
Destroy(v) ==
  /\ httpd = NoRequest /\ sock[v] \in {"open", "broken", "closing"}
  /\ sock' = [sock EXCEPT ![v] = "closed"]
  /\ ses' = [u \in Viewers |-> IF u \in Alive /\ home[u] = home[v]
                              THEN Unborn ELSE ses[u]]
  /\ UNCHANGED <<home, freed, sessions, httpd, loopVars, pending, value, torn>>

(* The peer is gone; a send now fails for good, and httpd will find out.    *)
Break(v) ==
  /\ sock[v] = "open"
  /\ sock' = [sock EXCEPT ![v] = "broken"]
  /\ UNCHANGED <<home, freed, ses, sessions, httpd, loopVars, pending, value, torn>>

-----------------------------------------------------------------------------
(* loopTask.                                                               *)

(* An entity changes and web_server passes the change on.                   *)
Publish(s) ==
  /\ loop = 0 /\ reap = "no" /\ value[s] < MaxChanges
  /\ value' = [value EXCEPT ![s] = @ + 1]
  /\ ses' \in Broadcasts(ses, [src |-> s, kind |-> "state"])
  /\ UNCHANGED <<httpVars, freed, sessions, loopVars, pending, torn>>

EnablePending ==
  /\ loop = 0 /\ reap = "no" /\ pending
  /\ pending' = FALSE /\ awake' = TRUE
  /\ UNCHANGED <<httpVars, freed, ses, sessions, loop, reap, value, torn>>

AtSession == awake /\ reap = "no" /\ loop < Len(sessions)
This == sessions[loop + 1]

(* A dead session is deleted, the last one put in its place, and the last   *)
(* place dropped: three statements, between which httpd may run.  What      *)
(* deleting a session twice does to the heap is not modelled.               *)
LoopDelete ==
  /\ AtSession /\ ~ses[This].fd /\ This \notin freed
  /\ freed' = freed \cup {This} /\ ses' = [ses EXCEPT ![This] = Unborn]
  /\ reap' = "overwrite"
  /\ UNCHANGED <<httpVars, sessions, loop, awake, pending, value, torn>>

LeftBehind == sessions                                                \* mutant
Overwritten == [sessions EXCEPT ![loop + 1] = Last(sessions)]

LoopOverwrite ==
  /\ reap = "overwrite"
  /\ sessions' = Overwritten
  /\ reap' = "pop"
  /\ UNCHANGED <<httpVars, freed, ses, loop, awake, pending, value, torn>>

LoopPop ==
  /\ reap = "pop"
  /\ sessions' = Front(sessions)
  /\ reap' = "no"
  /\ UNCHANGED <<httpVars, freed, ses, loop, awake, pending, value, torn>>

(* AsyncEventSourceResponse::loop: what is pending is sent, then the dump   *)
(* moves on by one entity, whose details go to every session.               *)
LoopServe ==
  /\ AtSession /\ ses[This].fd
  /\ loop' = loop + 1
  /\ UNCHANGED <<httpVars, freed, sessions, reap, awake, pending, value, torn>>
  /\ \E x \in Pumps(This, ses[This]) :
       IF x.dump = {} THEN ses' = [ses EXCEPT ![This] = x]
       ELSE \E s \in x.dump :
              ses' \in Broadcasts([ses EXCEPT ![This] = [x EXCEPT !.dump = @ \ {s}]],
                                  [src |-> s, kind |-> "all"])

(* WebServer::loop() disables itself when no session is left.               *)
StaysAwake == sessions # <<>>

LoopEnd ==
  /\ awake /\ reap = "no" /\ loop = Len(sessions)
  /\ loop' = 0 /\ awake' = StaysAwake
  /\ UNCHANGED <<httpVars, freed, ses, sessions, reap, pending, value, torn>>

-----------------------------------------------------------------------------
Httpd == PushBack \/ EnableLoop
Reap == LoopDelete \/ LoopOverwrite \/ LoopPop
Pass == Reap \/ LoopServe \/ LoopEnd

StreamNext ==
  \/ \E v \in Viewers : Connect(v) \/ Destroy(v) \/ Break(v)
  \/ Httpd
  \/ \E s \in Sources : Publish(s)
  \/ EnablePending \/ Pass

StreamSpec == StreamInit /\ [][StreamNext]_streamVars

(* Both tasks keep running, and httpd closes what it was asked to close or  *)
(* what it finds broken, but never an open connection on its own.           *)
StreamFairness ==
  /\ WF_streamVars(Httpd) /\ WF_streamVars(Pass) /\ SF_streamVars(EnablePending)
  /\ \A v \in Viewers : SF_streamVars(sock[v] \in {"broken", "closing"} /\ Destroy(v))

StreamFairSpec == StreamSpec /\ StreamFairness

-----------------------------------------------------------------------------
(* Properties.                                                              *)

SessionState ==
  [fd : BOOLEAN, dump : SUBSET Sources, queue : Seq(Deferred), buf : Buffers,
   fails : 0..MaxFails, got : [Sources -> 0..MaxChanges], missed : SUBSET Sources]

(* Types; no event waits twice, which is what bounds deferred_queue_ while  *)
(* a socket takes nothing.                                                  *)
StreamTypeOK ==
  /\ sock \in [Viewers -> {"none", "open", "broken", "closing", "closed"}]
  /\ home \in [Viewers -> Viewers \cup {None}]
  /\ freed \subseteq Viewers
  /\ ses \in [Viewers -> SessionState]
  /\ \A v \in Viewers : IsInjective(ses[v].queue)
  /\ sessions \in Seq(Viewers)
  /\ httpd \in [pc : {"idle", "push", "wake"}, who : Viewers \cup {None}]
  /\ loop \in 0..Len(sessions) /\ reap \in {"no", "overwrite", "pop"}
  /\ awake \in BOOLEAN /\ pending \in BOOLEAN /\ torn \in BOOLEAN
  /\ value \in [Sources -> 0..MaxChanges]

(* loop(): between two removals the vector holds every response that is not *)
(* deleted, once, and none that is, whatever order sessions die in and      *)
(* wherever in a removal httpd counts, evicts and closes; "to avoid race    *)
(* conditions" is the code's claim.                                         *)
NoSessionIsLost ==
  reap = "no" =>
    /\ IsInjective(sessions)
    /\ Range(sessions) = Alive \ {v \in {httpd.who} : httpd.pc = "push"}

(* It holds for as long as no append meets the pop of a removal.            *)
VectorHoldsTheAlive == ~torn => NoSessionIsLost

(* handleRequest: whoever connects and dies in whatever order, no more than *)
(* MaxViewers served viewers are not on their way out.                      *)
CapHolds ==
  ~torn => Cardinality({v \in Viewers : sock[v] = "open" /\ ses[v].fd}) <= MaxViewers

(* Once nothing is buffered or deferred for a viewer, the last event it got *)
(* of a source is the source's state, through refused and partial sends and *)
(* deferral; except a change that fell into the viewer's initial dump.      *)
CaughtUp ==
  ~torn => \A v \in Viewers : LET x == ses[v] IN
    x.fd /\ x.dump = {} /\ x.buf = None /\ x.queue = <<>>
      => \A s \in Sources : s \in x.missed \/ x.got[s] = value[s]

(* The wake-up of the loop is never lost and no client is waited for for   *)
(* ever: a dead session is deleted, and a live one is served to the end or  *)
(* given up.                                                                *)
StreamsSettle ==
  []<>(torn \/ \A v \in Alive : LET x == ses[v] IN
                 x.fd /\ x.dump = {} /\ x.buf = None /\ x.queue = <<>>)
=============================================================================
