-------------------------- MODULE EventSourceProofs --------------------------
(***************************************************************************)
(* Theorems about the event streams, for any number of viewers, sources,   *)
(* changes and refusals, and any cap on the viewers that are served.       *)
(***************************************************************************)
EXTENDS EventSource, FiniteSetTheorems, TLAPS

-----------------------------------------------------------------------------
(* The sessions.  A response object is in the vector from push_back to the *)
(* pass that deletes it, and in between the vector is only permuted, but    *)
(* for the two steps of a removal before its pop.                           *)

SockStates == {"none", "open", "broken", "closing", "closed"}

Pushing == {v \in {httpd.who} : httpd.pc = "push"}

LEMMA AppendIsInjective ==
  ASSUME NEW S, NEW q \in Seq(S), NEW v \in S, IsInjective(q), v \notin Range(q)
  PROVE  /\ Append(q, v) \in Seq(S) /\ IsInjective(Append(q, v))
         /\ Range(Append(q, v)) = Range(q) \cup {v}
<1> DEFINE r == Append(q, v)
<1>1. /\ r \in Seq(S) /\ DOMAIN q = 1..Len(q) /\ DOMAIN r = 1..(Len(q) + 1) /\ Len(q) \in Nat
      /\ r[Len(q) + 1] = v /\ \A i \in DOMAIN q : r[i] = q[i]
  OBVIOUS
<1>2. \A i \in DOMAIN r : i \in DOMAIN q \/ i = Len(q) + 1
  BY <1>1
<1>3. \A i \in DOMAIN q : i \in DOMAIN r /\ q[i] # v
  BY <1>1 DEF Range
<1>4. Len(q) + 1 \in DOMAIN r
  BY <1>1
<1> HIDE DEF r
<1>5. IsInjective(r)
  BY <1>1, <1>2, <1>3 DEF IsInjective
<1>6. Range(r) = Range(q) \cup {v}
  BY <1>1, <1>2, <1>3, <1>4 DEF Range
<1> QED  BY <1>1, <1>5, <1>6 DEF r

(* Swap-and-pop: the k-th goes, and nobody else.                            *)
LEMMA SwapAndPop ==
  ASSUME NEW S, NEW q \in Seq(S), IsInjective(q), NEW k \in 1..Len(q)
  PROVE  LET r == SubSeq([q EXCEPT ![k] = q[Len(q)]], 1, Len(q) - 1)
         IN  /\ r \in Seq(S) /\ IsInjective(r) /\ Range(r) = Range(q) \ {q[k]}
             /\ Len(r) = Len(q) - 1
<1> DEFINE n == Len(q)
           w == [q EXCEPT ![k] = q[n]]
           r == SubSeq(w, 1, n - 1)
<1>1. n \in Nat /\ n >= 1 /\ k \in 1..n /\ DOMAIN q = 1..n /\ \A i \in 1..n : q[i] \in S
  OBVIOUS
<1>2. w \in Seq(S) /\ Len(w) = n /\ w[k] = q[n] /\ \A i \in 1..n : i # k => w[i] = q[i]
  BY <1>1
<1> HIDE DEF n, w
<1>3. r \in Seq(S) /\ Len(r) = n - 1 /\ DOMAIN r = 1..(n - 1) /\ \A i \in 1..(n - 1) : r[i] = w[i]
  BY <1>1, <1>2
<1> HIDE DEF r
<1>4. \A i \in 1..(n - 1) : i \in 1..n /\ i # n /\ r[i] = (IF i = k THEN q[n] ELSE q[i])
  BY <1>1, <1>2, <1>3
<1>5. \A i, j \in 1..n : q[i] = q[j] => i = j
  BY <1>1 DEF IsInjective
<1>6. n \in 1..n
  BY <1>1
<1>7. IsInjective(r)
  BY <1>3, <1>4, <1>5, <1>6 DEF IsInjective
<1>8. \A i \in 1..n : i # k => \E j \in 1..(n - 1) : r[j] = q[i]
  <2> SUFFICES ASSUME NEW i \in 1..n, i # k PROVE \E j \in 1..(n - 1) : r[j] = q[i]
    OBVIOUS
  <2>1. CASE i = n
    <3>1. k \in 1..(n - 1)
      BY <1>1, <2>1
    <3> QED  BY <1>4, <2>1, <3>1
  <2>2. CASE i # n
    <3>1. i \in 1..(n - 1)
      BY <1>1, <2>2
    <3> QED  BY <1>4, <3>1
  <2> QED  BY <2>1, <2>2
<1>9. \A j \in 1..(n - 1) : \E i \in 1..n : i # k /\ r[j] = q[i]
  BY <1>1, <1>4, <1>6
<1>10. Range(r) = Range(q) \ {q[k]}
  <2>1. DOMAIN q = 1..n /\ DOMAIN r = 1..(n - 1)
    BY <1>1, <1>3
  <2>2. \A i \in 1..n : q[i] = q[k] => i = k
    BY <1>1, <1>5
  <2>3. ASSUME NEW a \in Range(r) PROVE a \in Range(q) /\ a # q[k]
    <3>1. PICK j \in 1..(n - 1) : a = r[j]
      BY <2>1, <2>3 DEF Range
    <3>2. PICK i \in 1..n : i # k /\ r[j] = q[i]
      BY <1>9
    <3> QED  BY <2>1, <2>2, <3>1, <3>2 DEF Range
  <2>4. ASSUME NEW a \in Range(q), a # q[k] PROVE a \in Range(r)
    <3>1. PICK i \in 1..n : a = q[i]
      BY <2>1, <2>4 DEF Range
    <3>2. PICK j \in 1..(n - 1) : r[j] = q[i]
      BY <1>8, <2>4, <3>1
    <3> QED  BY <2>1, <3>1, <3>2 DEF Range
  <2> QED  BY <2>3, <2>4
<1> QED  BY <1>3, <1>7, <1>10 DEF r, w, n

PlaceTyped ==
  /\ sessions \in Seq(Viewers) /\ loop \in 0..Len(sessions)
  /\ reap \in {"no", "overwrite", "pop"} /\ (reap # "no" => awake /\ loop < Len(sessions))
  /\ home \in [Viewers -> Viewers \cup {None}] /\ sock \in [Viewers -> SockStates]
  /\ freed \subseteq Viewers
  /\ httpd \in [pc : {"idle", "push", "wake"}, who : Viewers \cup {None}]
  /\ httpd.pc = "push" => httpd.who \in Viewers
  /\ awake \in BOOLEAN /\ pending \in BOOLEAN /\ torn \in BOOLEAN

LEMMA FrontFacts ==
  ASSUME NEW S, NEW q \in Seq(S), Len(q) > 0
  PROVE  /\ Front(q) \in Seq(S) /\ Len(Front(q)) = Len(q) - 1
         /\ Range(Front(q)) \subseteq Range(q)
<1>1. /\ Len(q) \in Nat /\ DOMAIN q = 1..Len(q) /\ \A i \in 1..Len(q) : q[i] \in S
  OBVIOUS
<1> DEFINE n == Len(q)
           r == SubSeq(q, 1, n - 1)
<1>2. n \in Nat /\ n > 0 /\ DOMAIN q = 1..n
  BY <1>1
<1> HIDE DEF n
<1>3. r \in Seq(S) /\ Len(r) = n - 1 /\ DOMAIN r = 1..(n - 1) /\ \A i \in 1..(n - 1) : r[i] = q[i]
  BY <1>2
<1> HIDE DEF r
<1>4. Range(r) \subseteq Range(q)
  BY <1>2, <1>3 DEF Range
<1> QED  BY <1>3, <1>4 DEF Front, r, n

LEMMA PlaceStep ==
  ASSUME PlaceTyped, StreamNext
  PROVE  PlaceTyped'
<1>0. /\ sessions \in Seq(Viewers) /\ loop \in 0..Len(sessions) /\ Len(sessions) \in Nat
      /\ reap \in {"no", "overwrite", "pop"} /\ (reap # "no" => awake /\ loop < Len(sessions))
      /\ home \in [Viewers -> Viewers \cup {None}] /\ sock \in [Viewers -> SockStates]
      /\ freed \subseteq Viewers
      /\ httpd \in [pc : {"idle", "push", "wake"}, who : Viewers \cup {None}]
      /\ httpd.pc = "push" => httpd.who \in Viewers
      /\ awake \in BOOLEAN /\ pending \in BOOLEAN /\ torn \in BOOLEAN
  BY DEF PlaceTyped
<1>1. ASSUME NEW v \in Viewers, Connect(v) PROVE PlaceTyped'
  <2>1. PICK block \in {v} \cup {home[u] : u \in freed} : home' = [home EXCEPT ![v] = block]
    BY <1>1 DEF Connect
  <2>2. home' \in [Viewers -> Viewers \cup {None}]
    BY <1>0, <2>1
  <2>3. sock' \in [Viewers -> SockStates]
    BY <1>0, <1>1 DEF Connect, SockStates
  <2>4. httpd' = [pc |-> "push", who |-> v]
        /\ UNCHANGED <<freed, sessions, loop, reap, awake, pending, torn>>
    BY <1>1 DEF Connect, loopVars
  <2> QED  BY <1>0, <2>2, <2>3, <2>4 DEF PlaceTyped
<1>2. CASE PushBack
  <2>1. /\ httpd.who \in Viewers /\ httpd' = [httpd EXCEPT !.pc = "wake"]
        /\ torn' \in BOOLEAN
        /\ UNCHANGED <<sock, home, freed, loop, awake, pending>>
    BY <1>0, <1>2 DEF PushBack
  <2>2. /\ Appended \in Seq(Viewers) /\ Len(Appended) = Len(sessions) + 1
    BY <1>0, <2>1 DEF Appended
  <2>3. CASE sessions' = Appended /\ reap' \in {reap, "no"}
    BY <1>0, <2>1, <2>2, <2>3 DEF PlaceTyped
  <2>4. CASE reap = "pop" /\ sessions' = Front(sessions) /\ reap' = "no"
    <3>1. sessions' \in Seq(Viewers) /\ Len(sessions') = Len(sessions) - 1
      BY <1>0, <2>4, FrontFacts
    <3> QED  BY <1>0, <2>1, <2>4, <3>1 DEF PlaceTyped
  <2> QED  BY <1>2, <2>3, <2>4 DEF PushBack
<1>3. CASE EnableLoop
  <2>1. httpd' = NoRequest /\ pending' = TRUE
        /\ UNCHANGED <<sock, home, freed, sessions, loop, reap, awake, torn>>
    BY <1>3 DEF EnableLoop, loopVars
  <2> QED  BY <1>0, <2>1 DEF PlaceTyped, NoRequest
<1>4. ASSUME NEW v \in Viewers, Destroy(v) \/ Break(v) PROVE PlaceTyped'
  <2>1. PICK s \in {"closed", "broken"} : sock' = [sock EXCEPT ![v] = s]
    BY <1>4 DEF Destroy, Break
  <2>2. sock' \in [Viewers -> SockStates]
    BY <1>0, <2>1 DEF SockStates
  <2>3. UNCHANGED <<sessions, home, freed, httpd, loop, reap, awake, pending, torn>>
    BY <1>4 DEF Destroy, Break, loopVars
  <2> QED  BY <1>0, <2>2, <2>3 DEF PlaceTyped
<1>5. CASE LoopDelete
  <2>1. /\ awake /\ loop < Len(sessions) /\ reap' = "overwrite" /\ freed' = freed \cup {This}
        /\ UNCHANGED <<sessions, home, sock, httpd, loop, awake, pending, torn>>
    BY <1>5 DEF LoopDelete, AtSession, httpVars
  <2>2. This \in Viewers
    BY <1>0, <2>1 DEF This
  <2> QED  BY <1>0, <2>1, <2>2 DEF PlaceTyped
<1>6. CASE LoopOverwrite
  <2>1. /\ reap = "overwrite" /\ reap' = "pop" /\ sessions' = Overwritten
        /\ UNCHANGED <<freed, home, sock, httpd, loop, awake, pending, torn>>
    BY <1>6 DEF LoopOverwrite, httpVars
  <2>2. sessions' \in Seq(Viewers) /\ Len(sessions') = Len(sessions)
    BY <1>0, <2>1 DEF Overwritten, Last
  <2> QED  BY <1>0, <2>1, <2>2 DEF PlaceTyped
<1>7. CASE LoopPop
  <2>1. /\ reap = "pop" /\ reap' = "no" /\ sessions' = Front(sessions)
        /\ UNCHANGED <<freed, home, sock, httpd, loop, awake, pending, torn>>
    BY <1>7 DEF LoopPop, httpVars
  <2>2. sessions' \in Seq(Viewers) /\ Len(sessions') = Len(sessions) - 1
    BY <1>0, <2>1, FrontFacts
  <2> QED  BY <1>0, <2>1, <2>2 DEF PlaceTyped
<1>8. CASE LoopServe
  <2>1. /\ reap = "no" /\ loop < Len(sessions) /\ loop' = loop + 1
        /\ UNCHANGED <<sessions, freed, home, sock, httpd, reap, awake, pending, torn>>
    BY <1>8 DEF LoopServe, AtSession, httpVars
  <2> QED  BY <1>0, <2>1 DEF PlaceTyped
<1>9. CASE LoopEnd
  <2>1. /\ reap = "no" /\ loop' = 0 /\ awake' \in BOOLEAN
        /\ UNCHANGED <<sessions, freed, home, sock, httpd, reap, pending, torn>>
    BY <1>9 DEF LoopEnd, httpVars, StaysAwake
  <2> QED  BY <1>0, <2>1 DEF PlaceTyped
<1>10. CASE (\E s \in Sources : Publish(s)) \/ EnablePending
  <2>1. /\ pending' \in BOOLEAN /\ awake' \in BOOLEAN /\ (awake => awake')
        /\ UNCHANGED <<sessions, freed, home, sock, httpd, loop, reap, torn>>
    BY <1>0, <1>10 DEF Publish, EnablePending, httpVars, loopVars
  <2> QED  BY <1>0, <2>1 DEF PlaceTyped
<1> QED
  BY <1>1, <1>2, <1>3, <1>4, <1>5, <1>6, <1>7, <1>8, <1>9, <1>10
     DEF StreamNext, Httpd, Pass, Reap

(* Between two removals the vector holds whoever is alive and pushed; in    *)
(* one, the session that is gone as well, and then the last one twice.      *)
VectorInv ==
  /\ \A v \in Viewers : sock[v] = "none" => home[v] = None
  /\ \A v \in freed : home[v] # None
  /\ httpd.pc = "push" => httpd.who \in Alive
  /\ reap = "no" => IsInjective(sessions) /\ Range(sessions) = Alive \ Pushing
  /\ reap = "overwrite" => /\ IsInjective(sessions) /\ This \in freed
                           /\ Range(sessions) = (Alive \ Pushing) \cup {This}
  /\ reap = "pop" => /\ IsInjective(Front(sessions))
                     /\ Range(Front(sessions)) = Alive \ Pushing

LEMMA AllAreInVector ==
  ASSUME PlaceTyped, VectorInv
  PROVE  Alive \ Pushing \subseteq Range(sessions)
<1>1. CASE reap = "pop"
  <2>1. sessions \in Seq(Viewers) /\ Len(sessions) > 0
    BY <1>1 DEF PlaceTyped
  <2> QED  BY <1>1, <2>1, FrontFacts DEF VectorInv
<1> QED  BY <1>1 DEF VectorInv, PlaceTyped

LEMMA VectorStep ==
  ASSUME PlaceTyped, VectorInv, StreamNext, ~torn'
  PROVE  VectorInv'
<1>0. /\ sessions \in Seq(Viewers) /\ loop \in 0..Len(sessions) /\ Len(sessions) \in Nat
      /\ reap \in {"no", "overwrite", "pop"} /\ (reap # "no" => loop < Len(sessions))
      /\ home \in [Viewers -> Viewers \cup {None}] /\ sock \in [Viewers -> SockStates]
      /\ freed \subseteq Viewers
      /\ \A v \in Viewers : sock[v] = "none" => home[v] = None
      /\ \A v \in freed : home[v] # None
      /\ httpd.pc = "push" => httpd.who \in Alive
  BY DEF PlaceTyped, VectorInv
<1>a. reap = "no" => IsInjective(sessions) /\ Range(sessions) = Alive \ Pushing
  BY DEF VectorInv
<1>b. reap = "overwrite" => /\ IsInjective(sessions) /\ This \in freed
                            /\ Range(sessions) = (Alive \ Pushing) \cup {This}
  BY DEF VectorInv
<1>c. reap = "pop" => /\ IsInjective(Front(sessions))
                      /\ Range(Front(sessions)) = Alive \ Pushing
  BY DEF VectorInv
<1>1. ASSUME NEW v \in Viewers, Connect(v) PROVE VectorInv'
  <2>1. PICK block \in {v} \cup {home[u] : u \in freed} : home' = [home EXCEPT ![v] = block]
    BY <1>1 DEF Connect
  <2>2. block \in Viewers \cup {None} /\ block # None
    BY <1>0, <2>1, StreamAssumption
  <2>3. home'[v] # None /\ \A u \in Viewers \ {v} : home'[u] = home[u]
    BY <1>0, <2>1, <2>2
  <2>4. v \notin freed /\ v \notin Alive
        /\ UNCHANGED <<freed, sessions, loop, reap>>
    BY <1>0, <1>1 DEF Connect, Alive, loopVars
  <2>5. Alive' = Alive \cup {v}
    BY <2>3, <2>4 DEF Alive
  <2>6. httpd.pc # "push" /\ httpd' = [pc |-> "push", who |-> v]
    BY <1>1 DEF Connect, NoRequest
  <2>7. \A u \in Viewers : sock'[u] = "none" => u # v /\ sock[u] = "none"
    BY <1>0, <1>1 DEF Connect
  <2>8. Pushing = {} /\ Pushing' = {v} /\ Alive' \ Pushing' = Alive \ Pushing
    BY <2>4, <2>5, <2>6 DEF Pushing
  <2>9. This' = This
    BY <2>4 DEF This
  <2>10. \A u \in freed' : home'[u] # None
    BY <1>0, <2>3, <2>4
  <2>11. \A u \in Viewers : sock'[u] = "none" => home'[u] = None
    BY <1>0, <2>3, <2>7
  <2>12. httpd'.who \in Alive'
    BY <2>5, <2>6
  <2> QED  BY <1>a, <1>b, <1>c, <2>4, <2>8, <2>9, <2>10, <2>11, <2>12 DEF VectorInv
<1>2. CASE PushBack
  <2>1. /\ httpd.pc = "push" /\ reap # "pop" /\ sessions' = Append(sessions, httpd.who)
        /\ httpd' = [httpd EXCEPT !.pc = "wake"]
        /\ UNCHANGED <<sock, home, freed, loop, reap>>
    BY <1>2 DEF PushBack, Appended
  <2>2. httpd.who \in Viewers /\ httpd.who \in Alive /\ httpd.who \notin freed
    BY <1>0, <2>1 DEF Alive
  <2>3. httpd'.pc # "push" /\ Pushing' = {} /\ Pushing = {httpd.who} /\ Alive' = Alive
    BY <2>1 DEF Pushing, Alive, PlaceTyped
  <2>4. IsInjective(sessions) /\ httpd.who \notin Range(sessions)
    BY <1>0, <1>a, <1>b, <2>1, <2>2, <2>3
  <2>5. IsInjective(sessions') /\ Range(sessions') = Range(sessions) \cup {httpd.who}
    BY <1>0, <2>1, <2>2, <2>4, AppendIsInjective
  <2>6. reap = "overwrite" => This' = This
    BY <1>0, <2>1 DEF This
  <2>7. reap = "no" => Range(sessions') = Alive' \ Pushing'
    BY <1>a, <2>2, <2>3, <2>5
  <2>8. reap = "overwrite" => Range(sessions') = (Alive' \ Pushing') \cup {This}
    BY <1>b, <2>2, <2>3, <2>5
  <2> QED  BY <1>0, <1>b, <2>1, <2>3, <2>5, <2>6, <2>7, <2>8 DEF VectorInv
<1>3. CASE EnableLoop
  <2>1. /\ httpd.pc # "push" /\ httpd'.pc # "push"
        /\ UNCHANGED <<sessions, sock, home, freed, loop, reap>>
    BY <1>3 DEF EnableLoop, loopVars, NoRequest
  <2>2. Alive' = Alive /\ Pushing' = Pushing /\ This' = This
    BY <2>1 DEF Alive, Pushing, This
  <2> QED  BY <1>0, <1>a, <1>b, <1>c, <2>1, <2>2 DEF VectorInv
<1>4. ASSUME NEW v \in Viewers, Destroy(v) \/ Break(v) PROVE VectorInv'
  <2>1. PICK s \in {"closed", "broken"} : sock' = [sock EXCEPT ![v] = s]
    BY <1>4 DEF Destroy, Break
  <2>2. \A u \in Viewers : sock'[u] = "none" => sock[u] = "none"
    BY <1>0, <2>1
  <2>3. UNCHANGED <<sessions, home, freed, httpd, loop, reap>>
    BY <1>4 DEF Destroy, Break, loopVars
  <2>4. Alive' = Alive /\ Pushing' = Pushing /\ This' = This
    BY <2>3 DEF Alive, Pushing, This
  <2> QED  BY <1>0, <1>a, <1>b, <1>c, <2>2, <2>3, <2>4 DEF VectorInv
<1>5. CASE LoopDelete
  <2>1. /\ reap = "no" /\ loop < Len(sessions) /\ freed' = freed \cup {This}
        /\ reap' = "overwrite" /\ UNCHANGED <<sock, home, httpd, sessions, loop>>
    BY <1>5 DEF LoopDelete, AtSession, httpVars
  <2>2. This \in Range(sessions) /\ This' = This
    BY <1>0, <2>1 DEF This, Range
  <2>3. This \in Alive /\ This \notin Pushing
    BY <1>a, <2>1, <2>2
  <2>4. Alive' = Alive \ {This} /\ Pushing' = Pushing
    BY <2>1 DEF Alive, Pushing
  <2>5. Range(sessions) = (Alive' \ Pushing') \cup {This}
    BY <1>a, <2>1, <2>2, <2>3, <2>4
  <2>6. httpd'.pc = "push" => httpd'.who \in Alive'
    BY <1>0, <2>1, <2>3, <2>4 DEF Pushing
  <2>7. \A u \in freed' : home'[u] # None
    BY <1>0, <2>1, <2>3 DEF Alive
  <2> QED  BY <1>0, <1>a, <2>1, <2>2, <2>5, <2>6, <2>7 DEF VectorInv
<1>6. CASE LoopOverwrite
  <2>1. /\ reap = "overwrite" /\ reap' = "pop"
        /\ sessions' = [sessions EXCEPT ![loop + 1] = sessions[Len(sessions)]]
        /\ UNCHANGED <<sock, home, httpd, freed, loop>>
    BY <1>6 DEF LoopOverwrite, Overwritten, Last, httpVars
  <2>2. loop + 1 \in 1..Len(sessions) /\ Len(sessions') = Len(sessions)
    BY <1>0, <2>1
  <2>3. /\ IsInjective(Front(sessions')) 
        /\ Range(Front(sessions')) = Range(sessions) \ {sessions[loop + 1]}
    BY <1>0, <1>b, <2>1, <2>2, SwapAndPop DEF Front
  <2>4. Alive' = Alive /\ Pushing' = Pushing /\ This \notin Alive
    BY <1>b, <2>1 DEF Alive, Pushing
  <2>5. Range(Front(sessions')) = Alive' \ Pushing'
    BY <1>b, <2>1, <2>3, <2>4 DEF This
  <2> QED  BY <1>0, <2>1, <2>3, <2>4, <2>5 DEF VectorInv
<1>7. CASE LoopPop
  <2>1. /\ reap = "pop" /\ reap' = "no" /\ sessions' = Front(sessions)
        /\ UNCHANGED <<sock, home, httpd, freed, loop>>
    BY <1>7 DEF LoopPop, httpVars
  <2>2. Alive' = Alive /\ Pushing' = Pushing
    BY <2>1 DEF Alive, Pushing
  <2> QED  BY <1>0, <1>c, <2>1, <2>2 DEF VectorInv
<1>8. CASE (\E s \in Sources : Publish(s)) \/ EnablePending \/ LoopServe \/ LoopEnd
  <2>1. UNCHANGED <<sessions, sock, home, freed, httpd, reap>> /\ reap = "no"
    BY <1>8 DEF Publish, EnablePending, LoopServe, AtSession, LoopEnd, httpVars, loopVars
  <2>2. Alive' = Alive /\ Pushing' = Pushing
    BY <2>1 DEF Alive, Pushing
  <2> QED  BY <1>0, <1>a, <2>1, <2>2 DEF VectorInv
<1> QED
  BY <1>1, <1>2, <1>3, <1>4, <1>5, <1>6, <1>7, <1>8 DEF StreamNext, Httpd, Pass, Reap

LEMMA VectorStarts ==
  ASSUME StreamInit
  PROVE  PlaceTyped /\ VectorInv
<1>1. Alive = {} /\ Range(sessions) = {} /\ httpd.pc # "push" /\ reap = "no"
  BY DEF StreamInit, Alive, Range, NoRequest
<1>2. IsInjective(sessions) /\ sessions \in Seq(Viewers) /\ Len(sessions) = 0 /\ loop = 0
  BY DEF StreamInit, IsInjective
<1>3. /\ home \in [Viewers -> Viewers \cup {None}] /\ sock \in [Viewers -> SockStates]
      /\ httpd \in [pc : {"idle", "push", "wake"}, who : Viewers \cup {None}]
      /\ awake \in BOOLEAN /\ pending \in BOOLEAN /\ torn \in BOOLEAN
  BY DEF StreamInit, SockStates, NoRequest
<1>4. freed = {} /\ \A v \in Viewers : home[v] = None
  BY DEF StreamInit
<1>5. PlaceTyped
  BY <1>1, <1>2, <1>3, <1>4 DEF PlaceTyped
<1> QED  BY <1>1, <1>2, <1>4, <1>5 DEF VectorInv

-----------------------------------------------------------------------------
(* One session.  Whatever a call does to it, a source whose last event is  *)
(* not the source's state stays accounted for: the event or a newer one is *)
(* in the buffer or in the queue, the initial dump has yet to come to it,   *)
(* or the change fell into the dump.  A session that gave up stays dead.    *)

Versions == 0..MaxChanges
Failures == 0..MaxFails
Events == [src : Sources \cup {None}, ver : Versions, left : 1..2]
Queues == {q \in Seq(Deferred) : IsInjective(q)}

Sessions ==
  [fd : BOOLEAN, dump : SUBSET Sources, queue : Queues, buf : {None} \cup Events,
   fails : Failures, got : [Sources -> Versions], missed : SUBSET Sources]

Waits(x, s) == \E i \in DOMAIN x.queue : x.queue[i].src = s

Fresh(x, s, val) ==
  \/ s \in x.missed \/ s \in x.dump \/ Waits(x, s)
  \/ x.buf # None /\ x.buf.src = s /\ x.buf.ver = val[s]
  \/ ~(x.buf # None /\ x.buf.src = s) /\ x.got[s] = val[s]

Holds(y, x, val) ==
  /\ y \in Sessions
  /\ y.fd => x.fd /\ \A s \in Sources : Fresh(x, s, val) => Fresh(y, s, val)

LEMMA HoldsSelf ==
  ASSUME NEW x \in Sessions, NEW val
  PROVE  Holds(x, x, val)
BY DEF Holds

LEMMA HoldsTrans ==
  ASSUME NEW x, NEW y, NEW z, NEW val, Holds(y, x, val), Holds(z, y, val)
  PROVE  Holds(z, x, val)
BY DEF Holds

LEMMA Zeroes == 0 \in Versions /\ 0 \in Failures /\ Versions \in SUBSET Nat
BY StreamAssumption DEF Versions, Failures

LEMMA NoEventIsNone ==
  ASSUME NEW b \in Events
  PROVE  b # None
<1>1. b \in [src : Sources \cup {None}, ver : Nat, left : 1..2]
  BY Zeroes DEF Events
<1> QED  BY <1>1, StreamAssumption

LEMMA QueueFacts ==
  ASSUME NEW x \in Sessions
  PROVE  /\ x.queue \in Seq(Deferred) /\ IsInjective(x.queue)
         /\ DOMAIN x.queue = 1..Len(x.queue) /\ Len(x.queue) \in Nat
<1>1. x.queue \in Seq(Deferred) /\ IsInjective(x.queue)
  BY DEF Sessions, Queues
<1> QED  BY <1>1

LEMMA UnbornFits == Unborn \in Sessions /\ ~Unborn.fd
<1>1. <<>> \in Queues
  BY DEF Queues, IsInjective
<1>2. [s \in Sources |-> 0] \in [Sources -> Versions]
  BY Zeroes
<1> QED  BY <1>1, <1>2, Zeroes DEF Unborn, Sessions

LEMMA SentHolds ==
  ASSUME NEW x \in Sessions, x.buf # None, NEW val \in [Sources -> Versions]
  PROVE  Holds(Sent(x), x, val)
<1> DEFINE y == Sent(x)
           g == [s \in Sources |-> IF s = x.buf.src THEN x.buf.ver ELSE x.got[s]]
<1>1. x.buf \in Events
  BY DEF Sessions
<1>2. g \in [Sources -> Versions]
  BY <1>1 DEF Events, Sessions
<1>3. y = [x EXCEPT !.buf = None, !.fails = 0, !.got = g]
  BY DEF Sent, Sessions
<1>4. /\ y \in Sessions /\ y.fd = x.fd /\ y.dump = x.dump /\ y.queue = x.queue
      /\ y.buf = None /\ y.got = g /\ y.missed = x.missed
  <2> HIDE DEF g, y
  <2> QED  BY <1>2, <1>3, Zeroes DEF Sessions
<1> HIDE DEF y
<1>5. ASSUME NEW s \in Sources, Fresh(x, s, val) PROVE Fresh(y, s, val)
  <2>1. s = x.buf.src => g[s] = x.buf.ver
    OBVIOUS
  <2>2. s # x.buf.src => g[s] = x.got[s]
    OBVIOUS
  <2> QED  BY <1>4, <1>5, <2>1, <2>2 DEF Fresh, Waits
<1> QED  BY <1>4, <1>5 DEF Holds, y

LEMMA RefusedHolds ==
  ASSUME NEW x \in Sessions, NEW val
  PROVE  Holds(Refused(x), x, val)
<1>1. CASE x.fails + 1 < MaxFails
  <2>1. x.fails + 1 \in Failures
    BY <1>1, StreamAssumption DEF Sessions, Failures
  <2>2. Refused(x) = [x EXCEPT !.fails = x.fails + 1]
    BY <1>1 DEF Refused, Sessions
  <2>3. /\ Refused(x) \in Sessions /\ Refused(x).fd = x.fd /\ Refused(x).dump = x.dump
        /\ Refused(x).queue = x.queue /\ Refused(x).buf = x.buf /\ Refused(x).got = x.got
        /\ Refused(x).missed = x.missed
    BY <2>1, <2>2 DEF Sessions
  <2> QED  BY <2>3 DEF Holds, Fresh, Waits
<1>2. CASE ~(x.fails + 1 < MaxFails)
  <2>1. Refused(x) = [Unborn EXCEPT !.dump = x.dump]
    BY <1>2 DEF Refused
  <2>2. Refused(x) \in Sessions /\ ~Refused(x).fd
    BY <2>1, UnbornFits DEF Sessions
  <2> QED  BY <2>2 DEF Holds
<1> QED  BY <1>1, <1>2

LEMMA FlushesHold ==
  ASSUME NEW v, NEW x \in Sessions, NEW val \in [Sources -> Versions], NEW y \in Flushes(v, x)
  PROVE  Holds(y, x, val)
<1>1. CASE y = x
  BY <1>1, HoldsSelf
<1>2. CASE x.buf # None /\ y \in {Sent(x), Refused(x)}
  BY <1>2, SentHolds, RefusedHolds
<1>3. CASE x.buf # None /\ y \in {[x EXCEPT !.buf.left = 1, !.fails = 0] : l \in {2} \cap {x.buf.left}}
  <2>1. x.buf \in Events
    BY <1>3 DEF Sessions
  <2> DEFINE b == [x.buf EXCEPT !.left = 1]
  <2>2. b \in Events /\ b.src = x.buf.src /\ b.ver = x.buf.ver
    BY <2>1 DEF Events
  <2>3. b # None
    BY <2>2, NoEventIsNone
  <2>4. y = [x EXCEPT !.buf = b, !.fails = 0]
    BY <1>3 DEF Sessions
  <2> HIDE DEF b
  <2>5. /\ y \in Sessions /\ y.fd = x.fd /\ y.dump = x.dump /\ y.queue = x.queue
        /\ y.buf = b /\ y.got = x.got /\ y.missed = x.missed
    BY <2>2, <2>4, Zeroes DEF Sessions
  <2> QED  BY <1>3, <2>2, <2>3, <2>5 DEF Holds, Fresh, Waits
<1> QED  BY <1>1, <1>2, <1>3 DEF Flushes

LEMMA FlushKeepsQueue ==
  ASSUME NEW v, NEW x \in Sessions, NEW y \in Flushes(v, x)
  PROVE  y.fd => y.queue = x.queue
<1>1. y = x \/ y = Sent(x) \/ y = Refused(x) \/ y = [x EXCEPT !.buf.left = 1, !.fails = 0]
  BY DEF Flushes
<1>2. Sent(x).queue = x.queue /\ [x EXCEPT !.buf.left = 1, !.fails = 0].queue = x.queue
  BY DEF Sent, Sessions
<1>3. Refused(x).fd => Refused(x).queue = x.queue
  BY UnbornFits DEF Refused, Sessions
<1> QED  BY <1>1, <1>2, <1>3

(* What is left of a queue once its first events are out.                  *)
LEMMA RestIsInjective ==
  ASSUME NEW S, NEW q \in Seq(S), IsInjective(q), NEW k \in 0..Len(q)
  PROVE  SubSeq(q, k + 1, Len(q)) \in Seq(S) /\ IsInjective(SubSeq(q, k + 1, Len(q)))
<1> DEFINE p == SubSeq(q, k + 1, Len(q))
<1>1. /\ p \in Seq(S) /\ DOMAIN p = 1..(Len(q) - k) /\ Len(q) \in Nat
      /\ \A i \in 1..(Len(q) - k) : p[i] = q[i + k]
  OBVIOUS
<1> HIDE DEF p
<1>2. ASSUME NEW i \in DOMAIN p, NEW j \in DOMAIN p, p[i] = p[j] PROVE i = j
  <2>1. i \in Int /\ j \in Int /\ i + k \in DOMAIN q /\ j + k \in DOMAIN q
    BY <1>1
  <2>2. q[i + k] = q[j + k]
    BY <1>1, <1>2
  <2>3. i + k = j + k
    BY <2>1, <2>2 DEF IsInjective
  <2> QED  BY <2>1, <2>3
<1>3. IsInjective(p)
  BY <1>2 DEF IsInjective
<1> QED  BY <1>1, <1>3 DEF p

LEMMA RestOfQueue ==
  ASSUME NEW S, NEW q \in Seq(S), IsInjective(q), NEW k \in 0..(Len(q) - 1)
  PROVE  LET r == Tail(SubSeq(q, k + 1, Len(q)))
         IN  /\ r \in Seq(S) /\ IsInjective(r) /\ DOMAIN r = 1..(Len(q) - (k + 1))
             /\ \A i \in DOMAIN r : r[i] = q[i + k + 1]
<1> DEFINE p == SubSeq(q, k + 1, Len(q))
<1>1. p \in Seq(S) /\ Len(p) = Len(q) - k /\ Len(p) \in Nat /\ Len(p) > 0 /\ Len(q) \in Nat
  OBVIOUS
<1>2. \A i \in 1..(Len(q) - k) : p[i] = q[i + k]
  OBVIOUS
<1> HIDE DEF p
<1> DEFINE r == Tail(p)
<1>3. r \in Seq(S) /\ Len(r) = Len(p) - 1 /\ \A i \in 1..Len(r) : r[i] = p[i + 1]
  BY <1>1
<1> HIDE DEF r
<1>4. DOMAIN r = 1..(Len(q) - (k + 1))
  BY <1>1, <1>3
<1>5. ASSUME NEW i \in DOMAIN r PROVE r[i] = q[i + k + 1]
  <2>1. i \in 1..Len(r) /\ i + 1 \in 1..(Len(q) - k) /\ i \in Int
    BY <1>1, <1>3, <1>4
  <2>2. r[i] = p[i + 1] /\ p[i + 1] = q[(i + 1) + k]
    BY <1>2, <1>3, <2>1
  <2>3. (i + 1) + k = i + k + 1
    BY <2>1
  <2> QED  BY <2>2, <2>3
<1>6. ASSUME NEW i \in DOMAIN r, NEW j \in DOMAIN r, r[i] = r[j] PROVE i = j
  <2>1. q[i + k + 1] = q[j + k + 1]
    BY <1>5, <1>6
  <2>2. i \in Int /\ j \in Int /\ i + k + 1 \in DOMAIN q /\ j + k + 1 \in DOMAIN q
    BY <1>4
  <2>3. i + k + 1 = j + k + 1
    BY <2>1, <2>2 DEF IsInjective
  <2> QED  BY <2>2, <2>3
<1>7. IsInjective(r)
  BY <1>6 DEF IsInjective
<1> QED  BY <1>3, <1>4, <1>5, <1>7 DEF r, p

(* The first k of the queue are sent.                                       *)
LEMMA ShiftedFacts ==
  ASSUME NEW x \in Sessions, NEW k \in 0..Len(x.queue), value' \in [Sources -> Versions]
  PROVE  /\ Shifted(x, k) \in Sessions
         /\ Shifted(x, k).fd = x.fd /\ Shifted(x, k).dump = x.dump
         /\ Shifted(x, k).missed = x.missed /\ Shifted(x, k).buf = x.buf
         /\ Shifted(x, k).queue = SubSeq(x.queue, k + 1, Len(x.queue))
         /\ \A s \in Sources : Shifted(x, k).got[s] =
              IF \E i \in 1..k : x.queue[i].src = s THEN value'[s] ELSE x.got[s]
<1> DEFINE out == {x.queue[i].src : i \in 1..k}
           g == [s \in Sources |-> IF s \in out THEN value'[s] ELSE x.got[s]]
           q == SubSeq(x.queue, k + 1, Len(x.queue))
           y == Shifted(x, k)
<1>1. x.queue \in Seq(Deferred) /\ IsInjective(x.queue)
  BY QueueFacts
<1>2. q \in Queues
  BY <1>1, RestIsInjective DEF Queues
<1>3. g \in [Sources -> Versions]
  BY DEF Sessions
<1>4. \A s \in Sources : g[s] = IF \E i \in 1..k : x.queue[i].src = s THEN value'[s] ELSE x.got[s]
  OBVIOUS
<1>5. y = [x EXCEPT !.queue = q, !.got = g]
  BY DEF Shifted, Sessions
<1> HIDE DEF q, g, y
<1>6. /\ y \in Sessions /\ y.fd = x.fd /\ y.dump = x.dump /\ y.queue = q
      /\ y.buf = x.buf /\ y.got = g /\ y.missed = x.missed
  BY <1>2, <1>3, <1>5 DEF Sessions
<1> QED  BY <1>4, <1>6 DEF y, q

LEMMA LoadedFacts ==
  ASSUME NEW x \in Sessions, NEW s \in Sources, value' \in [Sources -> Versions]
  PROVE  /\ Loaded(x, s) \in Sessions /\ Loaded(x, s).fd = x.fd
         /\ Loaded(x, s).dump = x.dump /\ Loaded(x, s).missed = x.missed
         /\ Loaded(x, s).queue = x.queue /\ Loaded(x, s).got = x.got
         /\ Loaded(x, s).buf # None /\ Loaded(x, s).buf.src = s
         /\ Loaded(x, s).buf.ver = value'[s]
<1> DEFINE b == [src |-> s, ver |-> value'[s], left |-> 2]
<1>1. b \in Events /\ b.src = s /\ b.ver = value'[s]
  BY DEF Events
<1>2. b # None
  BY <1>1, NoEventIsNone
<1>3. Loaded(x, s) = [x EXCEPT !.buf = b]
  BY DEF Loaded
<1> HIDE DEF b
<1> QED  BY <1>1, <1>2, <1>3 DEF Sessions

(* All of the queue is sent, or all before the k + 1st, which is then in    *)
(* the buffer.                                                              *)
LEMMA AllShiftedHolds ==
  ASSUME NEW x \in Sessions, x.buf = None, value' \in [Sources -> Versions]
  PROVE  Holds(Shifted(x, Len(x.queue)), x, value')
<1> DEFINE y == Shifted(x, Len(x.queue))
<1>1. x.queue \in Seq(Deferred) /\ Len(x.queue) \in Nat /\ DOMAIN x.queue = 1..Len(x.queue)
  BY QueueFacts
<1>2. /\ y \in Sessions /\ y.fd = x.fd /\ y.dump = x.dump /\ y.missed = x.missed
      /\ y.buf = None
      /\ \A s \in Sources : y.got[s] =
           IF \E i \in 1..Len(x.queue) : x.queue[i].src = s THEN value'[s] ELSE x.got[s]
  <2> DEFINE k == Len(x.queue)
  <2>1. k \in 0..Len(x.queue)
    BY <1>1
  <2> HIDE DEF k
  <2>2. /\ Shifted(x, k) \in Sessions /\ Shifted(x, k).fd = x.fd
        /\ Shifted(x, k).dump = x.dump /\ Shifted(x, k).missed = x.missed
        /\ Shifted(x, k).buf = x.buf
        /\ \A s \in Sources : Shifted(x, k).got[s] =
             IF \E i \in 1..k : x.queue[i].src = s THEN value'[s] ELSE x.got[s]
    BY <2>1, ShiftedFacts
  <2> QED  BY <2>2 DEF k
<1> HIDE DEF y
<1>3. ASSUME NEW s \in Sources, Fresh(x, s, value') PROVE Fresh(y, s, value')
  <2>1. Waits(x, s) => y.got[s] = value'[s]
    BY <1>1, <1>2 DEF Waits
  <2>2. x.got[s] = value'[s] => y.got[s] = value'[s]
    BY <1>2
  <2> QED  BY <1>2, <1>3, <2>1, <2>2 DEF Fresh
<1> QED  BY <1>2, <1>3 DEF Holds, y

LEMMA StoppedHolds ==
  ASSUME NEW x \in Sessions, x.buf = None, NEW k \in 0..(Len(x.queue) - 1),
         value' \in [Sources -> Versions]
  PROVE  Holds(Loaded([Shifted(x, k) EXCEPT !.queue = Tail(@)], x.queue[k + 1].src), x, value')
<1> DEFINE q == x.queue
           z == Shifted(x, k)
           r == Tail(SubSeq(q, k + 1, Len(q)))
           w == [z EXCEPT !.queue = r]
           t == q[k + 1].src
           y == Loaded(w, t)
<1>1. /\ q \in Seq(Deferred) /\ Len(q) \in Nat /\ DOMAIN q = 1..Len(q) /\ IsInjective(q)
      /\ k \in 0..Len(q) /\ k + 1 \in DOMAIN q /\ k \in Nat
  BY QueueFacts
<1>2. /\ z \in Sessions /\ z.fd = x.fd /\ z.dump = x.dump /\ z.missed = x.missed
      /\ z.queue = SubSeq(q, k + 1, Len(q))
      /\ \A s \in Sources : z.got[s] =
           IF \E i \in 1..k : q[i].src = s THEN value'[s] ELSE x.got[s]
  BY <1>1, ShiftedFacts
<1>3. /\ r \in Queues /\ DOMAIN r = 1..(Len(q) - (k + 1))
      /\ \A i \in DOMAIN r : r[i] = q[i + k + 1]
  BY <1>1, RestOfQueue DEF Queues
<1>4. t \in Sources
  <2>1. q[k + 1] \in Deferred
    BY <1>1
  <2> QED  BY <2>1 DEF Deferred
<1>5. [Shifted(x, k) EXCEPT !.queue = Tail(@)] = w
  BY <1>2
<1> HIDE DEF q, r, z
<1>6. /\ w \in Sessions /\ w.fd = x.fd /\ w.dump = x.dump /\ w.missed = x.missed
      /\ w.queue = r /\ w.got = z.got
  BY <1>2, <1>3 DEF Sessions
<1> HIDE DEF w, t
<1>7. /\ y \in Sessions /\ y.fd = x.fd /\ y.dump = x.dump /\ y.missed = x.missed
      /\ y.queue = r /\ y.got = z.got
      /\ y.buf # None /\ y.buf.src = t /\ y.buf.ver = value'[t]
  BY <1>4, <1>6, LoadedFacts
<1> HIDE DEF y
<1>8. ASSUME NEW i \in DOMAIN q, i > k + 1 PROVE \E j \in DOMAIN r : r[j].src = q[i].src
  <2>1. i - (k + 1) \in DOMAIN r /\ (i - (k + 1)) + k + 1 = i
    BY <1>1, <1>3, <1>8
  <2> QED  BY <1>3, <2>1
<1>9. ASSUME NEW s \in Sources, Fresh(x, s, value') PROVE Fresh(y, s, value')
  <2>1. CASE s = t
    BY <1>7, <2>1 DEF Fresh
  <2>2. CASE s # t /\ Waits(x, s)
    <3>1. PICK i \in DOMAIN q : q[i].src = s
      BY <2>2 DEF Waits, q
    <3>2. i # k + 1
      BY <2>2, <3>1 DEF t
    <3>3. CASE i > k + 1
      BY <1>7, <1>8, <3>1, <3>3 DEF Fresh, Waits
    <3>4. CASE i < k + 1
      <4>1. i \in 1..k
        BY <1>1, <3>4
      <4>2. z.got[s] = value'[s]
        BY <1>2, <3>1, <4>1
      <4> QED  BY <1>7, <2>2, <4>2 DEF Fresh
    <3> QED  BY <1>1, <3>2, <3>3, <3>4
  <2>3. CASE s # t /\ ~Waits(x, s) /\ x.got[s] = value'[s]
    <3>1. z.got[s] = value'[s]
      BY <1>2, <2>3
    <3> QED  BY <1>7, <2>3, <3>1 DEF Fresh
  <2>4. CASE s \in x.missed \/ s \in x.dump
    BY <1>7, <2>4 DEF Fresh
  <2> QED  BY <1>9, <2>1, <2>2, <2>3, <2>4 DEF Fresh
<1> QED  BY <1>5, <1>7, <1>9 DEF Holds, y, t, q

LEMMA DrainsFromHold ==
  ASSUME NEW v, NEW x \in Sessions, x.buf = None, x.queue # <<>>,
         value' \in [Sources -> Versions], NEW y \in DrainsFrom(v, x)
  PROVE  Holds(y, x, value')
<1>1. x.queue \in Seq(Deferred) /\ Len(x.queue) \in Nat /\ Len(x.queue) > 0
  BY QueueFacts
<1> DEFINE Full(k) == Loaded([Shifted(x, k) EXCEPT !.queue = Tail(@)], x.queue[k + 1].src)
           Stops(k) == UNION {Retries(v, w) : w \in NotSent(Flushes(v, Full(k)))}
<1>2. ASSUME NEW k \in 0..(Len(x.queue) - 1), NEW z \in Stops(k) PROVE Holds(z, x, value')
  <2>1. Holds(Full(k), x, value')
    BY StoppedHolds
  <2> HIDE DEF Full
  <2>2. PICK w \in Flushes(v, Full(k)) : z \in Retries(v, w)
    BY <1>2 DEF NotSent
  <2>3. Full(k) \in Sessions
    BY <2>1 DEF Holds
  <2>4. Holds(w, Full(k), value')
    BY <2>2, <2>3, FlushesHold
  <2>5. w \in Sessions
    BY <2>4 DEF Holds
  <2>6. z = w \/ z \in Flushes(v, w)
    BY <2>2 DEF Retries, NotSent
  <2>7. Holds(z, w, value')
    BY <2>5, <2>6, FlushesHold, HoldsSelf
  <2> QED  BY <2>1, <2>4, <2>7, HoldsTrans
<1>3. \/ y = Shifted(x, Len(x.queue))
      \/ \E k \in 0..(Len(x.queue) - 1) : y \in Stops(k)
  <2>1. 0 \in 0..(Len(x.queue) - 1)
    BY <1>1
  <2>2. DrainsFrom(v, x) = IF sock[v] = "broken" THEN Stops(0)
          ELSE {Shifted(x, Len(x.queue))} \cup UNION {Stops(k) : k \in 0..(Len(x.queue) - 1)}
    BY DEF DrainsFrom
  <2> HIDE DEF Stops
  <2> QED  BY <2>1, <2>2
<1> HIDE DEF Stops
<1> QED  BY <1>2, <1>3, AllShiftedHolds

LEMMA PumpsHold ==
  ASSUME NEW v, NEW x \in Sessions, value' \in [Sources -> Versions], NEW y \in Pumps(v, x)
  PROVE  Holds(y, x, value')
<1>1. ASSUME NEW a \in Sessions, NEW b \in Drains(v, a) PROVE Holds(b, a, value')
  <2>1. CASE b = a
    BY <2>1, HoldsSelf
  <2>2. CASE b # a
    <3>1. PICK c \in Flushes(v, a) :
            b \in (IF c.buf = None /\ c.fd THEN DrainsFrom(v, c) ELSE {c})
      BY <1>1, <2>2 DEF Drains
    <3>2. Holds(c, a, value') /\ c \in Sessions
      BY <3>1, FlushesHold DEF Holds
    <3>3. CASE c.buf = None /\ c.fd /\ c.queue # <<>>
      <4>1. Holds(b, c, value')
        BY <3>1, <3>2, <3>3, DrainsFromHold
      <4> QED  BY <3>2, <4>1, HoldsTrans
    <3>4. CASE ~(c.buf = None /\ c.fd)
      BY <3>1, <3>2, <3>4
    <3>5. CASE c.fd /\ c.queue = <<>>
      <4>1. a.queue # <<>>
        BY <1>1, <2>2 DEF Drains
      <4>2. c.fd => c.queue = a.queue
        BY <3>1, FlushKeepsQueue
      <4> QED  BY <3>5, <4>1, <4>2
    <3> QED  BY <3>3, <3>4, <3>5
  <2> QED  BY <2>1, <2>2
<1>2. PICK a \in Flushes(v, x) : y \in Drains(v, a)
  BY DEF Pumps
<1>3. Holds(a, x, value') /\ a \in Sessions
  BY <1>2, FlushesHold DEF Holds
<1> QED  BY <1>1, <1>2, <1>3, HoldsTrans

(* What is offered is in the buffer, in the queue or sent, or it fell into  *)
(* the dump.                                                                *)
Told(y, x, e, val) ==
  /\ y \in Sessions
  /\ y.fd => /\ x.fd /\ Fresh(y, e.src, val)
             /\ \A s \in Sources \ {e.src} : Fresh(x, s, val) => Fresh(y, s, val)

LEMMA QueuedIsTold ==
  ASSUME NEW x \in Sessions, NEW e \in Deferred, NEW val, x.fd
  PROVE  Told(Queued(x, e), x, e, val)
<1>1. /\ x.queue \in Seq(Deferred) /\ IsInjective(x.queue)
      /\ DOMAIN x.queue = 1..Len(x.queue) /\ Len(x.queue) \in Nat
  BY QueueFacts
<1>2. CASE e \in Range(x.queue)
  <2>1. Queued(x, e) = x
    BY <1>2 DEF Queued
  <2>2. Waits(x, e.src)
    BY <1>2 DEF Waits, Range
  <2> QED  BY <2>1, <2>2 DEF Told, Fresh
<1>3. CASE e \notin Range(x.queue)
  <2> DEFINE r == Append(x.queue, e)
             y == Queued(x, e)
  <2>1. /\ DOMAIN r = 1..(Len(x.queue) + 1)
        /\ r[Len(x.queue) + 1] = e /\ \A i \in DOMAIN x.queue : r[i] = x.queue[i]
    BY <1>1
  <2>fits. r \in Queues
    BY <1>1, <1>3, AppendIsInjective DEF Queues
  <2>2. y = [x EXCEPT !.queue = r]
    BY <1>3 DEF Queued, Sessions
  <2>3. Len(x.queue) + 1 \in DOMAIN r /\ DOMAIN x.queue \subseteq DOMAIN r
    BY <1>1, <2>1
  <2> HIDE DEF r, y
  <2>4. /\ y \in Sessions /\ y.fd = x.fd /\ y.dump = x.dump /\ y.missed = x.missed
        /\ y.queue = r /\ y.buf = x.buf /\ y.got = x.got
    BY <2>2, <2>fits DEF Sessions
  <2>5. Waits(y, e.src)
    BY <2>1, <2>3, <2>4 DEF Waits
  <2>6. \A s \in Sources : Waits(x, s) => Waits(y, s)
    BY <2>1, <2>3, <2>4 DEF Waits
  <2> QED  BY <2>4, <2>5, <2>6 DEF Told, Fresh, y
<1> QED  BY <1>2, <1>3

LEMMA OfferedIsTold ==
  ASSUME NEW v, NEW x \in Sessions, NEW e \in Deferred, value' \in [Sources -> Versions],
         NEW y \in Offered(v, x, e)
  PROVE  Told(y, x, e, value')
<1>0. e.src \in Sources
  BY DEF Deferred
<1>1. CASE ~x.fd
  BY <1>1 DEF Offered, Told
<1>2. CASE x.fd /\ (x.buf # None \/ x.queue # <<>>)
  BY <1>2, QueuedIsTold DEF Offered
<1>3. CASE x.fd /\ x.buf = None /\ x.queue = <<>>
  <2> DEFINE z == Loaded(x, e.src)
  <2>1. y \in Flushes(v, z)
    BY <1>3 DEF Offered
  <2>2. /\ z \in Sessions /\ z.fd = x.fd /\ z.dump = x.dump /\ z.missed = x.missed
        /\ z.queue = x.queue /\ z.got = x.got
        /\ z.buf # None /\ z.buf.src = e.src /\ z.buf.ver = value'[e.src]
    BY <1>0, LoadedFacts
  <2> HIDE DEF z
  <2>3. Holds(y, z, value')
    BY <2>1, <2>2, FlushesHold
  <2>4. Fresh(z, e.src, value')
    BY <2>2 DEF Fresh
  <2>5. \A s \in Sources \ {e.src} : Fresh(x, s, value') => Fresh(z, s, value')
    BY <1>3, <2>2 DEF Fresh, Waits
  <2> QED  BY <1>0, <2>2, <2>3, <2>4, <2>5 DEF Holds, Told
<1> QED  BY <1>1, <1>2, <1>3

LEMMA OffersAreTold ==
  ASSUME NEW v, NEW x \in Sessions, NEW e \in Deferred, value' \in [Sources -> Versions],
         NEW y \in Offers(v, x, e)
  PROVE  Told(y, x, e, value')
<1>0. e.src \in Sources
  BY DEF Deferred
<1>1. CASE ~x.fd
  BY <1>1 DEF Offers, Told
<1>2. CASE x.fd /\ e.kind = "state" /\ x.dump # {}
  <2>1. y = [x EXCEPT !.missed = x.missed \cup {e.src}]
    BY <1>2 DEF Offers, Sessions
  <2>2. /\ y \in Sessions /\ y.fd = x.fd /\ y.dump = x.dump /\ y.queue = x.queue
        /\ y.buf = x.buf /\ y.got = x.got /\ y.missed = x.missed \cup {e.src}
    BY <1>0, <2>1 DEF Sessions
  <2> QED  BY <1>2, <2>2 DEF Told, Fresh, Waits
<1>3. CASE x.fd /\ ~(e.kind = "state" /\ x.dump # {})
  <2>1. PICK z \in Pumps(v, x) : y \in Offered(v, [z EXCEPT !.missed = @ \ {e.src}], e)
    BY <1>3 DEF Offers
  <2> DEFINE w == [z EXCEPT !.missed = @ \ {e.src}]
  <2>2. z \in Sessions /\ Holds(z, x, value')
    BY <2>1, PumpsHold DEF Holds
  <2>3. /\ w \in Sessions /\ w.fd = z.fd /\ w.dump = z.dump /\ w.queue = z.queue
        /\ w.buf = z.buf /\ w.got = z.got /\ w.missed = z.missed \ {e.src}
    BY <2>2 DEF Sessions
  <2>4. y \in Offered(v, w, e)
    BY <2>1
  <2> HIDE DEF w
  <2>5. Told(y, w, e, value')
    BY <2>3, <2>4, OfferedIsTold
  <2>6. \A s \in Sources \ {e.src} : Fresh(z, s, value') => Fresh(w, s, value')
    BY <2>3 DEF Fresh, Waits
  <2> QED  BY <2>2, <2>3, <2>5, <2>6 DEF Holds, Told
<1> QED  BY <1>1, <1>2, <1>3

LEMMA BroadcastsAreTold ==
  ASSUME NEW before \in [Viewers -> Sessions], NEW e \in Deferred,
         value' \in [Sources -> Versions], NEW f \in Broadcasts(before, e)
  PROVE  /\ f \in [Viewers -> Sessions]
         /\ \A v \in Viewers : /\ v \in Range(sessions) => Told(f[v], before[v], e, value')
                               /\ v \notin Range(sessions) => f[v] = before[v]
<1>1. /\ DOMAIN f = Viewers /\ f = [v \in Viewers |-> f[v]]
      /\ \A v \in Viewers :
           f[v] \in IF v \in Range(sessions) THEN Offers(v, before[v], e) ELSE {before[v]}
  BY DEF Broadcasts
<1>2. \A v \in Viewers : v \in Range(sessions) => Told(f[v], before[v], e, value')
  BY <1>1, OffersAreTold
<1>3. \A v \in Viewers : v \notin Range(sessions) => f[v] = before[v]
  BY <1>1
<1>4. \A v \in Viewers : f[v] \in Sessions
  BY <1>2, <1>3 DEF Told
<1> QED  BY <1>1, <1>2, <1>3, <1>4

-----------------------------------------------------------------------------
(* All sessions together: only an object that exists is served, the one     *)
(* httpd is about to push has its whole dump ahead, and every source of     *)
(* every session is accounted for.                                          *)

SesTyped == ses \in [Viewers -> Sessions] /\ value \in [Sources -> Versions]

Accounted(v) == \A s \in Sources : Fresh(ses[v], s, value)

SessionsInv ==
  \A v \in Viewers : ses[v].fd =>
    v \in Alive /\ (v \in Pushing => ses[v].dump = Sources) /\ Accounted(v)

(* A step never raises a session from the dead, but for a new one.          *)
NoneRises == \A v \in Viewers : ses'[v].fd => ses[v].fd

(* An event reaches every session of the vector, and no other.              *)
Tells ==
  /\ SesTyped' /\ NoneRises
  /\ \A v \in Viewers :
       IF v \in Range(sessions) THEN ses'[v].fd /\ Accounted(v) => Accounted(v)'
       ELSE ses'[v] = ses[v]

LEMMA ConnectMakes ==
  ASSUME SesTyped, NEW v \in Viewers, Connect(v)
  PROVE  /\ SesTyped' /\ value' = value /\ ses'[v].dump = Sources
         /\ \A u \in Viewers \ {v} : ses'[u] = ses[u]
<1>1. PICK b \in {None, Ping} :
        ses' = [ses EXCEPT ![v] = [Unborn EXCEPT !.fd = TRUE, !.dump = Sources, !.buf = b]]
  BY DEF Connect
<1> DEFINE x == [Unborn EXCEPT !.fd = TRUE, !.dump = Sources, !.buf = b]
<1>2. Ping \in Events
  BY Zeroes DEF Ping, Events
<1>3. x \in Sessions /\ x.dump = Sources
  BY <1>2, UnbornFits DEF Sessions
<1>4. ses' = [ses EXCEPT ![v] = x] /\ value' = value
  BY <1>1 DEF Connect
<1> HIDE DEF x
<1> QED  BY <1>3, <1>4 DEF SesTyped

LEMMA PublishTells ==
  ASSUME SesTyped, NEW s \in Sources, Publish(s)
  PROVE  Tells
<1> DEFINE e == [src |-> s, kind |-> "state"]
<1>1. ses' \in Broadcasts(ses, e) /\ value' = [value EXCEPT ![s] = @ + 1]
  BY DEF Publish
<1>2. e \in Deferred /\ e.src = s
  BY DEF Deferred, Kinds
<1>3. /\ value' \in [Sources -> Versions] /\ ses \in [Viewers -> Sessions]
      /\ \A t \in Sources \ {s} : value'[t] = value[t]
  <2>1. value \in [Sources -> Versions] /\ value[s] + 1 \in Versions
    BY StreamAssumption DEF SesTyped, Versions, Publish
  <2> QED  BY <1>1, <2>1 DEF SesTyped
<1> HIDE DEF e
<1>4. /\ ses' \in [Viewers -> Sessions]
      /\ \A v \in Viewers : /\ v \in Range(sessions) => Told(ses'[v], ses[v], e, value')
                            /\ v \notin Range(sessions) => ses'[v] = ses[v]
  <2>1. ses' \in Broadcasts(ses, e)
    BY <1>1
  <2>2. e \in Deferred /\ value' \in [Sources -> Versions] /\ ses \in [Viewers -> Sessions]
    BY <1>2, <1>3
  <2> QED  BY <2>1, <2>2, BroadcastsAreTold
<1>5. NoneRises
  BY <1>4 DEF Told, NoneRises
<1>6. ASSUME NEW v \in Range(sessions) \cap Viewers, ses'[v].fd, Accounted(v)
      PROVE  Accounted(v)'
  <2>1. \A t \in Sources \ {s} : Fresh(ses[v], t, value')
    BY <1>3, <1>6 DEF Accounted, Fresh
  <2>2. \A t \in Sources : Fresh(ses'[v], t, value')
    BY <1>2, <1>4, <1>6, <2>1 DEF Told
  <2> QED  BY <2>2 DEF Accounted
<1>7. SesTyped'
  BY <1>3, <1>4 DEF SesTyped
<1> QED  BY <1>4, <1>5, <1>6, <1>7 DEF Tells

LEMMA ServeTells ==
  ASSUME PlaceTyped, SesTyped, LoopServe
  PROVE  Tells
<1>1. UNCHANGED <<sessions, value>> /\ ses[This].fd /\ loop < Len(sessions)
  BY DEF LoopServe, AtSession
<1>2. This \in Viewers /\ This \in Range(sessions)
  BY <1>1 DEF This, PlaceTyped, Range
<1>3. PICK x \in Pumps(This, ses[This]) :
        IF x.dump = {} THEN ses' = [ses EXCEPT ![This] = x]
        ELSE \E s \in x.dump :
               ses' \in Broadcasts([ses EXCEPT ![This] = [x EXCEPT !.dump = @ \ {s}]],
                                   [src |-> s, kind |-> "all"])
  BY DEF LoopServe
<1>4. value' \in [Sources -> Versions] /\ value' = value /\ ses \in [Viewers -> Sessions]
  BY <1>1 DEF SesTyped
<1>5. Holds(x, ses[This], value) /\ x \in Sessions
  BY <1>2, <1>3, <1>4, PumpsHold DEF Holds
<1>6. CASE x.dump = {}
  <2>1. ses' = [ses EXCEPT ![This] = x]
    BY <1>3, <1>6
  <2>2. /\ ses' \in [Viewers -> Sessions] /\ ses'[This] = x
        /\ \A v \in Viewers \ {This} : ses'[v] = ses[v]
    BY <1>2, <1>4, <1>5, <2>1
  <2>3. NoneRises
    BY <1>5, <2>2 DEF NoneRises, Holds
  <2>4. \A v \in Viewers : ses'[v].fd /\ Accounted(v) => Accounted(v)'
    BY <1>4, <1>5, <2>2 DEF Holds, Accounted
  <2> QED  BY <1>2, <1>4, <2>2, <2>3, <2>4 DEF Tells, SesTyped
<1>7. CASE x.dump # {}
  <2>1. PICK s \in x.dump :
          ses' \in Broadcasts([ses EXCEPT ![This] = [x EXCEPT !.dump = @ \ {s}]],
                              [src |-> s, kind |-> "all"])
    BY <1>3, <1>7
  <2> DEFINE w == [x EXCEPT !.dump = @ \ {s}]
             before == [ses EXCEPT ![This] = w]
             e == [src |-> s, kind |-> "all"]
  <2>2. s \in Sources /\ e \in Deferred /\ e.src = s
    BY <1>5, <2>1 DEF Sessions, Deferred, Kinds
  <2>3. /\ w \in Sessions /\ w.fd = x.fd /\ w.dump = x.dump \ {s} /\ w.queue = x.queue
        /\ w.buf = x.buf /\ w.got = x.got /\ w.missed = x.missed
    BY <1>5 DEF Sessions
  <2>4. ses' \in Broadcasts(before, e)
    BY <2>1
  <2> HIDE DEF w
  <2>5. /\ before \in [Viewers -> Sessions] /\ before[This] = w
        /\ \A v \in Viewers \ {This} : before[v] = ses[v]
    BY <1>2, <1>4, <2>3
  <2> HIDE DEF before, e
  <2>6. /\ ses' \in [Viewers -> Sessions]
        /\ \A v \in Viewers : /\ v \in Range(sessions) => Told(ses'[v], before[v], e, value')
                              /\ v \notin Range(sessions) => ses'[v] = before[v]
    BY <1>4, <2>2, <2>4, <2>5, BroadcastsAreTold
  <2>7. \A t \in Sources \ {s} : Fresh(x, t, value) => Fresh(w, t, value)
    BY <2>3 DEF Fresh, Waits
  <2>8. ASSUME NEW v \in Viewers, before[v].fd
        PROVE  /\ ses[v].fd
               /\ Accounted(v) => \A t \in Sources \ {s} : Fresh(before[v], t, value)
    <3>1. CASE v = This
      BY <1>2, <1>5, <2>3, <2>5, <2>7, <2>8, <3>1 DEF Holds, Accounted
    <3>2. CASE v # This
      BY <2>5, <2>8, <3>2 DEF Accounted
    <3> QED  BY <3>1, <3>2
  <2>9. \A v \in Viewers : ses'[v].fd => before[v].fd
    BY <2>6 DEF Told
  <2>10. NoneRises
    BY <2>8, <2>9 DEF NoneRises
  <2>11. ASSUME NEW v \in Range(sessions) \cap Viewers, ses'[v].fd, Accounted(v)
         PROVE  Accounted(v)'
    <3>1. \A t \in Sources : Fresh(ses'[v], t, value')
      BY <1>4, <2>2, <2>6, <2>8, <2>9, <2>11 DEF Told
    <3> QED  BY <3>1 DEF Accounted
  <2>12. \A v \in Viewers : v \notin Range(sessions) => ses'[v] = ses[v]
    BY <1>2, <2>5, <2>6
  <2>13. SesTyped'
    BY <1>4, <2>6 DEF SesTyped
  <2> QED  BY <2>10, <2>11, <2>12, <2>13 DEF Tells
<1> QED  BY <1>6, <1>7

LEMMA OthersKeep ==
  ASSUME PlaceTyped, SesTyped,
         \/ \E v \in Viewers : Destroy(v) \/ Break(v)
         \/ PushBack \/ EnableLoop \/ EnablePending \/ Reap \/ LoopEnd
  PROVE  /\ SesTyped' /\ NoneRises /\ value' = value
         /\ \A v \in Viewers : ses'[v].fd => ses'[v] = ses[v]
<1>1. /\ ses \in [Viewers -> Sessions] /\ value \in [Sources -> Versions] /\ value' = value
  BY DEF SesTyped, Destroy, Break, PushBack, EnableLoop, EnablePending, Reap, LoopDelete,
         LoopOverwrite, LoopPop, LoopEnd
<1>2. CASE \E v \in Viewers : Destroy(v)
  <2>1. ses' \in [Viewers -> Sessions] /\ \A u \in Viewers : ses'[u] \in {Unborn, ses[u]}
    BY <1>1, <1>2, UnbornFits DEF Destroy
  <2> QED  BY <1>1, <2>1, UnbornFits DEF SesTyped, NoneRises
<1>3. CASE LoopDelete
  <2>1. ses' = [ses EXCEPT ![This] = Unborn]
    BY <1>3 DEF LoopDelete
  <2>2. ses' \in [Viewers -> Sessions] /\ \A u \in Viewers : ses'[u] \in {Unborn, ses[u]}
    BY <1>1, <2>1, UnbornFits
  <2> QED  BY <1>1, <2>2, UnbornFits DEF SesTyped, NoneRises
<1>4. CASE UNCHANGED ses
  BY <1>1, <1>4 DEF SesTyped, NoneRises
<1> QED
  BY <1>2, <1>3, <1>4
     DEF Break, PushBack, EnableLoop, EnablePending, Reap, LoopOverwrite, LoopPop, LoopEnd

LEMMA SesStep ==
  ASSUME PlaceTyped, SesTyped, StreamNext
  PROVE  SesTyped'
BY ConnectMakes, PublishTells, ServeTells, OthersKeep DEF Tells, StreamNext, Httpd, Pass

(* Between two removals a session that is not in the vector is about to be  *)
(* pushed, and misses nothing by being passed over.                         *)
LEMMA TellingKeeps ==
  ASSUME VectorInv, SessionsInv, reap = "no", UNCHANGED <<home, freed, httpd>>, Tells
  PROVE  SessionsInv'
<1>1. Alive' = Alive /\ Pushing' = Pushing /\ Range(sessions) = Alive \ Pushing
  BY DEF Alive, Pushing, VectorInv
<1>2. SUFFICES ASSUME NEW v \in Viewers, ses'[v].fd
               PROVE  v \in Alive' /\ (v \in Pushing' => ses'[v].dump = Sources) /\ Accounted(v)'
  BY DEF SessionsInv
<1>3. v \in Alive /\ (v \in Pushing => ses[v].dump = Sources) /\ Accounted(v)
  BY <1>2 DEF SessionsInv, Tells, NoneRises
<1>4. CASE v \in Range(sessions)
  BY <1>1, <1>2, <1>3, <1>4 DEF Tells
<1>5. CASE v \notin Range(sessions)
  <2>1. v \in Pushing /\ ses'[v] = ses[v] /\ ses'[v].dump = Sources
    BY <1>1, <1>3, <1>5 DEF Tells
  <2> QED  BY <1>1, <1>3, <2>1 DEF Accounted, Fresh
<1> QED  BY <1>4, <1>5

LEMMA SessionsStep ==
  ASSUME PlaceTyped, VectorInv, SesTyped, SessionsInv, StreamNext
  PROVE  SessionsInv'
<1>1. ASSUME NEW v \in Viewers, Connect(v) PROVE SessionsInv'
  <2>1. /\ ses'[v].dump = Sources /\ value' = value
        /\ \A u \in Viewers \ {v} : ses'[u] = ses[u]
    BY <1>1, ConnectMakes
  <2>2. /\ httpd.pc # "push" /\ httpd' = [pc |-> "push", who |-> v] /\ freed' = freed
    BY <1>1 DEF Connect, NoRequest
  <2>3. PICK block \in {v} \cup {home[u] : u \in freed} : home' = [home EXCEPT ![v] = block]
    BY <1>1 DEF Connect
  <2>4. block # None /\ v \notin freed
    BY <1>1, <2>3, StreamAssumption DEF VectorInv, PlaceTyped, Connect
  <2>5. home'[v] # None /\ \A u \in Viewers \ {v} : home'[u] = home[u]
    BY <2>3, <2>4 DEF PlaceTyped
  <2>6. Alive' = Alive \cup {v} /\ Pushing' = {v}
    BY <2>2, <2>4, <2>5 DEF Alive, Pushing
  <2>7. Accounted(v)'
    BY <2>1 DEF Accounted, Fresh
  <2>8. \A u \in Viewers \ {v} : Accounted(u) => Accounted(u)'
    BY <2>1 DEF Accounted
  <2> QED  BY <2>1, <2>6, <2>7, <2>8 DEF SessionsInv
<1>2. ASSUME NEW s \in Sources, Publish(s) PROVE SessionsInv'
  <2>1. reap = "no" /\ UNCHANGED <<home, freed, httpd>>
    BY <1>2 DEF Publish, httpVars
  <2> QED  BY <1>2, <2>1, PublishTells, TellingKeeps
<1>3. CASE LoopServe
  <2>1. reap = "no" /\ UNCHANGED <<home, freed, httpd>>
    BY <1>3 DEF LoopServe, AtSession, httpVars
  <2> QED  BY <1>3, <2>1, ServeTells, TellingKeeps
<1>4. CASE \/ \E v \in Viewers : Destroy(v) \/ Break(v)
           \/ PushBack \/ EnableLoop \/ EnablePending \/ Reap \/ LoopEnd
  <2>1. /\ NoneRises /\ value' = value
        /\ \A v \in Viewers : ses'[v].fd => ses'[v] = ses[v]
    BY <1>4, OthersKeep
  <2>2. home' = home /\ Pushing' \subseteq Pushing
    <3>1. httpd' = httpd \/ httpd'.pc # "push"
      BY <1>4 DEF Destroy, Break, PushBack, EnableLoop, NoRequest, EnablePending, Reap,
                  LoopDelete, LoopOverwrite, LoopPop, LoopEnd, httpVars, PlaceTyped
    <3>2. home' = home
      BY <1>4 DEF Destroy, Break, PushBack, EnableLoop, EnablePending, Reap,
                  LoopDelete, LoopOverwrite, LoopPop, LoopEnd, httpVars
    <3> QED  BY <3>1, <3>2 DEF Pushing
  <2>3. freed' = freed \/ (freed' = freed \cup {This} /\ ses' = [ses EXCEPT ![This] = Unborn])
    BY <1>4 DEF Destroy, Break, PushBack, EnableLoop, EnablePending, Reap,
                LoopDelete, LoopOverwrite, LoopPop, LoopEnd
  <2>4. \A v \in Viewers : ses'[v].fd /\ v \in Alive => v \in Alive'
    BY <2>2, <2>3, UnbornFits DEF Alive, SesTyped
  <2>5. \A v \in Viewers : ses'[v].fd /\ Accounted(v) => Accounted(v)'
    BY <2>1 DEF Accounted
  <2> QED  BY <2>1, <2>2, <2>4, <2>5 DEF SessionsInv, NoneRises
<1> QED  BY <1>1, <1>2, <1>3, <1>4 DEF StreamNext, Httpd, Pass

(* What holds throughout, and what an append that meets the pop of a        *)
(* removal puts an end to.                                                  *)
StreamInv == PlaceTyped /\ SesTyped /\ (torn \/ (VectorInv /\ SessionsInv))

LEMMA StreamInvHolds == StreamSpec => []StreamInv
<1>1. StreamInit => StreamInv
  <2> SUFFICES ASSUME StreamInit PROVE StreamInv
    OBVIOUS
  <2>1. PlaceTyped /\ VectorInv
    BY VectorStarts
  <2>2. SesTyped /\ \A v \in Viewers : ~ses[v].fd
    BY UnbornFits, Zeroes DEF StreamInit, SesTyped
  <2> QED  BY <2>1, <2>2 DEF StreamInv, SessionsInv
<1>2. StreamInv /\ [StreamNext]_streamVars => StreamInv'
  <2>1. ASSUME StreamInv, UNCHANGED streamVars PROVE StreamInv'
    BY <2>1 DEF StreamInv, PlaceTyped, VectorInv, SesTyped, SessionsInv, Accounted, Alive,
                Pushing, This, streamVars
  <2>2. ASSUME StreamInv, StreamNext PROVE StreamInv'
    <3>1. PlaceTyped' /\ SesTyped'
      BY <2>2, PlaceStep, SesStep DEF StreamInv
    <3>2. torn => torn'
      BY <2>2 DEF StreamNext, Connect, Destroy, Break, Httpd, PushBack, EnableLoop, Publish,
                  EnablePending, Pass, Reap, LoopDelete, LoopOverwrite, LoopPop, LoopServe, LoopEnd
    <3>3. ~torn' => VectorInv' /\ SessionsInv'
      BY <2>2, <3>2, VectorStep, SessionsStep DEF StreamInv
    <3> QED  BY <3>1, <3>3 DEF StreamInv
  <2> QED  BY <2>1, <2>2
<1> QED  BY <1>1, <1>2, PTL DEF StreamSpec

(* For any number of viewers that connect, die and are replaced in any      *)
(* order: until an append first falls between the overwrite and the pop of  *)
(* a removal, or runs into the pop, no session is lost and no pointer to a  *)
(* deleted one is kept, wherever else in the pass and in the other two      *)
(* statements of a removal httpd pushes back, evicts and closes.            *)
THEOREM SessionsAreNotLost == StreamSpec => []VectorHoldsTheAlive
<1>1. StreamInv => VectorHoldsTheAlive
  BY DEF StreamInv, VectorInv, VectorHoldsTheAlive, NoSessionIsLost, Pushing
<1> QED  BY <1>1, StreamInvHolds, PTL

(* For any number of sources and changes: a viewer for whom nothing waits   *)
(* has the last state of every source, but for a change that fell into its  *)
(* dump, whatever the socket refused or took in parts, as long as no append *)
(* has met the pop of a removal.                                            *)
THEOREM NothingIsStale == StreamSpec => []CaughtUp
<1>1. StreamInv => CaughtUp
  <2> SUFFICES ASSUME StreamInv, ~torn, NEW v \in Viewers, ses[v].fd, ses[v].dump = {},
                      ses[v].buf = None, ses[v].queue = <<>>, NEW s \in Sources
               PROVE  s \in ses[v].missed \/ ses[v].got[s] = value[s]
    BY DEF CaughtUp
  <2>1. Fresh(ses[v], s, value)
    BY DEF StreamInv, SessionsInv, Accounted
  <2>2. ~Waits(ses[v], s)
    BY DEF Waits
  <2> QED  BY <2>1, <2>2 DEF Fresh
<1> QED  BY <1>1, StreamInvHolds, PTL

(* For any number of viewers, sources, changes and refusals: the state of   *)
(* the event streams has its types, no session gathers an event twice, so   *)
(* that a deferred queue is as short as there are entities and kinds of     *)
(* event, and the pass over the sessions stays inside the vector, also      *)
(* where appends and pops meet.                                             *)
THEOREM StreamTypesAreKept == StreamSpec => []StreamTypeOK
<1>1. StreamInv => StreamTypeOK
  <2> SUFFICES ASSUME StreamInv PROVE StreamTypeOK
    OBVIOUS
  <2>1. ses \in [Viewers -> SessionState]
    <3>1. Sessions \subseteq SessionState
      BY DEF Sessions, SessionState, Queues, Events, Buffers, Versions, Failures
    <3>2. ses \in [Viewers -> Sessions]
      BY DEF StreamInv, SesTyped
    <3> QED  BY <3>1, <3>2
  <2>2. \A v \in Viewers : IsInjective(ses[v].queue)
    BY QueueFacts DEF StreamInv, SesTyped
  <2>3. value \in [Sources -> 0..MaxChanges]
    BY DEF StreamInv, SesTyped, Versions
  <2> QED  BY <2>1, <2>2, <2>3 DEF StreamTypeOK, StreamInv, PlaceTyped, SockStates
<1> QED  BY <1>1, StreamInvHolds, PTL

-----------------------------------------------------------------------------
(* The cap.  The live sessions are counted off along the vector: the count  *)
(* at one is higher than at any before it, so that those spared by an       *)
(* eviction have as many different counts above ToEvict, and none above the *)
(* number of live places.                                                   *)

Upto(j) == {k \in LivePlaces : k <= j}
LiveViewers == {v \in Viewers : Live(v)}
Served == {v \in Viewers : sock[v] = "open" /\ ses[v].fd}

LEMMA CountsRise ==
  ASSUME PlaceTyped
  PROVE  /\ IsFiniteSet(LivePlaces) /\ LiveCount \in Nat
         /\ \A j \in LivePlaces : Cardinality(Upto(j)) \in 1..LiveCount
         /\ \A i, j \in LivePlaces : i < j => Cardinality(Upto(i)) < Cardinality(Upto(j))
<1>1. DOMAIN sessions = 1..Len(sessions) /\ Len(sessions) \in Nat
  BY DEF PlaceTyped
<1>2. IsFiniteSet(LivePlaces) /\ LiveCount \in Nat
  <2>1. IsFiniteSet(1..Len(sessions))
    BY <1>1, FS_Interval
  <2>2. LivePlaces \in SUBSET (1..Len(sessions))
    BY <1>1 DEF LivePlaces
  <2>3. IsFiniteSet(LivePlaces)
    BY <2>1, <2>2, FS_Subset
  <2> QED  BY <2>3, FS_CardinalityType DEF LiveCount
<1>3. ASSUME NEW j \in LivePlaces
      PROVE  /\ IsFiniteSet(Upto(j)) /\ Cardinality(Upto(j)) \in Nat
             /\ Cardinality(Upto(j)) <= LiveCount /\ j \in Upto(j)
  <2>1. Upto(j) \in SUBSET LivePlaces
    BY DEF Upto
  <2>2. IsFiniteSet(Upto(j)) /\ Cardinality(Upto(j)) <= Cardinality(LivePlaces)
    BY <1>2, <2>1, FS_Subset
  <2>3. Cardinality(Upto(j)) \in Nat
    BY <2>2, FS_CardinalityType
  <2>4. j \in Upto(j)
    BY <1>1 DEF Upto, LivePlaces
  <2> QED  BY <2>2, <2>3, <2>4 DEF LiveCount
<1>4. ASSUME NEW j \in LivePlaces PROVE Cardinality(Upto(j)) \in 1..LiveCount
  <2>1. Cardinality(Upto(j)) # 0
    BY <1>3, FS_EmptySet
  <2> QED  BY <1>2, <1>3, <2>1
<1>5. ASSUME NEW i \in LivePlaces, NEW j \in LivePlaces, i < j
      PROVE  Cardinality(Upto(i)) < Cardinality(Upto(j))
  <2>1. i \in Nat /\ j \in Nat /\ \A k \in LivePlaces : k \in Nat
    BY <1>1 DEF LivePlaces
  <2>2. Upto(i) \in SUBSET (Upto(j) \ {j})
    <3>1. ASSUME NEW k \in Upto(i) PROVE k \in LivePlaces /\ k <= j /\ k # j
      BY <1>5, <2>1 DEF Upto
    <3> QED  BY <3>1 DEF Upto
  <2>3. /\ IsFiniteSet(Upto(j) \ {j})
        /\ Cardinality(Upto(j) \ {j}) = Cardinality(Upto(j)) - 1
    BY <1>3, FS_RemoveElement
  <2>4. Cardinality(Upto(i)) <= Cardinality(Upto(j) \ {j})
    BY <2>2, <2>3, FS_Subset
  <2> QED  BY <1>3, <2>3, <2>4
<1> QED  BY <1>2, <1>4, <1>5

LEMMA EvictionMakesRoom ==
  ASSUME PlaceTyped
  PROVE  /\ IsFiniteSet(LiveViewers \ Evicted)
         /\ Cardinality(LiveViewers \ Evicted) <= MaxViewers - 1
<1> DEFINE Spared == LiveViewers \ Evicted
           place(v) == CHOOSE j \in DOMAIN sessions : sessions[j] = v
           count == [v \in Spared |-> Cardinality(Upto(place(v)))]
           T == ToEvict
<1>1. /\ LiveCount \in Nat
      /\ \A j \in LivePlaces : Cardinality(Upto(j)) \in 1..LiveCount
      /\ \A i, j \in LivePlaces : i < j => Cardinality(Upto(i)) < Cardinality(Upto(j))
  BY CountsRise
<1>2. MaxViewers \in Nat /\ MaxViewers > 0
  BY StreamAssumption
<1>3. T \in Nat /\ (T = 0 => LiveCount <= MaxViewers - 1 \/ MaxViewers - 1 = LiveCount)
      /\ LiveCount - T <= MaxViewers - 1 /\ T <= LiveCount
  BY <1>1, <1>2 DEF ToEvict
<1>4. ASSUME NEW v \in Spared
      PROVE  /\ place(v) \in LivePlaces /\ sessions[place(v)] = v
             /\ Cardinality(Upto(place(v))) \in (T + 1)..LiveCount
  <2>1. \E j \in DOMAIN sessions : sessions[j] = v
    BY <1>4 DEF LiveViewers, Live, Range
  <2>2. place(v) \in DOMAIN sessions /\ sessions[place(v)] = v
    BY <2>1
  <2> HIDE DEF place
  <2>3. place(v) \in LivePlaces
    BY <1>4, <2>2 DEF LivePlaces, LiveViewers
  <2>4. ~(Cardinality(Upto(place(v))) <= T)
    BY <1>4, <2>2, <2>3 DEF Evicted, Upto
  <2>5. Cardinality(Upto(place(v))) \in 1..LiveCount
    BY <1>1, <2>3
  <2> HIDE DEF T
  <2> QED  BY <1>1, <1>3, <2>2, <2>3, <2>4, <2>5
<1> HIDE DEF place, T
<1>5. ASSUME NEW u \in Spared, NEW v \in Spared,
             Cardinality(Upto(place(u))) = Cardinality(Upto(place(v)))
      PROVE  u = v
  <2>1. place(u) \in LivePlaces /\ place(v) \in LivePlaces
    BY <1>4
  <2>2. place(u) \in Nat /\ place(v) \in Nat
    BY <2>1 DEF LivePlaces, PlaceTyped
  <2>3. /\ Cardinality(Upto(place(u))) \in Nat
        /\ ~(Cardinality(Upto(place(u))) < Cardinality(Upto(place(v))))
        /\ ~(Cardinality(Upto(place(v))) < Cardinality(Upto(place(u))))
    BY <1>1, <1>5, <2>1
  <2>4. ~(place(u) < place(v)) /\ ~(place(v) < place(u))
    BY <1>1, <2>1, <2>3
  <2>5. place(u) = place(v)
    BY <2>2, <2>4
  <2> QED  BY <1>4, <2>5
<1>6. count \in Injection(Spared, (T + 1)..LiveCount)
  BY <1>4, <1>5 DEF Injection, IsInjective
<1> HIDE DEF count, Spared
<1>7. T + 1 \in Int /\ LiveCount \in Int
  BY <1>1, <1>3
<1>8. /\ IsFiniteSet((T + 1)..LiveCount)
      /\ Cardinality((T + 1)..LiveCount) = IF T + 1 > LiveCount THEN 0 ELSE LiveCount - (T + 1) + 1
  BY <1>7, FS_Interval
<1>9. IsFiniteSet(Spared) /\ Cardinality(Spared) <= Cardinality((T + 1)..LiveCount)
  BY <1>6, <1>8, FS_Injection
<1>10. Cardinality((T + 1)..LiveCount) <= MaxViewers - 1
  BY <1>1, <1>2, <1>3, <1>8
<1>11. Cardinality(Spared) \in Nat /\ Cardinality((T + 1)..LiveCount) \in Nat
  BY <1>8, <1>9, FS_CardinalityType
<1> QED  BY <1>2, <1>9, <1>10, <1>11 DEF Spared

LEMMA CapStep ==
  ASSUME StreamInv, CapHolds, StreamNext
  PROVE  CapHolds'
<1>1. SUFFICES ASSUME ~torn' PROVE Cardinality(Served') <= MaxViewers
  BY DEF CapHolds, Served
<1>2. ~torn
  BY <1>1 DEF StreamNext, Connect, Destroy, Break, Httpd, PushBack, EnableLoop, Publish,
              EnablePending, Pass, Reap, LoopDelete, LoopOverwrite, LoopPop, LoopServe, LoopEnd
<1>3. /\ PlaceTyped /\ VectorInv /\ SesTyped /\ SessionsInv /\ IsFiniteSet(Served)
      /\ Served \in SUBSET Viewers /\ Cardinality(Served) <= MaxViewers
  <2>1. Served \in SUBSET Viewers
    BY DEF Served
  <2>2. IsFiniteSet(Served)
    BY <2>1, StreamAssumption, FS_Subset
  <2> QED  BY <1>2, <2>1, <2>2 DEF StreamInv, CapHolds, Served
<1>4. ASSUME NEW v \in Viewers, Connect(v) PROVE Cardinality(Served') <= MaxViewers
  <2>1. \A u \in Viewers \ {v} : ses'[u] = ses[u]
    BY <1>3, <1>4, ConnectMakes
  <2>2. \A u \in Viewers \ {v} : sock'[u] = "open" => sock[u] = "open" /\ u \notin Evicted
    BY <1>4 DEF Connect
  <2>3. Pushing = {}
    BY <1>4 DEF Connect, NoRequest, Pushing
  <2>4. \A u \in Viewers : ses[u].fd => u \in LiveViewers
    BY <1>3, <2>3, AllAreInVector DEF SessionsInv, LiveViewers, Live
  <2>5. Served' \in SUBSET ((LiveViewers \ Evicted) \cup {v})
    BY <2>1, <2>2, <2>4 DEF Served
  <2> DEFINE Spared == LiveViewers \ Evicted
  <2>6. IsFiniteSet(Spared) /\ Cardinality(Spared) <= MaxViewers - 1
    BY <1>3, EvictionMakesRoom
  <2> HIDE DEF Spared
  <2>7. /\ IsFiniteSet(Spared \cup {v})
        /\ Cardinality(Spared \cup {v}) <= MaxViewers
    <3>1. Cardinality(Spared) \in Nat
      BY <2>6, FS_CardinalityType
    <3>2. /\ IsFiniteSet(Spared \cup {v})
          /\ Cardinality(Spared \cup {v}) \in {Cardinality(Spared), Cardinality(Spared) + 1}
      BY <2>6, FS_AddElement
    <3> QED  BY <2>6, <3>1, <3>2, StreamAssumption
  <2>8. Served' \in SUBSET (Spared \cup {v})
    BY <2>5 DEF Spared
  <2>9. Cardinality(Served') <= Cardinality(Spared \cup {v})
    BY <2>7, <2>8, FS_Subset
  <2>10. Cardinality(Served') \in Nat /\ Cardinality(Spared \cup {v}) \in Nat
    BY <2>7, <2>8, FS_Subset, FS_CardinalityType
  <2> QED  BY <2>7, <2>9, <2>10, StreamAssumption
<1>5. CASE ~(\E v \in Viewers : Connect(v))
  <2>1. NoneRises
    BY <1>3, <1>5, PublishTells, ServeTells, OthersKeep DEF Tells, StreamNext, Httpd, Pass
  <2>2. \A v \in Viewers : sock'[v] = "open" => sock[v] = "open"
    <3>1. \/ sock' = sock
          \/ \E u \in Viewers, s \in {"closed", "broken"} : sock' = [sock EXCEPT ![u] = s]
      BY <1>5 DEF StreamNext, Httpd, Pass, Reap, Destroy, Break, PushBack, EnableLoop, Publish,
                  EnablePending, LoopDelete, LoopOverwrite, LoopPop, LoopServe, LoopEnd, httpVars
    <3> QED  BY <1>3, <3>1 DEF PlaceTyped
  <2>3. Served' \in SUBSET Served
    BY <2>1, <2>2 DEF Served, NoneRises
  <2>4. Cardinality(Served') <= Cardinality(Served)
    BY <1>3, <2>3, FS_Subset
  <2>5. Cardinality(Served') \in Nat /\ Cardinality(Served) \in Nat
    BY <1>3, <2>3, FS_Subset, FS_CardinalityType
  <2> QED  BY <1>3, <2>4, <2>5, StreamAssumption
<1> QED  BY <1>4, <1>5

(* For any number of viewers and any cap: however they connect, die and are *)
(* evicted, no more than MaxViewers of those served are not on their way    *)
(* out, until an append meets the pop of a removal.                         *)
THEOREM ViewersAreCapped == StreamSpec => []CapHolds
<1>1. StreamInit => CapHolds
  <2> SUFFICES ASSUME StreamInit PROVE CapHolds
    OBVIOUS
  <2>1. \A v \in Viewers : ~ses[v].fd
    BY UnbornFits DEF StreamInit
  <2>2. Served = {}
    BY <2>1 DEF Served
  <2>3. Cardinality(Served) = 0
    BY <2>2, FS_EmptySet
  <2>4. Cardinality(Served) <= MaxViewers
    BY <2>3, StreamAssumption
  <2> QED  BY <2>4 DEF CapHolds, Served
<1>2. StreamInv /\ CapHolds /\ [StreamNext]_streamVars => CapHolds'
  <2>1. UNCHANGED streamVars /\ CapHolds => CapHolds'
    BY DEF CapHolds, streamVars
  <2> QED  BY <2>1, CapStep
<1> QED  BY <1>1, <1>2, StreamInvHolds, PTL DEF StreamSpec

-----------------------------------------------------------------------------
(* The wake-up: what is safety in StreamsSettle.                            *)

(* As long as a response waits in the vector, the loop runs, is to run, or  *)
(* the request that put it there has yet to say so.                         *)
WakeUpIsNotLost ==
  sessions # <<>> => awake \/ pending \/ httpd.pc = "wake"

(* For any number of viewers: between the push, the flag and the loop that  *)
(* disables itself there is no moment at which a session is forgotten.      *)
THEOREM WakeUpsArrive == StreamSpec => []WakeUpIsNotLost
<1>1. StreamInit => WakeUpIsNotLost
  BY DEF StreamInit, WakeUpIsNotLost
<1>2. ASSUME PlaceTyped, WakeUpIsNotLost, [StreamNext]_streamVars
      PROVE  WakeUpIsNotLost'
  <2>0. WakeUpIsNotLost
    BY <1>2
  <2>1. ASSUME NEW v \in Viewers, Connect(v) \/ Destroy(v) \/ Break(v)
        PROVE  WakeUpIsNotLost'
    BY <2>0, <2>1 DEF Connect, Destroy, Break, NoRequest, WakeUpIsNotLost, loopVars
  <2>2. CASE PushBack
    BY <2>2 DEF PushBack, WakeUpIsNotLost
  <2>3. CASE EnableLoop \/ EnablePending
    BY <2>3 DEF EnableLoop, EnablePending, WakeUpIsNotLost
  <2>4. ASSUME NEW s \in Sources, Publish(s) PROVE WakeUpIsNotLost'
    BY <2>0, <2>4 DEF Publish, WakeUpIsNotLost, loopVars, httpVars
  <2>5. CASE Reap \/ LoopServe
    <3>1. awake'
      BY <1>2, <2>5 DEF Reap, LoopDelete, LoopOverwrite, LoopPop, LoopServe, AtSession, PlaceTyped
    <3> QED  BY <3>1 DEF WakeUpIsNotLost
  <2>6. CASE LoopEnd
    BY <2>6 DEF LoopEnd, StaysAwake, WakeUpIsNotLost
  <2>7. CASE UNCHANGED streamVars
    BY <2>0, <2>7 DEF WakeUpIsNotLost, streamVars
  <2> QED
    BY <1>2, <2>1, <2>2, <2>3, <2>4, <2>5, <2>6, <2>7 DEF StreamNext, Httpd, Pass
<1>3. StreamInv => PlaceTyped
  BY DEF StreamInv
<1> QED  BY <1>1, <1>2, <1>3, StreamInvHolds, PTL DEF StreamSpec
=============================================================================
