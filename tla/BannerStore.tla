---------------------------- MODULE BannerStore ----------------------------
(***************************************************************************)
(* What the custom-banner gallery promises: a slot is free or holds one    *)
(* whole banner, and it goes from the one to the other in a single step.   *)
(***************************************************************************)
CONSTANTS
  Banners,   (* the banners that are saved *)
  Places,    (* the slots of the storage partition *)
  Free       (* a slot without a banner *)

VARIABLE store

Contents == [Places -> Banners \cup {Free}]

Init == store = [p \in Places |-> Free]

(* A save becomes visible at once and never replaces another banner.        *)
Publish(p, b) == store[p] = Free /\ store' = [store EXCEPT ![p] = b]

Remove(p) == store[p] # Free /\ store' = [store EXCEPT ![p] = Free]

Next == \E p \in Places : Remove(p) \/ \E b \in Banners : Publish(p, b)

Spec == Init /\ [][Next]_store
=============================================================================
