----------------------------- MODULE FeedReplica -----------------------------
(***************************************************************************)
(* What conditional polling promises: the tables follow the feed.  They    *)
(* only ever move forward, to something the feed has said.                 *)
(***************************************************************************)
EXTENDS Naturals

CONSTANT Feed
VARIABLES source, copy

Init == source = [f \in Feed |-> 1] /\ copy = [f \in Feed |-> 0]

Publish(f) ==
  /\ source' = [source EXCEPT ![f] = @ + 1]
  /\ UNCHANGED copy

Follow(f) ==
  /\ copy[f] < source[f]
  /\ \E v \in copy[f] + 1 .. source[f] : copy' = [copy EXCEPT ![f] = v]
  /\ UNCHANGED source

Next == \E f \in Feed : Publish(f) \/ Follow(f)

Spec == Init /\ [][Next]_<<source, copy>>
=============================================================================
