------------------------------ MODULE MCVisitors -----------------------------
(***************************************************************************)
(* Visitors at the same time: players who race each other, and requests    *)
(* that write to one fortune file and draw from it.  They share nothing: a *)
(* run looks at one, the other stays where it began.                       *)
(*                                                                         *)
(* lobby     see MCRaceLobby; guests may be interchanged                   *)
(* fortunes  see MCFortuneFile; removals may be interchanged               *)
(***************************************************************************)
EXTENDS MCRaceLobby, MCFortuneFile

MCSymmetry == Permutations(MCGuest) \cup Permutations(MCRemover)

VARIABLE lane
MCVars == <<lane, vars, fortuneVars>>

MCInit == lane \in {"lobby", "fortunes"} /\ Init /\ FortuneInit

MCNext ==
  /\ UNCHANGED lane
  /\ \/ lane = "lobby" /\ Next /\ UNCHANGED fortuneVars
     \/ lane = "fortunes" /\ FortuneNext /\ UNCHANGED vars

MCSpec == MCInit /\ [][MCNext]_MCVars
=============================================================================
