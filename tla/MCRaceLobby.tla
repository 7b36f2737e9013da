----------------------------- MODULE MCRaceLobby -----------------------------
(* A host and two guests, who may be interchanged.                         *)
EXTENDS RaceLobby

CONSTANTS g1, g2
MCGuest == {g1, g2}
=============================================================================
