-------------------------- MODULE MCAlertEvaluation --------------------------
(* Three alerts of two readers, evaluated by the daemon.                   *)
EXTENDS AlertEvaluation, TLC

CONSTANTS w1, w2, w3, h1, h2

MCAlert  == {w1, w2, w3}
MCHolder == {h1, h2}
MCOwner  == (w1 :> h1) @@ (w2 :> h2) @@ (w3 :> h1)
=============================================================================
