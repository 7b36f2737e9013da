---------------------------- MODULE MCFortuneFile ----------------------------
(* Two adds of two lengths, two removals, one reader; or the adds alone,   *)
(* with the request that made the file still running.                      *)
EXTENDS FortuneFile, TLC

CONSTANTS a1, a2, r1, r2, d1, c, junk

MCAdder   == {a1, a2}
MCRemover == {r1, r2}
MCReader  == {d1}
MCLength   == (a1 :> 1) @@ (a2 :> 2)
=============================================================================
