------------------------ MODULE MCPriceArchiveOutage ------------------------
(* The same archive with no bound on how long maintenance may stay away:   *)
(* the daemon down, or paused by its disk guard, for longer than the       *)
(* rollup window.                                                          *)
EXTENDS PriceArchive

MCTraded == {0}
MCWindow == [to \in Rolled |-> IF to = "1h" THEN 4 ELSE 8]
MCKeep   == [t \in Tier |-> CASE t = "5m" -> 5 [] t = "1h" -> 7 [] OTHER -> 0]
=============================================================================
