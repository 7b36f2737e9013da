--------------------------- MODULE MCPriceArchive ---------------------------
(* A small archive: 2 five-minute buckets to the hour, 2 hours to the day. *)
EXTENDS PriceArchiveNightly

MCTraded == {0, 2, 3}
MCWindow == [to \in Rolled |-> IF to = "1h" THEN 4 ELSE 8]
MCKeep   == [t \in Tier |-> CASE t = "5m" -> 2 [] t = "1h" -> 7 [] OTHER -> 0]
MCReach  == [t \in {"5m", "1h"} |-> IF t = "5m" THEN 2 ELSE 6]
MCSteps  == {"24h"}
=============================================================================
