------------------------------ MODULE MCArchive ------------------------------
(***************************************************************************)
(* The price archive, and the limiter in front of what it asks for.  They  *)
(* share nothing: a run looks at one, the other stays where it began.      *)
(*                                                                         *)
(* archive   see MCPriceArchive                                            *)
(* limiter   three goroutines                                              *)
(***************************************************************************)
EXTENDS MCPriceArchive, RequestLimiter

CONSTANTS c1, c2, c3
MCCaller == {c1, c2, c3}

VARIABLE lane
MCVars == <<lane, vars, limiterVars>>

MCInit == lane \in {"archive", "limiter"} /\ Init /\ LimiterInit

MCNext ==
  /\ UNCHANGED lane
  /\ \/ lane = "archive" /\ Next /\ UNCHANGED limiterVars
     \/ lane = "limiter" /\ LimiterNext /\ UNCHANGED vars

MCSpec == MCInit /\ [][MCNext]_MCVars
=============================================================================
