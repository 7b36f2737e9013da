----------------------------- MODULE HistoryLog -----------------------------
(***************************************************************************)
(* What the archive promises its readers, apart from how it keeps it: the  *)
(* moments of the past for which some price row exists only ever grow.     *)
(***************************************************************************)
VARIABLE covered   \* moments

Init == covered = {}

Record == covered \subseteq covered'

Spec == Init /\ [][Record]_covered
=============================================================================
