---------------------------- MODULE MCOtelGrouper ----------------------------
(***************************************************************************)
(* Small instances of OtelGrouper: one or two files of one size unit each, *)
(* at most one undecodable entry, and a target or a window that some cuts  *)
(* fill and others do not, so that cuts are triggered by size, by count,   *)
(* by age and by poison.                                                   *)
(***************************************************************************)
EXTENDS OtelGrouper, TLC

CONSTANTS w1, w2, a, b, x

MCSize == [e \in Entries |-> 1]

\* Fault budgets: <<command errors, partial scripts, lost leases, crashes>>.
Budget(error, partial, stall, crash) ==
  [kind \in FaultKinds |->
     CASE kind = "error" -> error [] kind = "partial" -> partial
       [] kind = "stall" -> stall [] kind = "crash" -> crash]

SafetyFaults == Budget(1, 1, 1, 1)
LiveFaults   == Budget(1, 1, 0, 1)   \* no live leader loses its lease

AllTogether == {}
NotBoth     == {{"partial", "stall"}, {"error", "stall"}}

WorkerSymmetry == Permutations(Workers)
=============================================================================
