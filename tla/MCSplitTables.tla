---------------------------- MODULE MCSplitTables ----------------------------
(***************************************************************************)
(* Small instances of SplitTables: one or two ingestion requests, one or   *)
(* two refreshes that overlap, two values of the retention, and jobs of    *)
(* two attempts.                                                           *)
(***************************************************************************)
EXTENDS SplitTables, TLC

CONSTANTS q1, q2, i1, i2, short, long

Budget(error, crash, timeout, lost, cancel, change, delete) ==
  [kind \in EventKinds |->
     CASE kind = "error" -> error [] kind = "crash" -> crash
       [] kind = "timeout" -> timeout [] kind = "lost" -> lost
       [] kind = "cancel" -> cancel [] kind = "change" -> change
       [] kind = "delete" -> delete]

\* Faults of provisioning; deletion; a change of the retention meets them.
SafetyEvents == {Budget(2, 1, 1, 1, 1, 0, 0), Budget(1, 0, 0, 0, 0, 0, 1),
                 Budget(1, 1, 1, 1, 0, 1, 0)}

\* An inline run that is given up and one failure more.
LiveEvents   == {Budget(1, 0, 1, 0, 0, 0, 0), Budget(0, 1, 1, 0, 0, 0, 0),
                 Budget(0, 0, 1, 1, 0, 0, 0), Budget(0, 0, 1, 0, 1, 0, 0)}

\* Inline provisioning fails, and so does the call to the queue.
LostEvents   == {Budget(1, 0, 0, 1, 0, 0, 0)}

Symmetry == Permutations(Requests) \cup Permutations(Refreshes)
              \cup Permutations(Retentions)
=============================================================================
