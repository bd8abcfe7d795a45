---------------------------- MODULE OtelPartition ----------------------------
(***************************************************************************)
(* What the grouper promises to the loads behind it: the registered files  *)
(* are partitioned into groups.  A group is decided once, from files that  *)
(* wait and belong to no group yet, and never changes; it is published     *)
(* after it was decided, and stays published.                              *)
(***************************************************************************)
CONSTANT Files

VARIABLES
  waiting,    \* registered files that belong to no group
  decided,    \* groups
  published   \* groups handed to the ingestion queue

vars == <<waiting, decided, published>>

Init == waiting = {} /\ decided = {} /\ published = {}

Admit(f) ==
  /\ f \in Files \ (waiting \cup UNION decided)
  /\ waiting' = waiting \cup {f}
  /\ UNCHANGED <<decided, published>>

Decide(g) ==
  /\ g # {}
  /\ g \subseteq waiting
  /\ waiting' = waiting \ g
  /\ decided' = decided \cup {g}
  /\ UNCHANGED published

Publish(g) ==
  /\ g \in decided \ published
  /\ published' = published \cup {g}
  /\ UNCHANGED <<waiting, decided>>

Next ==
  \/ \E f \in Files : Admit(f)
  \/ \E g \in SUBSET Files : Decide(g)
  \/ \E g \in decided : Publish(g)

Spec == Init /\ [][Next]_vars
=============================================================================
