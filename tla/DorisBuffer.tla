----------------------------- MODULE DorisBuffer -----------------------------
(***************************************************************************)
(* What DorisWriter promises to its producers and to Doris: an outbox with *)
(* backpressure.  A producer waits only while its table is at the cap, and *)
(* is let in only below it.  The rows of a table leave in the order they   *)
(* came, in batches within both limits.  A batch is formed once, is never  *)
(* split or merged, and is in one place at a time: kept for a retry or     *)
(* taken.  It leaves for good when Doris has it, or when its attempts are  *)
(* exhausted, and only then does the fate of its rows change, all at once. *)
(***************************************************************************)
EXTENDS Integers, Sequences

CONSTANTS Rows, Names, TableOf, SizeOf, BatchSize, MaxBatchBytes, MaxQueueBytes, MaxAttempts

VARIABLES
  fresh,   \* table -> rows in no batch yet, oldest first
  parked,  \* batches that failed and wait for a retry
  taken,   \* batches on their way to Doris
  fate     \* row -> what became of it

vars == <<fresh, parked, taken, fate>>

Init ==
  /\ fresh = [t \in Names |-> <<>>]
  /\ parked = {} /\ taken = {}
  /\ fate = [r \in Rows |-> "new"]

FirstRows(t, k) == {fresh[t][i] : i \in 1 .. k}

Buffered(t) ==
  {r \in Rows : /\ TableOf[r] = t
                /\ r \in FirstRows(t, Len(fresh[t])) \cup UNION {b.rows : b \in parked}}

Full(t) == SizeOf[Buffered(t)] >= MaxQueueBytes

Wait(r) ==
  /\ fate[r] \in {"new", "written", "dropped"} /\ Full(TableOf[r])
  /\ fate' = [fate EXCEPT ![r] = "blocked"]
  /\ UNCHANGED <<fresh, parked, taken>>

Accept(r) ==
  /\ fate[r] # "accepted" /\ ~Full(TableOf[r])
  /\ fate' = [fate EXCEPT ![r] = "accepted"]
  /\ fresh' = [fresh EXCEPT ![TableOf[r]] = Append(@, r)]
  /\ UNCHANGED <<parked, taken>>

Form(t, k) ==
  /\ k <= BatchSize
  /\ k = 1 \/ SizeOf[FirstRows(t, k)] <= MaxBatchBytes
  /\ fresh' = [fresh EXCEPT ![t] = SubSeq(@, k + 1, Len(@))]
  /\ taken' = taken \cup {[table |-> t, rows |-> FirstRows(t, k), attempts |-> 0]}
  /\ UNCHANGED <<parked, fate>>

Take(b) ==
  /\ b \in parked
  /\ parked' = parked \ {b} /\ taken' = taken \cup {b}
  /\ UNCHANGED <<fresh, fate>>

Leave(b, end) ==
  /\ taken' = taken \ {b}
  /\ fate' = [r \in Rows |-> IF r \in b.rows THEN end ELSE fate[r]]
  /\ UNCHANGED <<fresh, parked>>

Exhausted(b) == MaxAttempts > 0 /\ b.attempts + 1 >= MaxAttempts

Deliver(b) == Leave(b, "written")

GiveUp(b) == Exhausted(b) /\ Leave(b, "dropped")

Fail(b) ==
  /\ ~Exhausted(b)
  /\ taken' = taken \ {b}
  /\ parked' = parked \cup {[b EXCEPT !.attempts = @ + 1]}
  /\ UNCHANGED <<fresh, fate>>

Next ==
  \/ \E r \in Rows : Wait(r) \/ Accept(r)
  \/ \E t \in Names : \E k \in 1 .. Len(fresh[t]) : Form(t, k)
  \/ \E b \in parked : Take(b)
  \/ \E b \in taken : Deliver(b) \/ GiveUp(b) \/ Fail(b)

Spec == Init /\ [][Next]_vars
=============================================================================
