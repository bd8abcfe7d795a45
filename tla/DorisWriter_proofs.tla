-------------------------- MODULE DorisWriter_proofs --------------------------
(***************************************************************************)
(* Theorems about DorisWriter, for any rows, tables, sizes and slots.      *)
(***************************************************************************)
EXTENDS DorisWriter, TLAPS, FiniteSetTheorems, WellFoundedInduction

-----------------------------------------------------------------------------
(***************************************************************************)
(* The part of the state a producer's wait depends on: what is buffered,   *)
(* parked, loading or collected consists of rows, so its bytes are numbers.*)
(***************************************************************************)
Loads == [table : Names, rows : SUBSET Rows, attempts : Nat]

Shape ==
  /\ queue \in [Names -> Seq(Rows)]
  /\ size \in [Names -> Int]
  /\ later \subseteq Loads
  /\ due \in Seq(Loads)
  /\ loading \subseteq Loads
  /\ wave \subseteq Loads
  /\ tasks \in Seq(Loads)
  /\ waiting \in Seq(Rows)
  /\ woken \in Seq(Rows)

(* NoLostWakeup with what a running stretch adds: only a collection lowers *)
(* the bytes before it has notified.                                       *)
Asleep ==
  sync # "collect" => \A i \in DOMAIN waiting : AtCap(TableOf[waiting[i]])

WakeInv == Shape /\ Asleep

-----------------------------------------------------------------------------
LEMMA TablesAreNames == \A n \in DOMAIN Tables : Tables[n] \in Names
BY DEF Names, ToSet

LEMMA SizesAreNat == \A S \in SUBSET Rows : SizeOf[S] \in Nat
BY RowAssumption

LEMMA RowHasTable == \A r \in Rows : TableOf[r] \in Names
BY RowAssumption DEF Names

LEMMA PrefixIsRows ==
  ASSUME NEW q \in Seq(Rows), NEW k \in 1 .. Len(q)
  PROVE  /\ ToSet(SubSeq(q, 1, k)) \in SUBSET Rows
         /\ SubSeq(q, k + 1, Len(q)) \in Seq(Rows)
<1>1. SubSeq(q, 1, k) \in Seq(Rows)
  OBVIOUS
<1>2. \A s \in Seq(Rows) : ToSet(s) \in SUBSET Rows
  BY DEF ToSet
<1>3. SubSeq(q, k + 1, Len(q)) \in Seq(Rows)
  OBVIOUS
<1>4. QED
  BY <1>1, <1>2, <1>3

LEMMA RemoveAtKeeps ==
  ASSUME NEW s \in Seq(Loads), NEW i \in DOMAIN s
  PROVE  RemoveAt(s, i) \in Seq(Loads) /\ s[i] \in Loads
<1>1. \A m, n \in Int : 1 <= m /\ n <= Len(s) => SubSeq(s, m, n) \in Seq(Loads)
  OBVIOUS
<1>2. SubSeq(s, 1, i - 1) \in Seq(Loads) /\ SubSeq(s, i + 1, Len(s)) \in Seq(Loads)
  BY <1>1
<1>3. QED
  BY <1>2 DEF RemoveAt

LEMMA DischargeKeeps ==
  ASSUME Shape, NEW b \in Loads, Discharge(b)
  PROVE  size' \in [Names -> Int]
<1>1. SizeOf[b.rows] \in Nat /\ b.table \in Names
  BY SizesAreNat DEF Loads
<1>2. DEFINE n == size[b.table] - SizeOf[b.rows]
<1>3. n \in Int
  BY <1>1 DEF Shape
<1>4. size' = [size EXCEPT ![b.table] = n]
  BY DEF Discharge
<1>5. QED
  BY <1>3, <1>4 DEF Shape

(***************************************************************************)
(* Taking a batch keeps the shape of the buffer.                           *)
(***************************************************************************)
BufferShape ==
  /\ queue' \in [Names -> Seq(Rows)]
  /\ size' \in [Names -> Int]
  /\ later' \subseteq Loads
  /\ due' \in Seq(Loads)

LEMMA TakeFreshKeeps ==
  ASSUME Shape, NEW t \in Names, NEW k \in FreshLengths(t), TakeFresh(t, k)
  PROVE  BufferShape /\ FreshBatch(t, k) \in Loads
<1>1. queue[t] \in Seq(Rows) /\ k \in 1 .. Len(queue[t])
  BY DEF Shape, FreshLengths
<1>2. FreshBatch(t, k) \in Loads
  BY <1>1, PrefixIsRows DEF FreshBatch, Loads
<1>3. size' \in [Names -> Int]
  BY <1>2, DischargeKeeps DEF TakeFresh
<1>4. queue' \in [Names -> Seq(Rows)]
  BY <1>1, PrefixIsRows DEF TakeFresh, Shape
<1>5. QED
  BY <1>2, <1>3, <1>4 DEF TakeFresh, BufferShape, Shape

LEMMA TakeDueKeeps ==
  ASSUME Shape, NEW i \in DOMAIN due, TakeDue(i)
  PROVE  BufferShape /\ due[i] \in Loads
<1>1. RemoveAt(due, i) \in Seq(Loads) /\ due[i] \in Loads
  BY RemoveAtKeeps DEF Shape
<1>2. size' \in [Names -> Int]
  BY <1>1, DischargeKeeps DEF TakeDue
<1>3. QED
  BY <1>1, <1>2 DEF TakeDue, BufferShape, Shape

LEMMA StartLoadKeeps ==
  ASSUME Shape, NEW pos, pos + 1 \in DOMAIN Tables, StartLoad(pos)
  PROVE  /\ BufferShape
         /\ loading' \subseteq Loads
         /\ woken' \in Seq(Rows)
         /\ waiting' = <<>>
<1> DEFINE t == Tables[pos + 1]
<1>1. t \in Names
  BY TablesAreNames
<1>2. BufferShape /\ loading' \subseteq Loads
  <2>1. CASE \E i \in Least(DueAt(t)) : TakeDue(i) /\ Load(due[i])
    <3>1. PICK i \in DOMAIN due : TakeDue(i) /\ Load(due[i])
      BY <2>1 DEF Least, DueAt
    <3>2. QED
      BY <3>1, TakeDueKeeps DEF Load, Shape
  <2>2. CASE \E k \in Greatest(FreshLengths(t)) :
               TakeFresh(t, k) /\ Load(FreshBatch(t, k))
    <3>1. PICK k \in FreshLengths(t) : TakeFresh(t, k) /\ Load(FreshBatch(t, k))
      BY <2>2 DEF Greatest
    <3>2. QED
      BY <1>1, <3>1, TakeFreshKeeps DEF Load, Shape
  <2>3. QED
    BY <2>1, <2>2 DEF StartLoad
<1>3. woken' \in Seq(Rows) /\ waiting' = <<>>
  BY DEF StartLoad, NotifyBufferDrained, Shape
<1>4. QED
  BY <1>2, <1>3

LEMMA PicksAreTables ==
  ASSUME NEW c \in Int, NEW pos \in Pick(c)
  PROVE  pos + 1 \in DOMAIN Tables /\ pos \in Int
<1>1. Len(Tables) \in Nat \ {0} /\ DOMAIN Tables = 1 .. Len(Tables)
  BY PoolAssumption
<1>2. QED
  BY <1>1 DEF Pick, At, Least

-----------------------------------------------------------------------------
(***************************************************************************)
(* A batch whose load failed comes back charged, or is dropped: the bytes  *)
(* of no table go down.                                                    *)
(***************************************************************************)
LEMMA ParkKeeps ==
  ASSUME Shape, NEW b \in Loads, Park(b)
  PROVE  /\ BufferShape
         /\ \A t \in Names : size'[t] >= size[t]
<1>1. CASE Exhausted(b) /\ UNCHANGED <<buffer, timer>>
  BY <1>1 DEF buffer, BufferShape, Shape
<1>2. CASE /\ later' = later \cup {[b EXCEPT !.attempts = @ + 1]}
           /\ size' = [size EXCEPT ![b.table] = @ + SizeOf[b.rows]]
           /\ UNCHANGED <<queue, stale, due, fate>>
  <2>1. SizeOf[b.rows] \in Nat /\ b.table \in Names
    BY SizesAreNat DEF Loads
  <2>2. [b EXCEPT !.attempts = @ + 1] \in Loads
    BY DEF Loads
  <2>3. size[b.table] + SizeOf[b.rows] \in Int
    BY <2>1 DEF Shape
  <2>4. size' \in [Names -> Int]
    BY <1>2, <2>3 DEF Shape
  <2>5. \A t \in Names : size'[t] >= size[t]
    BY <1>2, <2>1 DEF Shape
  <2>6. QED
    BY <1>2, <2>2, <2>4, <2>5 DEF BufferShape, Shape
<1>3. QED
  BY <1>1, <1>2 DEF Park

(***************************************************************************)
(* Sleepers stay at the cap when no bytes go down and nobody joins them.   *)
(***************************************************************************)
LEMMA StillAsleep ==
  ASSUME Shape, Asleep, size' \in [Names -> Int],
         \A t \in Names : size'[t] >= size[t],
         waiting' = waiting, sync # "collect"
  PROVE  Asleep'
<1>1. \A i \in DOMAIN waiting : TableOf[waiting[i]] \in Names
  BY RowHasTable DEF Shape
<1>2. \A i \in DOMAIN waiting : AtCap(TableOf[waiting[i]])'
  BY <1>1, PoolAssumption DEF Asleep, AtCap, Shape
<1>3. QED
  BY <1>2 DEF Asleep

LEMMA EnqueueKeeps ==
  ASSUME WakeInv, NEW r \in Rows, Enqueue(r), UNCHANGED <<waiting, loading, wave, tasks>>,
         woken' \in Seq(Rows), sync # "collect"
  PROVE  WakeInv'
<1>1. TableOf[r] \in Names /\ SizeOf[{r}] \in Nat
  BY RowHasTable, SizesAreNat
<1>2. size[TableOf[r]] + SizeOf[{r}] \in Int
  BY <1>1 DEF WakeInv, Shape
<1>3. size' \in [Names -> Int]
  BY <1>2 DEF Enqueue, WakeInv, Shape
<1>4. \A t \in Names : size'[t] >= size[t]
  BY <1>1 DEF Enqueue, WakeInv, Shape
<1>5. Append(queue[TableOf[r]], r) \in Seq(Rows)
  BY <1>1 DEF WakeInv, Shape
<1>6. queue' \in [Names -> Seq(Rows)]
  BY <1>5 DEF Enqueue, WakeInv, Shape
<1>7. Shape'
  BY <1>3, <1>6 DEF Enqueue, WakeInv, Shape
<1>8. Asleep'
  BY <1>3, <1>4, StillAsleep DEF WakeInv
<1>9. QED
  BY <1>7, <1>8 DEF WakeInv

LEMMA BlockKeeps ==
  ASSUME WakeInv, NEW r \in Rows, AtCap(TableOf[r]), Block(r),
         UNCHANGED <<loading, wave, tasks>>, woken' \in Seq(Rows), sync # "collect"
  PROVE  WakeInv'
<1>1. UNCHANGED <<queue, size, later, due>> /\ waiting' = Append(waiting, r)
  BY DEF Block, buffer
<1>2. Shape'
  BY <1>1 DEF WakeInv, Shape
<1>3. \A i \in DOMAIN waiting' : size'[TableOf[waiting'[i]]] >= MaxQueueBytes
  <2>1. TAKE i \in DOMAIN waiting'
  <2>2. CASE i \in DOMAIN waiting
    <3>1. waiting'[i] = waiting[i]
      BY <1>1, <2>2 DEF WakeInv, Shape
    <3>2. QED
      BY <1>1, <2>2, <3>1 DEF WakeInv, Asleep, AtCap
  <2>3. CASE i \notin DOMAIN waiting
    <3>1. waiting'[i] = r
      BY <1>1, <2>1, <2>3 DEF WakeInv, Shape
    <3>2. QED
      BY <1>1, <3>1 DEF AtCap
  <2>4. QED
    BY <2>2, <2>3
<1>4. QED
  BY <1>2, <1>3 DEF WakeInv, Asleep, AtCap

-----------------------------------------------------------------------------
(***************************************************************************)
(* Actions that leave the buffer, the waiters and the batches alone.       *)
(***************************************************************************)
LEMMA NothingMoves ==
  ASSUME WakeInv, sync # "collect" \/ sync' = "collect",
         UNCHANGED <<queue, size, later, due, loading, wave, tasks, waiting, woken>>
  PROVE  WakeInv'
BY DEF WakeInv, Shape, Asleep, AtCap

LEMMA LoadEndsKeeps ==
  ASSUME WakeInv, NEW b \in loading \cup wave, LoadSucceeds(b) \/ LoadFails(b)
  PROVE  WakeInv'
<1>1. b \in Loads /\ loading' \subseteq Loads /\ wave' \subseteq Loads /\ sync # "collect"
  BY DEF WakeInv, Shape, LoadSucceeds, LoadFails, Ends, Up
<1>2. CASE LoadSucceeds(b)
  <2>1. UNCHANGED <<queue, size, later, due, tasks, waiting, woken>>
    BY <1>2 DEF LoadSucceeds, buffer
  <2>2. QED
    BY <1>1, <2>1 DEF WakeInv, Shape, Asleep, AtCap
<1>3. CASE LoadFails(b)
  <2>1. UNCHANGED <<tasks, waiting, woken>> /\ Park(b)
    BY <1>3 DEF LoadFails
  <2>2. BufferShape /\ \A t \in Names : size'[t] >= size[t]
    BY <1>1, <2>1, ParkKeeps DEF WakeInv
  <2>3. Shape'
    BY <1>1, <2>1, <2>2 DEF BufferShape, WakeInv, Shape
  <2>4. Asleep'
    BY <1>1, <2>1, <2>2, StillAsleep DEF BufferShape, WakeInv
  <2>5. QED
    BY <2>3, <2>4 DEF WakeInv
<1>4. QED
  BY <1>2, <1>3

LEMMA CollectKeeps ==
  ASSUME WakeInv, Collect
  PROVE  WakeInv'
<1>1. PICK n \in DOMAIN Tables :
        \/ \E b \in later : TakeLater(b) /\ tasks' = Append(tasks, b)
        \/ \E i \in DOMAIN due : TakeDue(i) /\ tasks' = Append(tasks, due[i])
        \/ \E k \in FreshLengths(Tables[n]) :
             TakeFresh(Tables[n], k) /\ tasks' = Append(tasks, FreshBatch(Tables[n], k))
  BY DEF Collect, Least, Greatest, Buffered, DueAt
<1>2. Shape /\ Tables[n] \in Names
  BY TablesAreNames DEF WakeInv
<1>3. BufferShape /\ tasks' \in Seq(Loads)
  <2>1. ASSUME NEW b \in later, TakeLater(b), tasks' = Append(tasks, b)
        PROVE  BufferShape /\ tasks' \in Seq(Loads)
    <3>1. b \in Loads
      BY <1>2 DEF Shape
    <3>2. size' \in [Names -> Int]
      BY <1>2, <2>1, <3>1, DischargeKeeps DEF TakeLater
    <3>3. QED
      BY <1>2, <2>1, <3>1, <3>2 DEF TakeLater, BufferShape, Shape
  <2>2. ASSUME NEW i \in DOMAIN due, TakeDue(i), tasks' = Append(tasks, due[i])
        PROVE  BufferShape /\ tasks' \in Seq(Loads)
    BY <1>2, <2>2, TakeDueKeeps DEF Shape
  <2>3. ASSUME NEW k \in FreshLengths(Tables[n]), TakeFresh(Tables[n], k),
               tasks' = Append(tasks, FreshBatch(Tables[n], k))
        PROVE  BufferShape /\ tasks' \in Seq(Loads)
    BY <1>2, <2>3, TakeFreshKeeps DEF Shape
  <2>4. QED
    BY <1>1, <2>1, <2>2, <2>3
<1>4. UNCHANGED <<loading, wave, waiting, woken>> /\ sync' = "collect"
  BY DEF Collect, pool
<1>5. QED
  BY <1>3, <1>4 DEF BufferShape, WakeInv, Shape, Asleep

(***************************************************************************)
(* The cursor stays a position, so that a scan finds tables.               *)
(***************************************************************************)
CursorIsPosition == cursor \in Int

LEMMA CursorInvariant == Spec => []CursorIsPosition
<1>1. Init => CursorIsPosition
  BY DEF Init, CursorIsPosition
<1>2. CursorIsPosition /\ [Next]_vars => CursorIsPosition'
  <2> SUFFICES ASSUME CursorIsPosition, [Next]_vars
               PROVE  CursorIsPosition'
    OBVIOUS
  <2>1. ASSUME NEW pos \in Int, StartLoad(pos)
        PROVE  CursorIsPosition'
    <3>1. Len(Tables) \in Nat \ {0}
      BY PoolAssumption
    <3>2. QED
      BY <2>1, <3>1 DEF StartLoad, After, At, CursorIsPosition
  <2>2. \A c \in Int : After(c) \in Int
    BY PoolAssumption DEF After, At
  <2>3. CASE Launch
    <3>1. PICK first \in Pick(cursor) : \E pos \in Pick(After(first)) : StartLoad(pos)
      BY <2>3 DEF Launch
    <3>2. first \in Int
      BY PicksAreTables DEF CursorIsPosition
    <3>3. PICK pos \in Pick(After(first)) : StartLoad(pos)
      BY <3>1
    <3>4. pos \in Int
      BY <2>2, <3>2, PicksAreTables
    <3>5. QED
      BY <2>1, <3>3, <3>4
  <2>4. CASE NextLoad
    <3>1. PICK pos \in Pick(cursor) : StartLoad(pos)
      BY <2>4 DEF NextLoad
    <3>2. pos \in Int
      BY PicksAreTables DEF CursorIsPosition
    <3>3. QED
      BY <2>1, <3>1, <3>2
  <2>5. CASE cursor' = cursor
    BY <2>5 DEF CursorIsPosition
  <2>6. QED
    BY <2>3, <2>4, <2>5
    DEF Next, vars, pool, flush, AddToQueue, Recheck, Rest, NoMoreWork, FreeSlot,
        LoadSucceeds, LoadFails, Age, BackoffPasses, TimerRunsOut, RetryTimerFires,
        StalenessTick, Shutdown, Collect, Collected, StartWave, NextPass, Exited
<1>3. QED
  BY <1>1, <1>2, PTL DEF Spec

(***************************************************************************)
(* Every step preserves the invariant.                                     *)
(***************************************************************************)
LEMMA WakeInvariant == Spec => []WakeInv
<1>1. Init => WakeInv
  BY DEF Init, WakeInv, Shape, Asleep, Loads
<1>2. WakeInv /\ CursorIsPosition /\ [Next]_vars => WakeInv'
  <2> SUFFICES ASSUME WakeInv, CursorIsPosition, [Next]_vars
               PROVE  WakeInv'
    OBVIOUS
  <2>1. ASSUME NEW r \in Rows, AddToQueue(r)
        PROVE  WakeInv'
    <3>1. UNCHANGED <<loading, wave, tasks, woken>> /\ sync # "collect" /\ woken \in Seq(Rows)
      BY <2>1 DEF AddToQueue, Up, pool, flush, WakeInv, Shape
    <3>2. CASE AtCap(TableOf[r]) /\ Block(r)
      BY <3>1, <3>2, BlockKeeps
    <3>3. CASE Enqueue(r) /\ UNCHANGED waiting
      BY <3>1, <3>3, EnqueueKeeps
    <3>4. QED
      BY <2>1, <3>2, <3>3 DEF AddToQueue
  <2>2. CASE Recheck
    <3> DEFINE r == Head(woken)
    <3>1. /\ UNCHANGED <<loading, wave, tasks>> /\ sync # "collect"
          /\ r \in Rows /\ woken' \in Seq(Rows)
      BY <2>2 DEF Recheck, Up, pool, flush, WakeInv, Shape
    <3>2. CASE AtCap(TableOf[r]) /\ Block(r)
      BY <3>1, <3>2, BlockKeeps
    <3>3. CASE Enqueue(r) /\ UNCHANGED waiting
      BY <3>1, <3>3, EnqueueKeeps
    <3>4. QED
      BY <2>2, <3>2, <3>3 DEF Recheck
  <2>3. ASSUME NEW pos, pos + 1 \in DOMAIN Tables, StartLoad(pos), UNCHANGED <<wave, tasks>>
        PROVE  WakeInv'
    <3>1. /\ BufferShape /\ loading' \subseteq Loads
          /\ woken' \in Seq(Rows) /\ waiting' = <<>>
      BY <2>3, StartLoadKeeps DEF WakeInv
    <3>2. QED
      BY <2>3, <3>1 DEF BufferShape, WakeInv, Shape, Asleep
  <2>4. CASE Launch
    <3>1. PICK first \in Pick(cursor) : \E pos \in Pick(After(first)) : StartLoad(pos)
      BY <2>4 DEF Launch
    <3>2. After(first) \in Int
      BY PicksAreTables, PoolAssumption DEF CursorIsPosition, After, At
    <3>3. PICK pos \in Pick(After(first)) : StartLoad(pos)
      BY <3>1
    <3>4. pos + 1 \in DOMAIN Tables
      BY <3>2, PicksAreTables
    <3>5. QED
      BY <2>3, <2>4, <3>3, <3>4 DEF Launch
  <2>5. CASE NextLoad
    <3>1. PICK pos \in Pick(cursor) : StartLoad(pos)
      BY <2>5 DEF NextLoad
    <3>2. pos + 1 \in DOMAIN Tables
      BY PicksAreTables DEF CursorIsPosition
    <3>3. QED
      BY <2>3, <2>5, <3>1, <3>2 DEF NextLoad
  <2>6. CASE Rest \/ NoMoreWork \/ FreeSlot \/ TimerRunsOut \/ RetryTimerFires
             \/ StalenessTick \/ Shutdown \/ NextPass
    BY <2>6, NothingMoves
    DEF Rest, NoMoreWork, FreeSlot, TimerRunsOut, RetryTimerFires, StalenessTick,
        Shutdown, NextPass, Finish, Quiet, Up, buffer, pool, flush
  <2>7. ASSUME NEW b \in loading \cup wave, LoadSucceeds(b) \/ LoadFails(b)
        PROVE  WakeInv'
    BY <2>7, LoadEndsKeeps
  <2>8. ASSUME NEW t \in Names, Age(t)
        PROVE  WakeInv'
    BY <2>8 DEF Age, WakeInv, Shape, Asleep, AtCap, pool, flush
  <2>9. ASSUME NEW b \in later, BackoffPasses(b)
        PROVE  WakeInv'
    BY <2>9 DEF BackoffPasses, WakeInv, Shape, Asleep, AtCap, pool, flush
  <2>10. CASE Collect
    BY <2>10, CollectKeeps
  <2>11. CASE Collected
    BY <2>11 DEF Collected, NotifyBufferDrained, WakeInv, Shape, Asleep, buffer, pool
  <2>12. CASE StartWave
    <3>1. PICK n \in 1 .. Slots :
            /\ n <= Len(tasks)
            /\ wave' = ToSet(SubSeq(tasks, 1, n))
            /\ tasks' = SubSeq(tasks, n + 1, Len(tasks))
      BY <2>12 DEF StartWave, Greatest
    <3>2. SubSeq(tasks, 1, n) \in Seq(Loads) /\ tasks' \in Seq(Loads)
      BY <3>1, PoolAssumption DEF WakeInv, Shape
    <3>3. wave' \subseteq Loads
      BY <3>1, <3>2 DEF ToSet
    <3>4. QED
      BY <2>12, <3>2, <3>3
      DEF StartWave, WakeInv, Shape, Asleep, AtCap, buffer, pool, Up
  <2>13. CASE UNCHANGED vars
    BY <2>13, NothingMoves DEF vars, buffer, pool, flush
  <2>14. QED
    BY <2>1, <2>2, <2>4, <2>5, <2>6, <2>7, <2>8, <2>9, <2>10, <2>11, <2>12, <2>13
    DEF Next, Exited
<1>3. QED
  BY <1>1, <1>2, CursorInvariant, PTL DEF Spec

-----------------------------------------------------------------------------
(***************************************************************************)
(* A producer never sleeps on in bufferWaiters once its table is below the *)
(* cap: every take and every collection notifies before it yields.         *)
(***************************************************************************)
THEOREM NoWakeupIsLost == Spec => []NoLostWakeup
<1>1. WakeInv => NoLostWakeup
  BY DEF WakeInv, Asleep, NoLostWakeup
<1>2. QED
  BY <1>1, WakeInvariant, PTL
-----------------------------------------------------------------------------
(***************************************************************************)
(* A scan from any position looks at every table, so that one with a due   *)
(* retry is found.                                                         *)
(***************************************************************************)
InTables == cursor \in 0 .. Len(Tables) - 1

LEMMA LeastExists ==
  ASSUME NEW S \in SUBSET Nat, S # {}
  PROVE  Least(S) # {}
<1>1. PICK x \in S : \A y \in S : ~(<<y, x>> \in OpToRel(<, Nat))
  BY WFMin, NatLessThanWellFounded
<1>2. \A y \in S : <<y, x>> \in Nat \X Nat
  OBVIOUS
<1>3. \A y \in S : ~(y < x)
  BY <1>1, <1>2 DEF OpToRel
<1>4. QED
  BY <1>3 DEF Least

LEMMA ScanMeetsAll ==
  ASSUME NEW c \in 0 .. Len(Tables) - 1, NEW p \in 0 .. Len(Tables) - 1
  PROVE  \E i \in 0 .. Len(Tables) - 1 : At(c, i) = p
<1>1. Len(Tables) \in Nat \ {0}
  BY PoolAssumption
<1>2. CASE p >= c
  <2>1. (c + (p - c)) % Len(Tables) = p
    BY <1>1
  <2>2. p - c \in 0 .. Len(Tables) - 1
    BY <1>1, <1>2
  <2>3. QED
    BY <2>1, <2>2 DEF At
<1>3. CASE p < c
  <2>1. (p + Len(Tables)) % Len(Tables) = p
    BY <1>1
  <2>2. /\ p - c + Len(Tables) \in 0 .. Len(Tables) - 1
        /\ c + (p - c + Len(Tables)) = p + Len(Tables)
    BY <1>1, <1>3
  <2>3. QED
    BY <2>1, <2>2 DEF At
<1>4. QED
  BY <1>1, <1>2, <1>3

LEMMA DueIsPicked ==
  ASSUME Shape, InTables, due # <<>>
  PROVE  Pick(cursor) # {}
<1> DEFINE ready == {i \in 0 .. Len(Tables) - 1 : HasReadyWork(Tables[At(cursor, i) + 1])}
<1>1. 1 \in DOMAIN due /\ due[1].table \in Names
  <2>1. due \in Seq(Loads)
    BY DEF Shape
  <2>2. Len(due) \in Nat /\ Len(due) # 0
    BY <2>1
  <2>3. 1 \in DOMAIN due /\ due[1] \in Loads
    BY <2>1, <2>2
  <2>4. QED
    BY <2>3 DEF Loads
<1>2. PICK n \in DOMAIN Tables : Tables[n] = due[1].table
  BY <1>1 DEF Names, ToSet
<1>3. n - 1 \in 0 .. Len(Tables) - 1
  BY PoolAssumption
<1>4. PICK i \in 0 .. Len(Tables) - 1 : At(cursor, i) = n - 1
  BY <1>3, ScanMeetsAll DEF InTables
<1>5. HasReadyWork(Tables[n])
  BY <1>1, <1>2 DEF HasReadyWork, DueAt
<1>6. i \in ready
  BY <1>3, <1>4, <1>5, PoolAssumption
<1>7. ready \in SUBSET Nat
  BY PoolAssumption
<1>8. Least(ready) # {}
  BY <1>6, <1>7, LeastExists
<1>9. QED
  BY <1>8 DEF Pick

(***************************************************************************)
(* Who is going to look at the due retries: the timer, or a worker.  While *)
(* the timer's callback runs it has the whole pool to itself.              *)
(***************************************************************************)
Workers == loops > 0 \/ loading # {}

CountsAreNat == loops \in Nat /\ exits \in Nat

TimerType == timer \in {"off", "armed", "expired"}

CallbackAlone ==
  sync = "timer" => loops = 0 /\ exits = 0

NoFlushYet ==
  phase = "running" => sync # "collect" /\ wave = {}

ParkedIsTimed ==
  phase = "running" /\ sync # "timer" /\ later # {} => timer # "off"

DueIsAwaited ==
  phase = "running" /\ sync # "timer" /\ due # <<>> => timer = "expired" \/ Workers

DueInv == /\ InTables /\ CountsAreNat /\ TimerType /\ CallbackAlone
          /\ NoFlushYet /\ ParkedIsTimed /\ DueIsAwaited

LEMMA StartLoadServes ==
  ASSUME InTables, NEW pos \in Int, StartLoad(pos)
  PROVE  InTables' /\ loading' # {}
<1>1. InTables'
  BY PoolAssumption DEF StartLoad, After, At, InTables
<1>2. QED
  BY <1>1 DEF StartLoad, Load

LEMMA LaunchServes ==
  ASSUME InTables, Launch
  PROVE  InTables' /\ loading' # {}
<1>1. PICK first \in Pick(cursor) : \E pos \in Pick(After(first)) : StartLoad(pos)
  BY DEF Launch
<1>2. cursor \in Int
  BY PoolAssumption DEF InTables
<1>3. After(first) \in Int
  BY <1>2, PicksAreTables, PoolAssumption DEF After, At
<1>4. PICK pos \in Pick(After(first)) : StartLoad(pos)
  BY <1>1
<1>5. pos \in Int
  BY <1>3, PicksAreTables
<1>6. QED
  BY <1>4, <1>5, StartLoadServes

LEMMA DueStep == Shape /\ DueInv /\ [Next]_vars => DueInv'
<1> SUFFICES ASSUME Shape, DueInv, [Next]_vars PROVE DueInv'
  OBVIOUS
<1> USE DEF DueInv, Workers, CountsAreNat, TimerType, CallbackAlone, NoFlushYet, ParkedIsTimed, DueIsAwaited
<1>1. ASSUME NEW r \in Rows, AddToQueue(r) PROVE DueInv'
  BY <1>1 DEF AddToQueue, Up, Block, Enqueue, buffer, pool, flush, InTables
<1>2. CASE Recheck
  BY <1>2 DEF Recheck, Up, Block, Enqueue, buffer, pool, flush, InTables
<1>3. CASE Launch
  <2>1. InTables' /\ loading' # {}
    BY <1>3, LaunchServes
  <2>2. /\ UNCHANGED <<timer, loops, exits, sync, phase, wave>>
        /\ later' = later
    BY <1>3 DEF Launch, StartLoad, TakeDue, TakeFresh
  <2>3. QED
    BY <2>1, <2>2
<1>4. CASE Rest
  <2>1. UNCHANGED <<buffer, pool, phase, wave>> /\ sync' = "none"
    BY <1>4 DEF Rest, flush
  <2>2. InTables' /\ CountsAreNat' /\ TimerType' /\ CallbackAlone' /\ NoFlushYet'
    BY <1>4, <2>1 DEF Rest, RearmedFor, pool, InTables
  <2>3. ParkedIsTimed'
    BY <1>4, <2>1 DEF Rest, RearmedFor, buffer
  <2>4. ASSUME phase = "running", due # <<>>, sync = "timer" PROVE loading # {}
    <3>1. ~(Active < Slots)
      BY <1>4, <2>4, DueIsPicked DEF Rest, CanLaunch
    <3>2. loading = {} => Active = 0
      BY <2>4, FS_EmptySet DEF Active
    <3>3. QED
      BY <3>1, <3>2, PoolAssumption
  <2>5. DueIsAwaited'
    BY <1>4, <2>1, <2>4 DEF Rest, buffer, pool
  <2>6. QED
    BY <2>2, <2>3, <2>5
<1>5. CASE NextLoad
  <2>1. PICK pos \in Pick(cursor) : StartLoad(pos)
    BY <1>5 DEF NextLoad
  <2>2. InTables' /\ loading' # {}
    BY <2>1, PicksAreTables, StartLoadServes, PoolAssumption DEF InTables
  <2>3. UNCHANGED <<timer, exits, sync, phase, wave>> /\ later' = later /\ loops' = loops - 1 /\ loops > 0 /\ sync = "none"
    BY <1>5 DEF NextLoad, StartLoad, TakeDue, TakeFresh, Up
  <2>4. QED
    BY <2>2, <2>3
<1>6. CASE NoMoreWork
  <2>1. due = <<>>
    BY <1>6, DueIsPicked DEF NoMoreWork
  <2>2. QED
    BY <1>6, <2>1 DEF NoMoreWork, Up, buffer, flush, InTables
<1>7. CASE FreeSlot
  BY <1>7 DEF FreeSlot, Up, buffer, flush, InTables
<1>8. ASSUME NEW b \in loading \cup wave, LoadSucceeds(b) PROVE DueInv'
  BY <1>8 DEF LoadSucceeds, Ends, Up, buffer, InTables
<1>9. ASSUME NEW b \in loading \cup wave, LoadFails(b) PROVE DueInv'
  <2>1. /\ UNCHANGED <<exits, cursor, sync, phase>> /\ Ends(b) /\ Park(b) /\ sync = "none"
    BY <1>9 DEF LoadFails, Up
  <2>2. due' = due
    BY <2>1 DEF Park, buffer
  <2>3. TimerType' /\ (later' # {} => timer' # "off" \/ (later' = later /\ timer' = timer))
    BY <2>1 DEF Park, RearmedFor, buffer
  <2>4. phase = "running" => loops' > 0
    BY <2>1 DEF Ends
  <2>5. QED
    BY <2>1, <2>2, <2>3, <2>4 DEF Ends, InTables
<1>10. ASSUME NEW t \in Names, Age(t) PROVE DueInv'
  BY <1>10 DEF Age, pool, flush, InTables
<1>11. ASSUME NEW b \in later, BackoffPasses(b) PROVE DueInv'
  <2>1. UNCHANGED <<pool, sync, flush>> /\ later' \subseteq later /\ timer' \in {timer, "expired"}
    BY <1>11 DEF BackoffPasses
  <2>2. phase = "running" /\ sync # "timer" => timer' = "expired"
    BY <1>11 DEF BackoffPasses
  <2>3. QED
    BY <2>1, <2>2 DEF pool, flush, InTables
<1>12. CASE TimerRunsOut \/ RetryTimerFires
  BY <1>12 DEF TimerRunsOut, RetryTimerFires, Quiet, Up, buffer, pool, flush, InTables
<1>13. CASE StalenessTick
  BY <1>13 DEF StalenessTick, Quiet, Up, buffer, pool, flush, InTables
<1>14. CASE Shutdown \/ Collect \/ Collected \/ StartWave \/ NextPass
  <2>1. phase' # "running" /\ sync' # "timer" /\ TimerType' /\ UNCHANGED <<loops, exits, cursor>>
    BY <1>14 DEF Shutdown, Collect, Collected, StartWave, NextPass, Finish, Up, pool
  <2>2. QED
    BY <2>1 DEF InTables
<1>15. CASE UNCHANGED vars
  BY <1>15 DEF vars, buffer, pool, flush, InTables
<1>16. QED
  BY <1>1, <1>2, <1>3, <1>4, <1>5, <1>6, <1>7, <1>8, <1>9, <1>10, <1>11, <1>12, <1>13,
     <1>14, <1>15 DEF Next, Exited

LEMMA DueInvariant == Spec => []DueInv
<1>1. Init => DueInv
  BY PoolAssumption
  DEF Init, DueInv, InTables, CountsAreNat, TimerType, CallbackAlone, NoFlushYet, ParkedIsTimed,
      DueIsAwaited
<1>2. WakeInv => Shape
  BY DEF WakeInv
<1>3. QED
  BY <1>1, <1>2, DueStep, WakeInvariant, PTL DEF Spec

(***************************************************************************)
(* While the writer runs, somebody is going to take a retry whose backoff  *)
(* has passed: an expired timer, or a drain worker that will look again.   *)
(***************************************************************************)
THEOREM RetriesAreServed == Spec => []DueIsServed
<1>1. DueInv => DueIsServed
  BY DEF DueInv, DueIsAwaited, DueIsServed, Workers
<1>2. QED
  BY <1>1, DueInvariant, PTL
-----------------------------------------------------------------------------
(***************************************************************************)
(* Where an accepted row is: buffered, loading, or collected by the flush. *)
(***************************************************************************)
InQueue(r) == \E i \in DOMAIN queue[TableOf[r]] : queue[TableOf[r]][i] = r

InBuffer(r) ==
  \/ InQueue(r)
  \/ \E b \in later : r \in b.rows
  \/ \E i \in DOMAIN due : r \in due[i].rows

InTasks(r) == \E i \in DOMAIN tasks : r \in tasks[i].rows

InLoad(r) == \E b \in loading \cup wave : r \in b.rows

(* A batch b is taken out of the buffer, and nothing else.                 *)
Takes(b) ==
  \A r \in Rows : /\ InBuffer(r)' => InBuffer(r)
                  /\ InBuffer(r) => InBuffer(r)' \/ r \in b.rows

LEMMA RemoveAtIndices ==
  ASSUME NEW s \in Seq(Loads), NEW i \in DOMAIN s
  PROVE  /\ DOMAIN RemoveAt(s, i) = 1 .. Len(s) - 1
         /\ \A j \in 1 .. i - 1 : RemoveAt(s, i)[j] = s[j]
         /\ \A j \in i .. Len(s) - 1 : RemoveAt(s, i)[j] = s[j + 1]
<1> DEFINE a == SubSeq(s, 1, i - 1)
           z == SubSeq(s, i + 1, Len(s))
<1>1. \A m, n \in Int : 1 <= m /\ n <= Len(s) => SubSeq(s, m, n) \in Seq(Loads)
  OBVIOUS
<1>2. /\ i \in 1 .. Len(s) /\ Len(s) \in Nat
      /\ a \in Seq(Loads) /\ z \in Seq(Loads)
  BY <1>1
<1>3. Len(a) = i - 1 /\ \A j \in 1 .. i - 1 : a[j] = s[j]
  BY <1>2
<1>4. Len(z) = Len(s) - i /\ \A j \in 1 .. Len(s) - i : z[j] = s[i + j]
  BY <1>2
<1>5. RemoveAt(s, i) = a \o z
  BY DEF RemoveAt
<1> HIDE DEF a, z
<1>6. /\ a \o z \in Seq(Loads) /\ Len(a \o z) = Len(a) + Len(z)
      /\ \A j \in 1 .. Len(a) + Len(z) :
           (a \o z)[j] = IF j <= Len(a) THEN a[j] ELSE z[j - Len(a)]
  BY <1>2
<1>7. Len(a) + Len(z) = Len(s) - 1
  BY <1>2, <1>3, <1>4
<1>8. DOMAIN (a \o z) = 1 .. Len(s) - 1
  BY <1>6, <1>7
<1>9. ASSUME NEW j \in 1 .. i - 1 PROVE (a \o z)[j] = s[j]
  BY <1>2, <1>3, <1>6, <1>7
<1>10. ASSUME NEW j \in i .. Len(s) - 1 PROVE (a \o z)[j] = s[j + 1]
  <2>1. j - (i - 1) \in 1 .. Len(s) - i /\ i + (j - (i - 1)) = j + 1
    BY <1>2
  <2>2. (a \o z)[j] = z[j - (i - 1)]
    BY <1>2, <1>3, <1>6, <1>7
  <2>3. QED
    BY <1>4, <2>1, <2>2
<1>11. QED
  BY <1>5, <1>8, <1>9, <1>10

LEMMA RemovedOrKept ==
  ASSUME NEW s \in Seq(Loads), NEW i \in DOMAIN s
  PROVE  /\ \A j \in DOMAIN RemoveAt(s, i) : \E m \in DOMAIN s : RemoveAt(s, i)[j] = s[m]
         /\ \A m \in DOMAIN s \ {i} : \E j \in DOMAIN RemoveAt(s, i) : RemoveAt(s, i)[j] = s[m]
<1> DEFINE z == RemoveAt(s, i)
<1>1. DOMAIN s = 1 .. Len(s) /\ Len(s) \in Nat /\ i \in 1 .. Len(s)
  OBVIOUS
<1>2. /\ DOMAIN z = 1 .. Len(s) - 1
      /\ \A j \in 1 .. i - 1 : z[j] = s[j]
      /\ \A j \in i .. Len(s) - 1 : z[j] = s[j + 1]
  BY RemoveAtIndices
<1> HIDE DEF z
<1>3. ASSUME NEW j \in 1 .. Len(s) - 1 PROVE \E m \in 1 .. Len(s) : z[j] = s[m]
  <2>1. j \in 1 .. i - 1 \/ j \in i .. Len(s) - 1
    BY <1>1
  <2>2. j \in 1 .. Len(s) /\ j + 1 \in 1 .. Len(s)
    BY <1>1
  <2>3. QED
    BY <1>2, <2>1, <2>2
<1>4. ASSUME NEW m \in 1 .. Len(s), m # i PROVE \E j \in 1 .. Len(s) - 1 : z[j] = s[m]
  <2>1. CASE m < i
    <3>1. m \in 1 .. i - 1 /\ m \in 1 .. Len(s) - 1
      BY <1>1, <2>1
    <3>2. QED
      BY <1>2, <3>1
  <2>2. CASE m > i
    <3>1. m - 1 \in i .. Len(s) - 1 /\ m - 1 \in 1 .. Len(s) - 1 /\ (m - 1) + 1 = m
      BY <1>1, <2>2
    <3>2. QED
      BY <1>2, <3>1
  <2>3. QED
    BY <1>1, <1>4, <2>1, <2>2
<1>5. QED
  BY <1>1, <1>2, <1>3, <1>4 DEF z

LEMMA TakeDueTakes ==
  ASSUME Shape, NEW i \in DOMAIN due, TakeDue(i)
  PROVE  Takes(due[i])
<1>1. /\ \A j \in DOMAIN due' : \E m \in DOMAIN due : due'[j] = due[m]
      /\ \A m \in DOMAIN due \ {i} : \E j \in DOMAIN due' : due'[j] = due[m]
  BY RemovedOrKept DEF TakeDue, Shape
<1>2. queue' = queue /\ later' = later
  BY DEF TakeDue
<1>3. QED
  BY <1>1, <1>2 DEF Takes, InBuffer, InQueue

LEMMA TakeLaterTakes ==
  ASSUME NEW b \in later, TakeLater(b)
  PROVE  Takes(b)
BY DEF TakeLater, Takes, InBuffer, InQueue

LEMMA TakeFreshTakes ==
  ASSUME Shape, NEW t \in Names, NEW k \in FreshLengths(t), TakeFresh(t, k)
  PROVE  Takes(FreshBatch(t, k))
<1> DEFINE q == queue[t]
<1>1. q \in Seq(Rows) /\ k \in 1 .. Len(q) /\ Len(q) \in Nat
  BY DEF Shape, FreshLengths
<1>2. Len(SubSeq(q, 1, k)) = k /\ \A i \in 1 .. k : SubSeq(q, 1, k)[i] = q[i]
  BY <1>1
<1>3. /\ Len(SubSeq(q, k + 1, Len(q))) = Len(q) - k
      /\ \A i \in 1 .. Len(q) - k : SubSeq(q, k + 1, Len(q))[i] = q[k + i]
  BY <1>1
<1>4. queue'[t] = SubSeq(q, k + 1, Len(q))
  BY DEF TakeFresh, Shape
<1>5. \A u \in Names \ {t} : queue'[u] = queue[u]
  BY DEF TakeFresh, Shape
<1>6. UNCHANGED <<later, due>>
  BY DEF TakeFresh
<1>7. \A r \in Rows : TableOf[r] \in Names
  BY RowHasTable
<1>8. ASSUME NEW r \in Rows, InQueue(r)' PROVE InQueue(r)
  <2>1. CASE TableOf[r] = t
    <3>1. DOMAIN queue'[t] = 1 .. Len(q) - k
      <4>1. SubSeq(q, k + 1, Len(q)) \in Seq(Rows)
        BY <1>1
      <4>2. QED
        BY <1>3, <1>4, <4>1
    <3>2. PICK i \in 1 .. Len(q) - k : queue'[t][i] = r
      BY <1>8, <2>1, <3>1 DEF InQueue
    <3>3. q[k + i] = r
      BY <1>3, <1>4, <3>2
    <3>4. k + i \in DOMAIN q
      BY <1>1
    <3>5. QED
      BY <2>1, <3>3, <3>4 DEF InQueue
  <2>2. CASE TableOf[r] # t
    BY <1>5, <1>7, <1>8, <2>2 DEF InQueue
  <2>3. QED
    BY <2>1, <2>2
<1>9. ASSUME NEW r \in Rows, InQueue(r) PROVE InQueue(r)' \/ r \in FreshBatch(t, k).rows
  <2>1. CASE TableOf[r] = t
    <3>1. PICK i \in 1 .. Len(q) : q[i] = r
      BY <1>1, <1>9, <2>1 DEF InQueue
    <3>2. CASE i <= k
      <4>1. i \in 1 .. k /\ DOMAIN SubSeq(q, 1, k) = 1 .. k
        BY <1>1, <1>2, <3>2
      <4>2. r \in ToSet(SubSeq(q, 1, k))
        BY <1>2, <3>1, <4>1 DEF ToSet
      <4>3. QED
        BY <4>2 DEF FreshBatch
    <3>3. CASE i > k
      <4>1. /\ i - k \in 1 .. Len(q) - k /\ k + (i - k) = i
            /\ SubSeq(q, k + 1, Len(q)) \in Seq(Rows)
        BY <1>1, <3>3
      <4>2. queue'[t][i - k] = r
        BY <1>3, <1>4, <3>1, <4>1
      <4>3. i - k \in DOMAIN queue'[t]
        BY <1>1, <1>3, <1>4, <4>1
      <4>4. QED
        BY <2>1, <4>2, <4>3 DEF InQueue
    <3>4. QED
      BY <1>1, <3>2, <3>3
  <2>2. CASE TableOf[r] # t
    BY <1>5, <1>7, <1>9, <2>2 DEF InQueue
  <2>3. QED
    BY <2>1, <2>2
<1>10. QED
  BY <1>6, <1>8, <1>9 DEF Takes, InBuffer

(***************************************************************************)
(* The flush: no producers, and what its last pass leaves is excused.      *)
(***************************************************************************)
Held(r) == InBuffer(r) \/ InTasks(r) \/ InLoad(r)

Covered ==
  /\ fate \in [Rows -> {"new", "blocked", "accepted", "written", "dropped"}]
  /\ \A r \in Rows : fate[r] = "accepted" => Held(r)

NoProducers == phase # "running" => waiting = <<>> /\ woken = <<>>

FlushOnly == phase = "running" => sync # "collect" /\ wave = {} /\ tasks = <<>>

CollectsFirst ==
  /\ sync = "collect" => phase = "flush" /\ wave = {}
  /\ phase = "done" => sync = "none"
  /\ phase \in {"running", "flush", "done"}

LoadsExcused == phase # "running" => \A b \in loading : b.rows \subseteq excused

LastPass ==
  phase = "flush" /\ pass = MaxPasses /\ sync # "collect" =>
    \A r \in Rows : InBuffer(r) => r \in excused

FlushInv == /\ Covered /\ NoProducers /\ FlushOnly /\ CollectsFirst
            /\ LoadsExcused /\ LastPass /\ FlushIsThorough

(* A drain worker takes a batch from the buffer and loads it.              *)
LEMMA StartLoadTakes ==
  ASSUME Shape, NEW pos, pos + 1 \in DOMAIN Tables, StartLoad(pos)
  PROVE  \E b \in Loads : /\ Takes(b) /\ Load(b)
                          /\ waiting' = <<>> /\ (waiting = <<>> => woken' = woken)
<1>1. Tables[pos + 1] \in Names
  BY TablesAreNames
<1>2. waiting' = <<>> /\ (waiting = <<>> => woken' = woken)
  BY DEF StartLoad, NotifyBufferDrained, Shape
<1>3. CASE \E i \in Least(DueAt(Tables[pos + 1])) : TakeDue(i) /\ Load(due[i])
  <2>1. PICK i \in DOMAIN due : TakeDue(i) /\ Load(due[i])
    BY <1>3 DEF Least, DueAt
  <2>2. QED
    BY <1>2, <2>1, TakeDueTakes, TakeDueKeeps
<1>4. CASE \E k \in Greatest(FreshLengths(Tables[pos + 1])) :
             TakeFresh(Tables[pos + 1], k) /\ Load(FreshBatch(Tables[pos + 1], k))
  <2>1. PICK k \in FreshLengths(Tables[pos + 1]) :
          TakeFresh(Tables[pos + 1], k) /\ Load(FreshBatch(Tables[pos + 1], k))
    BY <1>4 DEF Greatest
  <2>2. QED
    BY <1>1, <1>2, <2>1, TakeFreshTakes, TakeFreshKeeps
<1>5. QED
  BY <1>3, <1>4 DEF StartLoad

\* A drain worker that takes a batch takes it from a table.
LEMMA LaunchPicks ==
  ASSUME InTables, Launch \/ NextLoad
  PROVE  \E pos : pos + 1 \in DOMAIN Tables /\ StartLoad(pos)
<1>1. cursor \in Int
  BY PoolAssumption DEF InTables
<1>2. CASE NextLoad
  BY <1>1, <1>2, PicksAreTables DEF NextLoad
<1>3. CASE Launch
  <2>1. PICK first \in Pick(cursor) : \E pos \in Pick(After(first)) : StartLoad(pos)
    BY <1>3 DEF Launch
  <2>2. After(first) \in Int
    BY <1>1, PicksAreTables, PoolAssumption DEF After, At
  <2>3. QED
    BY <2>1, <2>2, PicksAreTables
<1>4. QED
  BY <1>2, <1>3

LEMMA LoadStarts ==
  ASSUME Shape, InTables, FlushInv, Launch \/ NextLoad
  PROVE  FlushInv'
<1>1. \E pos : pos + 1 \in DOMAIN Tables /\ StartLoad(pos)
  BY LaunchPicks
<1>2. PICK b \in Loads : /\ Takes(b) /\ Load(b)
                         /\ waiting' = <<>> /\ (waiting = <<>> => woken' = woken)
  BY <1>1, StartLoadTakes
<1>3. UNCHANGED <<sync, fate, phase, pass, tasks, wave>> /\ phase # "done" /\ sync # "collect"
  BY DEF Launch, NextLoad, Up, FlushInv, CollectsFirst
<1>4. \A r \in Rows : Held(r) => Held(r)'
  <2>1. ASSUME NEW r \in Rows, InBuffer(r) PROVE InBuffer(r)' \/ InLoad(r)'
    BY <1>2, <1>3, <2>1 DEF Takes, Load, InLoad
  <2>2. ASSUME NEW r \in Rows, InLoad(r) PROVE InLoad(r)'
    BY <1>2, <1>3, <2>2 DEF Load, InLoad
  <2>3. QED
    BY <1>3, <2>1, <2>2 DEF Held, InTasks
<1>5. Covered'
  BY <1>3, <1>4 DEF Covered, FlushInv
<1>6. NoProducers' /\ FlushOnly' /\ CollectsFirst' /\ FlushIsThorough'
  BY <1>2, <1>3 DEF FlushInv, NoProducers, FlushOnly, CollectsFirst, FlushIsThorough
<1>7. LoadsExcused'
  BY <1>2, <1>3 DEF FlushInv, LoadsExcused, CollectsFirst, Load
<1>8. LastPass'
  BY <1>2, <1>3 DEF FlushInv, LastPass, Load, Takes
<1>9. QED
  BY <1>5, <1>6, <1>7, <1>8 DEF FlushInv

LEMMA ProducersHold ==
  ASSUME Shape, FlushInv, NEW r \in Rows, phase = "running", sync = "none",
         Block(r) \/ Enqueue(r), UNCHANGED <<loading, flush>>
  PROVE  FlushInv'
<1>1. /\ phase' = "running" /\ sync' \in {"none", "drain"}
      /\ UNCHANGED <<tasks, wave, loading, later, due>>
  BY DEF flush, Block, Enqueue, buffer
<1>2. fate' \in {[fate EXCEPT ![r] = "blocked"], [fate EXCEPT ![r] = "accepted"]}
  BY DEF Block, Enqueue
<1>3. ASSUME NEW u \in Rows, InQueue(u) PROVE InQueue(u)'
  <2>1. CASE Block(r)
    BY <1>3, <2>1 DEF Block, buffer, InQueue
  <2>2. CASE Enqueue(r)
    <3>1. TableOf[r] \in Names /\ TableOf[u] \in Names /\ queue[TableOf[r]] \in Seq(Rows)
      BY RowHasTable DEF Shape
    <3>2. PICK i \in DOMAIN queue[TableOf[u]] : queue[TableOf[u]][i] = u
      BY <1>3 DEF InQueue
    <3>3. CASE TableOf[u] = TableOf[r]
      <4>1. queue'[TableOf[u]] = Append(queue[TableOf[r]], r)
        BY <2>2, <3>1, <3>3 DEF Enqueue, Shape
      <4>2. i \in DOMAIN queue'[TableOf[u]] /\ queue'[TableOf[u]][i] = u
        BY <3>1, <3>2, <3>3, <4>1
      <4>3. QED
        BY <4>2 DEF InQueue
    <3>4. CASE TableOf[u] # TableOf[r]
      BY <2>2, <3>1, <3>2, <3>4 DEF Enqueue, Shape, InQueue
    <3>5. QED
      BY <3>3, <3>4
  <2>3. QED
    BY <2>1, <2>2
<1>4. Enqueue(r) => InQueue(r)'
  <2> SUFFICES ASSUME Enqueue(r) PROVE InQueue(r)'
    OBVIOUS
  <2>1. TableOf[r] \in Names /\ queue[TableOf[r]] \in Seq(Rows)
    BY RowHasTable DEF Shape
  <2>2. queue'[TableOf[r]] = Append(queue[TableOf[r]], r)
    BY <2>1 DEF Enqueue, Shape
  <2>3. /\ Len(queue[TableOf[r]]) + 1 \in DOMAIN queue'[TableOf[r]]
        /\ queue'[TableOf[r]][Len(queue[TableOf[r]]) + 1] = r
    BY <2>1, <2>2
  <2>4. QED
    BY <2>3 DEF InQueue
<1>5. /\ fate' \in [Rows -> {"new", "blocked", "accepted", "written", "dropped"}]
      /\ \A u \in Rows : fate'[u] = "accepted" => fate[u] = "accepted" \/ (u = r /\ Enqueue(r))
  BY DEF Block, Enqueue, FlushInv, Covered
<1>6. \A u \in Rows : Held(u) => Held(u)'
  BY <1>1, <1>3 DEF Held, InBuffer, InTasks, InLoad
<1>7. Covered'
  BY <1>4, <1>5, <1>6 DEF FlushInv, Covered, Held, InBuffer
<1>8. QED
  BY <1>1, <1>7
  DEF FlushInv, NoProducers, FlushOnly, CollectsFirst, LoadsExcused, LastPass, FlushIsThorough

LEMMA LoadEndsHold ==
  ASSUME Shape, FlushInv, NEW b \in loading \cup wave, LoadSucceeds(b) \/ LoadFails(b)
  PROVE  FlushInv'
<1>1. /\ Up /\ Ends(b) /\ UNCHANGED <<queue, due, sync, waiting, woken, phase, pass, tasks>>
      /\ excused \subseteq excused'
  BY DEF LoadSucceeds, LoadFails, Park, buffer
<1>2. /\ loading' \subseteq loading /\ wave' \subseteq wave
      /\ loading \cup wave \subseteq loading' \cup wave' \cup {b}
  BY <1>1 DEF Ends
<1>3. \A r \in Rows : InBuffer(r) => InBuffer(r)'
  BY <1>1 DEF LoadSucceeds, LoadFails, Park, buffer, InBuffer, InQueue
<1>4. \A r \in Rows \ b.rows : Held(r) => Held(r)'
  BY <1>1, <1>2, <1>3 DEF Held, InTasks, InLoad
<1>5. b \in Loads /\ [b EXCEPT !.attempts = @ + 1].rows = b.rows
  BY DEF Shape, Loads
<1>6. \/ later' = later
      \/ LoadFails(b) /\ \E c : c.rows = b.rows /\ later' = later \cup {c}
  BY <1>5 DEF LoadSucceeds, LoadFails, Park, buffer
<1>7. ASSUME NEW r \in b.rows \cap Rows PROVE fate'[r] # "accepted" \/ InBuffer(r)'
  <2>1. \/ fate'[r] # "accepted"
        \/ \E c : c.rows = b.rows /\ later' = later \cup {c}
    BY <1>5 DEF LoadSucceeds, LoadFails, Park, buffer
  <2>2. QED
    BY <2>1 DEF InBuffer
<1>8. \A r \in Rows \ b.rows : fate'[r] = fate[r]
  BY DEF LoadSucceeds, LoadFails, Park
<1>9. fate' \in [Rows -> {"new", "blocked", "accepted", "written", "dropped"}]
  BY DEF LoadSucceeds, LoadFails, Park, FlushInv, Covered
<1>10. Covered'
  BY <1>4, <1>7, <1>8, <1>9 DEF FlushInv, Covered, Held
<1>11. \A r \in Rows : InBuffer(r)' => InBuffer(r) \/ (LoadFails(b) /\ r \in b.rows)
  BY <1>1, <1>6 DEF InBuffer, InQueue
<1>12. LoadFails(b) /\ pass = MaxPasses => b.rows \subseteq excused'
  BY DEF LoadFails
<1>13. LastPass'
  BY <1>1, <1>11, <1>12 DEF FlushInv, LastPass
<1>14. NoProducers' /\ FlushOnly' /\ CollectsFirst' /\ LoadsExcused' /\ FlushIsThorough'
  BY <1>1, <1>2
  DEF FlushInv, Up, NoProducers, FlushOnly, CollectsFirst, LoadsExcused, FlushIsThorough
<1>15. QED
  BY <1>1, <1>10, <1>13, <1>14 DEF FlushInv

LEMMA CollectHolds ==
  ASSUME Shape, FlushInv, Collect
  PROVE  FlushInv'
<1>1. UNCHANGED <<pool, sync, waiting, woken, fate, phase, pass, wave, excused>>
      /\ sync = "collect"
  BY DEF Collect
<1>2. PICK n \in DOMAIN Tables :
        \/ \E b \in later : TakeLater(b) /\ tasks' = Append(tasks, b)
        \/ \E i \in DOMAIN due : TakeDue(i) /\ tasks' = Append(tasks, due[i])
        \/ \E k \in FreshLengths(Tables[n]) :
             TakeFresh(Tables[n], k) /\ tasks' = Append(tasks, FreshBatch(Tables[n], k))
  BY DEF Collect, Least, Greatest, Buffered, DueAt
<1>3. Tables[n] \in Names
  BY TablesAreNames
<1>4. PICK b : Takes(b) /\ tasks' = Append(tasks, b)
  <2>1. CASE \E b \in later : TakeLater(b) /\ tasks' = Append(tasks, b)
    BY <2>1, TakeLaterTakes
  <2>2. CASE \E i \in DOMAIN due : TakeDue(i) /\ tasks' = Append(tasks, due[i])
    BY <2>2, TakeDueTakes
  <2>3. CASE \E k \in FreshLengths(Tables[n]) :
             TakeFresh(Tables[n], k) /\ tasks' = Append(tasks, FreshBatch(Tables[n], k))
    BY <1>3, <2>3, TakeFreshTakes
  <2>4. QED
    BY <1>2, <2>1, <2>2, <2>3
<1>5. /\ \A i \in DOMAIN tasks : i \in DOMAIN tasks' /\ tasks'[i] = tasks[i]
      /\ \E i \in DOMAIN tasks' : tasks'[i] = b
  <2>1. tasks \in Seq(Loads)
    BY DEF Shape
  <2>2. Len(tasks) + 1 \in DOMAIN tasks' /\ tasks'[Len(tasks) + 1] = b
    BY <1>4, <2>1
  <2>3. QED
    BY <1>4, <2>1, <2>2
<1>6. \A r \in Rows : Held(r) => Held(r)'
  BY <1>1, <1>4, <1>5 DEF Takes, Held, InTasks, InLoad, pool
<1>7. QED
  BY <1>1, <1>6
  DEF FlushInv, Covered, NoProducers, FlushOnly, CollectsFirst, LoadsExcused, LastPass,
      FlushIsThorough, pool

LEMMA NothingBuffered ==
  ASSUME Shape, Buffered = {}
  PROVE  \A r \in Rows : ~InBuffer(r)
<1>1. ASSUME NEW r \in Rows, InQueue(r) PROVE FALSE
  <2>1. PICK n \in DOMAIN Tables : Tables[n] = TableOf[r]
    BY RowHasTable DEF Names, ToSet
  <2>2. queue[Tables[n]] # <<>>
    BY <1>1, <2>1 DEF InQueue
  <2>3. QED
    BY <2>1, <2>2 DEF Buffered
<1>2. ASSUME NEW b \in later \cup ToSet(due) PROVE FALSE
  <2>1. b.table \in Names
    <3>1. \A i \in DOMAIN due : due[i] \in Loads
      BY DEF Shape
    <3>2. b \in Loads
      BY <1>2, <3>1 DEF Shape, ToSet
    <3>3. QED
      BY <3>2 DEF Loads
  <2>2. PICK n \in DOMAIN Tables : Tables[n] = b.table
    BY <2>1 DEF Names, ToSet
  <2>3. b \in Parked(Tables[n])
    BY <1>2, <2>2 DEF Parked
  <2>4. QED
    BY <2>2, <2>3 DEF Buffered
<1>3. QED
  BY <1>1, <1>2 DEF InBuffer, ToSet

LEMMA FlushStep == Shape /\ InTables /\ FlushInv /\ [Next]_vars => FlushInv'
<1> SUFFICES ASSUME Shape, InTables, FlushInv, [Next]_vars PROVE FlushInv'
  OBVIOUS
<1>1. ASSUME NEW r \in Rows, AddToQueue(r) PROVE FlushInv'
  BY <1>1, ProducersHold DEF AddToQueue, Up, pool
<1>2. CASE Recheck
  <2>1. Head(woken) \in Rows /\ phase = "running"
    BY <1>2 DEF Recheck, Shape, FlushInv, NoProducers
  <2>2. QED
    BY <1>2, <2>1, ProducersHold DEF Recheck, Up, pool
<1>3. CASE Launch \/ NextLoad
  BY <1>3, LoadStarts
<1>4. ASSUME NEW b \in loading \cup wave, LoadSucceeds(b) \/ LoadFails(b) PROVE FlushInv'
  BY <1>4, LoadEndsHold
<1>5. CASE Rest \/ NoMoreWork \/ FreeSlot \/ TimerRunsOut \/ RetryTimerFires \/ StalenessTick
  <2>1. /\ UNCHANGED <<queue, later, due, loading, waiting, woken, fate, flush>>
        /\ sync' = "collect" => sync = "collect"
        /\ sync = "collect" => sync' = "collect"
        /\ phase # "done" \/ sync' = "none"
    BY <1>5 DEF Rest, NoMoreWork, FreeSlot, TimerRunsOut, RetryTimerFires, StalenessTick,
                Quiet, Up, buffer, pool
  <2>2. QED
    BY <2>1
    DEF FlushInv, Covered, NoProducers, FlushOnly, CollectsFirst, LoadsExcused, LastPass,
        FlushIsThorough, Held, InBuffer, InQueue, InTasks, InLoad, flush
<1>6. ASSUME NEW t \in Names, Age(t) PROVE FlushInv'
  BY <1>6
  DEF Age, FlushInv, Covered, NoProducers, FlushOnly, CollectsFirst, LoadsExcused, LastPass,
      FlushIsThorough, Held, InBuffer, InQueue, InTasks, InLoad, flush, pool
<1>7. ASSUME NEW b \in later, BackoffPasses(b) PROVE FlushInv'
  <2>1. /\ UNCHANGED <<queue, pool, sync, waiting, woken, fate, flush>>
        /\ later' = later \ {b} /\ due' = Append(due, b)
    BY <1>7 DEF BackoffPasses
  <2>2. due \in Seq(Loads) /\ b \in Loads
    BY DEF Shape
  <2>3. /\ \A i \in DOMAIN due : i \in DOMAIN due' /\ due'[i] = due[i]
        /\ Len(due) + 1 \in DOMAIN due' /\ due'[Len(due) + 1] = b
        /\ \A i \in DOMAIN due' : i \in DOMAIN due \/ due'[i] = b
    BY <2>1, <2>2
  <2>4. \A r \in Rows : InBuffer(r)' <=> InBuffer(r)
    BY <2>1, <2>3 DEF InBuffer, InQueue
  <2>5. QED
    BY <2>1, <2>4
    DEF FlushInv, Covered, NoProducers, FlushOnly, CollectsFirst, LoadsExcused, LastPass,
        FlushIsThorough, Held, InTasks, InLoad, flush, pool
<1>8. CASE Shutdown
  <2>1. /\ UNCHANGED <<queue, later, due, loading, waiting, woken, fate, tasks, wave>>
        /\ phase = "running" /\ waiting = <<>> /\ woken = <<>>
        /\ phase' = "flush" /\ sync' = "collect" /\ excused' = RowsIn(loading)
    BY <1>8 DEF Shutdown, buffer, pool
  <2>2. QED
    BY <2>1
    DEF FlushInv, Covered, NoProducers, FlushOnly, CollectsFirst, LoadsExcused, LastPass,
        FlushIsThorough, Held, InBuffer, InQueue, InTasks, InLoad, RowsIn
<1>9. CASE Collect
  BY <1>9, CollectHolds
<1>10. CASE Collected
  <2>1. /\ UNCHANGED <<queue, later, due, loading, fate, pass, tasks, wave, excused>>
        /\ sync = "collect" /\ sync' = "none" /\ waiting' = <<>>
        /\ woken' = woken \o waiting
        /\ phase' \in {phase, "done"} /\ (phase' = "done" => tasks = <<>>)
        /\ \A r \in Rows : ~InBuffer(r)
    BY <1>10, NothingBuffered
    DEF Collected, Finish, NotifyBufferDrained, buffer, pool, FlushInv, CollectsFirst
  <2>2. woken' = <<>> /\ phase = "flush" /\ wave = {}
    BY <2>1 DEF FlushInv, CollectsFirst, NoProducers
  <2>3. \A r \in Rows : Held(r)' <=> Held(r)
    BY <2>1 DEF Held, InBuffer, InQueue, InTasks, InLoad
  <2>4. FlushIsThorough'
    BY <2>1, <2>2
    DEF FlushIsThorough, FlushInv, Covered, Held, InTasks, InLoad, LoadsExcused
  <2>5. LastPass'
    BY <2>1 DEF LastPass, InBuffer, InQueue
  <2>6. QED
    BY <2>1, <2>2, <2>3, <2>4, <2>5
    DEF FlushInv, Covered, NoProducers, FlushOnly, CollectsFirst, LoadsExcused
<1>11. CASE StartWave
  <2>1. UNCHANGED <<queue, later, due, loading, sync, waiting, woken, fate, phase, pass, excused>>
        /\ phase = "flush" /\ sync = "none" /\ wave = {}
    BY <1>11 DEF StartWave, buffer, pool, Up
  <2>2. PICK n \in 1 .. Slots :
          /\ n <= Len(tasks)
          /\ wave' = ToSet(SubSeq(tasks, 1, n))
          /\ tasks' = SubSeq(tasks, n + 1, Len(tasks))
    BY <1>11 DEF StartWave, Greatest
  <2>3. n \in 1 .. Len(tasks) /\ tasks \in Seq(Loads) /\ Len(tasks) \in Nat
    BY <2>2, PoolAssumption DEF Shape
  <2>4. \A i \in 1 .. n : tasks[i] \in wave'
    <3>1. DOMAIN SubSeq(tasks, 1, n) = 1 .. n /\ \A i \in 1 .. n : SubSeq(tasks, 1, n)[i] = tasks[i]
      BY <2>3
    <3>2. QED
      BY <2>2, <3>1 DEF ToSet
  <2>5. \A i \in n + 1 .. Len(tasks) : i - n \in DOMAIN tasks' /\ tasks'[i - n] = tasks[i]
    <3>1. /\ DOMAIN tasks' = 1 .. Len(tasks) - n
          /\ \A j \in 1 .. Len(tasks) - n : tasks'[j] = tasks[n + j]
      BY <2>2, <2>3
    <3>2. \A i \in n + 1 .. Len(tasks) : i - n \in 1 .. Len(tasks) - n /\ n + (i - n) = i
      BY <2>3
    <3>3. QED
      BY <3>1, <3>2
  <2>6. \A i \in DOMAIN tasks : i \in 1 .. n \/ i \in n + 1 .. Len(tasks)
    BY <2>3
  <2>7. ASSUME NEW r \in Rows, InTasks(r) PROVE InTasks(r)' \/ InLoad(r)'
    BY <2>4, <2>5, <2>6, <2>7 DEF InTasks, InLoad
  <2>8. \A r \in Rows : InBuffer(r)' <=> InBuffer(r)
    BY <2>1 DEF InBuffer, InQueue
  <2>9. \A r \in Rows : Held(r) => Held(r)'
    BY <2>1, <2>7, <2>8 DEF Held, InLoad
  <2>10. QED
    BY <2>1, <2>8, <2>9
    DEF FlushInv, Covered, NoProducers, FlushOnly, CollectsFirst, LoadsExcused, LastPass,
        FlushIsThorough
<1>12. CASE NextPass
  <2>1. /\ UNCHANGED <<queue, later, due, loading, waiting, woken, fate, tasks, wave, excused>>
        /\ phase = "flush" /\ sync = "none" /\ wave = {} /\ tasks = <<>>
    BY <1>12 DEF NextPass, buffer, pool, Up
  <2>2. \A r \in Rows : Held(r)' <=> Held(r)
    BY <2>1 DEF Held, InBuffer, InQueue, InTasks, InLoad
  <2>3. CASE phase' = "flush" /\ sync' = "collect"
    BY <2>1, <2>2, <2>3
    DEF FlushInv, Covered, NoProducers, FlushOnly, CollectsFirst, LoadsExcused, LastPass,
        FlushIsThorough
  <2>4. CASE phase' = "done" /\ sync' = "none" /\ pass = MaxPasses
    <3>1. \A r \in Rows : Held(r) => r \in excused
      BY <2>1, <2>4 DEF FlushInv, LastPass, LoadsExcused, Held, InTasks, InLoad
    <3>2. QED
      BY <2>1, <2>2, <2>4, <3>1
      DEF FlushInv, Covered, NoProducers, FlushOnly, CollectsFirst, LoadsExcused, LastPass,
          FlushIsThorough
  <2>5. QED
    BY <1>12, <2>1, <2>3, <2>4 DEF NextPass, Finish
<1>13. CASE UNCHANGED vars
  BY <1>13
  DEF FlushInv, Covered, NoProducers, FlushOnly, CollectsFirst, LoadsExcused, LastPass,
      FlushIsThorough, Held, InBuffer, InQueue, InTasks, InLoad, vars, buffer, pool, flush
<1>14. QED
  BY <1>1, <1>2, <1>3, <1>4, <1>5, <1>6, <1>7, <1>8, <1>9, <1>10, <1>11, <1>12, <1>13
  DEF Next, Exited

LEMMA FlushInvariant == Spec => []FlushInv
<1>1. Init => FlushInv
  BY DEF Init, FlushInv, Covered, NoProducers, FlushOnly, CollectsFirst, LoadsExcused,
         LastPass, FlushIsThorough
<1>2. WakeInv => Shape
  BY DEF WakeInv
<1>3. DueInv => InTables
  BY DEF DueInv
<1>4. QED
  BY <1>1, <1>2, <1>3, FlushStep, DueInvariant, WakeInvariant, PTL DEF Spec

(***************************************************************************)
(* When shutdown returns, an accepted row that is not written is one that  *)
(* a drain worker held during the flush or that failed in its last pass.   *)
(***************************************************************************)
THEOREM FlushLeavesNothing == Spec => []FlushIsThorough
<1>1. FlushInv => FlushIsThorough
  BY DEF FlushInv
<1>2. QED
  BY <1>1, FlushInvariant, PTL
-----------------------------------------------------------------------------
(***************************************************************************)
(* Where each row is.  Batches of one place share no row, the six places   *)
(* share none either, together they hold the accepted rows, and the bytes  *)
(* of a table are those of its rows in the first three.  A producer that   *)
(* waits for room is blocked with a row that is nowhere, and only once.    *)
(***************************************************************************)
RowsOf(s) == RowsIn(ToSet(s))
Filed(b) == \A r \in b.rows : TableOf[r] = b.table

NoRepeats(q) == \A i, j \in DOMAIN q : q[i] = q[j] => i = j
SetApart(bs) == \A b, c \in bs : b # c => b.rows \cap c.rows = {}
SeqApart(s) == \A i, j \in DOMAIN s : i # j => s[i].rows \cap s[j].rows = {}
Disjoint(S, T, U) == S \cap T = {} /\ S \cap U = {} /\ T \cap U = {}

Fresh == UNION {ToSet(queue[t]) : t \in Names}
Kept == Fresh \cup RowsIn(later) \cup RowsOf(due)
Away == RowsIn(loading) \cup RowsIn(wave) \cup RowsOf(tasks)
Charged(t) == {r \in Kept : TableOf[r] = t}

FreshInv ==
  \A t \in Names : NoRepeats(queue[t]) /\ \A r \in ToSet(queue[t]) : TableOf[r] = t

KeptInv ==
  /\ FreshInv
  /\ \A b \in later \cup ToSet(due) : Filed(b)
  /\ SetApart(later) /\ SeqApart(due)
  /\ Disjoint(Fresh, RowsIn(later), RowsOf(due))

Charges == \A t \in Names : size[t] = SizeOf[Charged(t)]

AwayInv ==
  /\ \A b \in loading \cup wave \cup ToSet(tasks) : Filed(b)
  /\ SetApart(loading) /\ SetApart(wave) /\ SeqApart(tasks)
  /\ Disjoint(RowsIn(loading), RowsIn(wave), RowsOf(tasks))

BlockedInv ==
  /\ NoRepeats(waiting) /\ NoRepeats(woken)
  /\ ToSet(waiting) \cap ToSet(woken) = {}
  /\ \A r \in ToSet(waiting) \cup ToSet(woken) : fate[r] = "blocked"

Accepted == {r \in Rows : fate[r] = "accepted"}

PlaceInv ==
  /\ KeptInv /\ Charges /\ AwayInv /\ BlockedInv
  /\ Kept \cap Away = {} /\ Kept \cup Away = Accepted

(***************************************************************************)
(* Sequences and sets of batches that share no row.                        *)
(***************************************************************************)
LEMMA ElementsOf ==
  ASSUME NEW s \in Seq(Loads)
  PROVE  /\ ToSet(s) \subseteq Loads
         /\ \A r : r \in RowsOf(s) <=> \E i \in DOMAIN s : r \in s[i].rows
BY DEF ToSet, RowsOf, RowsIn

LEMMA AppendApart ==
  ASSUME NEW s \in Seq(Loads), NEW b \in Loads, SeqApart(s), RowsOf(s) \cap b.rows = {}
  PROVE  /\ SeqApart(Append(s, b))
         /\ RowsOf(Append(s, b)) = RowsOf(s) \cup b.rows
         /\ ToSet(Append(s, b)) = ToSet(s) \cup {b}
<1> DEFINE z == Append(s, b)
<1>1. /\ DOMAIN s = 1 .. Len(s) /\ Len(s) \in Nat
      /\ DOMAIN z = 1 .. Len(s) + 1 /\ z[Len(s) + 1] = b
      /\ \A i \in 1 .. Len(s) : z[i] = s[i]
  OBVIOUS
<1> HIDE DEF z
<1>2. ToSet(z) = ToSet(s) \cup {b}
  <2>1. DOMAIN z = DOMAIN s \cup {Len(s) + 1}
    BY <1>1
  <2>2. QED
    BY <1>1, <2>1 DEF ToSet
<1>3. SeqApart(z)
  <2>1. \A i \in DOMAIN s : s[i].rows \cap b.rows = {}
    BY ElementsOf
  <2>2. \A i \in DOMAIN z : i \in DOMAIN s \/ i = Len(s) + 1
    BY <1>1
  <2>3. QED
    BY <1>1, <2>1, <2>2 DEF SeqApart
<1>4. RowsOf(z) = RowsOf(s) \cup b.rows
  BY <1>2 DEF RowsOf, RowsIn
<1>5. QED
  BY <1>2, <1>3, <1>4 DEF z
LEMMA RemoveApart ==
  ASSUME NEW s \in Seq(Loads), NEW i \in DOMAIN s, SeqApart(s)
  PROVE  /\ SeqApart(RemoveAt(s, i))
         /\ RowsOf(RemoveAt(s, i)) = RowsOf(s) \ s[i].rows
         /\ ToSet(RemoveAt(s, i)) \subseteq ToSet(s)
<1> DEFINE z == RemoveAt(s, i)
           m(j) == IF j < i THEN j ELSE j + 1
<1>1. DOMAIN s = 1 .. Len(s) /\ Len(s) \in Nat /\ i \in 1 .. Len(s)
  OBVIOUS
<1>2. /\ DOMAIN z = 1 .. Len(s) - 1
      /\ \A j \in 1 .. i - 1 : z[j] = s[j]
      /\ \A j \in i .. Len(s) - 1 : z[j] = s[j + 1]
      /\ z \in Seq(Loads)
  BY RemoveAtIndices, RemoveAtKeeps
<1>3. \A j \in DOMAIN z : z[j] = s[m(j)] /\ m(j) \in DOMAIN s \ {i}
  <2>1. ASSUME NEW j \in 1 .. Len(s) - 1
        PROVE  (j \in 1 .. i - 1 /\ m(j) = j) \/ (j \in i .. Len(s) - 1 /\ m(j) = j + 1)
    BY <1>1
  <2>2. ASSUME NEW j \in 1 .. Len(s) - 1 PROVE m(j) \in 1 .. Len(s) /\ m(j) # i
    BY <1>1
  <2>3. QED
    BY <1>1, <1>2, <2>1, <2>2
<1>4. \A j, k \in DOMAIN z : j # k => m(j) # m(k)
  BY <1>1, <1>2
<1>5. \A n \in DOMAIN s \ {i} : \E j \in DOMAIN z : z[j] = s[n]
  BY RemovedOrKept
<1> HIDE DEF z, m
<1>6. SeqApart(z)
  BY <1>3, <1>4 DEF SeqApart
<1>7. ToSet(z) \subseteq ToSet(s)
  BY <1>3 DEF ToSet
<1>8. RowsOf(z) \subseteq RowsOf(s) \ s[i].rows
  <2>1. SUFFICES ASSUME NEW j \in DOMAIN z, NEW r \in z[j].rows
                 PROVE  r \in RowsOf(s) \ s[i].rows
    BY <1>2, ElementsOf
  <2>2. QED
    BY <1>3, ElementsOf DEF SeqApart
<1>9. RowsOf(s) \ s[i].rows \subseteq RowsOf(z)
  BY <1>2, <1>5, ElementsOf
<1>10. QED
  BY <1>6, <1>7, <1>8, <1>9 DEF z

LEMMA SplitIndices ==
  ASSUME NEW S, NEW s \in Seq(S), NEW n \in 1 .. Len(s)
  PROVE  /\ SubSeq(s, n + 1, Len(s)) \in Seq(S) /\ SubSeq(s, 1, n) \in Seq(S)
         /\ DOMAIN SubSeq(s, 1, n) = 1 .. n
         /\ \A i \in 1 .. n : SubSeq(s, 1, n)[i] = s[i]
         /\ DOMAIN SubSeq(s, n + 1, Len(s)) = 1 .. Len(s) - n
         /\ \A i \in 1 .. Len(s) - n : SubSeq(s, n + 1, Len(s))[i] = s[n + i]
         /\ \A i \in DOMAIN s : i \in 1 .. n \/ i - n \in 1 .. Len(s) - n
         /\ \A i \in 1 .. Len(s) - n : n + i \in DOMAIN s /\ n + i \notin 1 .. n
         /\ 1 .. n \subseteq DOMAIN s
<1>1. Len(s) \in Nat /\ DOMAIN s = 1 .. Len(s)
  OBVIOUS
<1>2. /\ SubSeq(s, n + 1, Len(s)) \in Seq(S) /\ SubSeq(s, 1, n) \in Seq(S)
      /\ DOMAIN SubSeq(s, 1, n) = 1 .. n
      /\ \A i \in 1 .. n : SubSeq(s, 1, n)[i] = s[i]
  BY <1>1
<1>3. /\ DOMAIN SubSeq(s, n + 1, Len(s)) = 1 .. Len(s) - n
      /\ \A i \in 1 .. Len(s) - n : SubSeq(s, n + 1, Len(s))[i] = s[n + i]
  BY <1>1
<1>4. /\ \A i \in 1 .. Len(s) : i \in 1 .. n \/ i - n \in 1 .. Len(s) - n
      /\ \A i \in 1 .. Len(s) - n : n + i \in 1 .. Len(s) /\ n + i \notin 1 .. n
      /\ 1 .. n \subseteq 1 .. Len(s)
  BY <1>1
<1>5. QED
  BY <1>1, <1>2, <1>3, <1>4

\* The first n elements and the others.
LEMMA SplitElements ==
  ASSUME NEW S, NEW s \in Seq(S), NEW n \in 1 .. Len(s)
  PROVE  ToSet(SubSeq(s, 1, n)) \cup ToSet(SubSeq(s, n + 1, Len(s))) = ToSet(s)
<1> DEFINE p == SubSeq(s, 1, n)
           z == SubSeq(s, n + 1, Len(s))
<1>1. ToSet(p) \subseteq ToSet(s) /\ ToSet(z) \subseteq ToSet(s)
  BY SplitIndices DEF ToSet
<1>2. ASSUME NEW i \in DOMAIN s PROVE s[i] \in ToSet(p) \cup ToSet(z)
  <2>1. CASE i \in 1 .. n
    BY <2>1, SplitIndices DEF ToSet
  <2>2. CASE i - n \in 1 .. Len(s) - n
    <3>1. n + (i - n) = i
      OBVIOUS
    <3>2. z[i - n] = s[i] /\ i - n \in DOMAIN z
      BY <2>2, <3>1, SplitIndices
    <3>3. QED
      BY <3>2 DEF ToSet
  <2>3. QED
    BY <2>1, <2>2, SplitIndices
<1>3. QED
  BY <1>1, <1>2 DEF ToSet

LEMMA SplitRows ==
  ASSUME NEW q \in Seq(Rows), NEW k \in 1 .. Len(q), NoRepeats(q)
  PROVE  /\ NoRepeats(SubSeq(q, k + 1, Len(q)))
         /\ ToSet(SubSeq(q, k + 1, Len(q))) = ToSet(q) \ ToSet(SubSeq(q, 1, k))
         /\ ToSet(SubSeq(q, 1, k)) \subseteq ToSet(q)
<1> DEFINE p == SubSeq(q, 1, k)
           z == SubSeq(q, k + 1, Len(q))
<1>1. /\ DOMAIN p = 1 .. k /\ \A i \in 1 .. k : p[i] = q[i]
      /\ DOMAIN z = 1 .. Len(q) - k /\ \A i \in 1 .. Len(q) - k : z[i] = q[k + i]
      /\ \A i \in 1 .. Len(q) - k : k + i \in DOMAIN q /\ k + i \notin 1 .. k
      /\ 1 .. k \subseteq DOMAIN q
  BY SplitIndices
<1>2. ToSet(p) \cup ToSet(z) = ToSet(q)
  BY SplitElements
<1> HIDE DEF p, z
<1>3. NoRepeats(z)
  <2> SUFFICES ASSUME NEW i \in DOMAIN z, NEW j \in DOMAIN z, z[i] = z[j] PROVE i = j
    BY DEF NoRepeats
  <2>1. k + i \in DOMAIN q /\ k + j \in DOMAIN q /\ q[k + i] = q[k + j]
    BY <1>1
  <2>2. k + i = k + j
    BY <2>1 DEF NoRepeats
  <2>3. QED
    BY <1>1, <2>2
<1>4. ToSet(p) \cap ToSet(z) = {}
  <2>1. ASSUME NEW i \in DOMAIN p, NEW j \in DOMAIN z PROVE p[i] # z[j]
    <3>1. i \in DOMAIN q /\ k + j \in DOMAIN q /\ i # k + j
      BY <1>1
    <3>2. p[i] = q[i] /\ z[j] = q[k + j]
      BY <1>1
    <3>3. QED
      BY <3>1, <3>2 DEF NoRepeats
  <2>2. QED
    BY <2>1 DEF ToSet
<1>5. QED
  BY <1>2, <1>3, <1>4 DEF p, z

LEMMA SplitApart ==
  ASSUME NEW s \in Seq(Loads), NEW n \in 1 .. Len(s), SeqApart(s)
  PROVE  /\ SetApart(ToSet(SubSeq(s, 1, n))) /\ SeqApart(SubSeq(s, n + 1, Len(s)))
         /\ RowsOf(SubSeq(s, 1, n)) \cup RowsOf(SubSeq(s, n + 1, Len(s))) = RowsOf(s)
         /\ RowsOf(SubSeq(s, 1, n)) \cap RowsOf(SubSeq(s, n + 1, Len(s))) = {}
<1> DEFINE p == SubSeq(s, 1, n)
           z == SubSeq(s, n + 1, Len(s))
<1>1. /\ DOMAIN p = 1 .. n /\ \A i \in 1 .. n : p[i] = s[i]
      /\ DOMAIN z = 1 .. Len(s) - n /\ \A i \in 1 .. Len(s) - n : z[i] = s[n + i]
      /\ \A i \in 1 .. Len(s) - n : n + i \in DOMAIN s /\ n + i \notin 1 .. n
      /\ 1 .. n \subseteq DOMAIN s
      /\ p \in Seq(Loads) /\ z \in Seq(Loads)
  BY SplitIndices
<1>2. ToSet(p) \cup ToSet(z) = ToSet(s)
  BY SplitElements
<1> HIDE DEF p, z
<1>3. SetApart(ToSet(p))
  BY <1>1 DEF SeqApart, SetApart, ToSet
<1>4. SeqApart(z)
  <2>1. \A i, j \in 1 .. Len(s) - n : i # j => n + i # n + j
    OBVIOUS
  <2>2. SUFFICES ASSUME NEW i \in 1 .. Len(s) - n, NEW j \in 1 .. Len(s) - n, i # j
                 PROVE  z[i].rows \cap z[j].rows = {}
    BY <1>1 DEF SeqApart
  <2>3. n + i \in DOMAIN s /\ n + j \in DOMAIN s
    BY <1>1
  <2>4. n + i # n + j
    BY <2>1, <2>2
  <2>5. z[i] = s[n + i] /\ z[j] = s[n + j]
    BY <1>1
  <2>6. QED
    BY <2>3, <2>4, <2>5 DEF SeqApart
<1>5. RowsOf(p) \cup RowsOf(z) = RowsOf(s)
  BY <1>2 DEF RowsOf, RowsIn
<1>6. RowsOf(p) \cap RowsOf(z) = {}
  <2>1. ASSUME NEW i \in DOMAIN p, NEW j \in DOMAIN z PROVE p[i].rows \cap z[j].rows = {}
    <3>1. i \in DOMAIN s /\ n + j \in DOMAIN s /\ i # n + j
      BY <1>1
    <3>2. p[i] = s[i] /\ z[j] = s[n + j]
      BY <1>1
    <3>3. QED
      BY <3>1, <3>2 DEF SeqApart
  <2>2. QED
    BY <1>1, <2>1, ElementsOf
<1>7. QED
  BY <1>3, <1>4, <1>5, <1>6 DEF p, z
\* Rows that are added to a sequence without repetitions, and taken from it.
LEMMA AppendRow ==
  ASSUME NEW q \in Seq(Rows), NEW r \in Rows, NoRepeats(q), r \notin ToSet(q)
  PROVE  NoRepeats(Append(q, r)) /\ ToSet(Append(q, r)) = ToSet(q) \cup {r}
<1> DEFINE z == Append(q, r)
<1>1. /\ DOMAIN q = 1 .. Len(q) /\ Len(q) \in Nat
      /\ DOMAIN z = 1 .. Len(q) + 1 /\ z[Len(q) + 1] = r
      /\ \A i \in 1 .. Len(q) : z[i] = q[i]
  OBVIOUS
<1> HIDE DEF z
<1>2. DOMAIN z = DOMAIN q \cup {Len(q) + 1}
  BY <1>1
<1>3. ToSet(z) = ToSet(q) \cup {r}
  BY <1>1, <1>2 DEF ToSet
<1>4. \A i \in DOMAIN q : q[i] # r
  BY DEF ToSet
<1>5. ASSUME NEW i \in DOMAIN z, NEW j \in DOMAIN z, z[i] = z[j] PROVE i = j
  <2>1. CASE i \in DOMAIN q /\ j \in DOMAIN q
    BY <1>1, <1>5, <2>1 DEF NoRepeats
  <2>2. (i = Len(q) + 1 \/ i \in DOMAIN q) /\ (j = Len(q) + 1 \/ j \in DOMAIN q)
    BY <1>2
  <2>3. QED
    BY <1>1, <1>4, <1>5, <2>1, <2>2
<1>6. QED
  BY <1>3, <1>5 DEF NoRepeats, z

LEMMA TailRows ==
  ASSUME NEW q \in Seq(Rows), q # <<>>, NoRepeats(q)
  PROVE  /\ NoRepeats(Tail(q)) /\ ToSet(Tail(q)) = ToSet(q) \ {Head(q)}
         /\ Head(q) \in ToSet(q)
<1>1. /\ DOMAIN q = 1 .. Len(q) /\ Len(q) \in Nat \ {0} /\ Head(q) = q[1]
      /\ DOMAIN Tail(q) = 1 .. Len(q) - 1 /\ \A i \in 1 .. Len(q) - 1 : Tail(q)[i] = q[i + 1]
  OBVIOUS
<1>2. NoRepeats(Tail(q))
  <2> SUFFICES ASSUME NEW i \in 1 .. Len(q) - 1, NEW j \in 1 .. Len(q) - 1, q[i + 1] = q[j + 1]
               PROVE  i = j
    BY <1>1 DEF NoRepeats
  <2>1. i + 1 \in DOMAIN q /\ j + 1 \in DOMAIN q
    BY <1>1
  <2>2. i + 1 = j + 1
    BY <2>1 DEF NoRepeats
  <2>3. QED
    BY <2>2
<1>3. ToSet(Tail(q)) \subseteq ToSet(q) \ {Head(q)}
  <2> SUFFICES ASSUME NEW i \in 1 .. Len(q) - 1 PROVE q[i + 1] \in ToSet(q) /\ q[i + 1] # q[1]
    BY <1>1 DEF ToSet
  <2>1. i + 1 \in DOMAIN q /\ 1 \in DOMAIN q /\ i + 1 # 1
    BY <1>1
  <2>2. QED
    BY <2>1 DEF NoRepeats, ToSet
<1>4. ToSet(q) \ {Head(q)} \subseteq ToSet(Tail(q))
  <2> SUFFICES ASSUME NEW i \in DOMAIN q, q[i] # q[1] PROVE q[i] \in ToSet(Tail(q))
    BY <1>1 DEF ToSet
  <2>1. i - 1 \in 1 .. Len(q) - 1 /\ (i - 1) + 1 = i
    BY <1>1
  <2>2. Tail(q)[i - 1] = q[i]
    BY <1>1, <2>1
  <2>3. QED
    BY <1>1, <2>1, <2>2 DEF ToSet
<1>5. Head(q) \in ToSet(q)
  BY <1>1 DEF ToSet
<1>6. QED
  BY <1>2, <1>3, <1>4, <1>5

LEMMA JoinRows ==
  ASSUME NEW p \in Seq(Rows), NEW q \in Seq(Rows), NoRepeats(p), NoRepeats(q),
         ToSet(p) \cap ToSet(q) = {}
  PROVE  NoRepeats(p \o q) /\ ToSet(p \o q) = ToSet(p) \cup ToSet(q)
<1> DEFINE z == p \o q
<1>1. /\ DOMAIN p = 1 .. Len(p) /\ Len(p) \in Nat
      /\ DOMAIN q = 1 .. Len(q) /\ Len(q) \in Nat
      /\ DOMAIN z = 1 .. Len(p) + Len(q)
      /\ \A i \in 1 .. Len(p) + Len(q) : z[i] = IF i <= Len(p) THEN p[i] ELSE q[i - Len(p)]
  OBVIOUS
<1> HIDE DEF z
<1>2. ASSUME NEW i \in DOMAIN z
      PROVE  \/ i \in DOMAIN p /\ z[i] = p[i]
             \/ i - Len(p) \in DOMAIN q /\ z[i] = q[i - Len(p)]
  <2>1. CASE i <= Len(p)
    BY <1>1, <2>1
  <2>2. CASE i > Len(p)
    <3>1. i - Len(p) \in 1 .. Len(q) /\ ~(i <= Len(p))
      BY <1>1, <2>2
    <3>2. QED
      BY <1>1, <3>1
  <2>3. QED
    BY <1>1, <2>1, <2>2
<1>3. /\ \A i \in DOMAIN p : i \in DOMAIN z /\ z[i] = p[i]
      /\ \A i \in DOMAIN q : i + Len(p) \in DOMAIN z /\ z[i + Len(p)] = q[i]
  BY <1>1
<1>4. ToSet(z) = ToSet(p) \cup ToSet(q)
  BY <1>2, <1>3 DEF ToSet
<1>5. ASSUME NEW i \in DOMAIN z, NEW j \in DOMAIN z, z[i] = z[j] PROVE i = j
  <2>1. \A m \in DOMAIN p, n \in DOMAIN q : p[m] # q[n]
    BY DEF ToSet
  <2>2. CASE i \in DOMAIN p /\ z[i] = p[i]
    <3>1. j \in DOMAIN p /\ z[j] = p[j]
      BY <1>2, <1>5, <2>1, <2>2
    <3>2. QED
      BY <1>5, <2>2, <3>1 DEF NoRepeats
  <2>3. CASE i - Len(p) \in DOMAIN q /\ z[i] = q[i - Len(p)]
    <3>1. j - Len(p) \in DOMAIN q /\ z[j] = q[j - Len(p)]
      BY <1>2, <1>5, <2>1, <2>3
    <3>2. i - Len(p) = j - Len(p)
      BY <1>5, <2>3, <3>1 DEF NoRepeats
    <3>3. QED
      BY <1>1, <3>2
  <2>4. QED
    BY <1>2, <2>2, <2>3
<1>6. QED
  BY <1>4, <1>5 DEF NoRepeats, z

LEMMA SetApartAdd ==
  ASSUME NEW bs, NEW b, SetApart(bs), RowsIn(bs) \cap b.rows = {}
  PROVE  SetApart(bs \cup {b}) /\ RowsIn(bs \cup {b}) = RowsIn(bs) \cup b.rows
BY DEF SetApart, RowsIn

LEMMA SetApartRemove ==
  ASSUME NEW bs, NEW b \in bs, SetApart(bs)
  PROVE  SetApart(bs \ {b}) /\ RowsIn(bs \ {b}) = RowsIn(bs) \ b.rows
<1>1. \A c \in bs \ {b} : c.rows \cap b.rows = {}
  BY DEF SetApart
<1>2. QED
  BY <1>1 DEF SetApart, RowsIn

(***************************************************************************)
(* Bytes: what a table is charged with grows and shrinks with its rows.    *)
(***************************************************************************)
LEMMA KeptRows ==
  ASSUME Shape
  PROVE  Kept \subseteq Rows /\ Away \subseteq Rows
<1>1. Fresh \subseteq Rows
  BY DEF Fresh, ToSet, Shape
<1>2. \A bs \in SUBSET Loads : RowsIn(bs) \subseteq Rows
  BY DEF RowsIn, Loads
<1>3. \A s \in Seq(Loads) : RowsOf(s) \subseteq Rows
  BY <1>2, ElementsOf DEF RowsOf
<1>4. QED
  BY <1>1, <1>2, <1>3 DEF Kept, Away, Shape

LEMMA ChargesTaken ==
  ASSUME Shape, Charges, NEW t \in Names, NEW S \in SUBSET Kept,
         \A r \in S : TableOf[r] = t, Kept' = Kept \ S,
         size' = [size EXCEPT ![t] = @ - SizeOf[S]]
  PROVE  Charges'
<1> SUFFICES ASSUME NEW u \in Names PROVE size'[u] = SizeOf[Charged(u)']
  BY DEF Charges
<1>1. Kept \subseteq Rows /\ size \in [Names -> Int] /\ size[u] = SizeOf[Charged(u)]
  BY KeptRows DEF Shape, Charges
<1>2. CASE u # t
  <2>1. Charged(u)' = Charged(u)
    BY <1>2 DEF Charged
  <2>2. QED
    BY <1>1, <1>2, <2>1
<1>3. CASE u = t
  <2>1. Charged(u)' \cup S = Charged(u) /\ Charged(u)' \cap S = {}
    BY <1>3 DEF Charged
  <2>2. Charged(u)' \in SUBSET Rows /\ S \in SUBSET Rows
    BY <1>1, <2>1 DEF Charged
  <2>3. SizeOf[Charged(u)] = SizeOf[Charged(u)'] + SizeOf[S]
    BY <2>1, <2>2, RowAssumption
  <2>4. SizeOf[Charged(u)'] \in Nat /\ SizeOf[S] \in Nat
    BY <2>2, SizesAreNat
  <2>5. size'[u] = size[u] - SizeOf[S]
    BY <1>1, <1>3
  <2>6. QED
    BY <1>1, <2>3, <2>4, <2>5
<1>4. QED
  BY <1>2, <1>3

LEMMA ChargesAdded ==
  ASSUME Shape, Charges, NEW t \in Names, NEW S \in SUBSET Rows,
         \A r \in S : TableOf[r] = t, Kept' = Kept \cup S, Kept \cap S = {},
         size' = [size EXCEPT ![t] = @ + SizeOf[S]]
  PROVE  Charges'
<1> SUFFICES ASSUME NEW u \in Names PROVE size'[u] = SizeOf[Charged(u)']
  BY DEF Charges
<1>1. Kept \subseteq Rows /\ size \in [Names -> Int] /\ size[u] = SizeOf[Charged(u)]
  BY KeptRows DEF Shape, Charges
<1>2. CASE u # t
  <2>1. Charged(u)' = Charged(u)
    BY <1>2 DEF Charged
  <2>2. QED
    BY <1>1, <1>2, <2>1
<1>3. CASE u = t
  <2>1. Charged(u)' = Charged(u) \cup S /\ Charged(u) \cap S = {}
    BY <1>3 DEF Charged
  <2>2. Charged(u) \in SUBSET Rows
    BY <1>1 DEF Charged
  <2>3. SizeOf[Charged(u)'] = SizeOf[Charged(u)] + SizeOf[S]
    BY <2>1, <2>2, RowAssumption
  <2>4. size'[u] = size[u] + SizeOf[S]
    BY <1>1, <1>3
  <2>5. QED
    BY <1>1, <2>3, <2>4
<1>4. QED
  BY <1>2, <1>3

(***************************************************************************)
(* A batch leaves the buffer, whole: a due retry, a parked batch that the  *)
(* flush collects, or the first rows of a queue.                           *)
(***************************************************************************)
Gives(b) ==
  /\ b \in Loads /\ Filed(b)
  /\ b.rows \subseteq Kept /\ Kept' = Kept \ b.rows
  /\ KeptInv' /\ Charges'

LEMMA Given ==
  ASSUME Shape, Charges, KeptInv', NEW b \in Loads, Filed(b), b.rows \subseteq Kept,
         Kept' = Kept \ b.rows, Discharge(b)
  PROVE  Gives(b)
<1>1. b.table \in Names
  BY DEF Loads
<1>2. Charges'
  BY <1>1, ChargesTaken DEF Discharge, Filed
<1>3. QED
  BY <1>2 DEF Gives

LEMMA TakeDueGives ==
  ASSUME Shape, KeptInv, Charges, NEW i \in DOMAIN due, TakeDue(i)
  PROVE  Gives(due[i])
<1> DEFINE b == due[i]
<1>1. due \in Seq(Loads) /\ b \in Loads /\ b \in ToSet(due)
  BY DEF Shape, ToSet
<1>2. /\ due' = RemoveAt(due, i) /\ UNCHANGED <<queue, later>> /\ Discharge(b)
      /\ SeqApart(due') /\ RowsOf(due') = RowsOf(due) \ b.rows
      /\ ToSet(due') \subseteq ToSet(due)
  BY <1>1, RemoveApart DEF TakeDue, KeptInv
<1>3. b.rows \subseteq RowsOf(due) /\ Fresh' = Fresh
  BY <1>1, <1>2 DEF RowsOf, RowsIn, Fresh
<1> HIDE DEF b
<1>4. KeptInv'
  BY <1>2, <1>3 DEF KeptInv, FreshInv, Disjoint
<1>5. Kept' = Kept \ b.rows /\ b.rows \subseteq Kept
  BY <1>2, <1>3 DEF Kept, KeptInv, Disjoint
<1>6. Filed(b)
  BY <1>1 DEF KeptInv
<1>7. QED
  BY <1>1, <1>2, <1>4, <1>5, <1>6, Given DEF b

LEMMA TakeLaterGives ==
  ASSUME Shape, KeptInv, Charges, NEW b \in later, TakeLater(b)
  PROVE  Gives(b)
<1>1. /\ b \in Loads /\ later' = later \ {b} /\ UNCHANGED <<queue, due>> /\ Discharge(b)
      /\ SetApart(later') /\ RowsIn(later') = RowsIn(later) \ b.rows
  BY SetApartRemove DEF TakeLater, KeptInv, Shape
<1>2. b.rows \subseteq RowsIn(later) /\ Fresh' = Fresh /\ RowsOf(due)' = RowsOf(due)
  BY <1>1 DEF RowsOf, RowsIn, Fresh
<1>3. KeptInv'
  BY <1>1, <1>2 DEF KeptInv, FreshInv, Disjoint
<1>4. Kept' = Kept \ b.rows /\ b.rows \subseteq Kept
  BY <1>1, <1>2 DEF Kept, KeptInv, Disjoint
<1>5. Filed(b)
  BY DEF KeptInv
<1>6. QED
  BY <1>1, <1>3, <1>4, <1>5, Given

LEMMA TakeFreshGives ==
  ASSUME Shape, KeptInv, Charges, NEW t \in Names, NEW k \in FreshLengths(t), TakeFresh(t, k)
  PROVE  Gives(FreshBatch(t, k))
<1> DEFINE b == FreshBatch(t, k)
           q == queue[t]
<1>1. q \in Seq(Rows) /\ k \in 1 .. Len(q) /\ NoRepeats(q)
  BY DEF Shape, FreshLengths, KeptInv, FreshInv
<1>2. /\ b \in Loads /\ b.table = t /\ b.rows = ToSet(SubSeq(q, 1, k))
      /\ UNCHANGED <<later, due>> /\ Discharge(b)
      /\ queue'[t] = SubSeq(q, k + 1, Len(q)) /\ \A u \in Names \ {t} : queue'[u] = queue[u]
  BY TakeFreshKeeps DEF FreshBatch, TakeFresh, Shape
<1>3. /\ NoRepeats(queue'[t]) /\ ToSet(queue'[t]) = ToSet(q) \ b.rows
      /\ b.rows \subseteq ToSet(q)
  BY <1>1, <1>2, SplitRows
<1>4. Filed(b)
  BY <1>2, <1>3 DEF Filed, KeptInv, FreshInv
<1> HIDE DEF b
<1>5. Fresh' = Fresh \ b.rows /\ b.rows \subseteq Fresh
  <2>1. \A u \in Names \ {t} : ToSet(queue[u]) \cap b.rows = {}
    BY <1>2, <1>4 DEF Filed, KeptInv, FreshInv
  <2>2. \A u \in Names : ToSet(queue'[u]) = ToSet(queue[u]) \ b.rows
    BY <1>2, <1>3, <2>1
  <2>3. QED
    BY <1>3, <2>2 DEF Fresh
<1>6. FreshInv'
  BY <1>2, <1>3 DEF KeptInv, FreshInv
<1>7. RowsIn(later)' = RowsIn(later) /\ RowsOf(due)' = RowsOf(due)
  BY <1>2
<1>8. KeptInv'
  BY <1>2, <1>5, <1>6, <1>7 DEF KeptInv, Disjoint
<1>9. Kept' = Kept \ b.rows /\ b.rows \subseteq Kept
  BY <1>5, <1>7 DEF Kept, KeptInv, Disjoint
<1>10. QED
  BY <1>2, <1>4, <1>8, <1>9, Given DEF b
(***************************************************************************)
(* It arrives at a worker or with the tasks of the flush, and leaves when  *)
(* its load ends.                                                          *)
(***************************************************************************)
Gets(b) == AwayInv' /\ Away' = Away \cup b.rows

LEMMA LoadGets ==
  ASSUME AwayInv, NEW b, Filed(b), b.rows \cap Away = {}, Load(b), UNCHANGED <<wave, tasks>>
  PROVE  Gets(b)
<1>1. loading' = loading \cup {b} /\ RowsIn(loading) \cap b.rows = {}
  BY DEF Load, Away
<1>2. SetApart(loading') /\ RowsIn(loading') = RowsIn(loading) \cup b.rows
  BY <1>1, SetApartAdd DEF AwayInv
<1>3. RowsIn(wave)' = RowsIn(wave) /\ RowsOf(tasks)' = RowsOf(tasks)
  OBVIOUS
<1>4. AwayInv'
  BY <1>1, <1>2, <1>3 DEF AwayInv, Disjoint, Away
<1>5. QED
  BY <1>2, <1>3, <1>4 DEF Gets, Away

LEMMA TaskGets ==
  ASSUME Shape, AwayInv, NEW b \in Loads, Filed(b), b.rows \cap Away = {},
         tasks' = Append(tasks, b), UNCHANGED <<loading, wave>>
  PROVE  Gets(b)
<1>1. tasks \in Seq(Loads) /\ RowsOf(tasks) \cap b.rows = {}
  BY DEF Shape, Away
<1>2. /\ SeqApart(tasks') /\ RowsOf(tasks') = RowsOf(tasks) \cup b.rows
      /\ ToSet(tasks') = ToSet(tasks) \cup {b}
  BY <1>1, AppendApart DEF AwayInv
<1>3. RowsIn(wave)' = RowsIn(wave) /\ RowsIn(loading)' = RowsIn(loading)
  OBVIOUS
<1>4. AwayInv'
  BY <1>2, <1>3 DEF AwayInv, Disjoint, Away
<1>5. QED
  BY <1>2, <1>3, <1>4 DEF Gets, Away

LEMMA EndGives ==
  ASSUME AwayInv, NEW b \in loading \cup wave, Ends(b), UNCHANGED tasks
  PROVE  AwayInv' /\ Away' = Away \ b.rows /\ b.rows \subseteq Away /\ Filed(b)
<1>1. Filed(b) /\ RowsOf(tasks)' = RowsOf(tasks)
  BY DEF AwayInv
<1>2. CASE b \in loading /\ loading' = loading \ {b} /\ wave' = wave
  <2>1. SetApart(loading') /\ RowsIn(loading') = RowsIn(loading) \ b.rows
    BY <1>2, SetApartRemove DEF AwayInv
  <2>2. b.rows \subseteq RowsIn(loading) /\ RowsIn(wave)' = RowsIn(wave)
    BY <1>2 DEF RowsIn
  <2>3. AwayInv'
    BY <1>1, <1>2, <2>1, <2>2 DEF AwayInv, Disjoint
  <2>4. QED
    BY <1>1, <2>1, <2>2, <2>3 DEF Away, AwayInv, Disjoint
<1>3. CASE b \in wave /\ wave' = wave \ {b} /\ loading' = loading
  <2>1. SetApart(wave') /\ RowsIn(wave') = RowsIn(wave) \ b.rows
    BY <1>3, SetApartRemove DEF AwayInv
  <2>2. b.rows \subseteq RowsIn(wave) /\ RowsIn(loading)' = RowsIn(loading)
    BY <1>3 DEF RowsIn
  <2>3. AwayInv'
    BY <1>1, <1>3, <2>1, <2>2 DEF AwayInv, Disjoint
  <2>4. QED
    BY <1>1, <2>1, <2>2, <2>3 DEF Away, AwayInv, Disjoint
<1>4. QED
  BY <1>2, <1>3 DEF Ends

\* A failed batch that is parked comes back to the buffer, with its bytes.
LEMMA ParkGets ==
  ASSUME Shape, KeptInv, Charges, NEW b \in Loads, Filed(b), b.rows \cap Kept = {},
         later' = later \cup {[b EXCEPT !.attempts = @ + 1]},
         size' = [size EXCEPT ![b.table] = @ + SizeOf[b.rows]],
         UNCHANGED <<queue, due>>
  PROVE  KeptInv' /\ Charges' /\ Kept' = Kept \cup b.rows
<1> DEFINE c == [b EXCEPT !.attempts = @ + 1]
<1>1. c.rows = b.rows /\ c.table = b.table /\ b.table \in Names /\ b.rows \in SUBSET Rows
  BY DEF Loads
<1>2. Filed(c) /\ later' = later \cup {c}
  BY <1>1 DEF Filed
<1> HIDE DEF c
<1>3. SetApart(later') /\ RowsIn(later') = RowsIn(later) \cup b.rows
  <2>1. RowsIn(later) \cap c.rows = {}
    BY <1>1 DEF Kept
  <2>2. /\ SetApart(later \cup {c})
        /\ RowsIn(later \cup {c}) = RowsIn(later) \cup c.rows
    BY <2>1, SetApartAdd DEF KeptInv
  <2>3. QED
    BY <1>1, <1>2, <2>2
<1>4. Fresh' = Fresh /\ RowsOf(due)' = RowsOf(due)
  BY DEF Fresh
<1>5. KeptInv'
  BY <1>2, <1>3, <1>4 DEF KeptInv, FreshInv, Disjoint, Kept
<1>6. Kept' = Kept \cup b.rows
  BY <1>3, <1>4 DEF Kept
<1>7. Charges'
  BY <1>1, <1>6, ChargesAdded DEF Filed
<1>8. QED
  BY <1>5, <1>6, <1>7

\* Its backoff passes: it stays in the buffer.
LEMMA BackoffKeeps ==
  ASSUME Shape, KeptInv, Charges, NEW b \in later,
         later' = later \ {b}, due' = Append(due, b), UNCHANGED <<queue, size>>
  PROVE  KeptInv' /\ Charges' /\ Kept' = Kept
<1>1. b \in Loads /\ Filed(b) /\ due \in Seq(Loads) /\ b.rows \subseteq RowsIn(later)
  BY DEF Shape, KeptInv, RowsIn
<1>2. SetApart(later') /\ RowsIn(later') = RowsIn(later) \ b.rows
  BY SetApartRemove DEF KeptInv
<1>3. /\ SeqApart(due') /\ RowsOf(due') = RowsOf(due) \cup b.rows
      /\ ToSet(due') = ToSet(due) \cup {b}
  <2>1. RowsOf(due) \cap b.rows = {}
    BY <1>1 DEF KeptInv, Disjoint
  <2>2. QED
    BY <1>1, <2>1, AppendApart DEF KeptInv
<1>4. Fresh' = Fresh
  BY DEF Fresh
<1>5. Kept' = Kept
  BY <1>1, <1>2, <1>3, <1>4 DEF Kept
<1>6. KeptInv'
  BY <1>1, <1>2, <1>3, <1>4 DEF KeptInv, FreshInv, Disjoint
<1>7. Charges'
  BY <1>5 DEF Charges, Charged
<1>8. QED
  BY <1>5, <1>6, <1>7

\* A new row joins the queue of its table.
LEMMA EnqueueGets ==
  ASSUME Shape, KeptInv, Charges, NEW r \in Rows, r \notin Kept, Enqueue(r)
  PROVE  KeptInv' /\ Charges' /\ Kept' = Kept \cup {r}
<1> DEFINE t == TableOf[r]
<1>1. /\ t \in Names /\ queue[t] \in Seq(Rows)
      /\ queue'[t] = Append(queue[t], r) /\ \A u \in Names \ {t} : queue'[u] = queue[u]
      /\ size' = [size EXCEPT ![t] = @ + SizeOf[{r}]] /\ UNCHANGED <<later, due>>
  BY RowHasTable DEF Enqueue, Shape
<1>2. r \notin ToSet(queue[t])
  BY <1>1 DEF Kept, Fresh
<1>3. NoRepeats(queue'[t]) /\ ToSet(queue'[t]) = ToSet(queue[t]) \cup {r}
  <2>1. NoRepeats(queue[t])
    BY <1>1 DEF KeptInv, FreshInv
  <2>2. QED
    BY <1>1, <1>2, <2>1, AppendRow
<1>4. FreshInv'
  BY <1>1, <1>3 DEF KeptInv, FreshInv
<1>5. Fresh' = Fresh \cup {r}
  <2>1. \A u \in Names : ToSet(queue'[u]) = ToSet(queue[u]) \cup IF u = t THEN {r} ELSE {}
    BY <1>1, <1>3
  <2>2. Fresh' = UNION {ToSet(queue'[u]) : u \in Names}
    BY DEF Fresh
  <2>3. Fresh' \subseteq Fresh \cup {r}
    BY <2>1, <2>2 DEF Fresh
  <2>4. Fresh \subseteq Fresh'
    BY <2>1, <2>2 DEF Fresh
  <2>5. r \in Fresh'
    BY <1>1, <1>3, <2>2
  <2>6. QED
    BY <2>3, <2>4, <2>5
<1>6. RowsIn(later)' = RowsIn(later) /\ RowsOf(due)' = RowsOf(due)
  BY <1>1
<1>7. KeptInv'
  BY <1>1, <1>4, <1>5, <1>6 DEF KeptInv, Disjoint, Kept
<1>8. Kept' = Kept \cup {r}
  BY <1>5, <1>6 DEF Kept
<1>9. Charges'
  <2>1. {r} \in SUBSET Rows /\ Kept \cap {r} = {} /\ \A x \in {r} : TableOf[x] = t
    OBVIOUS
  <2> DEFINE S == {r}
  <2>2. /\ S \in SUBSET Rows /\ Kept \cap S = {} /\ \A x \in S : TableOf[x] = t
        /\ t \in Names /\ Kept' = Kept \cup S
        /\ size' = [size EXCEPT ![t] = @ + SizeOf[S]]
    BY <1>1, <1>8, <2>1
  <2> HIDE DEF S, t
  <2>3. QED
    BY <2>2, ChargesAdded
<1>10. QED
  BY <1>7, <1>8, <1>9

\* A wave takes the first tasks.
LEMMA WaveKeeps ==
  ASSUME Shape, AwayInv, StartWave
  PROVE  AwayInv' /\ Away' = Away
<1>1. PICK n \in 1 .. Slots :
        /\ n <= Len(tasks)
        /\ wave' = ToSet(SubSeq(tasks, 1, n))
        /\ tasks' = SubSeq(tasks, n + 1, Len(tasks))
  BY DEF StartWave, Greatest
<1>2. n \in 1 .. Len(tasks) /\ tasks \in Seq(Loads) /\ loading' = loading /\ wave = {}
  BY <1>1, PoolAssumption DEF Shape, StartWave, pool
<1>3. ToSet(tasks) = wave' \cup ToSet(tasks')
  BY <1>1, <1>2, SplitElements
<1>4. /\ SetApart(wave') /\ SeqApart(tasks')
      /\ RowsOf(tasks) = RowsIn(wave') \cup RowsOf(tasks')
      /\ RowsIn(wave') \cap RowsOf(tasks') = {}
  BY <1>1, <1>2, SplitApart DEF AwayInv, RowsOf
<1>5. RowsIn(wave) = {} /\ RowsIn(loading)' = RowsIn(loading)
  BY <1>2 DEF RowsIn
<1>6. AwayInv'
  BY <1>2, <1>3, <1>4, <1>5 DEF AwayInv, Disjoint
<1>7. QED
  BY <1>4, <1>5, <1>6 DEF Away
(***************************************************************************)
(* Every step preserves it.                                                *)
(***************************************************************************)
Fates == {"new", "blocked", "accepted", "written", "dropped"}

LEMMA StartLoadPlaces ==
  ASSUME Shape, PlaceInv, NEW pos, pos + 1 \in DOMAIN Tables, StartLoad(pos),
         UNCHANGED <<fate, wave, tasks>>
  PROVE  PlaceInv'
<1> DEFINE t == Tables[pos + 1]
<1>1. t \in Names
  BY TablesAreNames
<1>2. PICK b : Gives(b) /\ Load(b)
  <2>1. CASE \E i \in Least(DueAt(t)) : TakeDue(i) /\ Load(due[i])
    BY <2>1, TakeDueGives DEF Least, DueAt, PlaceInv
  <2>2. CASE \E k \in Greatest(FreshLengths(t)) : TakeFresh(t, k) /\ Load(FreshBatch(t, k))
    BY <1>1, <2>2, TakeFreshGives DEF Greatest, PlaceInv
  <2>3. QED
    BY <2>1, <2>2 DEF StartLoad
<1>3. Gets(b)
  BY <1>2, LoadGets DEF Gives, PlaceInv
<1>4. BlockedInv'
  <2>1. woken' = woken \o waiting /\ waiting' = <<>> /\ ToSet(<<>>) = {}
    BY DEF StartLoad, NotifyBufferDrained, ToSet
  <2>2. NoRepeats(woken') /\ ToSet(woken') = ToSet(woken) \cup ToSet(waiting)
    BY <2>1, JoinRows DEF Shape, PlaceInv, BlockedInv
  <2>3. NoRepeats(waiting')
    BY <2>1 DEF NoRepeats
  <2>4. QED
    BY <2>1, <2>2, <2>3 DEF PlaceInv, BlockedInv
<1>5. Accepted' = Accepted
  BY DEF Accepted
<1>6. Kept' \cap Away' = {} /\ Kept' \cup Away' = Accepted'
  BY <1>2, <1>3, <1>5 DEF Gives, Gets, PlaceInv
<1>7. QED
  BY <1>2, <1>3, <1>4, <1>6 DEF Gives, Gets, PlaceInv

LEMMA CollectPlaces ==
  ASSUME Shape, PlaceInv, Collect
  PROVE  PlaceInv'
<1>1. PICK n \in DOMAIN Tables :
        \/ \E b \in later : TakeLater(b) /\ tasks' = Append(tasks, b)
        \/ \E i \in DOMAIN due : TakeDue(i) /\ tasks' = Append(tasks, due[i])
        \/ \E k \in FreshLengths(Tables[n]) :
             TakeFresh(Tables[n], k) /\ tasks' = Append(tasks, FreshBatch(Tables[n], k))
  BY DEF Collect, Least, Greatest, Buffered, DueAt
<1>2. PICK b : Gives(b) /\ tasks' = Append(tasks, b)
  BY <1>1, TablesAreNames, TakeLaterGives, TakeDueGives, TakeFreshGives DEF PlaceInv
<1>3. UNCHANGED <<loading, wave, fate, waiting, woken>>
  BY DEF Collect, pool
<1>4. Gets(b)
  BY <1>2, <1>3, TaskGets DEF Gives, PlaceInv
<1>5. BlockedInv' /\ Accepted' = Accepted
  BY <1>3 DEF PlaceInv, BlockedInv, Accepted
<1>6. Kept' \cap Away' = {} /\ Kept' \cup Away' = Accepted'
  BY <1>2, <1>4, <1>5 DEF Gives, Gets, PlaceInv
<1>7. QED
  BY <1>2, <1>4, <1>5, <1>6 DEF Gives, Gets, PlaceInv

LEMMA ProducerPlaces ==
  ASSUME Shape, PlaceInv, fate \in [Rows -> Fates], NEW r \in Rows,
         fate[r] # "accepted", r \notin ToSet(waiting), r \notin ToSet(woken'),
         NoRepeats(woken'), ToSet(woken') \subseteq ToSet(woken),
         Block(r) \/ (Enqueue(r) /\ UNCHANGED waiting), UNCHANGED <<loading, wave, tasks>>
  PROVE  PlaceInv'
<1>1. r \notin Kept /\ r \notin Away /\ AwayInv' /\ Away' = Away
  BY DEF PlaceInv, Accepted, AwayInv, Away
<1>2. CASE Block(r)
  <2>1. /\ UNCHANGED buffer /\ waiting' = Append(waiting, r)
        /\ fate' = [fate EXCEPT ![r] = "blocked"]
    BY <1>2 DEF Block
  <2>2. KeptInv' /\ Charges' /\ Kept' = Kept
    BY <2>1 DEF PlaceInv, buffer, KeptInv, FreshInv, Fresh, Charges, Charged, Kept
  <2>3. NoRepeats(waiting') /\ ToSet(waiting') = ToSet(waiting) \cup {r}
    BY <2>1, AppendRow DEF Shape, PlaceInv, BlockedInv
  <2>4. fate'[r] = "blocked" /\ \A x \in Rows \ {r} : fate'[x] = fate[x]
    BY <2>1
  <2>5. ToSet(waiting) \subseteq Rows /\ ToSet(woken) \subseteq Rows
    BY DEF Shape, ToSet
  <2>6. BlockedInv'
    BY <2>3, <2>4, <2>5 DEF PlaceInv, BlockedInv
  <2>7. Accepted' = Accepted
    BY <2>4 DEF Accepted
  <2>8. QED
    BY <1>1, <2>2, <2>6, <2>7 DEF PlaceInv
<1>3. CASE Enqueue(r) /\ UNCHANGED waiting
  <2>1. KeptInv' /\ Charges' /\ Kept' = Kept \cup {r}
    BY <1>1, <1>3, EnqueueGets DEF PlaceInv
  <2>2. fate'[r] = "accepted" /\ \A x \in Rows \ {r} : fate'[x] = fate[x]
    BY <1>3 DEF Enqueue
  <2>3. ToSet(waiting) \subseteq Rows /\ ToSet(woken) \subseteq Rows
    BY DEF Shape, ToSet
  <2>4. BlockedInv'
    BY <1>3, <2>2, <2>3 DEF PlaceInv, BlockedInv
  <2>5. Accepted' = Accepted \cup {r}
    BY <2>2 DEF Accepted
  <2>6. QED
    BY <1>1, <2>1, <2>4, <2>5 DEF PlaceInv
<1>4. QED
  BY <1>2, <1>3

LEMMA EndPlaces ==
  ASSUME Shape, PlaceInv, fate \in [Rows -> Fates],
         NEW b \in loading \cup wave, LoadSucceeds(b) \/ LoadFails(b)
  PROVE  PlaceInv'
<1>1. Ends(b) /\ UNCHANGED <<tasks, queue, due, waiting, woken>> /\ b \in Loads
  BY DEF LoadSucceeds, LoadFails, Park, buffer, Shape
<1>2. AwayInv' /\ Away' = Away \ b.rows /\ b.rows \subseteq Away /\ Filed(b)
  BY <1>1, EndGives DEF PlaceInv
<1>3. b.rows \cap Kept = {} /\ b.rows \subseteq Accepted
  BY <1>2 DEF PlaceInv
<1>4. ToSet(waiting) \subseteq Rows /\ ToSet(woken) \subseteq Rows
  BY DEF Shape, ToSet
<1>5. CASE \E f \in {"written", "dropped"} :
             /\ fate' = [r \in Rows |-> IF r \in b.rows THEN f ELSE fate[r]]
             /\ UNCHANGED buffer
  <2>1. KeptInv' /\ Charges' /\ Kept' = Kept
    BY <1>5 DEF PlaceInv, buffer, KeptInv, FreshInv, Fresh, Charges, Charged, Kept
  <2>2. \A r \in Rows : IF r \in b.rows THEN fate'[r] \in {"written", "dropped"}
                        ELSE fate'[r] = fate[r]
    BY <1>5
  <2>3. Accepted' = Accepted \ b.rows
    BY <2>2 DEF Accepted
  <2>4. \A r \in ToSet(waiting) \cup ToSet(woken) : r \notin b.rows
    BY <1>3 DEF PlaceInv, BlockedInv, Accepted
  <2>5. BlockedInv'
    BY <1>1, <1>4, <2>2, <2>4 DEF PlaceInv, BlockedInv
  <2>6. QED
    BY <1>2, <1>3, <2>1, <2>3, <2>5 DEF PlaceInv
<1>6. CASE /\ later' = later \cup {[b EXCEPT !.attempts = @ + 1]}
           /\ size' = [size EXCEPT ![b.table] = @ + SizeOf[b.rows]]
           /\ fate' = fate
  <2>1. KeptInv' /\ Charges' /\ Kept' = Kept \cup b.rows
    BY <1>1, <1>2, <1>3, <1>6, ParkGets DEF PlaceInv
  <2>2. BlockedInv' /\ Accepted' = Accepted
    BY <1>1, <1>6 DEF PlaceInv, BlockedInv, Accepted
  <2>3. QED
    BY <1>2, <1>3, <2>1, <2>2 DEF PlaceInv
<1>7. QED
  BY <1>5, <1>6 DEF LoadSucceeds, LoadFails, Park

LEMMA NothingIsMoved ==
  ASSUME PlaceInv, KeptInv', Charges', AwayInv', Kept' = Kept, Away' = Away,
         UNCHANGED <<fate, waiting, woken>>
  PROVE  PlaceInv'
BY DEF PlaceInv, BlockedInv, Accepted

LEMMA PlaceStep == Shape /\ InTables /\ FlushInv /\ PlaceInv /\ [Next]_vars => PlaceInv'
<1> SUFFICES ASSUME Shape, InTables, FlushInv, PlaceInv, [Next]_vars PROVE PlaceInv'
  OBVIOUS
<1>0. fate \in [Rows -> Fates]
  BY DEF FlushInv, Covered, Fates
<1>a. UNCHANGED <<queue, size, later, due>> => KeptInv' /\ Charges' /\ Kept' = Kept
  BY DEF PlaceInv, KeptInv, FreshInv, Fresh, Charges, Charged, Kept
<1>b. UNCHANGED <<loading, wave, tasks>> => AwayInv' /\ Away' = Away
  BY DEF PlaceInv, AwayInv, Away
<1>1. ASSUME NEW r \in Rows, AddToQueue(r) PROVE PlaceInv'
  <2>1. UNCHANGED <<loading, wave, tasks, woken>> /\ fate[r] \in {"new", "written", "dropped"}
    BY <1>1 DEF AddToQueue, pool, flush
  <2>2. r \notin ToSet(waiting) /\ r \notin ToSet(woken)
    BY <2>1 DEF PlaceInv, BlockedInv
  <2>3. QED
    BY <1>0, <1>1, <2>1, <2>2, ProducerPlaces DEF AddToQueue, PlaceInv, BlockedInv
<1>2. CASE Recheck
  <2> DEFINE r == Head(woken)
  <2>1. /\ UNCHANGED <<loading, wave, tasks>> /\ woken # <<>> /\ woken' = Tail(woken)
        /\ Block(r) \/ (Enqueue(r) /\ UNCHANGED waiting)
        /\ woken \in Seq(Rows)
    BY <1>2 DEF Recheck, pool, flush, Shape
  <2>2. /\ NoRepeats(woken') /\ ToSet(woken') = ToSet(woken) \ {r} /\ r \in ToSet(woken)
    BY <2>1, TailRows DEF PlaceInv, BlockedInv
  <2>3. r \in Rows /\ r \notin ToSet(waiting) /\ fate[r] = "blocked"
    BY <2>1, <2>2 DEF PlaceInv, BlockedInv
  <2> HIDE DEF r
  <2>4. QED
    BY <1>0, <2>1, <2>2, <2>3, ProducerPlaces
<1>3. CASE Launch \/ NextLoad
  BY <1>3, LaunchPicks, StartLoadPlaces DEF Launch, NextLoad
<1>4. ASSUME NEW b \in loading \cup wave, LoadSucceeds(b) \/ LoadFails(b) PROVE PlaceInv'
  BY <1>0, <1>4, EndPlaces
<1>5. CASE Rest \/ NoMoreWork \/ FreeSlot \/ TimerRunsOut \/ RetryTimerFires \/ StalenessTick
            \/ Shutdown \/ NextPass \/ (\E t \in Names : Age(t))
  <2>1. UNCHANGED <<queue, size, later, due, loading, wave, tasks, fate, waiting, woken>>
    BY <1>5
    DEF Rest, NoMoreWork, FreeSlot, TimerRunsOut, RetryTimerFires, StalenessTick,
        Shutdown, NextPass, Age, buffer, pool, flush
  <2>2. QED
    BY <1>a, <1>b, <2>1, NothingIsMoved
<1>6. ASSUME NEW b \in later, BackoffPasses(b) PROVE PlaceInv'
  <2>1. /\ later' = later \ {b} /\ due' = Append(due, b)
        /\ UNCHANGED <<queue, size, loading, wave, tasks, fate, waiting, woken>>
    BY <1>6 DEF BackoffPasses, pool, flush
  <2>2. KeptInv' /\ Charges' /\ Kept' = Kept
    BY <2>1, BackoffKeeps DEF PlaceInv
  <2>3. QED
    BY <1>b, <2>1, <2>2, NothingIsMoved
<1>7. CASE Collect
  BY <1>7, CollectPlaces
<1>8. CASE Collected
  <2>1. /\ UNCHANGED <<queue, size, later, due, loading, wave, tasks, fate>>
        /\ woken' = woken \o waiting /\ waiting' = <<>> /\ ToSet(<<>>) = {}
    BY <1>8 DEF Collected, NotifyBufferDrained, buffer, pool, ToSet
  <2>2. NoRepeats(woken') /\ ToSet(woken') = ToSet(woken) \cup ToSet(waiting)
    BY <2>1, JoinRows DEF Shape, PlaceInv, BlockedInv
  <2>3. NoRepeats(waiting')
    BY <2>1 DEF NoRepeats
  <2>4. BlockedInv' /\ Accepted' = Accepted
    BY <2>1, <2>2, <2>3 DEF PlaceInv, BlockedInv, Accepted
  <2>5. QED
    BY <1>a, <1>b, <2>1, <2>4 DEF PlaceInv
<1>9. CASE StartWave
  <2>1. UNCHANGED <<queue, size, later, due, fate, waiting, woken>>
    BY <1>9 DEF StartWave, buffer
  <2>2. AwayInv' /\ Away' = Away
    BY <1>9, WaveKeeps DEF PlaceInv
  <2>3. QED
    BY <1>a, <2>1, <2>2, NothingIsMoved
<1>10. CASE UNCHANGED vars
  BY <1>10, <1>a, <1>b, NothingIsMoved DEF vars, buffer, pool, flush
<1>11. QED
  BY <1>1, <1>2, <1>3, <1>4, <1>5, <1>6, <1>7, <1>8, <1>9, <1>10 DEF Next, Exited

LEMMA NothingHasNoBytes == SizeOf[{}] = 0
<1>1. SizeOf[{} \cup {}] = SizeOf[{}] + SizeOf[{}] /\ SizeOf[{}] \in Nat
  BY RowAssumption
<1>2. SizeOf[{}] = SizeOf[{}] + SizeOf[{}]
  BY <1>1, Zenon
<1>3. \A k \in Nat : k = k + k => k = 0
  OBVIOUS
<1>4. QED
  BY <1>1, <1>2, <1>3, Zenon

LEMMA PlaceInvariant == Spec => []PlaceInv
<1>1. Init => PlaceInv
  <2> SUFFICES ASSUME Init PROVE PlaceInv
    OBVIOUS
  <2>1. ToSet(<<>>) = {} /\ RowsIn({}) = {} /\ NoRepeats(<<>>) /\ SeqApart(<<>>) /\ SetApart({})
    BY DEF ToSet, RowsIn, NoRepeats, SeqApart, SetApart
  <2>2. Fresh = {} /\ Kept = {} /\ Away = {}
    BY <2>1 DEF Init, Fresh, Kept, Away, RowsOf
  <2>3. KeptInv /\ AwayInv /\ BlockedInv
    BY <2>1, <2>2 DEF Init, KeptInv, FreshInv, AwayInv, BlockedInv, Disjoint, RowsOf
  <2>4. SizeOf[{}] = 0
    BY NothingHasNoBytes
  <2>5. Charges
    BY <2>2, <2>4 DEF Init, Charges, Charged
  <2>6. Accepted = {}
    BY DEF Init, Accepted
  <2>7. QED
    BY <2>2, <2>3, <2>5, <2>6 DEF PlaceInv
<1>2. WakeInv => Shape
  BY DEF WakeInv
<1>3. DueInv => InTables
  BY DEF DueInv
<1>4. QED
  BY <1>1, <1>2, <1>3, PlaceStep, FlushInvariant, DueInvariant, WakeInvariant, PTL DEF Spec

(***************************************************************************)
(* queueSizeBytes never drifts: it is the bytes of the fresh rows and the  *)
(* parked batches of the table, whatever was taken, parked or collected.   *)
(***************************************************************************)
THEOREM BytesNeverDrift == Spec => []BytesAccountedFor
<1>1. Shape /\ PlaceInv => BytesAccountedFor
  <2> SUFFICES ASSUME Shape, PlaceInv, NEW t \in Names
               PROVE  Charged(t) = ToSet(queue[t]) \cup RowsIn(Parked(t))
    BY DEF BytesAccountedFor, PlaceInv, Charges
  <2>1. \A u \in Names : \A r \in ToSet(queue[u]) : TableOf[r] = u
    BY DEF PlaceInv, KeptInv, FreshInv
  <2>2. \A b \in later \cup ToSet(due) : Filed(b)
    BY DEF PlaceInv, KeptInv
  <2>3. {r \in Fresh : TableOf[r] = t} = ToSet(queue[t])
    BY <2>1 DEF Fresh
  <2>4. {r \in RowsIn(later \cup ToSet(due)) : TableOf[r] = t} = RowsIn(Parked(t))
    BY <2>2 DEF RowsIn, Parked, Filed
  <2>5. Kept = Fresh \cup RowsIn(later \cup ToSet(due))
    BY DEF Kept, RowsOf, RowsIn
  <2>6. QED
    BY <2>3, <2>4, <2>5 DEF Charged
<1>2. WakeInv => Shape
  BY DEF WakeInv
<1>3. QED
  BY <1>1, <1>2, PlaceInvariant, WakeInvariant, PTL

LEMMA SetHolds ==
  ASSUME NEW bs, NEW r, SetApart(bs)
  PROVE  Holding(bs, r) = IF r \in RowsIn(bs) THEN 1 ELSE 0
<1> DEFINE H == {b \in bs : r \in b.rows}
<1>1. CASE r \in RowsIn(bs)
  <2>1. PICK b \in bs : r \in b.rows
    BY <1>1 DEF RowsIn
  <2>2. H = {b}
    BY <2>1 DEF SetApart
  <2>3. QED
    BY <1>1, <2>2, FS_Singleton DEF Holding
<1>2. CASE r \notin RowsIn(bs)
  <2>1. H = {}
    BY <1>2 DEF RowsIn
  <2>2. QED
    BY <1>2, <2>1, FS_EmptySet DEF Holding
<1>3. QED
  BY <1>1, <1>2

LEMMA SeqHolds ==
  ASSUME NEW s \in Seq(Loads), NEW r, SeqApart(s)
  PROVE  Cardinality({i \in DOMAIN s : r \in s[i].rows}) = IF r \in RowsOf(s) THEN 1 ELSE 0
<1> DEFINE H == {i \in DOMAIN s : r \in s[i].rows}
<1>1. CASE r \in RowsOf(s)
  <2>1. PICK i \in DOMAIN s : r \in s[i].rows
    BY <1>1, ElementsOf
  <2>2. H = {i}
    BY <2>1 DEF SeqApart
  <2>3. QED
    BY <1>1, <2>2, FS_Singleton
<1>2. CASE r \notin RowsOf(s)
  <2>1. H = {}
    BY <1>2, ElementsOf
  <2>2. QED
    BY <1>2, <2>1, FS_EmptySet
<1>3. QED
  BY <1>1, <1>2

LEMMA QueueHolds ==
  ASSUME NEW q, NEW r, NoRepeats(q)
  PROVE  Cardinality({i \in DOMAIN q : q[i] = r}) = IF r \in ToSet(q) THEN 1 ELSE 0
<1> DEFINE H == {i \in DOMAIN q : q[i] = r}
<1>1. CASE r \in ToSet(q)
  <2>1. PICK i \in DOMAIN q : q[i] = r
    BY <1>1 DEF ToSet
  <2>2. H = {i}
    BY <2>1 DEF NoRepeats
  <2>3. QED
    BY <1>1, <2>2, FS_Singleton
<1>2. CASE r \notin ToSet(q)
  <2>1. H = {}
    BY <1>2 DEF ToSet
  <2>2. QED
    BY <1>2, <2>1, FS_EmptySet
<1>3. QED
  BY <1>1, <1>2

(***************************************************************************)
(* No row is lost and none is duplicated: an accepted row is in exactly    *)
(* one place until it is written or dropped, and then nowhere.             *)
(***************************************************************************)
THEOREM NoRowIsLostOrDoubled == Spec => []HeldExactlyOnce
<1>1. Shape /\ PlaceInv => HeldExactlyOnce
  <2> SUFFICES ASSUME Shape, PlaceInv, NEW r \in Rows
               PROVE  Places(r) = IF fate[r] = "accepted" THEN 1 ELSE 0
    BY DEF HeldExactlyOnce
  <2> DEFINE q == queue[TableOf[r]]
             One(S) == IF r \in S THEN 1 ELSE 0
  <2>1. TableOf[r] \in Names
    BY RowHasTable
  <2>2. Cardinality({i \in DOMAIN q : q[i] = r}) = One(Fresh)
    <3>1. NoRepeats(q) /\ \A u \in Names : \A x \in ToSet(queue[u]) : TableOf[x] = u
      BY <2>1 DEF PlaceInv, KeptInv, FreshInv
    <3>2. r \in Fresh <=> r \in ToSet(q)
      BY <2>1, <3>1 DEF Fresh
    <3>3. QED
      BY <3>1, <3>2, QueueHolds
  <2>3. /\ Holding(later, r) = One(RowsIn(later))
        /\ Holding(loading, r) = One(RowsIn(loading))
        /\ Holding(wave, r) = One(RowsIn(wave))
    BY SetHolds DEF PlaceInv, KeptInv, AwayInv
  <2>4. /\ Cardinality({i \in DOMAIN due : r \in due[i].rows}) = One(RowsOf(due))
        /\ Cardinality({i \in DOMAIN tasks : r \in tasks[i].rows}) = One(RowsOf(tasks))
    BY SeqHolds DEF Shape, PlaceInv, KeptInv, AwayInv
  <2>5. Places(r) = One(Fresh) + One(RowsIn(later)) + One(RowsIn(loading))
                    + One(RowsIn(wave)) + One(RowsOf(due)) + One(RowsOf(tasks))
    BY <2>2, <2>3, <2>4 DEF Places
  <2>6. fate[r] = "accepted" <=> r \in Kept \cup Away
    BY DEF PlaceInv, Accepted
  <2>7. CASE r \notin Kept \cup Away
    BY <2>5, <2>6, <2>7 DEF Kept, Away
  <2>8. CASE r \in Kept
    <3>1. r \notin RowsIn(loading) /\ r \notin RowsIn(wave) /\ r \notin RowsOf(tasks)
      BY <2>8 DEF PlaceInv, Away
    <3>2. One(Fresh) + One(RowsIn(later)) + One(RowsOf(due)) = 1
      BY <2>8 DEF Kept, PlaceInv, KeptInv, Disjoint
    <3>3. QED
      BY <2>5, <2>6, <2>8, <3>1, <3>2
  <2>9. CASE r \in Away
    <3>1. r \notin Fresh /\ r \notin RowsIn(later) /\ r \notin RowsOf(due)
      BY <2>9 DEF PlaceInv, Kept
    <3>2. One(RowsIn(loading)) + One(RowsIn(wave)) + One(RowsOf(tasks)) = 1
      BY <2>9 DEF Away, PlaceInv, AwayInv, Disjoint
    <3>3. QED
      BY <2>5, <2>6, <2>9, <3>1, <3>2
  <2>10. QED
    BY <2>7, <2>8, <2>9
<1>2. WakeInv => Shape
  BY DEF WakeInv
<1>3. QED
  BY <1>1, <1>2, PlaceInvariant, WakeInvariant, PTL-----------------------------------------------------------------------------
(***************************************************************************)
(* The type invariant, with the pool's limit: the workers between two      *)
(* batches, those with a load and those that returned never exceed the     *)
(* slots.  A batch has a row and has failed at most as often as loads did. *)
(***************************************************************************)
Everywhere == later \cup ToSet(due) \cup loading \cup wave \cup ToSet(tasks)

BatchInv == \A b \in Everywhere : b.rows # {} /\ b.attempts <= failures

PoolInv == /\ IsFiniteSet(loading) /\ loops \in Nat /\ exits \in Nat
           /\ Active <= Slots

FlagsOK ==
  /\ stale \subseteq Names /\ sync \in {"none", "drain", "timer", "collect"}
  /\ pass \in 0 .. MaxPasses /\ failures \in 0 .. MaxFailures /\ excused \subseteq Rows

LEMMA FreshHasRows ==
  ASSUME NEW t, NEW k, queue[t] \in Seq(Rows), k \in 1 .. Len(queue[t])
  PROVE  FreshBatch(t, k).rows # {} /\ FreshBatch(t, k).attempts = 0
<1> DEFINE q == SubSeq(queue[t], 1, k)
<1>1. DOMAIN q = 1 .. k
  BY SplitIndices
<1>2. 1 \in DOMAIN q
  BY <1>1
<1>3. q[1] \in ToSet(q)
  BY <1>2 DEF ToSet
<1>4. FreshBatch(t, k).rows = ToSet(q) /\ FreshBatch(t, k).attempts = 0
  BY DEF FreshBatch
<1>5. QED
  BY <1>3, <1>4

LEMMA StartLoadBatches ==
  ASSUME Shape, BatchInv, failures \in Nat, NEW pos, pos + 1 \in DOMAIN Tables, StartLoad(pos),
         UNCHANGED <<wave, tasks, failures>>
  PROVE  /\ BatchInv'
         /\ \E b \in Loads : /\ loading' = loading \cup {b}
                             /\ excused' \subseteq excused \cup b.rows
         /\ stale' \subseteq stale
<1> DEFINE t == Tables[pos + 1]
<1>1. CASE \E i \in Least(DueAt(t)) : TakeDue(i) /\ Load(due[i])
  <2>1. PICK i \in DOMAIN due : TakeDue(i) /\ Load(due[i])
    BY <1>1 DEF Least, DueAt
  <2>2. due[i] \in Loads /\ due \in Seq(Loads) /\ due[i] \in ToSet(due)
    BY DEF Shape, ToSet
  <2>3. ToSet(due') \subseteq ToSet(due)
    <3>1. \A j \in DOMAIN due' : \E m \in DOMAIN due : due'[j] = due[m]
      BY <2>1, <2>2, RemovedOrKept DEF TakeDue
    <3>2. QED
      BY <3>1 DEF ToSet
  <2>4. Everywhere' \subseteq Everywhere
    BY <2>1, <2>2, <2>3 DEF Everywhere, TakeDue, Load
  <2>5. QED
    BY <2>1, <2>2, <2>4 DEF BatchInv, TakeDue, Load
<1>2. CASE \E k \in Greatest(FreshLengths(t)) : TakeFresh(t, k) /\ Load(FreshBatch(t, k))
  <2>1. PICK k \in FreshLengths(t) : TakeFresh(t, k) /\ Load(FreshBatch(t, k))
    BY <1>2 DEF Greatest
  <2> DEFINE b == FreshBatch(t, k)
  <2>2. t \in Names /\ queue[t] \in Seq(Rows) /\ k \in 1 .. Len(queue[t])
    BY <2>1, TablesAreNames DEF Shape, FreshLengths
  <2>3. b \in Loads /\ b.attempts = 0 /\ b.rows = ToSet(SubSeq(queue[t], 1, k))
    BY <2>1, <2>2, TakeFreshKeeps DEF FreshBatch
  <2>4. b.rows # {}
    BY <2>2, FreshHasRows
  <2> HIDE DEF b
  <2>5. Everywhere' \subseteq Everywhere \cup {b}
    BY <2>1 DEF Everywhere, TakeFresh, Load, b
  <2>6. BatchInv'
    BY <2>3, <2>4, <2>5 DEF BatchInv
  <2>7. QED
    BY <2>1, <2>3, <2>6 DEF TakeFresh, Load, b
<1>3. QED
  BY <1>1, <1>2 DEF StartLoad

LEMMA BatchStep ==
  Shape /\ InTables /\ BatchInv /\ FlagsOK /\ [Next]_vars => BatchInv' /\ FlagsOK'
<1> SUFFICES ASSUME Shape, InTables, BatchInv, FlagsOK, [Next]_vars
             PROVE  BatchInv' /\ FlagsOK'
  OBVIOUS
<1>0. /\ failures \in Nat /\ pass \in Nat /\ MaxPasses \in Nat \ {0} /\ MaxFailures \in Nat
      /\ later \subseteq Loads /\ loading \subseteq Loads /\ wave \subseteq Loads
      /\ due \in Seq(Loads) /\ tasks \in Seq(Loads)
  BY PoolAssumption DEF FlagsOK, Shape
<1>a. \A bs \in SUBSET Loads : RowsIn(bs) \subseteq Rows
  BY DEF RowsIn, Loads
<1>b. UNCHANGED <<later, due, loading, wave, tasks, failures>> => BatchInv'
  BY DEF BatchInv, Everywhere
<1>1. CASE Recheck \/ \E r \in Rows : AddToQueue(r)
  <2>1. UNCHANGED <<later, due, loading, wave, tasks, failures>> /\ FlagsOK'
    BY <1>1 DEF AddToQueue, Recheck, Block, Enqueue, buffer, pool, flush, FlagsOK
  <2>2. QED
    BY <1>b, <2>1
<1>2. CASE Launch \/ NextLoad
  <2>1. UNCHANGED <<pass, sync, wave, tasks, failures>>
    BY <1>2 DEF Launch, NextLoad
  <2>2. PICK pos : pos + 1 \in DOMAIN Tables /\ StartLoad(pos)
    BY <1>2, LaunchPicks
  <2>3. QED
    BY <1>0, <2>1, <2>2, StartLoadBatches DEF FlagsOK, Loads
<1>3. ASSUME NEW b \in loading \cup wave, LoadSucceeds(b) PROVE BatchInv' /\ FlagsOK'
  <2>1. /\ UNCHANGED <<later, due, tasks, failures, stale, sync, pass, excused>>
        /\ loading' \subseteq loading /\ wave' \subseteq wave
    BY <1>3 DEF LoadSucceeds, Ends, buffer
  <2>2. Everywhere' \subseteq Everywhere
    BY <2>1 DEF Everywhere
  <2>3. QED
    BY <2>1, <2>2 DEF BatchInv, FlagsOK
<1>4. ASSUME NEW b \in loading \cup wave, LoadFails(b) PROVE BatchInv' /\ FlagsOK'
  <2> DEFINE c == [b EXCEPT !.attempts = @ + 1]
  <2>1. /\ UNCHANGED <<due, tasks, stale, sync, pass>> /\ excused' \subseteq excused \cup b.rows
        /\ loading' \subseteq loading /\ wave' \subseteq wave /\ later' \subseteq later \cup {c}
        /\ failures' = failures + 1 /\ failures < MaxFailures /\ b \in Loads
    BY <1>0, <1>4 DEF LoadFails, Ends, Park, buffer
  <2>2. c.rows = b.rows /\ c.attempts = b.attempts + 1 /\ b.attempts \in Nat
    BY <2>1 DEF Loads
  <2> HIDE DEF c
  <2>3. Everywhere' \subseteq Everywhere \cup {c} /\ Everywhere \subseteq Loads /\ b \in Everywhere
    BY <1>0, <2>1, ElementsOf DEF Everywhere
  <2>4. BatchInv'
    <3>1. ASSUME NEW d \in Everywhere PROVE d.rows # {} /\ d.attempts <= failures'
      <4>1. d.attempts \in Nat /\ d.attempts <= failures /\ d.rows # {}
        BY <2>3 DEF BatchInv, Loads
      <4>2. QED
        BY <1>0, <2>1, <4>1
    <3>2. c.rows # {} /\ c.attempts <= failures'
      BY <1>0, <2>1, <2>2, <2>3 DEF BatchInv
    <3>3. QED
      BY <2>3, <3>1, <3>2 DEF BatchInv
  <2>5. FlagsOK'
    BY <1>0, <2>1 DEF FlagsOK, Loads
  <2>6. QED
    BY <2>4, <2>5
<1>5. CASE Rest \/ NoMoreWork \/ FreeSlot \/ TimerRunsOut \/ RetryTimerFires \/ StalenessTick
            \/ Collected \/ (\E t \in Names : Age(t))
  <2>1. UNCHANGED <<later, due, loading, wave, tasks, failures>> /\ FlagsOK'
    BY <1>5
    DEF Rest, NoMoreWork, FreeSlot, TimerRunsOut, RetryTimerFires, StalenessTick, Collected,
        Finish, Age, buffer, pool, flush, FlagsOK
  <2>2. QED
    BY <1>b, <2>1
<1>6. CASE Shutdown \/ NextPass
  <2>1. UNCHANGED <<later, due, loading, wave, tasks, failures>> /\ FlagsOK'
    BY <1>0, <1>a, <1>6 DEF Shutdown, NextPass, buffer, pool, FlagsOK
  <2>2. QED
    BY <1>b, <2>1
<1>7. ASSUME NEW b \in later, BackoffPasses(b) PROVE BatchInv' /\ FlagsOK'
  <2>1. /\ later' = later \ {b} /\ due' = Append(due, b)
        /\ UNCHANGED <<loading, wave, tasks, failures, stale, sync, pass, excused>>
    BY <1>7 DEF BackoffPasses, pool, flush
  <2>2. ToSet(due') = ToSet(due) \cup {b}
    <3>1. /\ DOMAIN due' = 1 .. Len(due) + 1 /\ due'[Len(due) + 1] = b
          /\ \A i \in 1 .. Len(due) : due'[i] = due[i]
          /\ DOMAIN due = 1 .. Len(due) /\ Len(due) \in Nat
      BY <1>0, <2>1
    <3>2. DOMAIN due' = DOMAIN due \cup {Len(due) + 1}
      BY <3>1
    <3>3. QED
      BY <3>1, <3>2 DEF ToSet
  <2>3. Everywhere' \subseteq Everywhere
    BY <2>1, <2>2 DEF Everywhere
  <2>4. QED
    BY <2>1, <2>3 DEF BatchInv, FlagsOK
<1>8. CASE Collect
  <2>1. PICK n \in DOMAIN Tables :
          \/ \E b \in later : TakeLater(b) /\ tasks' = Append(tasks, b)
          \/ \E i \in DOMAIN due : TakeDue(i) /\ tasks' = Append(tasks, due[i])
          \/ \E k \in FreshLengths(Tables[n]) :
               TakeFresh(Tables[n], k) /\ tasks' = Append(tasks, FreshBatch(Tables[n], k))
    BY <1>8 DEF Collect, Least, Greatest, Buffered, DueAt
  <2>2. UNCHANGED <<loading, wave, failures, sync, pass, excused>> /\ stale' \subseteq stale
    BY <1>8, <2>1 DEF Collect, pool, TakeLater, TakeDue, TakeFresh
  <2>3. \E b \in Loads : /\ tasks' = Append(tasks, b) /\ b.rows # {} /\ b.attempts <= failures
                         /\ later' \subseteq later /\ ToSet(due') \subseteq ToSet(due)
    <3>1. CASE \E b \in later : TakeLater(b) /\ tasks' = Append(tasks, b)
      BY <1>0, <3>1 DEF TakeLater, BatchInv, Everywhere
    <3>2. CASE \E i \in DOMAIN due : TakeDue(i) /\ tasks' = Append(tasks, due[i])
      <4>1. PICK i \in DOMAIN due : TakeDue(i) /\ tasks' = Append(tasks, due[i])
        BY <3>2
      <4>2. \A j \in DOMAIN due' : \E m \in DOMAIN due : due'[j] = due[m]
        BY <1>0, <4>1, RemovedOrKept DEF TakeDue
      <4>3. due[i] \in Loads /\ due[i] \in Everywhere
        BY <1>0 DEF Everywhere, ToSet
      <4>4. QED
        BY <4>1, <4>2, <4>3 DEF BatchInv, TakeDue, ToSet
    <3>3. CASE \E k \in FreshLengths(Tables[n]) :
               TakeFresh(Tables[n], k) /\ tasks' = Append(tasks, FreshBatch(Tables[n], k))
      <4> DEFINE t == Tables[n]
      <4>1. PICK k \in FreshLengths(t) :
              TakeFresh(t, k) /\ tasks' = Append(tasks, FreshBatch(t, k))
        BY <3>3
      <4>2. t \in Names /\ queue[t] \in Seq(Rows) /\ k \in 1 .. Len(queue[t])
        BY TablesAreNames DEF Shape, FreshLengths
      <4>3. FreshBatch(t, k) \in Loads
        BY <4>1, <4>2, TakeFreshKeeps
      <4>4. FreshBatch(t, k).rows # {} /\ FreshBatch(t, k).attempts = 0
        BY <4>2, FreshHasRows
      <4>5. QED
        BY <1>0, <4>1, <4>3, <4>4 DEF TakeFresh
    <3>4. QED
      BY <2>1, <3>1, <3>2, <3>3
  <2>4. PICK b \in Loads : /\ tasks' = Append(tasks, b) /\ b.rows # {} /\ b.attempts <= failures
                           /\ later' \subseteq later /\ ToSet(due') \subseteq ToSet(due)
    BY <2>3
  <2>5. ToSet(tasks') \subseteq ToSet(tasks) \cup {b}
    BY <1>0, <2>4 DEF ToSet
  <2>6. Everywhere' \subseteq Everywhere \cup {b}
    BY <2>2, <2>4, <2>5 DEF Everywhere
  <2>7. QED
    BY <2>2, <2>4, <2>6 DEF BatchInv, FlagsOK
<1>9. CASE StartWave
  <2>1. PICK n \in 1 .. Slots :
          /\ n <= Len(tasks)
          /\ wave' = ToSet(SubSeq(tasks, 1, n))
          /\ tasks' = SubSeq(tasks, n + 1, Len(tasks))
    BY <1>9 DEF StartWave, Greatest
  <2>2. wave' \cup ToSet(tasks') = ToSet(tasks)
    BY <1>0, <2>1, SplitElements, PoolAssumption
  <2>3. UNCHANGED <<later, due, loading, failures, stale, sync, pass, excused>>
    BY <1>9 DEF StartWave, buffer, pool
  <2>4. QED
    BY <2>2, <2>3 DEF BatchInv, Everywhere, FlagsOK
<1>10. CASE UNCHANGED vars
  BY <1>10, <1>b DEF vars, buffer, pool, flush, FlagsOK
<1>11. QED
  BY <1>1, <1>2, <1>3, <1>4, <1>5, <1>6, <1>7, <1>8, <1>9, <1>10 DEF Next, Exited

LEMMA PoolStep ==
  Shape /\ InTables /\ BatchInv /\ FlagsOK /\ PoolInv /\ [Next]_vars => PoolInv'
<1> SUFFICES ASSUME Shape, InTables, BatchInv, FlagsOK, PoolInv, [Next]_vars PROVE PoolInv'
  OBVIOUS
<1>0. Cardinality(loading) \in Nat /\ Slots \in Nat
  BY FS_CardinalityType, PoolAssumption DEF PoolInv
<1>1. ASSUME Launch \/ NextLoad
      PROVE  /\ IsFiniteSet(loading') /\ Cardinality(loading') \in Nat
             /\ Cardinality(loading') <= Cardinality(loading) + 1
  <2>1. PICK pos : pos + 1 \in DOMAIN Tables /\ StartLoad(pos)
    BY <1>1, LaunchPicks
  <2>2. PICK b : loading' = loading \cup {b}
    BY <2>1 DEF StartLoad, Load
  <2>3. QED
    BY <1>0, <2>2, FS_AddElement, FS_CardinalityType DEF PoolInv
<1>2. CASE Launch
  BY <1>0, <1>1, <1>2 DEF Launch, CanLaunch, Active, PoolInv
<1>3. CASE NextLoad
  <2>1. exits' = exits /\ loops' = loops - 1 /\ loops > 0
    BY <1>3 DEF NextLoad
  <2>2. QED
    BY <1>0, <1>1, <1>3, <2>1 DEF Active, PoolInv
<1>4. ASSUME NEW b \in loading \cup wave, LoadSucceeds(b) \/ LoadFails(b) PROVE PoolInv'
  <2>1. Ends(b) /\ exits' = exits
    BY <1>4 DEF LoadSucceeds, LoadFails
  <2>2. CASE b \in loading /\ loading' = loading \ {b} /\ loops' = loops + 1
    <3>1. IsFiniteSet(loading') /\ Cardinality(loading') = Cardinality(loading) - 1
      BY <2>2, FS_RemoveElement DEF PoolInv
    <3>2. QED
      BY <1>0, <2>1, <2>2, <3>1 DEF PoolInv, Active
  <2>3. CASE UNCHANGED <<loading, loops>>
    BY <2>1, <2>3 DEF PoolInv, Active
  <2>4. QED
    BY <2>1, <2>2, <2>3 DEF Ends
<1>5. CASE NoMoreWork \/ FreeSlot
  BY <1>0, <1>5 DEF NoMoreWork, FreeSlot, PoolInv, Active
<1>6. CASE UNCHANGED <<loading, loops, exits>>
  BY <1>6 DEF PoolInv, Active
<1>7. QED
  BY <1>2, <1>3, <1>4, <1>5, <1>6
  DEF Next, Exited, vars, pool, AddToQueue, Recheck, Rest, Age, BackoffPasses, TimerRunsOut,
      RetryTimerFires, StalenessTick, Shutdown, Collect, Collected, StartWave, NextPass

(***************************************************************************)
(* Every variable keeps its type, and the pool its limit: never more loads *)
(* of drain workers than slots.                                            *)
(***************************************************************************)
THEOREM TypeCorrect == Spec => []TypeOK
<1>1. Init => BatchInv /\ FlagsOK /\ PoolInv
  <2> SUFFICES ASSUME Init PROVE BatchInv /\ FlagsOK /\ PoolInv
    OBVIOUS
  <2>1. ToSet(<<>>) = {}
    BY DEF ToSet
  <2>2. QED
    BY <2>1, FS_EmptySet, PoolAssumption
    DEF Init, BatchInv, Everywhere, FlagsOK, PoolInv, Active
<1>2. WakeInv => Shape
  BY DEF WakeInv
<1>3. DueInv => InTables /\ TimerType
  BY DEF DueInv
<1>4. FlushInv => fate \in [Rows -> Fates] /\ phase \in {"running", "flush", "done"}
  BY DEF FlushInv, Covered, CollectsFirst, Fates
<1>5. /\ Shape /\ InTables /\ TimerType /\ PlaceInv /\ BatchInv /\ FlagsOK /\ PoolInv
      /\ fate \in [Rows -> Fates] /\ phase \in {"running", "flush", "done"}
      => TypeOK
  <2> SUFFICES ASSUME Shape, InTables, TimerType, PlaceInv, BatchInv, FlagsOK, PoolInv,
                      fate \in [Rows -> Fates], phase \in {"running", "flush", "done"}
               PROVE  TypeOK
    OBVIOUS
  <2>1. Everywhere \subseteq Batches
    <3>1. Everywhere \subseteq Loads
      BY ElementsOf DEF Everywhere, Shape
    <3>2. SUFFICES ASSUME NEW b \in Everywhere PROVE b \in Batches
      OBVIOUS
    <3>3. b.rows # {} /\ b.attempts <= failures /\ b \in Loads
      BY <3>1 DEF BatchInv
    <3>4. \A r \in b.rows : TableOf[r] = b.table
      BY DEF Everywhere, PlaceInv, KeptInv, AwayInv, Filed
    <3>5. b.attempts \in 0 .. MaxFailures
      BY <3>3, PoolAssumption DEF FlagsOK, Loads
    <3>6. QED
      BY <3>3, <3>4, <3>5 DEF Batches, Loads
  <2>2. \A s \in Seq(Loads) : ToSet(s) \subseteq Batches => s \in Seq(Batches)
    BY DEF ToSet
  <2>3. due \in Seq(Batches) /\ tasks \in Seq(Batches)
    BY <2>1, <2>2 DEF Everywhere, Shape
  <2>4. later \subseteq Batches /\ loading \subseteq Batches /\ wave \subseteq Batches
    BY <2>1 DEF Everywhere
  <2>5. loops \in 0 .. Slots /\ exits \in 0 .. Slots /\ Cardinality(loading) + loops + exits <= Slots
    BY PoolAssumption, FS_CardinalityType DEF PoolInv, Active
  <2>6. QED
    BY <2>3, <2>4, <2>5 DEF TypeOK, Shape, InTables, TimerType, FlagsOK, Fates
<1>6. QED
  BY <1>1, <1>2, <1>3, <1>4, <1>5, BatchStep, PoolStep, PlaceInvariant, FlushInvariant,
     DueInvariant, WakeInvariant, PTL DEF Spec

-----------------------------------------------------------------------------
(***************************************************************************)
(* The writer as an outbox.  A batch that leaves a place leaves it for     *)
(* good: it has a row, and no other batch has that row.                    *)
(***************************************************************************)
Waiting == later \cup ToSet(due)
Taken == loading \cup wave \cup ToSet(tasks)

LEMMA OnlyOne ==
  ASSUME NEW bs, NEW b, b.rows # {}, b.rows \cap RowsIn(bs) = {}
  PROVE  b \notin bs
BY DEF RowsIn

LEMMA RemovedElements ==
  ASSUME NEW s \in Seq(Loads), NEW i \in DOMAIN s, SeqApart(s), s[i].rows # {}
  PROVE  ToSet(RemoveAt(s, i)) = ToSet(s) \ {s[i]}
<1>1. /\ \A j \in DOMAIN RemoveAt(s, i) : \E m \in DOMAIN s : RemoveAt(s, i)[j] = s[m]
      /\ \A m \in DOMAIN s \ {i} : \E j \in DOMAIN RemoveAt(s, i) : RemoveAt(s, i)[j] = s[m]
  BY RemovedOrKept
<1>2. RowsOf(RemoveAt(s, i)) = RowsOf(s) \ s[i].rows
  BY RemoveApart
<1>3. s[i] \notin ToSet(RemoveAt(s, i))
  BY <1>2, OnlyOne DEF RowsOf
<1>4. ToSet(RemoveAt(s, i)) \subseteq ToSet(s)
  BY <1>1 DEF ToSet
<1>5. ASSUME NEW b \in ToSet(s), b # s[i] PROVE b \in ToSet(RemoveAt(s, i))
  <2>1. PICK m \in DOMAIN s : s[m] = b
    BY DEF ToSet
  <2>2. PICK j \in DOMAIN RemoveAt(s, i) : RemoveAt(s, i)[j] = b
    BY <1>1, <1>5, <2>1
  <2>3. QED
    BY <2>2 DEF ToSet
<1>6. QED
  BY <1>3, <1>4, <1>5

LEMMA AppendedElements ==
  ASSUME NEW s \in Seq(Loads), NEW b
  PROVE  ToSet(Append(s, b)) = ToSet(s) \cup {b}
<1> DEFINE z == Append(s, b)
<1>1. /\ DOMAIN z = 1 .. Len(s) + 1 /\ z[Len(s) + 1] = b
      /\ \A i \in 1 .. Len(s) : z[i] = s[i]
      /\ DOMAIN s = 1 .. Len(s) /\ Len(s) \in Nat
  OBVIOUS
<1>2. DOMAIN z = DOMAIN s \cup {Len(s) + 1}
  BY <1>1
<1> HIDE DEF z
<1>3. ToSet(z) = ToSet(s) \cup {b}
  BY <1>1, <1>2 DEF ToSet
<1>4. QED
  BY <1>3 DEF z

LEMMA TakenDue ==
  ASSUME Shape, KeptInv, BatchInv, NEW i \in DOMAIN due, TakeDue(i)
  PROVE  due[i] \in Waiting /\ Waiting' = Waiting \ {due[i]} /\ UNCHANGED queue
<1> DEFINE b == due[i]
<1>1. due \in Seq(Loads) /\ b \in ToSet(due) /\ UNCHANGED <<queue, later>>
      /\ due' = RemoveAt(due, i)
  BY DEF Shape, ToSet, TakeDue
<1>2. b.rows # {}
  BY <1>1 DEF BatchInv, Everywhere
<1>3. b \notin later
  <2>1. b.rows \subseteq RowsOf(due)
    BY <1>1 DEF RowsOf, RowsIn
  <2>2. b.rows \cap RowsIn(later) = {}
    BY <2>1 DEF KeptInv, Disjoint
  <2>3. QED
    BY <1>2, <2>2, OnlyOne
<1>4. ToSet(due') = ToSet(due) \ {b}
  BY <1>1, <1>2, RemovedElements DEF KeptInv
<1>5. QED
  BY <1>1, <1>3, <1>4 DEF Waiting

LEMMA TakenLater ==
  ASSUME Shape, KeptInv, BatchInv, NEW b \in later, TakeLater(b)
  PROVE  b \in Waiting /\ Waiting' = Waiting \ {b} /\ UNCHANGED queue
<1>1. later' = later \ {b} /\ UNCHANGED <<queue, due>>
  BY DEF TakeLater
<1>2. b.rows # {}
  BY DEF BatchInv, Everywhere
<1>3. b \notin ToSet(due)
  <2>1. b.rows \subseteq RowsIn(later)
    BY DEF RowsIn
  <2>2. b.rows \cap RowsIn(ToSet(due)) = {}
    BY <2>1 DEF KeptInv, Disjoint, RowsOf
  <2>3. QED
    BY <1>2, <2>2, OnlyOne
<1>4. QED
  BY <1>1, <1>3 DEF Waiting

LEMMA Ended ==
  ASSUME AwayInv, BatchInv, NEW b \in loading \cup wave, Ends(b), UNCHANGED tasks
  PROVE  b \in Taken /\ Taken' = Taken \ {b}
<1>1. b.rows # {}
  BY DEF BatchInv, Everywhere
<1>2. \A bs : b \in bs => b.rows \subseteq RowsIn(bs)
  BY DEF RowsIn
<1>3. b \notin ToSet(tasks)
  <2>1. b.rows \cap RowsIn(ToSet(tasks)) = {}
    BY <1>2 DEF AwayInv, Disjoint, RowsOf
  <2>2. QED
    BY <1>1, <2>1, OnlyOne
<1>4. b \in loading => b \notin wave
  <2>1. b \in loading => b.rows \cap RowsIn(wave) = {}
    BY <1>2 DEF AwayInv, Disjoint
  <2>2. QED
    BY <1>1, <2>1, OnlyOne
<1>5. QED
  BY <1>3, <1>4 DEF Ends, Taken

(* The bytes that close the door are those of the table's rows in the      *)
(* buffer, as the promise counts them.                                     *)
LEMMA FullMeansAtCap ==
  ASSUME Shape, KeptInv, Charges, NEW t \in Names
  PROVE  Outbox!Full(t) <=> AtCap(t)
<1>1. Outbox!Buffered(t) = Charged(t)
  <2>1. Outbox!FirstRows(t, Len(queue[t])) = ToSet(queue[t])
    BY DEF Outbox!FirstRows, ToSet, Shape
  <2>2. {r \in Fresh : TableOf[r] = t} = ToSet(queue[t])
    BY DEF Fresh, KeptInv, FreshInv
  <2>3. Kept = Fresh \cup RowsIn(Waiting) /\ Kept \subseteq Rows
    BY KeptRows DEF Kept, RowsOf, RowsIn, Waiting
  <2>4. ToSet(queue[t]) \subseteq Rows
    BY DEF Shape, ToSet
  <2>5. QED
    BY <2>1, <2>2, <2>3, <2>4 DEF Outbox!Buffered, Charged, RowsIn, Waiting
<1>2. QED
  BY <1>1 DEF Outbox!Full, AtCap, Charges

LEMMA FormedBatch ==
  ASSUME Shape, NEW t \in Names, NEW k \in FreshLengths(t), TakeFresh(t, k),
         Taken' = Taken \cup {FreshBatch(t, k)}, UNCHANGED fate
  PROVE  Outbox!Form(t, k) /\ k \in 1 .. Len(queue[t])
<1>1. /\ queue[t] \in Seq(Rows) /\ k \in 1 .. Len(queue[t]) /\ k <= BatchSize
      /\ k = 1 \/ SizeOf[ToSet(SubSeq(queue[t], 1, k))] <= MaxBatchBytes
      /\ queue' = [queue EXCEPT ![t] = SubSeq(@, k + 1, Len(@))]
      /\ UNCHANGED <<later, due>>
  BY DEF Shape, FreshLengths, TakeFresh
<1>2. Outbox!FirstRows(t, k) = ToSet(SubSeq(queue[t], 1, k))
  <2>1. DOMAIN SubSeq(queue[t], 1, k) = 1 .. k
        /\ \A i \in 1 .. k : SubSeq(queue[t], 1, k)[i] = queue[t][i]
    BY <1>1, SplitIndices
  <2>2. QED
    BY <2>1 DEF Outbox!FirstRows, ToSet
<1>3. QED
  BY <1>1, <1>2 DEF Outbox!Form, FreshBatch, Taken

LEMMA StartedLoad ==
  ASSUME Shape, KeptInv, BatchInv, NEW pos, pos + 1 \in DOMAIN Tables, StartLoad(pos),
         UNCHANGED <<wave, tasks, fate>>
  PROVE  Outbox!Next
<1> DEFINE t == Tables[pos + 1]
<1>1. CASE \E i \in Least(DueAt(t)) : TakeDue(i) /\ Load(due[i])
  <2>1. PICK i \in DOMAIN due : TakeDue(i) /\ Load(due[i])
    BY <1>1 DEF Least, DueAt
  <2>2. /\ due[i] \in Waiting /\ Waiting' = Waiting \ {due[i]} /\ UNCHANGED queue
        /\ Taken' = Taken \cup {due[i]}
    BY <2>1, TakenDue DEF Load, Taken
  <2>3. due[i] \in later \cup ToSet(due) /\ Outbox!Take(due[i])
    BY <2>2 DEF Outbox!Take, Waiting, Taken
  <2>4. QED
    BY <2>3 DEF Outbox!Next
<1>2. CASE \E k \in Greatest(FreshLengths(t)) : TakeFresh(t, k) /\ Load(FreshBatch(t, k))
  <2>1. PICK k \in FreshLengths(t) : TakeFresh(t, k) /\ Load(FreshBatch(t, k))
    BY <1>2 DEF Greatest
  <2>2. t \in Names /\ Taken' = Taken \cup {FreshBatch(t, k)}
    BY <2>1, TablesAreNames DEF Load, Taken
  <2>3. Outbox!Form(t, k) /\ k \in 1 .. Len(queue[t])
    BY <2>1, <2>2, FormedBatch
  <2>4. QED
    BY <2>2, <2>3 DEF Outbox!Next
<1>3. QED
  BY <1>1, <1>2 DEF StartLoad

LEMMA CollectedTask ==
  ASSUME Shape, KeptInv, BatchInv, Collect
  PROVE  Outbox!Next
<1>1. PICK n \in DOMAIN Tables :
        \/ \E b \in later : TakeLater(b) /\ tasks' = Append(tasks, b)
        \/ \E i \in DOMAIN due : TakeDue(i) /\ tasks' = Append(tasks, due[i])
        \/ \E k \in FreshLengths(Tables[n]) :
             TakeFresh(Tables[n], k) /\ tasks' = Append(tasks, FreshBatch(Tables[n], k))
  BY DEF Collect, Least, Greatest, Buffered, DueAt
<1>2. UNCHANGED <<loading, wave, fate>> /\ Tables[n] \in Names
  BY TablesAreNames DEF Collect, pool
<1>3. ASSUME NEW b, tasks' = Append(tasks, b) PROVE Taken' = Taken \cup {b}
  <2>1. ToSet(tasks') = ToSet(tasks) \cup {b}
    BY <1>3, AppendedElements DEF Shape
  <2>2. QED
    BY <1>2, <2>1 DEF Taken
<1>4. ASSUME NEW b, b \in Waiting, Waiting' = Waiting \ {b}, UNCHANGED queue,
             tasks' = Append(tasks, b)
      PROVE  Outbox!Next
  <2>1. b \in later \cup ToSet(due) /\ Outbox!Take(b)
    BY <1>2, <1>3, <1>4 DEF Outbox!Take, Waiting, Taken
  <2>2. QED
    BY <2>1 DEF Outbox!Next
<1>5. ASSUME NEW k \in FreshLengths(Tables[n]), TakeFresh(Tables[n], k),
             tasks' = Append(tasks, FreshBatch(Tables[n], k))
      PROVE  Outbox!Next
  <2>1. Outbox!Form(Tables[n], k) /\ k \in 1 .. Len(queue[Tables[n]])
    BY <1>2, <1>3, <1>5, FormedBatch
  <2>2. QED
    BY <1>2, <2>1 DEF Outbox!Next
<1>6. QED
  BY <1>1, <1>4, <1>5, TakenDue, TakenLater

LEMMA AcceptedOrWaits ==
  ASSUME Shape, PlaceInv, NEW r \in Rows, fate[r] \in Fates \ {"accepted"},
         \/ AtCap(TableOf[r]) /\ Block(r)
         \/ ~AtCap(TableOf[r]) /\ Enqueue(r),
         UNCHANGED <<loading, wave, tasks>>
  PROVE  Outbox!Next \/ (fate[r] = "blocked" /\ Block(r))
<1>1. TableOf[r] \in Names /\ (Outbox!Full(TableOf[r]) <=> AtCap(TableOf[r]))
  BY RowHasTable, FullMeansAtCap DEF PlaceInv
<1>2. CASE AtCap(TableOf[r]) /\ Block(r) /\ fate[r] # "blocked"
  <2>1. /\ UNCHANGED <<queue, later, due, loading, wave, tasks>>
        /\ fate' = [fate EXCEPT ![r] = "blocked"] /\ fate[r] \in {"new", "written", "dropped"}
    BY <1>2 DEF Block, buffer, Fates
  <2>2. Outbox!Wait(r)
    BY <1>1, <1>2, <2>1 DEF Outbox!Wait
  <2>3. QED
    BY <2>2 DEF Outbox!Next
<1>3. CASE ~AtCap(TableOf[r]) /\ Enqueue(r)
  <2>1. Outbox!Accept(r)
    BY <1>1, <1>3 DEF Enqueue, Outbox!Accept
  <2>2. QED
    BY <2>1 DEF Outbox!Next
<1>4. QED
  BY <1>2, <1>3

LEMMA LoadEnded ==
  ASSUME Shape, PlaceInv, BatchInv, NEW b \in loading \cup wave,
         LoadSucceeds(b) \/ LoadFails(b)
  PROVE  Outbox!Next
<1>1. Ends(b) /\ UNCHANGED <<tasks, queue, due>>
  BY DEF LoadSucceeds, LoadFails, Park, buffer
<1>2. b \in Taken /\ Taken' = Taken \ {b}
  BY <1>1, Ended DEF PlaceInv
<1>3. Outbox!Exhausted(b) <=> Exhausted(b)
  BY DEF Outbox!Exhausted, Exhausted
<1>4. Outbox!Deliver(b) \/ Outbox!GiveUp(b) \/ Outbox!Fail(b)
  <2>1. CASE LoadSucceeds(b)
    <3>1. /\ fate' = [r \in Rows |-> IF r \in b.rows THEN "written" ELSE fate[r]]
          /\ UNCHANGED <<queue, later, due>>
      BY <2>1 DEF LoadSucceeds, buffer
    <3>2. QED
      BY <1>2, <3>1 DEF Outbox!Deliver, Outbox!Leave, Taken
  <2>2. CASE /\ Exhausted(b) /\ UNCHANGED buffer
             /\ fate' = [r \in Rows |-> IF r \in b.rows THEN "dropped" ELSE fate[r]]
    BY <1>2, <1>3, <2>2 DEF Outbox!GiveUp, Outbox!Leave, Taken, buffer
  <2>3. CASE /\ ~Exhausted(b) /\ fate' = fate
             /\ later' = later \cup {[b EXCEPT !.attempts = @ + 1]}
    BY <1>1, <1>2, <1>3, <2>3 DEF Outbox!Fail, Taken
  <2>4. QED
    BY <2>1, <2>2, <2>3 DEF LoadFails, Park
<1>5. QED
  BY <1>2, <1>4 DEF Outbox!Next, Taken

LEMMA OutboxStep ==
  Shape /\ InTables /\ FlushInv /\ PlaceInv /\ BatchInv /\ [Next]_vars
    => [Outbox!Next]_(Outbox!vars)
<1> SUFFICES ASSUME Shape, InTables, FlushInv, PlaceInv, BatchInv, [Next]_vars
             PROVE  [Outbox!Next]_(Outbox!vars)
  OBVIOUS
<1>0. fate \in [Rows -> Fates] /\ KeptInv
  BY DEF FlushInv, Covered, Fates, PlaceInv
<1>s. UNCHANGED <<queue, Waiting, Taken, fate>> => UNCHANGED Outbox!vars
  BY DEF Outbox!vars, Waiting, Taken
<1>1. ASSUME NEW r \in Rows, AddToQueue(r) PROVE Outbox!Next
  <2>1. /\ UNCHANGED <<loading, wave, tasks>> /\ fate[r] \in {"new", "written", "dropped"}
        /\ \/ AtCap(TableOf[r]) /\ Block(r)
           \/ ~AtCap(TableOf[r]) /\ Enqueue(r)
    BY <1>1 DEF AddToQueue, pool, flush
  <2>2. fate[r] \in Fates \ {"accepted"} /\ fate[r] # "blocked"
    BY <2>1 DEF Fates
  <2>3. QED
    BY <2>1, <2>2, AcceptedOrWaits
<1>2. CASE Recheck
  <2> DEFINE r == Head(woken)
  <2>1. /\ UNCHANGED <<loading, wave, tasks>> /\ woken # <<>> /\ woken \in Seq(Rows)
        /\ \/ AtCap(TableOf[r]) /\ Block(r)
           \/ ~AtCap(TableOf[r]) /\ Enqueue(r)
    BY <1>2 DEF Recheck, pool, flush, Shape
  <2>2. r \in Rows /\ r \in ToSet(woken)
    BY <2>1, TailRows DEF PlaceInv, BlockedInv
  <2>3. fate[r] = "blocked"
    BY <2>2 DEF PlaceInv, BlockedInv
  <2> HIDE DEF r
  <2>4. fate[r] \in Fates \ {"accepted"}
    BY <2>3 DEF Fates
  <2>5. CASE Block(r)
    <3>1. UNCHANGED <<queue, later, due>> /\ fate' = [fate EXCEPT ![r] = "blocked"]
      BY <2>5 DEF Block, buffer
    <3>2. fate' = fate
      BY <1>0, <2>2, <2>3, <3>1
    <3>3. QED
      BY <1>s, <2>1, <3>1, <3>2 DEF Waiting, Taken
  <2>6. QED
    BY <2>1, <2>2, <2>4, <2>5, AcceptedOrWaits
<1>3. CASE Launch \/ NextLoad
  <2>1. UNCHANGED <<wave, tasks, fate>>
    BY <1>3 DEF Launch, NextLoad
  <2>2. QED
    BY <1>0, <1>3, <2>1, LaunchPicks, StartedLoad
<1>4. ASSUME NEW b \in loading \cup wave, LoadSucceeds(b) \/ LoadFails(b) PROVE Outbox!Next
  BY <1>4, LoadEnded
<1>5. CASE \/ Rest \/ NoMoreWork \/ FreeSlot \/ TimerRunsOut \/ RetryTimerFires \/ StalenessTick
           \/ Shutdown \/ Collected \/ NextPass
           \/ \E t \in Names : Age(t)
  <2>1. UNCHANGED <<queue, later, due, loading, wave, tasks, fate>>
    BY <1>5
    DEF Rest, NoMoreWork, FreeSlot, TimerRunsOut, RetryTimerFires, StalenessTick,
        Shutdown, Collected, NextPass, Age, buffer, pool, flush
  <2>2. QED
    BY <1>s, <2>1 DEF Waiting, Taken
<1>6. ASSUME NEW b \in later, BackoffPasses(b) PROVE UNCHANGED Outbox!vars
  <2>1. /\ later' = later \ {b} /\ due' = Append(due, b)
        /\ UNCHANGED <<queue, loading, wave, tasks, fate>>
    BY <1>6 DEF BackoffPasses, pool, flush
  <2>2. ToSet(due') = ToSet(due) \cup {b}
    BY <2>1, AppendedElements DEF Shape
  <2>3. QED
    BY <1>s, <2>1, <2>2 DEF Waiting, Taken
<1>7. CASE Collect
  BY <1>0, <1>7, CollectedTask
<1>8. CASE StartWave
  <2>1. PICK n \in 1 .. Slots : /\ n <= Len(tasks)
                                /\ wave' = ToSet(SubSeq(tasks, 1, n))
                                /\ tasks' = SubSeq(tasks, n + 1, Len(tasks))
    BY <1>8 DEF StartWave, Greatest
  <2>2. /\ n \in 1 .. Len(tasks) /\ tasks \in Seq(Loads) /\ wave = {}
        /\ UNCHANGED <<queue, later, due, loading, fate>>
    BY <1>8, <2>1, PoolAssumption DEF Shape, StartWave, buffer, pool
  <2>3. ToSet(tasks) = wave' \cup ToSet(tasks')
    BY <2>1, <2>2, SplitElements
  <2>4. QED
    BY <1>s, <2>2, <2>3 DEF Waiting, Taken
<1>9. CASE UNCHANGED vars
  BY <1>s, <1>9 DEF vars, buffer, pool, flush, Waiting, Taken
<1>10. QED
  BY <1>1, <1>2, <1>3, <1>4, <1>5, <1>6, <1>7, <1>8, <1>9 DEF Next, Exited

(***************************************************************************)
(* The writer implements DorisBuffer: every step of a worker, the timer, a *)
(* producer or the flush is one step of the outbox or none.                *)
(***************************************************************************)
THEOREM WriterIsAnOutbox == Spec => ImplementsBuffer
<1>1. Init => Outbox!Init /\ BatchInv /\ FlagsOK
  <2>1. ToSet(<<>>) = {}
    BY DEF ToSet
  <2>2. QED
    BY <2>1, PoolAssumption DEF Init, Outbox!Init, BatchInv, Everywhere, FlagsOK
<1>2. WakeInv => Shape
  BY DEF WakeInv
<1>3. DueInv => InTables
  BY DEF DueInv
<1>4. QED
  BY <1>1, <1>2, <1>3, OutboxStep, BatchStep, PlaceInvariant, FlushInvariant, DueInvariant,
     WakeInvariant, PTL DEF Spec, ImplementsBuffer, Outbox!Spec

-----------------------------------------------------------------------------
(***************************************************************************)
(* Memory.  n bounds the bytes of a row.  No batch is larger than the      *)
(* limit or one row; the loads of drain workers are at most one such batch *)
(* each, stated for every part of the loads so that it survives the end of *)
(* any of them; and a table holds the cap, one row let in just below it,   *)
(* and what was in flight at that moment.                                  *)
(***************************************************************************)
LargestBatch(n) == IF n > MaxBatchBytes THEN n ELSE MaxBatchBytes

SmallBatches(n) == \A b \in Everywhere : SizeOf[b.rows] <= LargestBatch(n)

FlightInv(n) ==
  \A S \in SUBSET loading : SizeOf[RowsIn(S)] <= Cardinality(S) * LargestBatch(n)

HeldOf(t) == {r \in Accepted : TableOf[r] = t}

HeldBytes(n) ==
  \A t \in Names : SizeOf[HeldOf(t)] < MaxQueueBytes + n + Slots * LargestBatch(n)

InFlight(n) == SizeOf[RowsIn(loading)] <= Slots * LargestBatch(n)

MemoryInv(n) == SmallBatches(n) /\ FlightInv(n) /\ HeldBytes(n)

LEMMA LargestBatchIsNat ==
  ASSUME NEW n \in Nat
  PROVE  /\ LargestBatch(n) \in Nat
         /\ n <= LargestBatch(n) /\ MaxBatchBytes <= LargestBatch(n)
BY PoolAssumption DEF LargestBatch

LEMMA BytesGrow ==
  ASSUME NEW S \in SUBSET Rows, NEW T \in SUBSET Rows, S \subseteq T
  PROVE  SizeOf[S] <= SizeOf[T]
<1>1. S \cup (T \ S) = T /\ S \cap (T \ S) = {} /\ T \ S \in SUBSET Rows
  OBVIOUS
<1>2. SizeOf[S \cup (T \ S)] = SizeOf[S] + SizeOf[T \ S]
  BY <1>1, RowAssumption
<1>3. SizeOf[T] = SizeOf[S] + SizeOf[T \ S]
  BY <1>1, <1>2
<1>4. SizeOf[S] \in Nat /\ SizeOf[T \ S] \in Nat /\ SizeOf[T] \in Nat
  BY <1>1, SizesAreNat
<1>5. QED
  BY <1>3, <1>4

LEMMA MoreLoads ==
  ASSUME NEW c \in Nat, NEW d \in Nat, NEW m \in Nat, c <= d
  PROVE  c * m \in Nat /\ d * m \in Nat /\ c * m <= d * m /\ (c + 1) * m = c * m + m
OBVIOUS

(* A batch of the step after is a batch of now with the same rows, or was  *)
(* formed just now: the outbox has no other way to make one.               *)
LEMMA SmallStep ==
  ASSUME NEW n \in Nat, \A r \in Rows : SizeOf[{r}] <= n,
         Shape, SmallBatches(n), [Outbox!Next]_(Outbox!vars)
  PROVE  SmallBatches(n)'
<1>0. /\ LargestBatch(n) \in Nat /\ MaxBatchBytes \in Nat
      /\ n <= LargestBatch(n) /\ MaxBatchBytes <= LargestBatch(n)
  BY LargestBatchIsNat, PoolAssumption
<1>1. Everywhere = Waiting \cup Taken /\ Everywhere' = Waiting' \cup Taken'
  BY DEF Everywhere, Waiting, Taken
<1>2. SUFFICES ASSUME NEW b \in Waiting' \cup Taken' PROVE SizeOf[b.rows] <= LargestBatch(n)
  BY <1>1 DEF SmallBatches
<1>3. ASSUME NEW c \in Waiting \cup Taken, b.rows = c.rows
      PROVE  SizeOf[b.rows] <= LargestBatch(n)
  BY <1>1, <1>3 DEF SmallBatches
<1>4. ASSUME NEW t \in Names, NEW k \in 1 .. Len(queue[t]), Outbox!Form(t, k)
      PROVE  SizeOf[b.rows] <= LargestBatch(n)
  <2>1. Waiting' = Waiting \/ b \in Taken'
    BY <1>4 DEF Outbox!Form, Waiting
  <2>2. CASE b \in Waiting \cup Taken
    BY <1>3, <2>2
  <2>3. CASE b \notin Waiting \cup Taken
    <3>1. b.rows = Outbox!FirstRows(t, k)
      BY <1>4, <2>3 DEF Outbox!Form, Waiting, Taken
    <3>2. k = 1 \/ SizeOf[b.rows] <= MaxBatchBytes
      BY <1>4, <3>1 DEF Outbox!Form
    <3>3. SizeOf[b.rows] \in Nat
      <4>1. b.rows \in SUBSET Rows
        BY <3>1 DEF Outbox!FirstRows, Shape
      <4>2. QED
        BY <4>1, SizesAreNat
    <3>4. CASE k = 1
      <4>1. queue[t][1] \in Rows /\ b.rows = {queue[t][1]}
        BY <3>1, <3>4 DEF Outbox!FirstRows, Shape
      <4>2. SizeOf[b.rows] <= n
        BY <4>1
      <4>3. QED
        BY <1>0, <3>3, <4>2
    <3>5. CASE SizeOf[b.rows] <= MaxBatchBytes
      BY <1>0, <3>3, <3>5
    <3>6. QED
      BY <3>2, <3>4, <3>5
  <2>4. QED
    BY <2>2, <2>3
<1>5. ASSUME NEW c \in Taken, Outbox!Fail(c)
      PROVE  SizeOf[b.rows] <= LargestBatch(n)
  <2>1. b \in Waiting \cup Taken \/ b = [c EXCEPT !.attempts = @ + 1]
    BY <1>5 DEF Outbox!Fail, Waiting, Taken
  <2>2. c \in Loads
    BY ElementsOf DEF Taken, Shape
  <2>3. [c EXCEPT !.attempts = @ + 1].rows = c.rows
    BY <2>2 DEF Loads
  <2>4. QED
    BY <1>3, <2>1, <2>3
<1>6. CASE \/ \E r \in Rows : Outbox!Wait(r) \/ Outbox!Accept(r)
           \/ \E c \in Waiting : Outbox!Take(c)
           \/ \E c \in Taken : Outbox!Deliver(c) \/ Outbox!GiveUp(c)
           \/ UNCHANGED Outbox!vars
  <2>1. b \in Waiting \cup Taken
    BY <1>6
    DEF Outbox!Wait, Outbox!Accept, Outbox!Take, Outbox!Deliver, Outbox!GiveUp, Outbox!Leave,
        Outbox!vars, Waiting, Taken
  <2>2. QED
    BY <1>3, <2>1
<1>7. QED
  BY <1>4, <1>5, <1>6 DEF Outbox!Next, Waiting, Taken

LEMMA FlightJoins ==
  ASSUME NEW n \in Nat, Shape, FlightInv(n), IsFiniteSet(loading),
         NEW b \in Loads, SizeOf[b.rows] <= LargestBatch(n),
         b.rows \cap RowsIn(loading) = {}, loading' = loading \cup {b}
  PROVE  FlightInv(n)'
<1> SUFFICES ASSUME NEW S \in SUBSET (loading \cup {b})
             PROVE  SizeOf[RowsIn(S)] <= Cardinality(S) * LargestBatch(n)
  BY DEF FlightInv
<1> DEFINE T == S \ {b}
<1>1. T \in SUBSET loading /\ IsFiniteSet(T) /\ Cardinality(T) \in Nat
  BY FS_Subset, FS_CardinalityType
<1>2. SizeOf[RowsIn(T)] <= Cardinality(T) * LargestBatch(n)
  BY <1>1 DEF FlightInv
<1>3. CASE b \notin S
  <2>1. S = T
    BY <1>3
  <2>2. QED
    BY <1>2, <2>1
<1>4. CASE b \in S
  <2>1. S = T \cup {b} /\ b \notin T
    BY <1>4
  <2> HIDE DEF T
  <2>2. Cardinality(S) = Cardinality(T) + 1
    BY <1>1, <2>1, FS_AddElement
  <2>3. RowsIn(S) = RowsIn(T) \cup b.rows /\ RowsIn(T) \cap b.rows = {}
    BY <1>1, <2>1 DEF RowsIn
  <2>4. RowsIn(T) \in SUBSET Rows /\ b.rows \in SUBSET Rows
    BY <1>1 DEF RowsIn, Shape, Loads
  <2>5. SizeOf[RowsIn(S)] = SizeOf[RowsIn(T)] + SizeOf[b.rows]
    BY <2>3, <2>4, RowAssumption
  <2>6. SizeOf[RowsIn(T)] \in Nat /\ SizeOf[b.rows] \in Nat /\ LargestBatch(n) \in Nat
    BY <2>4, SizesAreNat, LargestBatchIsNat
  <2>7. /\ Cardinality(T) * LargestBatch(n) \in Nat
        /\ Cardinality(S) * LargestBatch(n) = Cardinality(T) * LargestBatch(n) + LargestBatch(n)
    BY <1>1, <2>2, <2>6, MoreLoads
  <2>8. QED
    BY <1>2, <2>5, <2>6, <2>7
<1>5. QED
  BY <1>3, <1>4

LEMMA LoadingBytes ==
  ASSUME NEW n \in Nat, Shape, PoolInv, FlightInv(n)
  PROVE  InFlight(n) /\ SizeOf[RowsIn(loading)] \in Nat /\ Slots * LargestBatch(n) \in Nat
<1>1. Cardinality(loading) \in Nat /\ Slots \in Nat /\ LargestBatch(n) \in Nat
  BY FS_CardinalityType, LargestBatchIsNat, PoolAssumption DEF PoolInv
<1>2. Cardinality(loading) <= Slots
  BY <1>1 DEF PoolInv, Active
<1>3. /\ Cardinality(loading) * LargestBatch(n) <= Slots * LargestBatch(n)
      /\ Cardinality(loading) * LargestBatch(n) \in Nat /\ Slots * LargestBatch(n) \in Nat
  BY <1>1, <1>2, MoreLoads
<1>4. SizeOf[RowsIn(loading)] <= Cardinality(loading) * LargestBatch(n)
  BY DEF FlightInv
<1>5. RowsIn(loading) \in SUBSET Rows
  BY DEF RowsIn, Shape, Loads
<1>6. QED
  BY <1>3, <1>4, <1>5, SizesAreNat DEF InFlight

(* A row is let in only while the table's buffer is below the cap.         *)
LEMMA LetIn ==
  ASSUME NEW n \in Nat, \A r \in Rows : SizeOf[{r}] <= n,
         Shape, PlaceInv, PoolInv, FlightInv(n), HeldBytes(n),
         fate \in [Rows -> Fates], wave = {}, tasks = <<>>,
         NEW x \in Rows, fate[x] # "accepted", ~AtCap(TableOf[x]), Enqueue(x)
  PROVE  HeldBytes(n)'
<1> DEFINE m == Slots * LargestBatch(n)
<1>1. /\ \A r \in Rows : fate'[r] = IF r = x THEN "accepted" ELSE fate[r]
      /\ TableOf[x] \in Names
  BY RowHasTable DEF Enqueue
<1>2. m \in Nat /\ SizeOf[RowsIn(loading)] <= m /\ SizeOf[RowsIn(loading)] \in Nat
  BY LoadingBytes DEF InFlight
<1> HIDE DEF m
<1> SUFFICES ASSUME NEW t \in Names
             PROVE  SizeOf[HeldOf(t)'] < MaxQueueBytes + n + m
  BY DEF HeldBytes, m
<1>3. CASE t # TableOf[x]
  <2>1. HeldOf(t)' = HeldOf(t)
    BY <1>1, <1>3 DEF HeldOf, Accepted
  <2>2. QED
    BY <2>1 DEF HeldBytes, m
<1>4. CASE t = TableOf[x]
  <2> DEFINE F == {r \in RowsIn(loading) : TableOf[r] = t}
  <2>1. HeldOf(t)' = HeldOf(t) \cup {x} /\ HeldOf(t) \cap {x} = {}
    BY <1>1, <1>4 DEF HeldOf, Accepted
  <2>2. HeldOf(t) = Charged(t) \cup F /\ Charged(t) \cap F = {}
    <3>1. RowsIn(wave) = {} /\ RowsOf(tasks) = {}
      BY DEF RowsIn, RowsOf, ToSet
    <3>2. Kept \cup RowsIn(loading) = Accepted /\ Kept \cap RowsIn(loading) = {}
      BY <3>1 DEF PlaceInv, Away
    <3>3. QED
      BY <3>2 DEF HeldOf, Charged
  <2>3. /\ Charged(t) \in SUBSET Rows /\ F \in SUBSET Rows /\ HeldOf(t) \in SUBSET Rows
        /\ RowsIn(loading) \in SUBSET Rows
    BY <2>2 DEF HeldOf, Accepted, RowsIn, Shape, Loads
  <2>4. SizeOf[F] <= SizeOf[RowsIn(loading)]
    BY <2>3, BytesGrow
  <2> HIDE DEF F
  <2>5. SizeOf[HeldOf(t)] = SizeOf[Charged(t)] + SizeOf[F]
    BY <2>2, <2>3, RowAssumption
  <2>6. SizeOf[HeldOf(t)'] = SizeOf[HeldOf(t)] + SizeOf[{x}]
    <3>1. {x} \in SUBSET Rows
      OBVIOUS
    <3>2. SizeOf[HeldOf(t) \cup {x}] = SizeOf[HeldOf(t)] + SizeOf[{x}]
      BY <2>1, <2>3, <3>1, RowAssumption
    <3>3. QED
      BY <2>1, <3>2
  <2>7. SizeOf[Charged(t)] < MaxQueueBytes
    <3>1. size[t] = SizeOf[Charged(t)] /\ ~(size[t] >= MaxQueueBytes)
      BY <1>4 DEF PlaceInv, Charges, AtCap
    <3>2. SizeOf[Charged(t)] \in Nat /\ MaxQueueBytes \in Nat
      BY <2>3, SizesAreNat, PoolAssumption
    <3>3. QED
      BY <3>1, <3>2
  <2>8. SizeOf[{x}] <= n /\ {x} \in SUBSET Rows
    OBVIOUS
  <2>9. /\ SizeOf[Charged(t)] \in Nat /\ SizeOf[F] \in Nat /\ SizeOf[{x}] \in Nat
        /\ MaxQueueBytes \in Nat
    BY <2>3, <2>8, SizesAreNat, PoolAssumption
  <2>10. QED
    BY <1>2, <2>4, <2>5, <2>6, <2>7, <2>8, <2>9
<1>5. QED
  BY <1>3, <1>4

LEMMA FewerHeld ==
  ASSUME NEW n \in Nat, HeldBytes(n), Accepted' \subseteq Accepted
  PROVE  HeldBytes(n)'
<1> SUFFICES ASSUME NEW t \in Names
             PROVE  SizeOf[HeldOf(t)'] < MaxQueueBytes + n + Slots * LargestBatch(n)
  BY DEF HeldBytes
<1>1. HeldOf(t) \in SUBSET Rows /\ HeldOf(t)' \in SUBSET Rows /\ HeldOf(t)' \subseteq HeldOf(t)
  BY DEF HeldOf, Accepted
<1>2. SizeOf[HeldOf(t)'] <= SizeOf[HeldOf(t)]
  BY <1>1, BytesGrow
<1>3. SizeOf[HeldOf(t)'] \in Nat /\ SizeOf[HeldOf(t)] \in Nat
  BY <1>1, SizesAreNat
<1>4. SizeOf[HeldOf(t)] < MaxQueueBytes + n + Slots * LargestBatch(n)
  BY DEF HeldBytes
<1>5. LargestBatch(n) \in Nat /\ Slots * LargestBatch(n) \in Nat /\ MaxQueueBytes \in Nat
  BY LargestBatchIsNat, MoreLoads, PoolAssumption
<1> HIDE DEF LargestBatch
<1>6. QED
  BY <1>2, <1>3, <1>4, <1>5

LEMMA FlightStep ==
  ASSUME NEW n \in Nat, Shape, InTables, PlaceInv, PoolInv,
         FlightInv(n), SmallBatches(n), SmallBatches(n)', [Next]_vars
  PROVE  FlightInv(n)'
<1>1. CASE Launch \/ NextLoad
  <2>1. PICK pos : pos + 1 \in DOMAIN Tables /\ StartLoad(pos)
    BY <1>1, LaunchPicks
  <2>2. PICK b : Gives(b) /\ Load(b)
    <3> DEFINE t == Tables[pos + 1]
    <3>1. CASE \E i \in Least(DueAt(t)) : TakeDue(i) /\ Load(due[i])
      BY <3>1, TakeDueGives DEF Least, DueAt, PlaceInv
    <3>2. CASE \E k \in Greatest(FreshLengths(t)) : TakeFresh(t, k) /\ Load(FreshBatch(t, k))
      BY <2>1, <3>2, TablesAreNames, TakeFreshGives DEF Greatest, PlaceInv
    <3>3. QED
      BY <2>1, <3>1, <3>2 DEF StartLoad
  <2>3. loading' = loading \cup {b} /\ b \in Loads /\ b.rows \subseteq Kept
    BY <2>2 DEF Gives, Load
  <2>4. b.rows \cap RowsIn(loading) = {}
    BY <2>3 DEF PlaceInv, Away
  <2>5. SizeOf[b.rows] <= LargestBatch(n)
    <3>1. b \in Everywhere'
      BY <2>3 DEF Everywhere
    <3>2. QED
      BY <3>1 DEF SmallBatches
  <2>6. IsFiniteSet(loading)
    BY DEF PoolInv
  <2>7. QED
    BY <2>3, <2>4, <2>5, <2>6, FlightJoins
<1>2. ASSUME NEW b \in loading \cup wave, LoadSucceeds(b) \/ LoadFails(b)
      PROVE  FlightInv(n)'
  <2>1. loading' \subseteq loading
    BY <1>2 DEF LoadSucceeds, LoadFails, Ends
  <2>2. QED
    BY <2>1 DEF FlightInv
<1>3. CASE UNCHANGED loading
  BY <1>3 DEF FlightInv
<1>4. QED
  BY <1>1, <1>2, <1>3
  DEF Next, Exited, vars, pool, AddToQueue, Recheck, Rest, NoMoreWork, FreeSlot, Age,
      BackoffPasses, TimerRunsOut, RetryTimerFires, StalenessTick, Shutdown, Collect,
      Collected, StartWave, NextPass

LEMMA HeldStep ==
  ASSUME NEW n \in Nat, \A r \in Rows : SizeOf[{r}] <= n,
         Shape, FlushInv, PlaceInv, PoolInv, FlightInv(n), HeldBytes(n), [Next]_vars
  PROVE  HeldBytes(n)'
<1>0. fate \in [Rows -> Fates]
  BY DEF FlushInv, Covered, Fates
<1>1. ASSUME NEW x \in Rows, fate[x] # "accepted", phase = "running",
             \/ AtCap(TableOf[x]) /\ Block(x)
             \/ ~AtCap(TableOf[x]) /\ Enqueue(x)
      PROVE  HeldBytes(n)'
  <2>1. CASE Block(x)
    <3>1. \A r \in Rows : fate'[r] = IF r = x THEN "blocked" ELSE fate[r]
      BY <1>0, <2>1 DEF Block
    <3>2. Accepted' \subseteq Accepted
      BY <3>1 DEF Accepted
    <3>3. QED
      BY <3>2, FewerHeld
  <2>2. CASE ~AtCap(TableOf[x]) /\ Enqueue(x)
    <3>1. wave = {} /\ tasks = <<>>
      BY <1>1 DEF FlushInv, FlushOnly
    <3>2. QED
      BY <1>0, <1>1, <2>2, <3>1, LetIn
  <2>3. QED
    BY <1>1, <2>1, <2>2
<1>2. ASSUME NEW x \in Rows, AddToQueue(x) PROVE HeldBytes(n)'
  BY <1>1, <1>2 DEF AddToQueue
<1>3. CASE Recheck
  <2> DEFINE x == Head(woken)
  <2>1. /\ woken # <<>> /\ woken \in Seq(Rows)
        /\ \/ AtCap(TableOf[x]) /\ Block(x)
           \/ ~AtCap(TableOf[x]) /\ Enqueue(x)
    BY <1>3 DEF Recheck, Shape
  <2>2. x \in Rows /\ x \in ToSet(woken)
    BY <2>1, TailRows DEF PlaceInv, BlockedInv
  <2>3. fate[x] = "blocked" /\ phase = "running"
    BY <2>1, <2>2 DEF PlaceInv, BlockedInv, FlushInv, NoProducers
  <2> HIDE DEF x
  <2>4. QED
    BY <1>1, <2>1, <2>2, <2>3
<1>4. ASSUME NEW b \in loading \cup wave, LoadSucceeds(b) \/ LoadFails(b) PROVE HeldBytes(n)'
  <2>1. \/ fate' = fate
        \/ fate' = [r \in Rows |-> IF r \in b.rows THEN "written" ELSE fate[r]]
        \/ fate' = [r \in Rows |-> IF r \in b.rows THEN "dropped" ELSE fate[r]]
    BY <1>4 DEF LoadSucceeds, LoadFails, Park
  <2>2. Accepted' \subseteq Accepted
    BY <2>1 DEF Accepted
  <2>3. QED
    BY <2>2, FewerHeld
<1>5. CASE UNCHANGED fate
  BY <1>5, FewerHeld DEF Accepted
<1>6. QED
  BY <1>2, <1>3, <1>4, <1>5
  DEF Next, Exited, vars, Launch, Rest, NextLoad, NoMoreWork, FreeSlot, Age, BackoffPasses,
      TimerRunsOut, RetryTimerFires, StalenessTick, Shutdown, Collect, Collected, StartWave,
      NextPass

(***************************************************************************)
(* The memory of the writer is bounded (its doc comment: "the cap, and the *)
(* batches in flight").  If no row is larger than n bytes, then whatever   *)
(* producers add, however loads fail and retries pile up: the loads of     *)
(* drain workers are never more than a batch for each slot, and the rows of*)
(* a table, buffered, parked or in flight, never exceed the cap by more    *)
(* than one row and what can be in flight.                                 *)
(***************************************************************************)
THEOREM MemoryIsBounded ==
  ASSUME NEW n \in Nat, \A r \in Rows : SizeOf[{r}] <= n
  PROVE  Spec => [](InFlight(n) /\ HeldBytes(n))
<1>1. Init => BatchInv /\ FlagsOK /\ PoolInv /\ MemoryInv(n)
  <2> SUFFICES ASSUME Init PROVE BatchInv /\ FlagsOK /\ PoolInv /\ MemoryInv(n)
    OBVIOUS
  <2>1. ToSet(<<>>) = {} /\ RowsIn({}) = {} /\ Cardinality({}) = 0 /\ IsFiniteSet({})
    BY FS_EmptySet DEF ToSet, RowsIn
  <2>2. BatchInv /\ FlagsOK /\ PoolInv /\ SmallBatches(n)
    BY <2>1, PoolAssumption
    DEF Init, BatchInv, Everywhere, FlagsOK, PoolInv, Active, SmallBatches
  <2>3. SizeOf[{}] = 0
    BY NothingHasNoBytes
  <2>4. /\ LargestBatch(n) \in Nat /\ Slots * LargestBatch(n) \in Nat
        /\ 0 * LargestBatch(n) = 0 /\ MaxQueueBytes \in Nat \ {0}
    <3>1. LargestBatch(n) \in Nat /\ Slots \in Nat /\ MaxQueueBytes \in Nat \ {0}
      BY LargestBatchIsNat, PoolAssumption
    <3>2. \A m \in Nat : Slots * m \in Nat /\ 0 * m = 0
      BY <3>1
    <3>3. QED
      BY <3>1, <3>2
  <2>5. FlightInv(n)
    <3>1. \A S \in SUBSET loading : S = {}
      BY DEF Init
    <3>2. SizeOf[RowsIn({})] <= Cardinality({}) * LargestBatch(n)
      <4>1. SizeOf[RowsIn({})] = 0
        BY <2>1, <2>3
      <4>2. Cardinality({}) * LargestBatch(n) = 0
        BY <2>1, <2>4
      <4>3. QED
        BY <4>1, <4>2
    <3>3. QED
      BY <3>1, <3>2 DEF FlightInv
  <2>6. HeldBytes(n)
    <3>1. \A t \in Names : HeldOf(t) = {}
      BY DEF Init, HeldOf, Accepted
    <3>2. 0 < MaxQueueBytes + n + Slots * LargestBatch(n)
      BY <2>4
    <3>3. QED
      BY <2>3, <3>1, <3>2 DEF HeldBytes
  <2>7. QED
    BY <2>2, <2>5, <2>6 DEF MemoryInv
<1>2. /\ Shape /\ InTables /\ FlushInv /\ PlaceInv /\ BatchInv /\ PoolInv
      /\ MemoryInv(n) /\ [Next]_vars
      => MemoryInv(n)'
  BY OutboxStep, SmallStep, FlightStep, HeldStep DEF MemoryInv
<1>3. Shape /\ PoolInv /\ MemoryInv(n) => InFlight(n) /\ HeldBytes(n)
  BY LoadingBytes DEF MemoryInv
<1>4. WakeInv => Shape
  BY DEF WakeInv
<1>5. DueInv => InTables
  BY DEF DueInv
<1>6. QED
  BY <1>1, <1>2, <1>3, <1>4, <1>5, BatchStep, PoolStep, PlaceInvariant, FlushInvariant,
     DueInvariant, WakeInvariant, PTL DEF Spec
=============================================================================
