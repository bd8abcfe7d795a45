---------------------------- MODULE DorisWriter ----------------------------
(***************************************************************************)
(* The worker's DorisWriter: rows are buffered in memory per table and a   *)
(* small pool of drain workers ships them to Doris in batches.             *)
(*                                                                         *)
(* Producers (queue jobs) call addToQueue, which blocks while the table's  *)
(* buffered bytes are at the cap.  A batch that fails is parked, its bytes *)
(* charged to the buffer again, until its backoff has passed and one timer *)
(* for all parked batches starts a drain.  On shutdown flushRemaining      *)
(* ships what is buffered in a bounded number of passes.                   *)
(*                                                                         *)
(* All of it runs on one event loop: code between two awaits is one step.  *)
(* "sync" tells that such a stretch is in progress (scheduleDrain's loop   *)
(* over the slots, flushRemaining's collection), and then nothing else     *)
(* moves.  A row is its identity; its bytes are SizeOf.  A row that left   *)
(* may be added again, which stands for the endless stream of new rows.    *)
(***************************************************************************)
EXTENDS Integers, Sequences, FiniteSets, FiniteSetsExt, SequencesExt

CONSTANTS
  Rows,           \* row identities
  Tables,         \* the tables, in the order Object.values(TableName) has
  TableOf,        \* the table of a row
  SizeOf,         \* the bytes of a set of rows
  BatchSize,      \* rows of a batch at most
  MaxBatchBytes,  \* bytes of a batch at most (one row always fits)
  MaxQueueBytes,  \* buffered bytes of a table at which producers block
  Slots,          \* maxConcurrentLoads
  MaxAttempts,    \* attempts before a batch is dropped, 0 = never
  MaxPasses,      \* passes of flushRemaining
  MaxFailures     \* bound on failed loads in a behaviour

ASSUME PoolAssumption ==
  /\ Tables \in Seq(ToSet(Tables)) /\ Tables # <<>>
  /\ BatchSize \in Nat \ {0} /\ MaxBatchBytes \in Nat \ {0}
  /\ MaxQueueBytes \in Nat \ {0} /\ Slots \in Nat \ {0}
  /\ MaxAttempts \in Nat /\ MaxPasses \in Nat \ {0} /\ MaxFailures \in Nat

ASSUME RowAssumption ==
  /\ IsFiniteSet(Rows)
  /\ TableOf \in [Rows -> ToSet(Tables)]
  /\ SizeOf \in [SUBSET Rows -> Nat]
  /\ \A r \in Rows : SizeOf[{r}] > 0
  /\ \A S, T \in SUBSET Rows :
       S \cap T = {} => SizeOf[S \cup T] = SizeOf[S] + SizeOf[T]

VARIABLES
  queue,     \* table -> fresh rows, oldest first
  stale,     \* the tables whose oldest fresh row is older than writeInterval
  size,      \* table -> queueSizeBytes: fresh rows and parked batches
  later,     \* parked batches whose backoff still runs
  due,       \* parked batches whose backoff has passed, in that order
  timer,     \* retryTimer: "off", "armed", or "expired" and about to fire
  loading,   \* batches drain workers are loading
  loops,     \* number of drain workers between two batches
  exits,     \* number of drain workers that returned and still hold a slot
  cursor,    \* drainCursor
  sync,      \* the synchronous stretch in progress, or "none"
  waiting,   \* bufferWaiters: blocked producers, first come first
  woken,     \* producers resolved and about to check the cap again
  fate,      \* row -> what became of it
  phase,     \* "running", "flush" or "done"
  pass,      \* passes of flushRemaining begun
  tasks,     \* batches collected by the pass, not yet started
  wave,      \* batches the pass is loading
  excused,   \* history: rows the flush may leave behind, see FlushIsThorough
  failures   \* failed loads so far

buffer == <<queue, stale, size, later, due>>
pool   == <<loading, loops, exits, cursor>>
flush  == <<phase, pass, tasks, wave, excused>>
vars   == <<buffer, timer, pool, sync, waiting, woken, fate, flush, failures>>

Names == ToSet(Tables)
Batches ==
  {b \in [table : Names, rows : SUBSET Rows, attempts : 0 .. MaxFailures] :
     /\ b.rows # {}
     /\ \A r \in b.rows : TableOf[r] = b.table}

TypeOK ==
  /\ queue \in [Names -> Seq(Rows)] /\ stale \subseteq Names
  /\ size \in [Names -> Int]
  /\ later \subseteq Batches /\ due \in Seq(Batches)
  /\ timer \in {"off", "armed", "expired"}
  /\ loading \subseteq Batches /\ wave \subseteq Batches /\ tasks \in Seq(Batches)
  /\ loops \in 0 .. Slots /\ exits \in 0 .. Slots
  /\ Cardinality(loading) + loops + exits <= Slots
  /\ cursor \in 0 .. Len(Tables) - 1
  /\ sync \in {"none", "drain", "timer", "collect"}
  /\ waiting \in Seq(Rows) /\ woken \in Seq(Rows)
  /\ fate \in [Rows -> {"new", "blocked", "accepted", "written", "dropped"}]
  /\ phase \in {"running", "flush", "done"} /\ pass \in 0 .. MaxPasses
  /\ excused \subseteq Rows /\ failures \in 0 .. MaxFailures

Init ==
  /\ queue = [t \in Names |-> <<>>] /\ stale = {}
  /\ size = [t \in Names |-> 0]
  /\ later = {} /\ due = <<>> /\ timer = "off"
  /\ loading = {} /\ loops = 0 /\ exits = 0 /\ cursor = 0
  /\ sync = "none"
  /\ waiting = <<>> /\ woken = <<>>
  /\ fate = [r \in Rows |-> "new"]
  /\ phase = "running" /\ pass = 0 /\ tasks = <<>> /\ wave = {} /\ excused = {}
  /\ failures = 0

----------------------------------------------------------------------------
(* Readiness and the scan                                                  *)

Least(S) == {i \in S : \A j \in S : i <= j}
Greatest(S) == {i \in S : \A j \in S : j <= i}

RowsIn(bs) == UNION {b.rows : b \in bs}

Parked(t) == {b \in later \cup ToSet(due) : b.table = t}

DueAt(t) == {i \in DOMAIN due : due[i].table = t}

FreshBytes(t) == size[t] - SizeOf[RowsIn(Parked(t))]

\* hasReadyWork: a due retry, a full batch by rows or by bytes, or a stale row
HasReadyWork(t) ==
  \/ DueAt(t) # {}
  \/ Len(queue[t]) >= BatchSize
  \/ FreshBytes(t) >= MaxBatchBytes
  \/ t \in stale

At(c, i) == (c + i) % Len(Tables)

\* pickReadyTable from position c: the position of the first ready table, if any
Pick(c) ==
  LET ready == {i \in 0 .. Len(Tables) - 1 : HasReadyWork(Tables[At(c, i) + 1])}
  IN  {At(c, i) : i \in Least(ready)}

\* Mutant: a scan in fixed order
FromTheFirst(pos) == 0

After(pos) == At(pos, 1)

----------------------------------------------------------------------------
(* Taking a batch                                                          *)

\* takeFreshBatch: the longest prefix within both caps, one row at least
FreshLengths(t) ==
  {k \in 1 .. Len(queue[t]) :
     k <= BatchSize /\ (k = 1 \/ SizeOf[ToSet(SubSeq(queue[t], 1, k))] <= MaxBatchBytes)}

FreshBatch(t, k) == [table |-> t, rows |-> ToSet(SubSeq(queue[t], 1, k)), attempts |-> 0]

Discharge(b) == size' = [size EXCEPT ![b.table] = @ - SizeOf[b.rows]]

TakeFresh(t, k) ==
  /\ queue' = [queue EXCEPT ![t] = SubSeq(@, k + 1, Len(@))]
  /\ stale' = stale \ {t}
  /\ Discharge(FreshBatch(t, k))
  /\ UNCHANGED <<later, due>>

\* Mutant: a retry stays in the buffer while it is loaded
LeaveDue(i) == Discharge(due[i]) /\ UNCHANGED <<queue, stale, later, due>>

\* Mutant: a retry's bytes stay charged while it is loaded
TakeDueUncharged(i) == due' = RemoveAt(due, i) /\ UNCHANGED <<queue, stale, size, later>>

TakeDue(i) ==
  /\ due' = RemoveAt(due, i)
  /\ Discharge(due[i])
  /\ UNCHANGED <<queue, stale, later>>

TakeLater(b) ==
  /\ later' = later \ {b}
  /\ Discharge(b)
  /\ UNCHANGED <<queue, stale, due>>

\* notifyBufferDrained: every blocked producer is resolved
NotifyBufferDrained ==
  /\ woken' = woken \o waiting
  /\ waiting' = <<>>

\* A drain worker starts the load of b
Load(b) ==
  /\ loading' = loading \cup {b}
  /\ excused' = IF phase = "flush" THEN excused \cup b.rows ELSE excused

\* Mutant: taking a retry wakes nobody
StartLoadQuietly(pos) ==
  LET t == Tables[pos + 1]
  IN  /\ \/ \E i \in Least(DueAt(t)) :
              TakeDue(i) /\ Load(due[i]) /\ UNCHANGED <<waiting, woken>>
         \/ /\ DueAt(t) = {}
            /\ \E k \in Greatest(FreshLengths(t)) : TakeFresh(t, k) /\ Load(FreshBatch(t, k))
            /\ NotifyBufferDrained
      /\ cursor' = After(pos)

\* A drain worker takes from the table at pos: the earliest due retry first
StartLoad(pos) ==
  LET t == Tables[pos + 1]
  IN  /\ \/ \E i \in Least(DueAt(t)) : TakeDue(i) /\ Load(due[i])
         \/ /\ DueAt(t) = {}
            /\ \E k \in Greatest(FreshLengths(t)) : TakeFresh(t, k) /\ Load(FreshBatch(t, k))
      /\ NotifyBufferDrained
      /\ cursor' = After(pos)

----------------------------------------------------------------------------
(* Producers                                                               *)

Up == phase # "done" /\ sync = "none"

\* Nothing but timers and I/O is left for the event loop to run
Quiet == Up /\ loops = 0 /\ exits = 0 /\ woken = <<>>

AtCap(t) == size[t] >= MaxQueueBytes

Enqueue(r) ==
  /\ queue' = [queue EXCEPT ![TableOf[r]] = Append(@, r)]
  /\ size' = [size EXCEPT ![TableOf[r]] = @ + SizeOf[{r}]]
  /\ fate' = [fate EXCEPT ![r] = "accepted"]
  /\ sync' = "drain"
  /\ UNCHANGED <<stale, later, due>>

Block(r) ==
  /\ waiting' = Append(waiting, r)
  /\ fate' = [fate EXCEPT ![r] = "blocked"]
  /\ UNCHANGED <<buffer, sync>>

\* addToQueue, up to its first await or its return
AddToQueue(r) ==
  /\ Up /\ phase = "running"
  /\ fate[r] \in {"new", "written", "dropped"}
  /\ \/ AtCap(TableOf[r]) /\ Block(r)
     \/ ~AtCap(TableOf[r]) /\ Enqueue(r) /\ UNCHANGED waiting
  /\ UNCHANGED <<timer, pool, woken, flush, failures>>

\* A resolved producer checks the cap again
Recheck ==
  /\ Up /\ woken # <<>>
  /\ woken' = Tail(woken)
  /\ LET r == Head(woken)
     IN  \/ AtCap(TableOf[r]) /\ Block(r)
         \/ ~AtCap(TableOf[r]) /\ Enqueue(r) /\ UNCHANGED waiting
  /\ UNCHANGED <<timer, pool, flush, failures>>

----------------------------------------------------------------------------
(* The drain pool                                                          *)

Active == Cardinality(loading) + loops + exits

\* rearmRetryTimer: the timer waits for the soonest backoff that still runs
RearmedFor(parked) == IF parked = {} THEN "off" ELSE "armed"

CanLaunch == Active < Slots /\ Pick(cursor) # {}

\* scheduleDrain: its own pick moves the cursor, then the new worker picks
Launch ==
  /\ sync \in {"drain", "timer"} /\ CanLaunch
  /\ \E first \in Pick(cursor) : \E pos \in Pick(After(first)) : StartLoad(pos)
  /\ UNCHANGED <<timer, loops, exits, sync, fate, phase, pass, tasks, wave, failures>>

\* Mutant: the timer's callback forgets to arm the timer again
RestUnarmed ==
  /\ sync \in {"drain", "timer"} /\ ~CanLaunch
  /\ sync' = "none"
  /\ UNCHANGED <<buffer, timer, pool, waiting, woken, fate, flush, failures>>

\* scheduleDrain returns; the timer's callback then arms the timer again
Rest ==
  /\ sync \in {"drain", "timer"} /\ ~CanLaunch
  /\ timer' = IF sync = "timer" THEN RearmedFor(later) ELSE timer
  /\ sync' = "none"
  /\ UNCHANGED <<buffer, pool, waiting, woken, fate, flush, failures>>

\* drainWorker: the next batch, or the end of the loop
NextLoad ==
  /\ Up /\ loops > 0
  /\ \E pos \in Pick(cursor) : StartLoad(pos)
  /\ loops' = loops - 1
  /\ UNCHANGED <<timer, exits, sync, fate, phase, pass, tasks, wave, failures>>

NoMoreWork ==
  /\ Up /\ loops > 0 /\ Pick(cursor) = {}
  /\ loops' = loops - 1 /\ exits' = exits + 1
  /\ UNCHANGED <<buffer, timer, loading, cursor, sync, waiting, woken, fate, flush, failures>>

\* The returned worker's finally gives its slot back
FreeSlot ==
  /\ Up /\ exits > 0
  /\ exits' = exits - 1
  /\ UNCHANGED <<buffer, timer, loading, loops, cursor, sync, waiting, woken, fate, flush, failures>>

\* The load of b ends, for a drain worker or for a wave of the flush
Ends(b) ==
  \/ /\ b \in loading
     /\ loading' = loading \ {b} /\ loops' = loops + 1
     /\ UNCHANGED wave
  \/ /\ b \in wave
     /\ wave' = wave \ {b}
     /\ UNCHANGED <<loading, loops>>

\* processBatch: Doris took the batch
LoadSucceeds(b) ==
  /\ Up /\ Ends(b)
  /\ fate' = [r \in Rows |-> IF r \in b.rows THEN "written" ELSE fate[r]]
  /\ UNCHANGED <<buffer, timer, exits, cursor, sync, waiting, woken, phase, pass,
                 tasks, excused, failures>>

Exhausted(b) == MaxAttempts > 0 /\ b.attempts + 1 >= MaxAttempts

\* Mutant: a retry is parked with the attempts it had
ParkUncounted(b) ==
  /\ later' = later \cup {b}
  /\ size' = [size EXCEPT ![b.table] = @ + SizeOf[b.rows]]
  /\ timer' = RearmedFor(later')
  /\ UNCHANGED <<queue, stale, due, fate>>

\* parkForRetry
Park(b) ==
  \/ /\ Exhausted(b)
     /\ fate' = [r \in Rows |-> IF r \in b.rows THEN "dropped" ELSE fate[r]]
     /\ UNCHANGED <<buffer, timer>>
  \/ /\ ~Exhausted(b)
     /\ later' = later \cup {[b EXCEPT !.attempts = @ + 1]}
     /\ size' = [size EXCEPT ![b.table] = @ + SizeOf[b.rows]]
     /\ timer' = RearmedFor(later')
     /\ UNCHANGED <<queue, stale, due, fate>>

\* processBatch: the load failed
LoadFails(b) ==
  /\ Up /\ failures < MaxFailures
  /\ Ends(b) /\ Park(b)
  /\ failures' = failures + 1
  /\ excused' = IF pass = MaxPasses THEN excused \cup b.rows ELSE excused
  /\ UNCHANGED <<exits, cursor, sync, waiting, woken, phase, pass, tasks>>

----------------------------------------------------------------------------
(* Time.  It passes in synchronous stretches as well: pickReadyTable reads *)
(* the clock each time.                                                    *)

\* The oldest row of t becomes stale; so may the next one when it is taken
Age(t) ==
  /\ phase # "done" /\ queue[t] # <<>> /\ t \notin stale
  /\ stale' = stale \cup {t}
  /\ UNCHANGED <<queue, size, later, due, timer, pool, sync, waiting, woken, fate, flush, failures>>

\* b's backoff has passed: the timer armed for the soonest batch has expired too
BackoffPasses(b) ==
  /\ phase # "done" /\ b \in later
  /\ later' = later \ {b} /\ due' = Append(due, b)
  /\ timer' = IF timer = "armed" THEN "expired" ELSE timer
  /\ UNCHANGED <<queue, stale, size, pool, sync, waiting, woken, fate, flush, failures>>

\* The timer runs out though the flush took every batch it was armed for
TimerRunsOut ==
  /\ phase # "done" /\ timer = "armed" /\ later = {}
  /\ timer' = "expired"
  /\ UNCHANGED <<buffer, pool, sync, waiting, woken, fate, flush, failures>>

RetryTimerFires ==
  /\ Quiet /\ timer = "expired"
  /\ timer' = "off" /\ sync' = "timer"
  /\ UNCHANGED <<buffer, pool, waiting, woken, fate, flush, failures>>

\* The staleness interval, cleared by shutdown.  A tick that finds nothing to
\* launch changes nothing and is left out.
StalenessTick ==
  /\ Quiet /\ phase = "running" /\ CanLaunch
  /\ sync' = "drain"
  /\ UNCHANGED <<buffer, timer, pool, waiting, woken, fate, flush, failures>>

----------------------------------------------------------------------------
(* Shutdown                                                                *)

\* shutdown is called once the queue workers are closed: no producer is left
Shutdown ==
  /\ Up /\ phase = "running" /\ waiting = <<>> /\ woken = <<>>
  /\ phase' = "flush" /\ pass' = 1 /\ sync' = "collect"
  /\ excused' = RowsIn(loading)
  /\ UNCHANGED <<buffer, timer, pool, waiting, woken, fate, tasks, wave, failures>>

\* Mutant: the flush forgets the parked batches
FreshOnly == {i \in DOMAIN Tables : queue[Tables[i]] # <<>>}

Buffered == {i \in DOMAIN Tables : Parked(Tables[i]) # {} \/ queue[Tables[i]] # <<>>}

\* flushRemaining collects the next batch: table by table, parked ones first
Collect ==
  /\ sync = "collect" /\ Buffered # {}
  /\ \E n \in Least(Buffered) :
       LET t == Tables[n]
       IN  \/ \E b \in Parked(t) \cap later : TakeLater(b) /\ tasks' = Append(tasks, b)
           \/ \E i \in DueAt(t) : TakeDue(i) /\ tasks' = Append(tasks, due[i])
           \/ /\ Parked(t) = {}
              /\ \E k \in Greatest(FreshLengths(t)) :
                   TakeFresh(t, k) /\ tasks' = Append(tasks, FreshBatch(t, k))
  /\ UNCHANGED <<timer, pool, sync, waiting, woken, fate, phase, pass, wave, excused, failures>>

\* shutdown clears the retry timer last, and the process goes on to exit
Finish == phase' = "done" /\ timer' = "off"

Collected ==
  /\ sync = "collect" /\ Buffered = {}
  /\ sync' = "none"
  /\ NotifyBufferDrained
  /\ IF tasks = <<>> THEN Finish ELSE UNCHANGED <<phase, timer>>
  /\ UNCHANGED <<buffer, pool, fate, pass, tasks, wave, excused, failures>>

\* A wave of at most Slots loads starts when the one before it has settled
StartWave ==
  /\ Up /\ phase = "flush" /\ wave = {} /\ tasks # <<>>
  /\ \E n \in Greatest({m \in 1 .. Slots : m <= Len(tasks)}) :
       /\ wave' = ToSet(SubSeq(tasks, 1, n))
       /\ tasks' = SubSeq(tasks, n + 1, Len(tasks))
  /\ UNCHANGED <<buffer, timer, pool, sync, waiting, woken, fate, phase, pass, excused, failures>>

NextPass ==
  /\ Up /\ phase = "flush" /\ wave = {} /\ tasks = <<>>
  /\ \/ /\ pass < MaxPasses
        /\ pass' = pass + 1 /\ sync' = "collect"
        /\ UNCHANGED <<phase, timer>>
     \/ /\ pass = MaxPasses
        /\ Finish
        /\ UNCHANGED <<pass, sync>>
  /\ UNCHANGED <<buffer, pool, waiting, woken, fate, tasks, wave, excused, failures>>

\* The process has exited
Exited == phase = "done" /\ UNCHANGED vars

----------------------------------------------------------------------------
Next ==
  \/ \E r \in Rows : AddToQueue(r)
  \/ Recheck
  \/ Launch \/ Rest \/ NextLoad \/ NoMoreWork \/ FreeSlot
  \/ \E b \in loading \cup wave : LoadSucceeds(b) \/ LoadFails(b)
  \/ \E t \in Names : Age(t)
  \/ \E b \in later : BackoffPasses(b)
  \/ TimerRunsOut \/ RetryTimerFires \/ StalenessTick
  \/ Shutdown \/ Collect \/ Collected \/ StartWave \/ NextPass
  \/ Exited

LoadEnds(r) ==
  \E b \in loading \cup wave : r \in b.rows /\ (LoadSucceeds(b) \/ LoadFails(b))

\* What the event loop has to run already
Work ==
  \/ Rest \/ FreeSlot \/ Recheck \/ Collected \/ Collect
  \/ NoMoreWork \/ StartWave \/ NextPass \/ NextLoad \/ Launch

(* The event loop does not idle and time passes.  A load ends (it has a    *)
(* timeout of ten minutes) and a timer fires whatever synchronous stretches*)
(* come between, hence the strong fairness.  Nothing is assumed of the     *)
(* producers, of the shutdown or of the outcome of a load.                 *)
Fairness ==
  /\ WF_vars(Work)
  /\ \A r \in Rows : SF_vars(LoadEnds(r))
  /\ \A t \in Names : WF_vars(Age(t))
  /\ WF_vars(\E b \in later : BackoffPasses(b))
  /\ SF_vars(RetryTimerFires) /\ SF_vars(StalenessTick)

Spec == Init /\ [][Next]_vars
FairSpec == Spec /\ Fairness

----------------------------------------------------------------------------
(* Properties                                                              *)

Holding(bs, r) == Cardinality({b \in bs : r \in b.rows})

Places(r) ==
  Cardinality({i \in DOMAIN queue[TableOf[r]] : queue[TableOf[r]][i] = r})
  + Holding(later, r) + Holding(loading, r) + Holding(wave, r)
  + Cardinality({i \in DOMAIN due : r \in due[i].rows})
  + Cardinality({i \in DOMAIN tasks : r \in tasks[i].rows})

(* A row addToQueue accepted is in exactly one place (fresh queue, parked  *)
(* batch, load in flight, task of a flush) until it is written or, with a  *)
(* finite maxAttempts, dropped; a row that left is nowhere, so it is not   *)
(* written again.  Workers, timer and flush all take from the same queues. *)
HeldExactlyOnce ==
  \A r \in Rows : Places(r) = IF fate[r] = "accepted" THEN 1 ELSE 0

(* queueSizeBytes is adjusted at every take, park and collect, never       *)
(* recomputed: it must equal the bytes of the fresh rows and the parked    *)
(* batches, or the cap and the byte trigger of hasReadyWork drift for good.*)
BytesAccountedFor ==
  \A t \in Names : size[t] = SizeOf[ToSet(queue[t]) \cup RowsIn(Parked(t))]

(* A producer sleeps in bufferWaiters only while its table is at the cap:  *)
(* whatever lowers the bytes wakes everybody, also on behalf of a table    *)
(* the waker does not know about.                                          *)
NoLostWakeup ==
  sync = "none" => \A i \in DOMAIN waiting : AtCap(TableOf[waiting[i]])

(* A retry whose backoff has passed is about to be taken: the retry timer  *)
(* has expired and will drain, or a drain worker is alive and will look    *)
(* again.  parkForRetry cancels and re-arms the one timer at any moment,   *)
(* also for an expired one, and never arms it for a batch already due.     *)
DueIsServed ==
  phase = "running" /\ sync = "none" /\ due # <<>> =>
    timer = "expired" \/ loops > 0 \/ loading # {}

(* When shutdown returns, the rows still in the process are rows a drain   *)
(* worker held during the flush or rows whose load failed in the last pass:*)
(* whatever was fresh or parked, or came back in an earlier pass, is out.  *)
FlushIsThorough ==
  phase = "done" => \A r \in Rows : fate[r] = "accepted" => r \in excused

(* No row is starved: while the writer runs, an accepted row leaves, though*)
(* rows of its own and of other tables keep coming without end.  It takes  *)
(* the rotating scan, the staleness trigger and the retry timer together.  *)
RowsLeave ==
  \A r \in Rows :
    (fate[r] = "accepted" /\ phase = "running")
      ~> (fate[r] # "accepted" \/ phase # "running")

(* What the writer promises (DorisBuffer): producers, drain workers, the   *)
(* retry timer and a flush together are one outbox with backpressure.  A   *)
(* batch is never split or merged once takeFreshBatch formed it, since its *)
(* label stands for its rows, and every step of theirs is one of the       *)
(* outbox or changes nothing in it.                                        *)
Outbox == INSTANCE DorisBuffer WITH
  fresh  <- queue,
  parked <- later \cup ToSet(due),
  taken  <- loading \cup wave \cup ToSet(tasks)

ImplementsBuffer == Outbox!Spec

============================================================================
