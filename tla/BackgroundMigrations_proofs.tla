--------------------- MODULE BackgroundMigrations_proofs ---------------------
(***************************************************************************)
(* Theorems about BackgroundMigrations, for any number of processes and    *)
(* migrations and any budget of events.                                    *)
(***************************************************************************)
EXTENDS BackgroundMigrations, TLAPS

-----------------------------------------------------------------------------
(***************************************************************************)
(* The type invariant by groups of variables, with the two facts that make *)
(* the indices meaningful: a loop that works and a close that releases     *)
(* have a migration to work on.                                            *)
(***************************************************************************)
Busy == {"beat", "validate", "invalid", "run", "finish", "fail"}

RowsOK ==
  /\ finished \subseteq Migrations
  /\ failed \subseteq Migrations
  /\ owner \in [Migrations -> Workers \cup {NoWorker}]
  /\ lock \in [Migrations -> {"none", "fresh", "old"}]

LoopOK ==
  /\ pc \in [Workers -> Steps]
  /\ target \in [Workers -> Migrations \cup {None}]
  /\ quit \in [Workers -> BOOLEAN]
  /\ \A w \in Workers : pc[w] \in Busy => target[w] \in Migrations

MemoryOK ==
  /\ active \in [Workers -> Migrations \cup {None}]
  /\ aborted \in [Workers -> BOOLEAN]
  /\ chain \in [Workers -> BOOLEAN]

CloseOK ==
  /\ closing \in [Workers -> {"open", "aborting", "releasing", "closed"}]
  /\ closes \in [Workers -> Migrations \cup {None}]
  /\ \A w \in Workers : closing[w] = "releasing" => closes[w] \in Migrations

HistoryOK ==
  /\ done \subseteq Migrations
  /\ ended \subseteq Migrations
  /\ unflushed \subseteq Workers
  /\ past \subseteq Marks

EventsOK == events \in [EventKinds -> Nat]

TypeInv == RowsOK /\ LoopOK /\ MemoryOK /\ CloseOK /\ HistoryOK /\ EventsOK

LEMMA NoneIsNoMigration == None \notin Migrations /\ Migrations \subseteq Nat
BY BackgroundMigrationsAssumption DEF None, Migrations

LEMMA SpendType ==
  ASSUME TypeInv, NEW kind \in EventKinds, Spend(kind)
  PROVE  EventsOK'
BY DEF TypeInv, EventsOK, Spend

\* A step of the loop to a place where it needs a migration, or not.
LEMMA GotoType ==
  ASSUME TypeInv, NEW w \in Workers, NEW step \in Steps, Goto(w, step),
         UNCHANGED <<target, quit>>, step \in Busy => target[w] \in Migrations
  PROVE  LoopOK'
BY DEF TypeInv, LoopOK, Goto

LEMMA GoneType ==
  ASSUME TypeInv, NEW w \in Workers, Gone(w)
  PROVE  LoopOK' /\ MemoryOK' /\ CloseOK'
BY DEF TypeInv, LoopOK, MemoryOK, CloseOK, Gone, Steps, Busy

\* The three kinds of update of a row.
LEMMA MarkType ==
  ASSUME TypeInv, NEW w \in Workers, NEW m \in Migrations, Mark(w, m)
  PROVE  /\ owner' \in [Migrations -> Workers \cup {NoWorker}]
         /\ lock' \in [Migrations -> {"none", "fresh", "old"}]
         /\ EventsOK'
BY DEF TypeInv, RowsOK, EventsOK, Mark

LEMMA MarkFailsType ==
  ASSUME TypeInv, NEW w \in Workers, NEW m \in Migrations, MarkFails(w, m)
  PROVE  RowsOK' /\ EventsOK' /\ past' \subseteq Marks
BY SpendType DEF TypeInv, RowsOK, EventsOK, HistoryOK, MarkFails, Marks, rows,
   EventKinds

LEMMA KeepFreshType ==
  ASSUME TypeInv, NEW w \in Workers, NEW m \in Migrations, KeepFresh(w, m)
  PROVE  lock' \in [Migrations -> {"none", "fresh", "old"}]
BY DEF TypeInv, RowsOK, KeepFresh

LEMMA LetGoType ==
  ASSUME TypeInv, NEW w \in Workers, pc[w] \in Busy, LetGo(w),
         UNCHANGED <<target, quit, aborted, chain>>
  PROVE  LoopOK' /\ MemoryOK' /\ ended' \subseteq Migrations
BY DEF TypeInv, LoopOK, MemoryOK, HistoryOK, LetGo, Ended, Overlaps, Goto,
   Busy, Steps

LEMMA TypeStep == TypeInv /\ [Next]_vars => TypeInv'
<1> SUFFICES ASSUME TypeInv, [Next]_vars PROVE TypeInv'
  OBVIOUS
<1> USE DEF rows, loop, memory, close, history
<1> DEFINE Rest == RowsOK /\ LoopOK /\ MemoryOK /\ CloseOK /\ HistoryOK /\ EventsOK
<1>1. ASSUME NEW w \in Workers, Start(w) PROVE TypeInv'
  BY <1>1, GotoType
  DEF Start, TypeInv, RowsOK, MemoryOK, CloseOK, HistoryOK, EventsOK, Steps, Busy
<1>2. ASSUME NEW w \in Workers, NEW m \in Migrations, Acquire(w, m)
      PROVE  TypeInv'
  BY <1>2 DEF Acquire, Goto, TypeInv, RowsOK, LoopOK, MemoryOK, CloseOK,
     HistoryOK, EventsOK, Steps
<1>3. ASSUME NEW w \in Workers, NothingToRun(w) PROVE TypeInv'
  <2>1. LoopOK'
    BY <1>3 DEF NothingToRun, Goto, TypeInv, LoopOK, MemoryOK, Steps, Busy
  <2>2. QED
    BY <1>3, <2>1 DEF NothingToRun, TypeInv, RowsOK, MemoryOK, CloseOK,
       HistoryOK, EventsOK, Marks
<1>4. ASSUME NEW w \in Workers, AcquireFails(w) PROVE TypeInv'
  <2>1. LoopOK' /\ EventsOK'
    BY <1>4, GotoType, SpendType DEF AcquireFails, Steps, Busy, EventKinds
  <2>2. QED
    BY <1>4, <2>1 DEF AcquireFails, TypeInv, RowsOK, MemoryOK, CloseOK,
       HistoryOK, Marks
<1>5. ASSUME NEW w \in Workers, Beat(w) PROVE TypeInv'
  <2>1. target[w] \in Migrations
    BY <1>5 DEF Beat, TypeInv, LoopOK, Busy
  <2>2. LoopOK'
    BY <1>5, <2>1, GotoType DEF Beat, Steps
  <2>3. lock' \in [Migrations -> {"none", "fresh", "old"}]
    BY <1>5, <2>1, KeepFreshType DEF Beat
  <2>4. QED
    BY <1>5, <2>2, <2>3 DEF Beat, TypeInv, RowsOK, MemoryOK, CloseOK,
       HistoryOK, EventsOK
<1>6. ASSUME NEW w \in Workers, BeatFails(w) PROVE TypeInv'
  <2>1. LoopOK' /\ EventsOK'
    BY <1>6, GotoType, SpendType DEF BeatFails, Steps, Busy, EventKinds
  <2>2. QED
    BY <1>6, <2>1 DEF BeatFails, TypeInv, RowsOK, MemoryOK, CloseOK,
       HistoryOK, Marks
<1>7. ASSUME NEW w \in Workers, Validate(w) PROVE TypeInv'
  <2>1. target[w] \in Migrations
    BY <1>7 DEF Validate, TypeInv, LoopOK, Busy
  <2>2. LoopOK'
    BY <1>7, <2>1, GotoType DEF Validate, Steps
  <2>3. EventsOK'
    BY <1>7, SpendType DEF Validate, EventKinds, TypeInv, EventsOK
  <2>4. QED
    BY <1>7, <2>2, <2>3 DEF Validate, TypeInv, RowsOK, MemoryOK, CloseOK,
       HistoryOK
<1>8. ASSUME NEW w \in Workers, MarkInvalid(w) PROVE TypeInv'
  <2>1. target[w] \in Migrations
    BY <1>8 DEF MarkInvalid, TypeInv, LoopOK, Busy
  <2>2. LoopOK'
    BY <1>8, GotoType DEF MarkInvalid, Steps, Busy
  <2>3. RowsOK' /\ EventsOK' /\ past' \subseteq Marks
    BY <1>8, <2>1, MarkType, MarkFailsType
    DEF MarkInvalid, TypeInv, RowsOK, HistoryOK
  <2>4. QED
    BY <1>8, <2>2, <2>3 DEF MarkInvalid, TypeInv, MemoryOK, CloseOK, HistoryOK
<1>9. ASSUME NEW w \in Workers, Run(w) PROVE TypeInv'
  <2>1. target[w] \in Migrations
    BY <1>9 DEF Run, TypeInv, LoopOK, Busy
  <2>2. LoopOK'
    BY <1>9, <2>1, GotoType DEF Run, AfterRun, Steps
  <2>3. EventsOK'
    BY <1>9, SpendType DEF Run, EventKinds, TypeInv, EventsOK
  <2>4. HistoryOK'
    BY <1>9, <2>1 DEF Run, Ended, TypeInv, HistoryOK
  <2>5. QED
    BY <1>9, <2>2, <2>3, <2>4 DEF Run, TypeInv, RowsOK, MemoryOK, CloseOK
<1>10. ASSUME NEW w \in Workers, Finish(w) PROVE TypeInv'
  <2>1. target[w] \in Migrations /\ pc[w] \in Busy
    BY <1>10 DEF Finish, TypeInv, LoopOK, Busy
  <2>2. LoopOK' /\ MemoryOK' /\ ended' \subseteq Migrations
    <3>1. CASE LetGo(w)
      BY <1>10, <2>1, <3>1, LetGoType DEF Finish
    <3>2. CASE ~LetGo(w)
      BY <1>10, <2>1, <3>2, GotoType
      DEF Finish, Steps, TypeInv, MemoryOK, HistoryOK
    <3>3. QED
      BY <3>1, <3>2
  <2>3. RowsOK' /\ EventsOK' /\ past' \subseteq Marks
    BY <1>10, <2>1, MarkType, MarkFailsType
    DEF Finish, TypeInv, RowsOK, HistoryOK
  <2>4. QED
    BY <1>10, <2>2, <2>3 DEF Finish, TypeInv, CloseOK, HistoryOK
<1>11. ASSUME NEW w \in Workers, Fail(w) PROVE TypeInv'
  <2>1. target[w] \in Migrations /\ pc[w] \in Busy
    BY <1>11 DEF Fail, TypeInv, LoopOK, Busy
  <2>2. LoopOK' /\ MemoryOK' /\ ended' \subseteq Migrations
    <3>1. CASE LetGo(w)
      BY <1>11, <2>1, <3>1, LetGoType DEF Fail
    <3>2. CASE ~LetGo(w)
      BY <1>11, <2>1, <3>2, GotoType
      DEF Fail, Steps, Busy, TypeInv, MemoryOK, HistoryOK
    <3>3. QED
      BY <3>1, <3>2
  <2>3. RowsOK' /\ EventsOK' /\ past' \subseteq Marks
    BY <1>11, <2>1, MarkType, MarkFailsType
    DEF Fail, TypeInv, RowsOK, HistoryOK
  <2>4. QED
    BY <1>11, <2>2, <2>3 DEF Fail, TypeInv, CloseOK, HistoryOK
<1>12. ASSUME NEW w \in Workers, HeartBeat(w) PROVE TypeInv'
  <2>1. CASE active[w] = None
    BY <1>12, <2>1 DEF HeartBeat, TypeInv, RowsOK, LoopOK, MemoryOK, CloseOK,
       HistoryOK, EventsOK
  <2>2. CASE active[w] # None
    <3>1. active[w] \in Migrations
      BY <2>2 DEF TypeInv, MemoryOK
    <3>2. QED
      BY <1>12, <2>2, <3>1, KeepFreshType DEF HeartBeat, TypeInv, RowsOK,
         LoopOK, MemoryOK, CloseOK, HistoryOK, EventsOK
  <2>3. QED
    BY <2>1, <2>2
<1>13. ASSUME NEW w \in Workers, Terminate(w) PROVE TypeInv'
  <2>1. EventsOK'
    BY <1>13, SpendType DEF Terminate, EventKinds
  <2>2. CloseOK'
    BY <1>13 DEF Terminate, TypeInv, CloseOK
  <2>3. MemoryOK'
    BY <1>13 DEF Terminate, TypeInv, MemoryOK, HasWork
  <2>4. QED
    BY <1>13, <2>1, <2>2, <2>3 DEF Terminate, TypeInv, RowsOK, LoopOK,
       HistoryOK
<1>14. ASSUME NEW w \in Workers, AbortReturns(w) PROVE TypeInv'
  <2>1. CASE active[w] = None
    BY <1>14, <2>1, GoneType DEF AbortReturns, CloseFails, TypeInv, RowsOK,
       HistoryOK, EventsOK
  <2>2. CASE active[w] # None
    BY <1>14, <2>2 DEF AbortReturns, TypeInv, RowsOK, LoopOK, MemoryOK,
       CloseOK, HistoryOK, EventsOK
  <2>3. QED
    BY <2>1, <2>2
<1>15. ASSUME NEW w \in Workers, Release(w) PROVE TypeInv'
  <2>1. closes[w] \in Migrations
    BY <1>15 DEF Release, TypeInv, CloseOK
  <2>2. RowsOK' /\ EventsOK' /\ past' \subseteq Marks
    BY <1>15, <2>1, MarkType, MarkFailsType
    DEF Release, TypeInv, RowsOK, HistoryOK, Marks
  <2>3. LoopOK' /\ MemoryOK' /\ CloseOK' /\ unflushed' \subseteq Workers
    <3>1. CASE CloseFails(w)
      BY <1>15, <3>1, GoneType DEF CloseFails, TypeInv, HistoryOK
    <3>2. CASE ~CloseFails(w)
      BY <1>15, <3>2
      DEF Release, TypeInv, LoopOK, MemoryOK, CloseOK, HistoryOK
    <3>3. QED
      BY <3>1, <3>2
  <2>4. QED
    BY <1>15, <2>2, <2>3 DEF Release, TypeInv, HistoryOK
<1>16. ASSUME NEW w \in Workers, Exit(w) \/ Crash(w) PROVE TypeInv'
  <2>1. EventsOK'
    BY <1>16, SpendType DEF Exit, Crash, EventKinds, TypeInv, EventsOK
  <2>2. QED
    BY <1>16, <2>1, GoneType DEF Exit, Crash, TypeInv, RowsOK, HistoryOK
<1>17. ASSUME NEW m \in Migrations, Expire(m) PROVE TypeInv'
  <2>1. EventsOK'
    BY <1>17, SpendType DEF Expire, EventKinds, TypeInv, EventsOK
  <2>2. QED
    BY <1>17, <2>1 DEF Expire, TypeInv, RowsOK, LoopOK, MemoryOK, CloseOK,
       HistoryOK, Marks
<1>18. ASSUME NEW m \in Migrations, Retry(m) PROVE TypeInv'
  <2>1. EventsOK'
    BY <1>18, SpendType DEF Retry, EventKinds
  <2>2. QED
    BY <1>18, <2>1 DEF Retry, TypeInv, RowsOK, LoopOK, MemoryOK, CloseOK,
       HistoryOK, Marks
<1>19. CASE UNCHANGED vars
  BY <1>19 DEF vars, TypeInv, RowsOK, LoopOK, MemoryOK, CloseOK, HistoryOK,
     EventsOK
<1>20. QED
  BY <1>1, <1>2, <1>3, <1>4, <1>5, <1>6, <1>7, <1>8, <1>9, <1>10, <1>11, <1>12,
     <1>13, <1>14, <1>15, <1>16, <1>17, <1>18, <1>19 DEF Next, Loop, Close

LEMMA TypeInit == Init => TypeInv
BY BackgroundMigrationsAssumption
DEF Init, TypeInv, RowsOK, LoopOK, MemoryOK, CloseOK, HistoryOK, EventsOK,
    Steps, Busy, None

\* Every variable keeps its type, whatever happens to the processes: a loop
\* that works on a migration has one, and so has a close that releases one.
THEOREM TypeCorrect == Spec => []TypeOK
<1>1. TypeInv => TypeOK
  BY DEF TypeInv, RowsOK, LoopOK, MemoryOK, CloseOK, HistoryOK, EventsOK, TypeOK
<1>2. QED
  BY <1>1, TypeInit, TypeStep, PTL DEF Spec

-----------------------------------------------------------------------------
(***************************************************************************)
(* Why a migration runs alone.  While nothing unusual happened, a loop     *)
(* that works on a migration nobody aborted has the fresh lock of the      *)
(* first open row, and a heartbeat for it.  Nobody else gets at the row:   *)
(* Acquire needs a lock that is not fresh, every update of a row needs its *)
(* owner, and the lock does not expire under a heartbeat.                  *)
(***************************************************************************)
Disturbances == {"stall", "stale", "retry", "orphan"}
Calm == past \cap Disturbances = {}

Works(w) == pc[w] \in {"beat", "validate", "run"} /\ ~aborted[w]

Holds(w) ==
  /\ active[w] = target[w]
  /\ owner[target[w]] = w
  /\ lock[target[w]] = "fresh"
  /\ First(target[w])
  /\ pc[w] # "beat" => chain[w]

LockInv == Calm => \A w \in Workers : Works(w) => Holds(w)

LEMMA PastGrows == TypeInv /\ [Next]_vars => past \subseteq past'
BY DEF Next, vars, Loop, Close, Start, Acquire, NothingToRun, AcquireFails, Beat,
   BeatFails, Validate, MarkInvalid, Run, Finish, Fail, HeartBeat, Terminate,
   AbortReturns, Release, Exit, Crash, Expire, Retry, MarkFails, Mark, LetGo,
   CloseFails, history

LEMMA FirstIsOne ==
  ASSUME NEW m \in Migrations, NEW k \in Migrations, First(m), First(k)
  PROVE  m = k
BY NoneIsNoMigration DEF First

\* What two processes that hold locks have in common: nothing.
LEMMA HoldersAreOne ==
  ASSUME TypeInv, NEW w \in Workers, NEW v \in Workers,
         Works(w), Works(v), Holds(w), Holds(v)
  PROVE  w = v
<1>1. target[w] \in Migrations /\ target[v] \in Migrations
  BY DEF Works, TypeInv, LoopOK, Busy
<1>2. target[w] = target[v]
  BY <1>1, FirstIsOne DEF Holds
<1>3. QED
  BY <1>2 DEF Holds

\* An update of a row by its owner v leaves the locks of the others alone, and
\* is not one of v's own migration while v goes on working on it.
LEMMA LockStep == TypeInv /\ LockInv /\ [Next]_vars => LockInv'
<1> SUFFICES ASSUME TypeInv, LockInv, [Next]_vars, Calm',
                    NEW w \in Workers, Works(w)'
             PROVE  Holds(w)'
  BY DEF LockInv
<1> USE DEF rows, loop, memory, close, history
<1>0. /\ TypeInv'
      /\ Works(w) => Holds(w)
      /\ pc[w] \in Busy => target[w] \in Migrations
  BY TypeStep, PastGrows DEF LockInv, Calm, TypeInv, LoopOK
<1> DEFINE Same == /\ pc'[w] = pc[w]
                   /\ target'[w] = target[w] /\ active'[w] = active[w]
                   /\ aborted'[w] = aborted[w] /\ chain'[w] = chain[w]
<1>a. ASSUME Same, UNCHANGED rows PROVE Holds(w)'
  BY <1>0, <1>a DEF Works, Holds, First, Open
<1>b. ASSUME Same, NEW v \in Workers \ {w}, NEW m \in Migrations, Mark(v, m),
             \A k \in Migrations \ {m} : Open(k)' <=> Open(k),
             Open(m)' => Open(m)
      PROVE  Holds(w)'
  <2>1. Works(w) /\ Holds(w) /\ target[w] \in Migrations /\ target'[w] = target[w]
    BY <1>0, <1>b DEF Works, Busy
  <2>2. m # target[w]
    BY <1>b, <2>1 DEF Holds, Mark
  <2>3. First(target[w])'
    BY <1>b, <2>1, <2>2 DEF Holds, First
  <2>4. owner' = owner /\ lock'[target[w]] = lock[target[w]]
    BY <1>b, <2>1, <2>2 DEF Mark, TypeInv, RowsOK
  <2>5. QED
    BY <1>b, <2>1, <2>3, <2>4 DEF Holds
<1>c. ASSUME Same, UNCHANGED <<finished, failed, owner>>,
             NEW v \in Workers, NEW m \in Migrations, KeepFresh(v, m)
      PROVE  Holds(w)'
  BY <1>0, <1>c DEF KeepFresh, TypeInv, RowsOK, Works, Busy, Holds, First, Open
<1>1. ASSUME NEW v \in Workers, Start(v) PROVE Holds(w)'
  BY <1>1, <1>a DEF Start, Goto, Works, TypeInv, LoopOK
<1>2. ASSUME NEW v \in Workers, NEW m \in Migrations, Acquire(v, m)
      PROVE  Holds(w)'
  <2>1. CASE v = w
    BY <1>2, <2>1 DEF Acquire, Goto, Holds, First, Open, TypeInv, RowsOK, LoopOK,
       MemoryOK
  <2>2. CASE v # w
    <3>1. Same
      BY <1>2, <2>2 DEF Acquire, Goto, TypeInv, LoopOK, MemoryOK
    <3>2. Works(w) /\ Holds(w) /\ target[w] \in Migrations
      BY <1>0, <3>1 DEF Works, Busy
    <3>3. FALSE
      BY <1>2, <3>2, FirstIsOne DEF Acquire, Holds
    <3>4. QED
      BY <3>3
  <2>3. QED
    BY <2>1, <2>2
<1>3. ASSUME NEW v \in Workers, NothingToRun(v) PROVE Holds(w)'
  <2>1. Same /\ v # w
    BY <1>3 DEF NothingToRun, Goto, Works, Calm, Disturbances, TypeInv, LoopOK
  <2>2. QED
    BY <1>3, <1>a, <2>1 DEF NothingToRun
<1>4. ASSUME NEW v \in Workers, AcquireFails(v) PROVE Holds(w)'
  <2>1. Same /\ v # w
    BY <1>4 DEF AcquireFails, Goto, Works, TypeInv, LoopOK, MemoryOK
  <2>2. QED
    BY <1>4, <1>a, <2>1 DEF AcquireFails
<1>5. ASSUME NEW v \in Workers, Beat(v) PROVE Holds(w)'
  <2>1. target[v] \in Migrations
    BY <1>5 DEF Beat, TypeInv, LoopOK, Busy
  <2>2. CASE v = w
    <3>1. Works(w) /\ Holds(w)
      BY <1>0, <1>5, <2>2 DEF Beat, Works
    <3>2. chain'[w] = TRUE
      BY <1>5, <2>2 DEF Beat, TypeInv, MemoryOK
    <3>3. QED
      BY <1>5, <2>1, <2>2, <3>1, <3>2
      DEF Beat, KeepFresh, Holds, First, Open, TypeInv, RowsOK
  <2>3. CASE v # w
    BY <1>5, <1>c, <2>1, <2>3 DEF Beat, Goto, TypeInv, LoopOK, MemoryOK
  <2>4. QED
    BY <2>2, <2>3
<1>6. ASSUME NEW v \in Workers, BeatFails(v) PROVE Holds(w)'
  BY <1>6, <1>a DEF BeatFails, Goto, Works, TypeInv, LoopOK
<1>7. ASSUME NEW v \in Workers, Validate(v) PROVE Holds(w)'
  <2>1. CASE v = w
    BY <1>0, <1>7, <2>1
    DEF Validate, Goto, Works, Holds, First, Open, TypeInv, LoopOK
  <2>2. CASE v # w
    BY <1>7, <1>a, <2>2 DEF Validate, Goto, TypeInv, LoopOK
  <2>3. QED
    BY <2>1, <2>2
<1>8. ASSUME NEW v \in Workers, MarkInvalid(v) PROVE Holds(w)'
  <2>1. target[v] \in Migrations /\ Same /\ v # w
    BY <1>8 DEF MarkInvalid, Goto, Works, TypeInv, LoopOK, Busy
  <2>2. CASE UNCHANGED rows
    BY <1>a, <2>1, <2>2
  <2>3. CASE ~UNCHANGED rows
    <3>1. /\ Mark(v, target[v])
          /\ finished' = finished /\ failed' = failed \cup {target[v]}
      BY <1>8, <2>3 DEF MarkInvalid, MarkFails
    <3>2. QED
      BY <1>b, <2>1, <3>1 DEF Open
  <2>4. QED
    BY <2>2, <2>3
<1>9. ASSUME NEW v \in Workers, Run(v) PROVE Holds(w)'
  <2>1. Same /\ v # w
    BY <1>9 DEF Run, AfterRun, Goto, Works, TypeInv, LoopOK
  <2>2. QED
    BY <1>9, <1>a, <2>1 DEF Run
<1>10. ASSUME NEW v \in Workers, Finish(v) PROVE Holds(w)'
  <2>1. target[v] \in Migrations /\ Same /\ v # w
    BY <1>10 DEF Finish, LetGo, Goto, Works, TypeInv, LoopOK, MemoryOK, Busy
  <2>2. CASE UNCHANGED rows
    BY <1>a, <2>1, <2>2
  <2>3. CASE ~UNCHANGED rows
    <3>1. /\ Mark(v, target[v])
          /\ finished' = finished \cup {target[v]} /\ failed' = failed
      BY <1>10, <2>3 DEF Finish, MarkFails
    <3>2. QED
      BY <1>b, <2>1, <3>1 DEF Open
  <2>4. QED
    BY <2>2, <2>3
<1>11. ASSUME NEW v \in Workers, Fail(v) PROVE Holds(w)'
  <2>1. target[v] \in Migrations /\ Same /\ v # w
    BY <1>11 DEF Fail, LetGo, Goto, Works, TypeInv, LoopOK, MemoryOK, Busy
  <2>2. CASE UNCHANGED rows
    BY <1>a, <2>1, <2>2
  <2>3. CASE ~UNCHANGED rows
    <3>1. /\ Mark(v, target[v])
          /\ finished' = finished /\ failed' = failed \cup {target[v]}
      BY <1>11, <2>3 DEF Fail, MarkFails
    <3>2. QED
      BY <1>b, <2>1, <3>1 DEF Open
  <2>4. QED
    BY <2>2, <2>3
<1>12. ASSUME NEW v \in Workers, HeartBeat(v) PROVE Holds(w)'
  <2>1. CASE active[v] = None
    <3>1. v # w
      BY <1>0, <1>12, <2>1, NoneIsNoMigration
      DEF HeartBeat, Works, Holds, Busy
    <3>2. QED
      BY <1>12, <1>a, <2>1, <3>1 DEF HeartBeat, TypeInv, MemoryOK
  <2>2. CASE active[v] # None
    <3>1. active[v] \in Migrations
      BY <2>2 DEF TypeInv, MemoryOK
    <3>2. QED
      BY <1>12, <1>c, <2>2, <3>1 DEF HeartBeat
  <2>3. QED
    BY <2>1, <2>2
<1>13. ASSUME NEW v \in Workers, Terminate(v) PROVE Holds(w)'
  <2>1. Same
    BY <1>0, <1>13, NoneIsNoMigration
    DEF Terminate, HasWork, Works, Holds, Busy, TypeInv, MemoryOK
  <2>2. QED
    BY <1>13, <1>a, <2>1 DEF Terminate
<1>d. ASSUME NEW v \in Workers, Gone(v) PROVE v # w /\ Same
  BY <1>d DEF Gone, Works, TypeInv, LoopOK, MemoryOK
<1>14. ASSUME NEW v \in Workers, AbortReturns(v) PROVE Holds(w)'
  BY <1>14, <1>a, <1>d DEF AbortReturns, CloseFails
<1>15. ASSUME NEW v \in Workers, Release(v) PROVE Holds(w)'
  <2>1. closes[v] \in Migrations
    BY <1>15 DEF Release, TypeInv, CloseOK
  <2>2. v # w /\ Same
    <3>1. CASE CloseFails(v)
      BY <1>d, <3>1 DEF CloseFails
    <3>2. CASE ~CloseFails(v)
      BY <1>15, <3>2
      DEF Release, Works, Calm, Disturbances, TypeInv, MemoryOK
    <3>3. QED
      BY <3>1, <3>2
  <2>3. CASE UNCHANGED rows
    BY <1>a, <2>2, <2>3
  <2>4. CASE ~UNCHANGED rows
    <3>1. /\ Mark(v, closes[v])
          /\ finished' = finished /\ failed' = failed
      BY <1>15, <2>4 DEF Release, MarkFails
    <3>2. QED
      BY <1>b, <2>1, <2>2, <3>1 DEF Open
  <2>5. QED
    BY <2>3, <2>4
<1>16. ASSUME NEW v \in Workers, Exit(v) \/ Crash(v) PROVE Holds(w)'
  BY <1>16, <1>a, <1>d DEF Exit, Crash
<1>17. ASSUME NEW m \in Migrations, Expire(m) PROVE Holds(w)'
  <2>1. Same
    BY <1>17 DEF Expire
  <2>2. Works(w) /\ Holds(w) /\ target[w] \in Migrations
    BY <1>0, <2>1 DEF Works, Busy
  <2>3. Beats(w, target[w])
    BY <2>2 DEF Beats, Holds, Works, First
  <2>4. m # target[w]
    BY <1>17, <2>3 DEF Expire, Calm, Disturbances
  <2>5. QED
    BY <1>17, <2>1, <2>2, <2>4 DEF Expire, Holds, First, Open, TypeInv, RowsOK
<1>18. ASSUME NEW m \in Migrations, Retry(m) PROVE Holds(w)'
  BY <1>18 DEF Retry, Calm, Disturbances
<1>19. CASE UNCHANGED vars
  BY <1>19, <1>a DEF vars
<1>20. QED
  BY <1>1, <1>2, <1>3, <1>4, <1>5, <1>6, <1>7, <1>8, <1>9, <1>10, <1>11, <1>12,
     <1>13, <1>14, <1>15, <1>16, <1>17, <1>18, <1>19 DEF Next, Loop, Close

\* Any number of processes: while none stalls, re-runs an invalid migration or
\* is closed between two, and nobody retries, a migration runs alone and is the
\* first one that is open.
THEOREM OneAtATime == Spec => []RunsAlone
<1>1. Init => LockInv
  BY DEF Init, LockInv, Works
<1>2. TypeInv /\ LockInv => RunsAlone
  <2> SUFFICES ASSUME TypeInv, LockInv, Calm,
                      NEW w \in Workers, NEW m \in Migrations, Runs(w, m)
               PROVE  /\ First(m)
                      /\ \A v \in Workers \ {w}, k \in Migrations : ~Runs(v, k)
    BY DEF RunsAlone, Calm, Disturbances
  <2>1. \A v \in Workers, k \in Migrations :
           Runs(v, k) => Works(v) /\ Holds(v) /\ target[v] = k
    BY DEF Runs, Works, LockInv
  <2>2. First(m)
    BY <2>1 DEF Holds
  <2>3. QED
    BY <2>1, <2>2, HoldersAreOne
<1>3. QED
  BY <1>1, <1>2, LockStep, TypeInit, TypeStep, PTL DEF Spec

-----------------------------------------------------------------------------
(***************************************************************************)
(* Why a row that is marked ran.  A loop gets to the mark when its run     *)
(* returned; one that returned because it was aborted finds activeMigration*)
(* gone, unless close has not released the row yet.                        *)
(***************************************************************************)
Returned == \A w \in Workers : pc[w] = "finish" => target[w] \in done \cup ended
AbortedUnderClose ==
  \A w \in Workers : aborted[w] /\ active[w] # None /\ pc[w] # "rejected" => Overlaps(w)

MarkInv == FinishedMeansRan /\ Returned /\ AbortedUnderClose

LEMMA MarkStep == TypeInv /\ MarkInv /\ [Next]_vars => MarkInv'
<1> SUFFICES ASSUME TypeInv, MarkInv, [Next]_vars PROVE MarkInv'
  OBVIOUS
<1> USE DEF rows, loop, memory, close, history
<1>1. CASE \E w \in Workers : Run(w)
  <2> PICK w \in Workers : Run(w)
    BY <1>1
  <2>1. target[w] \in Migrations /\ UNCHANGED <<finished, target, aborted, active, closing>>
    BY DEF Run, TypeInv, LoopOK, Busy
  <2>2. done \subseteq done' /\ ended \subseteq ended'
    BY DEF Run, Ended
  <2>3. \A v \in Workers \ {w} : pc'[v] = pc[v]
    BY DEF Run, AfterRun, Goto, TypeInv, LoopOK
  <2>4. pc'[w] = "finish" => target[w] \in done' \cup ended'
    <3> SUFFICES ASSUME pc'[w] = "finish" PROVE target[w] \in done' \cup ended'
      OBVIOUS
    <3>1. active[w] # None /\ (done' = done \cup {target[w]} \/ aborted[w])
      BY DEF Run, AfterRun, Goto, TypeInv, LoopOK
    <3>2. aborted[w] => Overlaps(w)
      BY <3>1 DEF MarkInv, AbortedUnderClose, Run
    <3>3. QED
      BY <3>1, <3>2 DEF Run, Ended
  <2>5. Overlaps(w)' <=> Overlaps(w)
    BY <2>1 DEF Overlaps
  <2>6. \A v \in Workers : pc[v] = "rejected" => pc'[v] = "rejected"
    BY <2>3 DEF Run
  <2>7. FinishedMeansRan'
    BY <2>1, <2>2 DEF MarkInv, FinishedMeansRan
  <2>8. Returned'
    BY <2>1, <2>2, <2>3, <2>4 DEF MarkInv, Returned
  <2>9. AbortedUnderClose'
    BY <2>1, <2>6 DEF MarkInv, AbortedUnderClose, Overlaps
  <2>10. QED
    BY <2>7, <2>8, <2>9 DEF MarkInv
<1>2. CASE \E w \in Workers : Finish(w)
  <2> PICK w \in Workers : Finish(w)
    BY <1>2
  <2>1. target[w] \in done \cup ended
    BY DEF MarkInv, Returned, Finish
  <2>2. /\ UNCHANGED <<target, done, aborted, closing>> /\ ended \subseteq ended'
        /\ finished' \subseteq finished \cup {target[w]}
    BY DEF Finish, LetGo, Ended, MarkFails
  <2>3. \A v \in Workers : pc'[v] = "finish" => pc[v] = "finish"
    BY DEF Finish, LetGo, Goto, TypeInv, LoopOK
  <2>4. \A v \in Workers : /\ pc[v] = "rejected" => pc'[v] = "rejected"
                           /\ active'[v] # None => active'[v] = active[v]
    BY DEF Finish, LetGo, Goto, TypeInv, LoopOK, MemoryOK
  <2>5. FinishedMeansRan' /\ Returned'
    BY <2>1, <2>2, <2>3 DEF MarkInv, FinishedMeansRan, Returned
  <2>6. AbortedUnderClose'
    BY <2>2, <2>4 DEF MarkInv, AbortedUnderClose, Overlaps
  <2>7. QED
    BY <2>5, <2>6 DEF MarkInv
<1>3. CASE ~(\E w \in Workers : Run(w) \/ Finish(w))
  <2>1. finished' \subseteq finished /\ done' = done /\ ended \subseteq ended'
    BY <1>3 DEF Next, vars, Loop, Close, Start, Acquire, NothingToRun, AcquireFails, Beat,
       BeatFails, Validate, MarkInvalid, Fail, HeartBeat, Terminate, AbortReturns, Release,
       Exit, Crash, Expire, Retry, MarkFails, LetGo, Ended, CloseFails
  <2>2. \A v \in Workers : pc'[v] = "finish" => pc[v] = "finish" /\ target'[v] = target[v]
    BY <1>3 DEF Next, vars, Loop, Close, Start, Acquire, NothingToRun, AcquireFails, Beat,
       BeatFails, Validate, MarkInvalid, Fail, HeartBeat, Terminate, AbortReturns, Release,
       Exit, Crash, Expire, Retry, LetGo, CloseFails, Gone, Goto, TypeInv, LoopOK
  <2>3. FinishedMeansRan' /\ Returned'
    BY <2>1, <2>2 DEF MarkInv, FinishedMeansRan, Returned
  <2>4. ASSUME NEW v \in Workers, aborted'[v], active'[v] # None, pc'[v] # "rejected"
        PROVE  Overlaps(v)'
    <3> USE <2>4 DEF TypeInv, LoopOK, MemoryOK, CloseOK
    <3>1. CASE \E w \in Workers : Terminate(w)
      BY <3>1 DEF Terminate, HasWork, Overlaps, MarkInv, AbortedUnderClose
    <3>2. CASE \E w \in Workers : AbortReturns(w) \/ Release(w) \/ Exit(w) \/ Crash(w)
      BY <3>2 DEF AbortReturns, Release, Exit, Crash, CloseFails, Gone, Overlaps, MarkInv,
         AbortedUnderClose
    <3>3. CASE \E w \in Workers : \/ Start(w) \/ NothingToRun(w) \/ AcquireFails(w)
                                  \/ \E m \in Migrations : Acquire(w, m)
      BY <3>3 DEF Start, NothingToRun, AcquireFails, Acquire, Goto, Overlaps, MarkInv,
         AbortedUnderClose
    <3>4. CASE \E w \in Workers : \/ Beat(w) \/ BeatFails(w) \/ Validate(w) \/ MarkInvalid(w)
                                  \/ Fail(w) \/ HeartBeat(w)
      BY <3>4 DEF Beat, BeatFails, Validate, MarkInvalid, Fail, HeartBeat, LetGo, Goto,
         Overlaps, MarkInv, AbortedUnderClose
    <3>5. CASE \/ \E m \in Migrations : Expire(m) \/ Retry(m)
               \/ UNCHANGED vars
      BY <3>5 DEF Expire, Retry, vars, Overlaps, MarkInv, AbortedUnderClose
    <3>6. QED
      BY <1>3, <3>1, <3>2, <3>3, <3>4, <3>5 DEF Next, Loop, Close
  <2>5. QED
    BY <2>3, <2>4 DEF MarkInv, AbortedUnderClose
<1>4. QED
  BY <1>1, <1>2, <1>3

\* Any number of processes, crashes, stalls and retries: a row that is marked as
\* finished ran to its end, or its run ended before close had released it.
THEOREM MarksAreEarned == Spec => []FinishedMeansRan
<1>1. Init => MarkInv
  BY DEF Init, MarkInv, FinishedMeansRan, Returned, AbortedUnderClose
<1>2. MarkInv => FinishedMeansRan
  BY DEF MarkInv
<1>3. QED
  BY <1>1, <1>2, MarkStep, TypeInit, TypeStep, PTL DEF Spec

-----------------------------------------------------------------------------
(***************************************************************************)
(* Why a shutdown gets past close.  While no call fails, no process stalls,*)
(* nobody retries and no run ended under a close, the row of               *)
(* activeMigration belongs to the process and is kept fresh as long as it  *)
(* is open, so close finds its migration and may release it.               *)
(***************************************************************************)
Smooth == ended = {} /\ past \cap {"error", "stall", "retry"} = {}

Kept(w) ==
  active[w] # None =>
    /\ owner[active[w]] = w
    /\ Open(active[w]) => lock[active[w]] = "fresh" /\ Beats(w, active[w])

\* What close goes by, and what the loop leaves in activeMigration.
Closes(w) ==
  /\ Overlaps(w) => active[w] # None
  /\ closing[w] = "releasing" =>
       owner[closes[w]] = w /\ (closes[w] = active[w] \/ ~Open(closes[w]))
Leaves(w) ==
  active[w] # None =>
    /\ pc[w] # "off"
    /\ pc[w] = "acquire" => ~Open(active[w])
    /\ pc[w] \in Busy => active[w] = target[w]

CloseInv ==
  Smooth => unflushed = {} /\ \A w \in Workers : Kept(w) /\ Closes(w) /\ Leaves(w)

LEMMA SmoothBefore == TypeInv /\ [Next]_vars /\ Smooth' => Smooth
<1> SUFFICES ASSUME TypeInv, [Next]_vars, Smooth' PROVE Smooth
  OBVIOUS
<1>1. past \subseteq past'
  BY PastGrows
<1>2. ended \subseteq ended'
  BY DEF Next, vars, Loop, Close, Start, Acquire, NothingToRun, AcquireFails, Beat, BeatFails,
     Validate, MarkInvalid, Run, Finish, Fail, HeartBeat, Terminate, AbortReturns, Release,
     Exit, Crash, Expire, Retry, LetGo, Ended, history
<1>3. QED
  BY <1>1, <1>2 DEF Smooth

\* A step that changes no row and nothing of the process.
LEMMA CloseSame ==
  ASSUME NEW w \in Workers, Kept(w), Closes(w), Leaves(w), UNCHANGED rows,
         active'[w] = active[w], closing'[w] = closing[w], closes'[w] = closes[w],
         pc'[w] = pc[w], target'[w] = target[w], chain'[w] = chain[w]
  PROVE  (Kept(w) /\ Closes(w) /\ Leaves(w))'
BY DEF rows, Kept, Closes, Leaves, Overlaps, Beats, Open

\* A process that is gone has nothing to keep.
LEMMA CloseGone ==
  ASSUME TypeInv, NEW w \in Workers, Gone(w)
  PROVE  (Kept(w) /\ Closes(w) /\ Leaves(w))'
BY DEF Gone, Kept, Closes, Leaves, Overlaps, TypeInv, LoopOK, MemoryOK, CloseOK

\* The owner ends a row, or releases it, and others keep theirs.
LEMMA CloseMark ==
  ASSUME TypeInv, NEW w \in Workers, Kept(w), Closes(w), Leaves(w),
         NEW v \in Workers \ {w}, NEW m \in Migrations, Mark(v, m),
         \A k \in Migrations : Open(k)' => Open(k),
         \A k \in Migrations \ {m} : Open(k) => Open(k)',
         active'[w] = active[w], closing'[w] = closing[w], closes'[w] = closes[w],
         pc'[w] = pc[w], target'[w] = target[w], chain'[w] = chain[w]
  PROVE  (Kept(w) /\ Closes(w) /\ Leaves(w))'
<1>1. active[w] \in Migrations \cup {None} /\ (closing[w] = "releasing" => closes[w] \in Migrations)
  BY DEF TypeInv, MemoryOK, CloseOK
<1>2. owner' = owner /\ owner[m] = v /\ \A k \in Migrations \ {m} : lock'[k] = lock[k]
  BY DEF Mark, TypeInv, RowsOK
<1>3. QED
  BY <1>1, <1>2 DEF Kept, Closes, Leaves, Overlaps, Beats

LEMMA CloseStep == TypeInv /\ CloseInv /\ [Next]_vars => CloseInv'
<1> SUFFICES ASSUME TypeInv, CloseInv, [Next]_vars, Smooth'
             PROVE  /\ unflushed' = {}
                    /\ \A w \in Workers : (Kept(w) /\ Closes(w) /\ Leaves(w))'
  BY DEF CloseInv
<1>0. /\ Smooth /\ unflushed = {}
      /\ \A w \in Workers : Kept(w) /\ Closes(w) /\ Leaves(w)
      /\ TypeInv'
  BY SmoothBefore, TypeStep DEF CloseInv
<1> DEFINE Same(w) == /\ active'[w] = active[w] /\ closing'[w] = closing[w]
                      /\ closes'[w] = closes[w] /\ pc'[w] = pc[w]
                      /\ target'[w] = target[w] /\ chain'[w] = chain[w]
<1> DEFINE Good(w) == Kept(w) /\ Closes(w) /\ Leaves(w)
<1> USE DEF rows, loop, memory, close, history
<1>a. ASSUME NEW w \in Workers, UNCHANGED rows, Same(w) PROVE Good(w)'
  BY <1>0, <1>a, CloseSame
<1>b. ASSUME NEW v \in Workers, Gone(v) PROVE \A w \in Workers \ {v} : Same(w)
  BY <1>b DEF Gone, TypeInv, LoopOK, MemoryOK, CloseOK
<1>1. CASE \E v \in Workers : Start(v) \/ Validate(v) \/ NothingToRun(v) \/ Terminate(v)
  <2> PICK v \in Workers : Start(v) \/ Validate(v) \/ NothingToRun(v) \/ Terminate(v)
    BY <1>1
  <2>1. UNCHANGED rows /\ unflushed' = unflushed /\ active' = active /\ chain' = chain
    BY DEF Start, Validate, NothingToRun, Terminate
  <2>2. \A w \in Workers \ {v} : Same(w)
    BY <2>1 DEF Start, Validate, NothingToRun, Terminate, Goto, TypeInv, LoopOK, CloseOK
  <2>3. Good(v)'
    <3>1. CASE Start(v) \/ Validate(v)
      <4>1. pc[v] \in {"off", "validate"} /\ UNCHANGED <<closing, closes, target>>
        BY <3>1 DEF Start, Validate
      <4>2. CASE Start(v)
        BY <1>0, <2>1, <4>1, <4>2
        DEF Start, Goto, Kept, Closes, Leaves, Overlaps, TypeInv, LoopOK
      <4>3. CASE Validate(v)
        BY <1>0, <2>1, <4>1, <4>3
        DEF Validate, Goto, Kept, Closes, Leaves, Overlaps, Beats, Open, Busy, TypeInv, LoopOK
      <4>4. QED
        BY <3>1, <4>2, <4>3
    <3>2. CASE NothingToRun(v)
      BY <1>0, <2>1, <3>2 DEF NothingToRun, Goto, Kept, Closes, Leaves, Overlaps, Beats, Open,
         Busy, TypeInv, LoopOK
    <3>3. CASE Terminate(v)
      BY <1>0, <2>1, <3>3 DEF Terminate, HasWork, Kept, Closes, Leaves, Overlaps, Beats, Open,
         TypeInv, CloseOK
    <3>4. QED
      BY <3>1, <3>2, <3>3
  <2>4. QED
    BY <1>0, <1>a, <2>1, <2>2, <2>3
<1>2. CASE \E v \in Workers, m \in Migrations : Acquire(v, m)
  <2> PICK v \in Workers, m \in Migrations : Acquire(v, m)
    BY <1>2
  <2>1. \A w \in Workers : active[w] = m => FALSE
    BY <1>0, NoneIsNoMigration DEF Acquire, First, Kept
  <2>2. /\ UNCHANGED <<finished, failed, closing, closes, unflushed, chain>> /\ Open(m)
        /\ owner'[m] = v /\ lock'[m] = "fresh"
        /\ \A k \in Migrations \ {m} : owner'[k] = owner[k] /\ lock'[k] = lock[k]
        /\ active'[v] = m /\ target'[v] = m /\ pc'[v] = "beat" /\ pc[v] = "acquire"
        /\ \A w \in Workers \ {v} : Same(w)
    BY DEF Acquire, First, Goto, TypeInv, RowsOK, LoopOK, MemoryOK
  <2>3. \A w \in Workers : closing[w] = "releasing" => closes[w] \in Migrations \ {m}
    BY <1>0, <2>1, <2>2 DEF Closes, TypeInv, CloseOK
  <2>4. Good(v)'
    <3>1. Kept(v)' /\ Leaves(v)'
      BY <2>2 DEF Kept, Leaves, Beats, Open
    <3>2. closing[v] = "releasing" => ~Open(closes[v])
      BY <1>0, <2>2 DEF Closes, Leaves, Overlaps
    <3>3. Closes(v)'
      BY <1>0, <2>2, <2>3, <3>2, NoneIsNoMigration DEF Closes, Overlaps, Open
    <3>4. QED
      BY <3>1, <3>3
  <2>5. ASSUME NEW w \in Workers \ {v} PROVE Good(w)'
    <3>1. active[w] \in (Migrations \ {m}) \cup {None}
      BY <2>1 DEF TypeInv, MemoryOK
    <3>2. QED
      BY <1>0, <2>2, <2>3, <3>1 DEF Kept, Closes, Leaves, Overlaps, Beats, Open
  <2>6. QED
    BY <1>0, <2>2, <2>4, <2>5
<1>3. CASE \E v \in Workers : AcquireFails(v) \/ BeatFails(v)
  BY <1>3 DEF AcquireFails, BeatFails, Smooth
<1>c. ASSUME NEW v \in Workers, NEW m \in Migrations, KeepFresh(v, m), NEW w \in Workers,
             UNCHANGED <<finished, failed, owner, active, closing, closes>>,
             chain[w] => chain'[w], pc'[w] = pc[w] \/ chain'[w], target'[w] = target[w],
             \A step \in {"off", "acquire"} : pc'[w] = step => pc[w] = step, pc'[w] \in Busy => pc[w] \in Busy
      PROVE  Good(w)'
  <2>1. active[w] # None => active[w] \in Migrations
    BY DEF TypeInv, MemoryOK
  <2>2. \A k \in Migrations : lock[k] = "fresh" => lock'[k] = "fresh"
    BY <1>c DEF KeepFresh, TypeInv, RowsOK
  <2>3. QED
    BY <1>0, <1>c, <2>1, <2>2 DEF Kept, Closes, Leaves, Overlaps, Beats, Open
<1>4. CASE \E v \in Workers : Beat(v)
  <2> PICK v \in Workers : Beat(v)
    BY <1>4
  <2>1. target[v] \in Migrations /\ unflushed' = unflushed
    BY DEF Beat, TypeInv, LoopOK, Busy
  <2>2. ASSUME NEW w \in Workers PROVE Good(w)'
    <3>1. /\ chain[w] => chain'[w]
          /\ pc'[w] = pc[w] \/ chain'[w]
          /\ \A step \in {"off", "acquire"} : pc'[w] = step => pc[w] = step
          /\ pc'[w] \in Busy => pc[w] \in Busy
      BY DEF Beat, Goto, Busy, TypeInv, LoopOK, MemoryOK
    <3>2. QED
      BY <1>c, <2>1, <3>1 DEF Beat
  <2>3. QED
    BY <1>0, <2>1, <2>2
<1>5. CASE \E v \in Workers : HeartBeat(v)
  <2> PICK v \in Workers : HeartBeat(v)
    BY <1>5
  <2>1. CASE active[v] = None
    <3>1. UNCHANGED rows /\ unflushed' = unflushed /\ \A w \in Workers \ {v} : Same(w)
      BY <2>1 DEF HeartBeat, TypeInv, MemoryOK
    <3>2. Good(v)'
      BY <1>0, <2>1 DEF HeartBeat, Kept, Closes, Leaves, Overlaps
    <3>3. QED
      BY <1>0, <1>a, <3>1, <3>2
  <2>2. CASE active[v] # None
    <3>1. active[v] \in Migrations /\ unflushed' = unflushed
      BY <2>2 DEF HeartBeat, TypeInv, MemoryOK
    <3>2. \A w \in Workers : Good(w)'
      BY <1>c, <2>2, <3>1 DEF HeartBeat
    <3>3. QED
      BY <1>0, <3>1, <3>2
  <2>3. QED
    BY <2>1, <2>2
<1>6. CASE \E v \in Workers : Run(v)
  <2> PICK v \in Workers : Run(v)
    BY <1>6
  <2>1. /\ UNCHANGED rows /\ unflushed' = unflushed /\ UNCHANGED <<target, memory, close>>
        /\ \A w \in Workers \ {v} : Same(w)
    BY DEF Run, AfterRun, Goto, TypeInv, LoopOK
  <2>2. /\ active[v] # None => pc'[v] \in Busy \ {"beat"}
        /\ pc[v] = "run"
    BY DEF Run, AfterRun, Goto, Busy, TypeInv, LoopOK
  <2>3. Good(v)'
    BY <1>0, <2>1, <2>2 DEF Kept, Closes, Leaves, Overlaps, Beats, Open, Busy
  <2>4. QED
    BY <1>0, <1>a, <2>1, <2>3
<1>d. ASSUME NEW v \in Workers, pc[v] \in Busy, pc[v] # "beat", NEW step \in {"rejected", "fail"},
             Goto(v, step), UNCHANGED <<rows, target, memory, close, unflushed>>
      PROVE  \A w \in Workers : Good(w)'
  <2>1. \A w \in Workers \ {v} : Same(w)
    BY <1>d DEF Goto, TypeInv, LoopOK
  <2>2. pc'[v] = step
    BY <1>d DEF Goto, TypeInv, LoopOK
  <2>3. Good(v)'
    BY <1>0, <1>d, <2>2 DEF Kept, Closes, Leaves, Overlaps, Beats, Open
  <2>4. QED
    BY <1>a, <1>d, <2>1, <2>3
<1>e. ASSUME NEW v \in Workers, pc[v] \in Busy, pc[v] # "beat", Mark(v, target[v]),
             UNCHANGED <<close, target, chain>>, finished \subseteq finished', failed \subseteq failed',
             finished' \cup failed' = finished \cup failed \cup {target[v]},
             \A w \in Workers \ {v} : pc'[w] = pc[w] /\ active'[w] = active[w],
             \/ active'[v] = None /\ ~Overlaps(v)
             \/ active'[v] = active[v] /\ pc'[v] \in {"rejected", "acquire"}
      PROVE  \A w \in Workers : Good(w)'
  <2>1. /\ target[v] \in Migrations
        /\ \A k \in Migrations : Open(k)' => Open(k)
        /\ \A k \in Migrations \ {target[v]} : Open(k) => Open(k)'
        /\ ~Open(target[v])'
    BY <1>e DEF TypeInv, LoopOK, Open
  <2>2. ASSUME NEW w \in Workers \ {v} PROVE Good(w)'
    BY <1>0, <1>e, <2>1, CloseMark
  <2>3. owner' = owner
    BY <1>e DEF Mark
  <2> SUFFICES Good(v)'
    BY <2>2
  <2>4. CASE active'[v] = None /\ ~Overlaps(v)
    BY <1>e, <2>4 DEF Kept, Closes, Leaves, Overlaps
  <2>5. CASE active'[v] = active[v] /\ pc'[v] \in {"rejected", "acquire"}
    <3>1. active[v] # None => active[v] = target[v]
      BY <1>0, <1>e DEF Leaves
    <3>2. closing[v] = "releasing" => closes[v] \in Migrations
      BY DEF TypeInv, CloseOK
    <3>3. Kept(v)' /\ Leaves(v)'
      BY <1>0, <1>e, <2>1, <2>3, <2>5, <3>1 DEF Kept, Leaves, Busy
    <3>4. Closes(v)'
      BY <1>0, <1>e, <2>1, <2>3, <2>5, <3>2 DEF Closes, Overlaps
    <3>5. QED
      BY <3>3, <3>4
  <2>6. QED
    BY <1>e, <2>4, <2>5
<1>7. CASE \E v \in Workers : Finish(v) \/ Fail(v) \/ MarkInvalid(v)
  <2> PICK v \in Workers : Finish(v) \/ Fail(v) \/ MarkInvalid(v)
    BY <1>7
  <2>1. /\ pc[v] \in Busy /\ pc[v] # "beat" /\ UNCHANGED <<unflushed, close, target, chain>>
        /\ \A w \in Workers \ {v} : pc'[w] = pc[w] /\ active'[w] = active[w]
    BY DEF Finish, Fail, MarkInvalid, LetGo, Goto, Busy, TypeInv, LoopOK, MemoryOK
  <2>2. LetGo(v) => active'[v] = None /\ ~Overlaps(v)
    BY DEF LetGo, Ended, Smooth, TypeInv, MemoryOK
  <2>3. CASE MarkFails(v, target[v]) /\ UNCHANGED <<memory, rows>>
                 /\ \E step \in {"rejected", "fail"} : Goto(v, step)
    BY <1>0, <1>d, <2>1, <2>3
  <2>4. CASE Finish(v)
    <3>1. CASE /\ Mark(v, target[v])
               /\ finished' = finished \cup {target[v]} /\ failed' = failed
               /\ \/ active[v] = None /\ Goto(v, "rejected") /\ UNCHANGED active
                  \/ LetGo(v)
      <4>1. \/ active'[v] = None /\ ~Overlaps(v)
            \/ active'[v] = active[v] /\ pc'[v] \in {"rejected", "acquire"}
        BY <2>2, <3>1 DEF Goto, TypeInv, LoopOK
      <4>2. QED
        BY <1>0, <1>e, <2>1, <3>1, <4>1
    <3>2. QED
      BY <2>3, <2>4, <3>1 DEF Finish, MarkFails
  <2>5. CASE Fail(v)
    <3>1. CASE Mark(v, target[v]) /\ failed' = failed \cup {target[v]} /\ finished' = finished
                 /\ LetGo(v)
      BY <1>0, <1>e, <2>1, <2>2, <3>1
    <3>2. QED
      BY <2>3, <2>5, <3>1 DEF Fail, MarkFails
  <2>6. CASE MarkInvalid(v)
    <3>1. CASE Mark(v, target[v]) /\ failed' = failed \cup {target[v]} /\ finished' = finished
                 /\ Goto(v, "acquire")
      <4>1. active'[v] = active[v] /\ pc'[v] = "acquire"
        BY <2>6, <3>1 DEF MarkInvalid, Goto, TypeInv, LoopOK
      <4>2. QED
        BY <1>0, <1>e, <2>1, <3>1, <4>1
    <3>2. QED
      BY <2>3, <2>6, <3>1 DEF MarkInvalid, MarkFails
  <2>7. QED
    BY <2>4, <2>5, <2>6
<1>f. ASSUME NEW v \in Workers, Gone(v), UNCHANGED rows PROVE \A w \in Workers : Good(w)'
  BY <1>a, <1>b, <1>f, CloseGone
<1>8. CASE \E v \in Workers : AbortReturns(v)
  <2> PICK v \in Workers : AbortReturns(v)
    BY <1>8
  <2>1. active[v] # None
    BY <1>0 DEF AbortReturns, Closes, Overlaps
  <2>2. /\ UNCHANGED <<rows, loop, memory, unflushed>> /\ closing'[v] = "releasing"
        /\ closes'[v] = active[v] /\ \A w \in Workers \ {v} : Same(w)
    BY <2>1 DEF AbortReturns, TypeInv, CloseOK
  <2>3. Good(v)'
    BY <1>0, <2>1, <2>2 DEF Kept, Closes, Leaves, Overlaps, Beats, Open
  <2>4. QED
    BY <1>0, <1>a, <2>2, <2>3
<1>9. CASE \E v \in Workers : Release(v)
  <2> PICK v \in Workers : Release(v)
    BY <1>9
  <2>1. active[v] # None /\ owner[closes[v]] = v /\ closes[v] \in Migrations
    BY <1>0 DEF Release, Closes, Overlaps, TypeInv, CloseOK
  <2>2. /\ Mark(v, closes[v]) /\ closing'[v] = "closed" /\ active'[v] = None
        /\ UNCHANGED <<finished, failed, loop, chain, unflushed>>
        /\ \A w \in Workers \ {v} : Same(w)
    BY <2>1 DEF Release, MarkFails, Smooth, TypeInv, MemoryOK, CloseOK
  <2>3. Good(v)'
    BY <2>2 DEF Kept, Closes, Leaves, Overlaps
  <2>4. ASSUME NEW w \in Workers \ {v} PROVE Good(w)'
    BY <1>0, <2>1, <2>2, CloseMark DEF Open
  <2>5. QED
    BY <1>0, <2>2, <2>3, <2>4
<1>10. CASE \E v \in Workers : Exit(v) \/ Crash(v)
  BY <1>0, <1>10, <1>f DEF Exit, Crash
<1>11. CASE \E m \in Migrations : Expire(m)
  <2> PICK m \in Migrations : Expire(m)
    BY <1>11
  <2>1. /\ \A w \in Workers : ~Beats(w, m)
        /\ UNCHANGED <<finished, failed, owner, loop, memory, close, unflushed>>
        /\ \A k \in Migrations \ {m} : lock'[k] = lock[k]
    BY DEF Expire, Smooth, TypeInv, RowsOK
  <2>2. ASSUME NEW w \in Workers PROVE Good(w)'
    <3>1. active[w] \in Migrations \cup {None} /\ (active[w] = m => ~Open(m))
      BY <1>0, <2>1, NoneIsNoMigration DEF Kept, TypeInv, MemoryOK
    <3>2. QED
      BY <1>0, <2>1, <3>1 DEF Kept, Closes, Leaves, Overlaps, Beats, Open
  <2>3. QED
    BY <1>0, <2>1, <2>2
<1>12. CASE \E m \in Migrations : Retry(m)
  BY <1>12 DEF Retry, Smooth
<1>13. CASE UNCHANGED vars
  BY <1>0, <1>13, <1>a DEF vars
<1>14. QED
  BY <1>1, <1>2, <1>3, <1>4, <1>5, <1>6, <1>7, <1>8, <1>9, <1>10, <1>11, <1>12, <1>13
  DEF Next, Loop, Close

\* Any number of processes: a shutdown gets past close, to the flush of the
\* rows in memory, unless a call failed, a process stalled, somebody retried or
\* a run ended under close.
THEOREM CloseGetsThrough == Spec => []ShutdownPassesClose
<1>1. Init => CloseInv
  BY DEF Init, CloseInv, Kept, Closes, Leaves, Overlaps
<1>2. CloseInv => ShutdownPassesClose
  BY DEF CloseInv, Smooth, ShutdownPassesClose
<1>3. QED
  BY <1>1, <1>2, CloseStep, TypeInit, TypeStep, PTL DEF Spec
=============================================================================
