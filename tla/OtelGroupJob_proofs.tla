-------------------------- MODULE OtelGroupJob_proofs --------------------------
(***************************************************************************)
(* Theorems about OtelGroupJob, for any number of job slots, overlapping   *)
(* redrive cycles, attempts, redrives and faults of every kind.            *)
(***************************************************************************)
EXTENDS OtelGroupJob, TLAPS

-----------------------------------------------------------------------------
(***************************************************************************)
(* The type invariant by groups of variables, with what bounds the two     *)
(* counters: a job that has not failed has an attempt left, and a cycle    *)
(* that goes on to redrive read a count below the limit.                   *)
(***************************************************************************)
QueueOK ==
  /\ job \in {"none", "waiting", "active", "failed"}
  /\ runner \in Workers \cup {NoWorker}
  /\ attempts \in 0..MaxAttempts
  /\ stalls \in 0..MaxStalled + 1
  /\ redrives \in 0..MaxRedrives
  /\ job # "failed" => attempts < MaxAttempts /\ stalls <= MaxStalled
  /\ runner # NoWorker => job = "active"

RunsOK ==
  /\ pc \in [Workers -> PCs]
  /\ dedup \subseteq Workers

DorisOK ==
  /\ txn \in [Tables -> {"free", "running", "visible"}]
  /\ waiter \in [Tables -> Workers \cup {NoWorker}]
  /\ stamp \in [Tables -> Nat]
  /\ commits \in [Tables -> Nat]
  /\ rows \subseteq Tables
  /\ erased \subseteq Tables
  /\ outlived \subseteq Tables

PgOK ==
  /\ ledgers \subseteq {"completion", "poison"}
  /\ project \in {"live", "tombstone", "dropped"}

CycleOK ==
  /\ rpc \in [Redrivers -> RPCs]
  /\ snap \in [Redrivers -> 0..MaxRedrives]
  /\ \A r \in Redrivers : rpc[r] \in {"remove", "add"} => snap[r] < MaxRedrives

TimeOK == now \in Nat

FaultsOK == faults \in [FaultKinds -> Nat]

TypeInv ==
  /\ content \in Contents
  /\ QueueOK
  /\ RunsOK
  /\ DorisOK
  /\ PgOK
  /\ CycleOK
  /\ TimeOK
  /\ FaultsOK

\* A group of variables that a step leaves alone keeps its type.
LEMMA Frames ==
  ASSUME TypeInv
  PROVE  /\ UNCHANGED queue => QueueOK'
         /\ UNCHANGED runs => RunsOK'
         /\ UNCHANGED <<pc, dedup>> => RunsOK'
         /\ UNCHANGED doris => DorisOK'
         /\ UNCHANGED pg => PgOK'
         /\ UNCHANGED cycle => CycleOK'
         /\ UNCHANGED now => TimeOK'
         /\ UNCHANGED faults => FaultsOK'
<1> USE DEF TypeInv
<1>1. UNCHANGED queue => QueueOK'
  BY DEF queue, QueueOK
<1>2. UNCHANGED runs => RunsOK'
  BY DEF runs, RunsOK
<1>3. UNCHANGED doris => DorisOK'
  BY DEF doris, history, DorisOK
<1>4. UNCHANGED pg => PgOK'
  BY DEF pg, PgOK
<1>5. UNCHANGED cycle => CycleOK'
  BY DEF cycle, CycleOK
<1>6. UNCHANGED now => TimeOK'
  BY DEF TimeOK
<1>7. UNCHANGED faults => FaultsOK'
  BY DEF FaultsOK
<1>8. UNCHANGED <<pc, dedup>> => RunsOK'
  BY DEF RunsOK
<1>9. QED
  BY <1>1, <1>2, <1>3, <1>4, <1>5, <1>6, <1>7, <1>8

LEMMA SpendType ==
  ASSUME TypeInv, NEW kind \in FaultKinds, Spend(kind)
  PROVE  FaultsOK'
BY DEF TypeInv, FaultsOK, Spend

LEMMA GotoType ==
  ASSUME TypeInv, NEW w \in Workers, NEW label \in PCs, Goto(w, label)
  PROVE  pc' \in [Workers -> PCs]
BY DEF TypeInv, RunsOK, Goto

LEMMA GotoRType ==
  ASSUME TypeInv, NEW r \in Redrivers, NEW label \in RPCs \ {"remove", "add"},
         GotoR(r, label), UNCHANGED snap
  PROVE  CycleOK'
BY DEF TypeInv, CycleOK, GotoR, RPCs

\* What Fails does to the job and to its worker.
LEMMA FailsType ==
  ASSUME TypeInv, NEW w \in Workers, Fails(w)
  PROVE  QueueOK' /\ pc' \in [Workers -> PCs]
<1> USE GroupJobAssumption DEF TypeInv, QueueOK, Fails
<1>1. pc' \in [Workers -> PCs]
  BY GotoType DEF PCs
<1>2. CASE runner = w
  BY <1>1, <1>2
<1>3. CASE runner # w
  BY <1>1, <1>3
<1>4. QED
  BY <1>2, <1>3

LEMMA TypeStep == TypeInv /\ [Next]_vars => TypeInv'
<1> SUFFICES ASSUME TypeInv, [Next]_vars
             PROVE  TypeInv'
  OBVIOUS
<1>1. ASSUME NEW w \in Workers, Take(w) PROVE TypeInv'
  <2>1. QueueOK'
    BY <1>1 DEF Take, TypeInv, QueueOK
  <2>2. RunsOK'
    BY <1>1, GotoType DEF Take, TypeInv, RunsOK, PCs
  <2>3. QED
    BY <1>1, <2>1, <2>2, Frames DEF Take, TypeInv
<1>2. ASSUME NEW w \in Workers, Prepare(w) PROVE TypeInv'
  <2>1. QueueOK' /\ RunsOK'
    BY <1>2, FailsType, GotoType, Frames DEF Prepare, TypeInv, RunsOK, PCs
  <2>2. QED
    BY <1>2, <2>1, Frames DEF Prepare, TypeInv
<1>3. ASSUME NEW w \in Workers, NEW t \in Tables, Load(w, t) PROVE TypeInv'
  <2>1. QueueOK' /\ RunsOK'
    <3>1. CASE Fails(w) /\ UNCHANGED dedup
      BY <3>1, FailsType DEF TypeInv, RunsOK
    <3>2. CASE UNCHANGED queue /\ UNCHANGED dedup /\ Goto(w, "await")
      BY <3>2, GotoType, Frames DEF TypeInv, RunsOK, PCs
    <3>3. CASE UNCHANGED queue /\ AfterLoad(w, t, TRUE)
      BY <3>3, GotoType, Frames DEF AfterLoad, TypeInv, RunsOK, PCs
    <3>4. QED
      BY <1>3, <3>1, <3>2, <3>3 DEF Load, queue
  <2>2. DorisOK'
    <3>1. UNCHANGED <<stamp, commits, rows, erased, outlived>>
      BY <1>3 DEF Load, history
    <3>2. \/ UNCHANGED <<txn, waiter>>
          \/ /\ txn' = [txn EXCEPT ![t] = "running"]
             /\ waiter' = [waiter EXCEPT ![t] = w]
      BY <1>3 DEF Load
    <3>3. QED
      BY <3>1, <3>2 DEF TypeInv, DorisOK
  <2>3. QED
    BY <1>3, <2>1, <2>2, Frames DEF Load, TypeInv
<1>4. ASSUME NEW w \in Workers, Gate(w) \/ Sessions(w) PROVE TypeInv'
  <2>1. RunsOK'
    BY <1>4, GotoType DEF Gate, Sessions, TypeInv, RunsOK, PCs
  <2>2. QED
    BY <1>4, <2>1, Frames DEF Gate, Sessions, TypeInv
<1>5. ASSUME NEW w \in Workers, MissingTable(w) \/ WriteLedger(w)
      PROVE  TypeInv'
  <2>1. QueueOK' /\ RunsOK'
    BY <1>5, FailsType, GotoType, Frames
    DEF MissingTable, WriteLedger, TypeInv, RunsOK, PCs
  <2>2. PgOK'
    BY <1>5 DEF MissingTable, WriteLedger, TypeInv, PgOK
  <2>3. FaultsOK'
    BY <1>5, SpendType, Frames DEF MissingTable, WriteLedger, FaultKinds
  <2>4. QED
    BY <1>5, <2>1, <2>2, <2>3, Frames DEF MissingTable, WriteLedger, TypeInv
<1>6. ASSUME NEW w \in Workers, Finish(w) PROVE TypeInv'
  <2>1. QueueOK'
    BY <1>6, GroupJobAssumption DEF Finish, TypeInv, QueueOK
  <2>2. RunsOK'
    BY <1>6, GotoType DEF Finish, TypeInv, RunsOK, PCs
  <2>3. QED
    BY <1>6, <2>1, <2>2, Frames DEF Finish, TypeInv
<1>7. ASSUME NEW w \in Workers, Error(w) PROVE TypeInv'
  <2>1. QueueOK' /\ RunsOK'
    BY <1>7, FailsType DEF Error, TypeInv, RunsOK
  <2>2. FaultsOK'
    BY <1>7, SpendType DEF Error, FaultKinds
  <2>3. QED
    BY <1>7, <2>1, <2>2, Frames DEF Error, TypeInv
<1>8. ASSUME NEW w \in Workers, Crash(w) PROVE TypeInv'
  <2>1. QueueOK'
    BY <1>8 DEF Crash, TypeInv, QueueOK
  <2>2. RunsOK'
    BY <1>8, GotoType DEF Crash, TypeInv, RunsOK, PCs
  <2>3. DorisOK'
    BY <1>8 DEF history, Crash, TypeInv, DorisOK
  <2>4. FaultsOK'
    BY <1>8, SpendType DEF Crash, FaultKinds
  <2>5. QED
    BY <1>8, <2>1, <2>2, <2>3, <2>4, Frames DEF Crash, TypeInv
<1>9. ASSUME LoseLock \/ Requeue PROVE TypeInv'
  <2>1. QueueOK'
    BY <1>9, GroupJobAssumption DEF LoseLock, Requeue, TypeInv, QueueOK
  <2>2. FaultsOK'
    BY <1>9, SpendType, Frames DEF LoseLock, Requeue, FaultKinds
  <2>3. QED
    BY <1>9, <2>1, <2>2, Frames DEF LoseLock, Requeue, TypeInv
<1>10. ASSUME NEW t \in Tables, Commit(t) PROVE TypeInv'
  <2> waiter[t] \in Workers \cup {NoWorker}
    BY DEF TypeInv, DorisOK
  <2>1. QueueOK' /\ RunsOK'
    BY <1>10, FailsType, GotoType, Frames
    DEF Commit, AfterLoad, TypeInv, RunsOK, PCs
  <2>2. DorisOK'
    BY <1>10 DEF history, Commit, TypeInv, DorisOK, TimeOK
  <2>3. FaultsOK'
    BY <1>10, SpendType, Frames DEF Commit, FaultKinds
  <2>4. QED
    BY <1>10, <2>1, <2>2, <2>3, Frames DEF Commit, TypeInv
<1>11. ASSUME NEW t \in Tables, Abort(t) \/ GiveUp(t) PROVE TypeInv'
  <2> waiter[t] \in Workers \cup {NoWorker}
    BY DEF TypeInv, DorisOK
  <2>1. QueueOK' /\ RunsOK'
    BY <1>11, FailsType, Frames DEF Abort, GiveUp, TypeInv, RunsOK
  <2>2. DorisOK'
    BY <1>11 DEF history, Abort, GiveUp, TypeInv, DorisOK
  <2>3. FaultsOK'
    BY <1>11, SpendType, Frames DEF Abort, GiveUp, FaultKinds
  <2>4. QED
    BY <1>11, <2>1, <2>2, <2>3, Frames DEF Abort, GiveUp, TypeInv
<1>12. ASSUME NEW t \in Tables, ForgetLabel(t) PROVE TypeInv'
  <2>1. DorisOK'
    BY <1>12 DEF ForgetLabel, TypeInv, DorisOK
  <2>2. QED
    BY <1>12, <2>1, Frames DEF ForgetLabel, TypeInv
<1>13. ASSUME NEW r \in Redrivers, ReadFailed(r) PROVE TypeInv'
  <2>1. CycleOK'
    BY <1>13 DEF ReadFailed, TypeInv, CycleOK, QueueOK, GotoR, RPCs
  <2>2. QED
    BY <1>13, <2>1, Frames DEF ReadFailed, TypeInv
<1>14. ASSUME NEW r \in Redrivers, Decide(r) PROVE TypeInv'
  <2>1. CycleOK'
    BY <1>14, GroupJobAssumption DEF Decide, TypeInv, CycleOK, GotoR, RPCs
  <2>2. QED
    BY <1>14, <2>1, Frames DEF Decide, TypeInv
<1>15. ASSUME NEW r \in Redrivers, RecordPoison(r) PROVE TypeInv'
  <2>1. CycleOK'
    BY <1>15, GotoRType DEF RecordPoison, RPCs
  <2>2. PgOK'
    BY <1>15 DEF RecordPoison, TypeInv, PgOK
  <2>3. FaultsOK'
    BY <1>15, SpendType, Frames DEF RecordPoison, FaultKinds
  <2>4. QED
    BY <1>15, <2>1, <2>2, <2>3, Frames DEF RecordPoison, TypeInv
<1>16. ASSUME NEW r \in Redrivers, Discard(r) \/ RemoveForRedrive(r)
       PROVE  TypeInv'
  <2>1. QueueOK'
    BY <1>16, Frames, GroupJobAssumption
    DEF Discard, RemoveForRedrive, Remove, Removable, TypeInv, QueueOK
  <2>2. CycleOK'
    BY <1>16 DEF Discard, RemoveForRedrive, TypeInv, CycleOK, GotoR, RPCs
  <2>3. QED
    BY <1>16, <2>1, <2>2, Frames DEF Discard, RemoveForRedrive, TypeInv
<1>17. ASSUME NEW r \in Redrivers, AddAgain(r) \/ CycleEnds(r) PROVE TypeInv'
  <2>1. QueueOK'
    BY <1>17, Frames, GroupJobAssumption
    DEF AddAgain, CycleEnds, TypeInv, QueueOK, CycleOK
  <2>2. CycleOK'
    BY <1>17, GotoRType DEF AddAgain, CycleEnds, RPCs
  <2>3. FaultsOK'
    BY <1>17, SpendType, Frames DEF AddAgain, CycleEnds, FaultKinds
  <2>4. QED
    BY <1>17, <2>1, <2>2, <2>3, Frames DEF AddAgain, CycleEnds, TypeInv
<1>18. ASSUME Erase \/ Tombstone \/ DropTables \/ Tick PROVE TypeInv'
  <2>1. DorisOK'
    BY <1>18, Frames
    DEF Erase, Tombstone, DropTables, Tick, TypeInv, DorisOK, history
  <2>2. PgOK'
    BY <1>18, Frames DEF Erase, Tombstone, DropTables, Tick, TypeInv, PgOK
  <2>3. TimeOK'
    BY <1>18, Frames DEF Erase, Tombstone, DropTables, Tick, TypeInv, TimeOK
  <2>4. QED
    BY <1>18, <2>1, <2>2, <2>3, Frames
    DEF Erase, Tombstone, DropTables, Tick, TypeInv
<1>19. CASE UNCHANGED vars
  BY <1>19, Frames DEF vars, TypeInv
<1>20. QED
  BY <1>1, <1>2, <1>3, <1>4, <1>5, <1>6, <1>7, <1>8, <1>9, <1>10, <1>11,
     <1>12, <1>13, <1>14, <1>15, <1>16, <1>17, <1>18, <1>19
  DEF Next, Run, RedriveStep, Settle, Tables

LEMMA TypeInvariant == Spec => []TypeInv
<1>1. Init => TypeInv
  <2> SUFFICES ASSUME Init PROVE TypeInv
    OBVIOUS
  <2> USE GroupJobAssumption DEF Init
  <2>1. QueueOK
    BY DEF QueueOK
  <2>2. RunsOK
    BY DEF RunsOK, PCs
  <2>3. DorisOK
    BY DEF DorisOK
  <2>4. PgOK /\ TimeOK /\ FaultsOK
    BY DEF PgOK, TimeOK, FaultsOK
  <2>5. CycleOK
    BY DEF CycleOK, RPCs
  <2>6. QED
    BY <2>1, <2>2, <2>3, <2>4, <2>5 DEF TypeInv
<1>2. QED
  BY <1>1, TypeStep, PTL DEF Spec

(***************************************************************************)
(* Type correctness: no envelope has more attempts, and no job more        *)
(* redrives, than configured (BullMQ's attempts, decideOtelRedrive).       *)
(***************************************************************************)
THEOREM TypeCorrect == Spec => []TypeOK
<1>1. TypeInv => TypeOK
  BY DEF TypeInv, QueueOK, RunsOK, DorisOK, PgOK, CycleOK, TimeOK, FaultsOK,
         TypeOK
<1>2. QED
  BY <1>1, TypeInvariant, PTL

-----------------------------------------------------------------------------
(***************************************************************************)
(* Why the label protects every load: as long as the job is under way, a   *)
(* label that is forgotten is one that is recorded as outlived; and once   *)
(* it is over, nothing is decided on any more at an age at which labels    *)
(* can have been forgotten.                                                *)
(***************************************************************************)
WaitsForLoad == \A t \in Tables : waiter[t] # NoWorker => txn[t] = "running"

LabelInv ==
  \A t \in Tables \ outlived :
    /\ commits[t] <= 1
    /\ txn[t] = "running" => commits[t] = 0
    /\ commits[t] > 0 /\ txn[t] = "free" => now > LabelKeep /\ ~ Busy

LEMMA WaitsStep ==
  ASSUME TypeInv, WaitsForLoad, [Next]_vars
  PROVE  WaitsForLoad'
<1> USE DEF TypeInv, DorisOK, WaitsForLoad
<1>1. CASE UNCHANGED doris
  BY <1>1 DEF doris
<1>2. ASSUME NEW w \in Workers, NEW t \in Tables, Load(w, t)
      PROVE  WaitsForLoad'
  BY <1>2 DEF Load
<1>3. ASSUME NEW w \in Workers, Crash(w) PROVE WaitsForLoad'
  BY <1>3 DEF Crash
<1>4. ASSUME NEW t \in Tables, Settle(t) \/ GiveUp(t) \/ ForgetLabel(t)
      PROVE  WaitsForLoad'
  BY <1>4 DEF Settle, Commit, Abort, GiveUp, ForgetLabel
<1>5. CASE Erase \/ DropTables
  BY <1>5 DEF Erase, DropTables
<1> HIDE DEF TypeInv, DorisOK, WaitsForLoad
<1>6. QED
  BY <1>1, <1>2, <1>3, <1>4, <1>5
  DEF Next, vars, Run, RedriveStep, Take, Prepare, Gate, Sessions, WriteLedger,
      MissingTable, Finish, Error, LoseLock, Requeue, ReadFailed, Decide,
      RecordPoison, Discard, RemoveForRedrive, AddAgain, CycleEnds, Tombstone,
      Tick, Tables

\* Only a decision to redrive gets a job under way again.
LEMMA BusyStep ==
  ASSUME TypeInv, WaitsForLoad, [Next]_vars, Busy', ~ Busy
  PROVE  now' = now /\ now <= AgeLimit
<1> USE DEF Busy
<1>1. ASSUME NEW w \in Workers, Run(w) \/ Error(w) \/ Crash(w) PROVE FALSE
  BY <1>1 DEF Run, Error, Crash, Take, Prepare, Load, Gate, Sessions,
    MissingTable, WriteLedger, Finish, Tables
<1>2. ASSUME LoseLock \/ Requeue PROVE FALSE
  BY <1>2 DEF LoseLock, Requeue
<1>3. ASSUME NEW t \in Tables, Settle(t) \/ GiveUp(t) PROVE FALSE
  BY <1>3 DEF Settle, Commit, Abort, GiveUp, WaitsForLoad
<1>4. ASSUME NEW t \in Tables, ForgetLabel(t) PROVE FALSE
  BY <1>4 DEF ForgetLabel, queue, runs, cycle, TypeInv, DorisOK
<1>5. ASSUME NEW r \in Redrivers, ReadFailed(r) \/ RecordPoison(r) PROVE FALSE
  BY <1>5 DEF ReadFailed, RecordPoison, GotoR, queue, runs, doris, TypeInv,
    CycleOK
<1>6. ASSUME NEW r \in Redrivers, Decide(r)
      PROVE  now' = now /\ now <= AgeLimit
  <2>1. CASE GotoR(r, "record")
    BY <1>6, <2>1 DEF Decide, GotoR, queue, runs, doris, TypeInv, CycleOK
  <2>2. CASE ~ (now > AgeLimit)
    BY <1>6, <2>2, GroupJobAssumption DEF Decide, TypeInv, TimeOK
  <2>3. QED
    BY <1>6, <2>1, <2>2 DEF Decide
<1>7. ASSUME NEW r \in Redrivers, Discard(r) PROVE FALSE
  BY <1>7 DEF Discard, Remove, GotoR, queue, runs, doris, TypeInv, CycleOK
<1>8. ASSUME NEW r \in Redrivers, RemoveForRedrive(r) \/ AddAgain(r) PROVE FALSE
  BY <1>8 DEF RemoveForRedrive, AddAgain
<1>9. ASSUME NEW r \in Redrivers, CycleEnds(r) PROVE FALSE
  BY <1>9 DEF CycleEnds, GotoR, queue, runs, doris, TypeInv, CycleOK
<1>10. ASSUME Erase \/ Tombstone \/ DropTables \/ Tick PROVE FALSE
  BY <1>10 DEF Erase, Tombstone, DropTables, Tick, queue, runs, doris, cycle
<1>11. ASSUME UNCHANGED vars PROVE FALSE
  BY <1>11 DEF vars, queue, runs, doris, cycle
<1>12. QED
  BY <1>1, <1>2, <1>3, <1>4, <1>5, <1>6, <1>7, <1>8, <1>9, <1>10, <1>11
  DEF Next, RedriveStep

\* What is outlived stays so.
LEMMA OutlivedGrows ==
  ASSUME [Next]_vars
  PROVE  outlived \subseteq outlived'
BY DEF Next, vars, Run, RedriveStep, Settle, Take, Prepare, Load, Gate,
  Sessions, WriteLedger, MissingTable, Finish, Error, Crash, LoseLock, Requeue,
  Commit, Abort, GiveUp, ForgetLabel, ReadFailed, Decide, RecordPoison, Discard,
  RemoveForRedrive, AddAgain, CycleEnds, Erase, Tombstone, DropTables, Tick,
  doris, history

\* A job that is over, past the age of a redrive, stays over.
LEMMA StaysOver ==
  ASSUME TypeInv, WaitsForLoad, [Next]_vars, now > LabelKeep, ~ Busy
  PROVE  now' > LabelKeep /\ ~ Busy'
<1>1. now' = now \/ now' = now + 1
  BY DEF Next, vars, Run, RedriveStep, Settle, Take, Prepare, Load, Gate,
    Sessions, WriteLedger, MissingTable, Finish, Error, Crash, LoseLock,
    Requeue, Commit, Abort, GiveUp, ForgetLabel, ReadFailed, Decide,
    RecordPoison, Discard, RemoveForRedrive, AddAgain, CycleEnds, Erase,
    Tombstone, DropTables, Tick
<1>2. now \in Nat /\ AgeLimit <= LabelKeep /\ AgeLimit \in Nat /\ LabelKeep \in Nat
  BY GroupJobAssumption DEF TypeInv, TimeOK
<1>3. ~ (now <= AgeLimit)
  BY <1>2
<1>4. QED
  BY <1>1, <1>2, <1>3, BusyStep

LEMMA LabelStep ==
  ASSUME TypeInv, WaitsForLoad, LabelInv, [Next]_vars
  PROVE  LabelInv'
<1> SUFFICES ASSUME NEW t \in Tables, t \notin outlived'
             PROVE  /\ commits'[t] <= 1
                    /\ txn'[t] = "running" => commits'[t] = 0
                    /\ commits'[t] > 0 /\ txn'[t] = "free"
                         => now' > LabelKeep /\ ~ Busy'
  BY DEF LabelInv
<1>1. t \notin outlived
  BY OutlivedGrows
<1>2. /\ commits[t] <= 1
      /\ txn[t] = "running" => commits[t] = 0
      /\ commits[t] > 0 /\ txn[t] = "free" => now > LabelKeep /\ ~ Busy
  BY <1>1 DEF LabelInv
<1>3. commits[t] > 0 /\ txn[t] = "free" => now' > LabelKeep /\ ~ Busy'
  BY <1>2, StaysOver
<1>4. commits[t] \in Nat /\ stamp[t] \in Nat /\ now \in Nat /\ LabelKeep \in Nat
  BY GroupJobAssumption DEF TypeInv, DorisOK, TimeOK
<1>5. CASE txn'[t] = txn[t] /\ commits'[t] = commits[t]
  BY <1>2, <1>3, <1>5
<1>6. ASSUME NEW w \in Workers, Load(w, t), txn[t] = "free",
             txn'[t] = "running", commits'[t] = commits[t]
      PROVE  commits'[t] = 0
  <2>1. Busy
    BY <1>6 DEF Busy, Load, Tables
  <2>2. QED
    BY <1>2, <1>4, <1>6, <2>1
<1>7. ASSUME NEW w \in Workers, NEW u \in Tables, Load(w, u)
      PROVE  /\ commits'[t] = commits[t]
             /\ \/ txn'[t] = txn[t]
                \/ u = t /\ txn[t] = "free" /\ txn'[t] = "running"
  BY <1>7 DEF Load, TypeInv, DorisOK
<1>8. ASSUME NEW u \in Tables, Commit(u)
      PROVE  \/ txn'[t] = txn[t] /\ commits'[t] = commits[t]
             \/ /\ txn[t] = "running" /\ txn'[t] = "visible"
                /\ commits'[t] = commits[t] + 1
  BY <1>8 DEF Commit, TypeInv, DorisOK
<1>9. ASSUME NEW u \in Tables, Abort(u)
      PROVE  /\ commits'[t] = commits[t]
             /\ \/ txn'[t] = txn[t]
                \/ txn[t] = "running" /\ txn'[t] = "free"
  BY <1>9 DEF Abort, TypeInv, DorisOK
<1>10. ASSUME NEW u \in Tables, ForgetLabel(u), txn'[t] # txn[t]
       PROVE  /\ commits'[t] = commits[t] /\ txn'[t] = "free"
              /\ now' > LabelKeep /\ ~ Busy'
  <2>1. u = t /\ txn'[t] = "free" /\ commits' = commits /\ now - stamp[t] > LabelKeep
    BY <1>10 DEF ForgetLabel, TypeInv, DorisOK
  <2>2. ~ Busy
    BY <1>10, <2>1 DEF ForgetLabel, TypeInv, DorisOK
  <2>3. now > LabelKeep
    BY <1>4, <2>1
  <2>4. QED
    BY <2>1, <2>2, <2>3, StaysOver
<1>11. ASSUME NEW u \in Tables, ForgetLabel(u) PROVE commits'[t] = commits[t]
  BY <1>11 DEF ForgetLabel
<1>12. \/ txn' = txn /\ commits' = commits
       \/ \E w \in Workers, u \in Tables : Load(w, u)
       \/ \E u \in Tables : Commit(u) \/ Abort(u) \/ ForgetLabel(u)
  BY DEF Next, vars, Run, RedriveStep, Settle, Take, Prepare, Gate, Sessions,
    WriteLedger, MissingTable, Finish, Error, Crash, LoseLock, Requeue, GiveUp,
    ReadFailed, Decide, RecordPoison, Discard, RemoveForRedrive, AddAgain,
    CycleEnds, Erase, Tombstone, DropTables, Tick, Tables, doris
<1>13. ASSUME NEW w \in Workers, NEW u \in Tables, Load(w, u)
       PROVE  /\ commits'[t] <= 1
              /\ txn'[t] = "running" => commits'[t] = 0
              /\ commits'[t] > 0 /\ txn'[t] = "free"
                   => now' > LabelKeep /\ ~ Busy'
  BY <1>2, <1>3, <1>6, <1>7, <1>13
<1>14. ASSUME NEW u \in Tables, Commit(u) \/ Abort(u) \/ ForgetLabel(u)
       PROVE  /\ commits'[t] <= 1
              /\ txn'[t] = "running" => commits'[t] = 0
              /\ commits'[t] > 0 /\ txn'[t] = "free"
                   => now' > LabelKeep /\ ~ Busy'
  BY <1>2, <1>3, <1>4, <1>8, <1>9, <1>10, <1>11, <1>14
<1>15. QED
  BY <1>5, <1>12, <1>13, <1>14

(***************************************************************************)
(* No interleaving of attempts, lost replies, stalls, crashes and redrives *)
(* loads the group twice into a table whose label was not forgotten while  *)
(* the job was under way, for any age limit up to the label's retention:   *)
(* what the two variables of env.ts that "must mirror" each other buy, and *)
(* no more.                                                                *)
(***************************************************************************)
THEOREM ExactlyOnce == Spec => []LoadedOnce
<1>1. Init => WaitsForLoad /\ LabelInv
  BY GroupJobAssumption DEF Init, WaitsForLoad, LabelInv
<1>2. TypeInv /\ WaitsForLoad /\ LabelInv /\ [Next]_vars
      => WaitsForLoad' /\ LabelInv'
  BY WaitsStep, LabelStep
<1>3. LabelInv => LoadedOnce
  BY DEF LabelInv, LoadedOnce
<1>4. QED
  BY <1>1, <1>2, <1>3, TypeInvariant, PTL DEF Spec

-----------------------------------------------------------------------------
(***************************************************************************)
(* What a run knows at each of its points.                                 *)
(***************************************************************************)
HasSpans == content \in {"both", "spansOnly"}

RunKnows(w) ==
  /\ pc[w] = "spans" => HasSpans
  /\ pc[w] \in {"gate", "scalar"} => HasSpans /\ commits["spans"] > 0
  /\ pc[w] = "scalar" => content = "both"
  /\ pc[w] \in {"sessions", "ledger"} => project = "dropped" \/ Certified

LoadKnows ==
  /\ waiter["spans"] # NoWorker => HasSpans
  /\ waiter["scalar"] # NoWorker => content = "both" /\ commits["spans"] > 0
  /\ \A t \in Tables : txn[t] = "visible" => commits[t] > 0

\* More than LedgerMeansLoaded: a tombstone alone excuses nothing.
LedgerEarned == Completed /\ project # "dropped" => Certified

LedgerInv ==
  /\ \A w \in Workers : RunKnows(w)
  /\ LoadKnows
  /\ LedgerEarned

\* Steps only ever add to what is loaded and delete the project.
Grows ==
  /\ content' = content
  /\ \A t \in Tables : commits'[t] >= commits[t] /\ commits'[t] \in Nat
  /\ project' # "dropped" => project # "dropped"

LEMMA KnowledgeGrows ==
  ASSUME TypeInv, Grows
  PROVE  /\ Certified => Certified'
         /\ commits["spans"] > 0 => commits'["spans"] > 0
         /\ HasSpans' = HasSpans
BY DEF Grows, Certified, HasSpans, Tables, TypeInv, DorisOK

LEMMA RunStays ==
  ASSUME TypeInv, Grows, NEW v \in Workers, RunKnows(v), pc'[v] = pc[v]
  PROVE  RunKnows(v)'
BY KnowledgeGrows DEF RunKnows, Grows

\* A run moves to a point whose knowledge it has; the others stay.
LEMMA RunMoves ==
  ASSUME TypeInv, Grows, \A v \in Workers : RunKnows(v),
         NEW w \in Workers, NEW label \in PCs, Goto(w, label),
         label \in {"spans", "gate", "scalar"} => HasSpans,
         label \in {"gate", "scalar"} => commits'["spans"] > 0,
         label = "scalar" => content = "both",
         label \in {"sessions", "ledger"} => project' = "dropped" \/ Certified'
  PROVE  (\A v \in Workers : RunKnows(v))'
<1> SUFFICES ASSUME NEW v \in Workers
             PROVE  RunKnows(v)'
  OBVIOUS
<1>1. CASE v = w
  <2>1. pc'[v] = label
    BY <1>1 DEF Goto, TypeInv, RunsOK
  <2>2. QED
    BY <2>1, KnowledgeGrows DEF RunKnows, Grows
<1>2. CASE v # w
  <2>1. pc'[v] = pc[v]
    BY <1>2 DEF Goto, TypeInv, RunsOK
  <2>2. QED
    BY <2>1, RunStays
<1>3. QED
  BY <1>1, <1>2

LEMMA FailsKnows ==
  ASSUME TypeInv, Grows, \A v \in Workers : RunKnows(v),
         NEW w \in Workers, Fails(w)
  PROVE  (\A v \in Workers : RunKnows(v))'
BY RunMoves DEF Fails, PCs

LEMMA AllRunsStay ==
  ASSUME TypeInv, Grows, \A v \in Workers : RunKnows(v), UNCHANGED pc
  PROVE  (\A v \in Workers : RunKnows(v))'
BY RunStays

\* Every step only adds.
LEMMA StepGrows ==
  ASSUME TypeInv, [Next]_vars
  PROVE  Grows
<1>1. \/ UNCHANGED commits
      \/ \E t \in Tables : commits' = [commits EXCEPT ![t] = @ + 1]
  BY DEF Next, vars, Run, RedriveStep, Settle, Take, Prepare, Load, Gate,
    Sessions, WriteLedger, MissingTable, Finish, Error, Crash, LoseLock,
    Requeue, Commit, Abort, GiveUp, ForgetLabel, ReadFailed, Decide,
    RecordPoison, Discard, RemoveForRedrive, AddAgain, CycleEnds, Erase,
    Tombstone, DropTables, Tick, doris, Tables
<1>2. \A t \in Tables : commits'[t] >= commits[t] /\ commits'[t] \in Nat
  BY <1>1 DEF TypeInv, DorisOK
<1>3. content' = content /\ (project' # "dropped" => project # "dropped")
  BY DEF Next, vars, Run, RedriveStep, Settle, Take, Prepare, Load, Gate,
    Sessions, WriteLedger, MissingTable, Finish, Error, Crash, LoseLock,
    Requeue, Commit, Abort, GiveUp, ForgetLabel, ReadFailed, Decide,
    RecordPoison, Discard, RemoveForRedrive, AddAgain, CycleEnds, Erase,
    Tombstone, DropTables, Tick, pg
<1>4. QED
  BY <1>2, <1>3 DEF Grows

\* What is known of the loads and of the ledger survives a step that starts
\* no load, ends none and writes no ledger.
LEMMA LoadStays ==
  ASSUME TypeInv, Grows, LoadKnows,
         \A t \in Tables : waiter'[t] # NoWorker => waiter[t] # NoWorker,
         \A t \in Tables : txn'[t] = "visible" =>
                             txn[t] = "visible" \/ commits'[t] > 0
  PROVE  LoadKnows'
BY KnowledgeGrows DEF LoadKnows, Grows, Tables, TypeInv, DorisOK

LEMMA LedgerStays ==
  ASSUME TypeInv, Grows, LedgerEarned, Completed' => Completed
  PROVE  LedgerEarned'
BY KnowledgeGrows DEF LedgerEarned, Grows

LEMMA LedgerStep ==
  ASSUME TypeInv, LedgerInv, [Next]_vars
  PROVE  LedgerInv'
<1> USE StepGrows
<1>1. ASSUME NEW w \in Workers, NEW label \in {"idle", "prepare", "done"},
             Goto(w, label)
      PROVE  (\A v \in Workers : RunKnows(v))'
  BY <1>1, RunMoves DEF LedgerInv, PCs
<1>2. UNCHANGED doris => LoadKnows'
  BY LoadStays DEF doris, LedgerInv
<1>3. UNCHANGED pg => LedgerEarned'
  BY LedgerStays DEF pg, LedgerInv, Completed
<1>4. UNCHANGED pc => (\A v \in Workers : RunKnows(v))'
  BY AllRunsStay DEF LedgerInv
<1>5. ASSUME NEW w \in Workers, Fails(w)
      PROVE  (\A v \in Workers : RunKnows(v))'
  BY <1>5, FailsKnows DEF LedgerInv
<1>6. ASSUME NEW w \in Workers, Take(w) \/ Finish(w) \/ Error(w)
      PROVE  LedgerInv'
  BY <1>1, <1>2, <1>3, <1>5, <1>6 DEF Take, Finish, Error, LedgerInv
<1>7. ASSUME NEW w \in Workers, Prepare(w) PROVE LedgerInv'
  <2>1. CASE content = "empty" /\ Goto(w, "ledger")
    <3>1. Certified'
      BY <2>1 DEF Certified, Grows
    <3>2. QED
      BY <1>2, <1>3, <1>7, <2>1, <3>1, RunMoves DEF Prepare, LedgerInv, PCs
  <2>2. CASE content \notin {"broken", "empty"} /\ Goto(w, "spans")
    <3>1. HasSpans
      BY <2>2 DEF HasSpans, TypeInv, Contents
    <3>2. QED
      BY <1>2, <1>3, <1>7, <2>2, <3>1, RunMoves DEF Prepare, LedgerInv, PCs
  <2>3. QED
    BY <1>2, <1>3, <1>5, <1>7, <2>1, <2>2 DEF Prepare, LedgerInv
<1>8. ASSUME NEW w \in Workers, NEW t \in Tables, Load(w, t) PROVE LedgerInv'
  <2>1. t = "spans" => HasSpans
    BY <1>8 DEF Load, LedgerInv, RunKnows
  <2>2. t = "scalar" => content = "both" /\ commits["spans"] > 0
    BY <1>8 DEF Load, LedgerInv, RunKnows
  <2>3. UNCHANGED <<pg, commits>>
    BY <1>8 DEF Load
  <2>4. (\A v \in Workers : RunKnows(v))'
    <3>1. CASE Goto(w, "await")
      BY <3>1, RunMoves DEF LedgerInv, PCs
    <3>2. CASE txn[t] = "visible" /\ AfterLoad(w, t, TRUE) /\ t = "spans"
      <4>1. commits'["spans"] > 0 /\ Goto(w, "gate")
        BY <2>3, <3>2 DEF AfterLoad, LedgerInv, LoadKnows, Tables
      <4>2. QED
        BY <2>1, <3>2, <4>1, RunMoves DEF LedgerInv, PCs
    <3>3. CASE txn[t] = "visible" /\ AfterLoad(w, t, TRUE) /\ t = "scalar"
      <4>1. commits["scalar"] > 0 /\ Goto(w, "sessions")
        BY <3>3 DEF AfterLoad, LedgerInv, LoadKnows, Tables
      <4>2. Certified'
        BY <2>2, <2>3, <3>3, <4>1 DEF Certified, Grows
      <4>3. QED
        BY <4>1, <4>2, RunMoves DEF LedgerInv, PCs
    <3>4. QED
      BY <1>5, <1>8, <3>1, <3>2, <3>3 DEF Load, Tables
  <2>5. LoadKnows'
    <3>1. CASE UNCHANGED <<txn, waiter>>
      BY <2>3, <3>1, LoadStays DEF LedgerInv
    <3>2. CASE /\ txn' = [txn EXCEPT ![t] = "running"]
               /\ waiter' = [waiter EXCEPT ![t] = w]
      BY <2>1, <2>2, <2>3, <3>2
      DEF LedgerInv, LoadKnows, HasSpans, Grows, TypeInv, DorisOK, Tables
    <3>3. QED
      BY <1>8, <3>1, <3>2 DEF Load
  <2>6. QED
    BY <1>3, <2>3, <2>4, <2>5 DEF LedgerInv
<1>9. ASSUME NEW w \in Workers, Gate(w) PROVE LedgerInv'
  <2>1. CASE Goto(w, "scalar") /\ content = "both"
    <3>1. HasSpans /\ commits["spans"] > 0
      BY <1>9 DEF Gate, LedgerInv, RunKnows
    <3>2. commits'["spans"] > 0
      BY <3>1, KnowledgeGrows
    <3>3. QED
      BY <1>2, <1>3, <1>9, <2>1, <3>1, <3>2, RunMoves DEF Gate, LedgerInv, PCs
  <2>2. CASE /\ Goto(w, "sessions")
             /\ Completed \/ content # "both"
    <3>1. HasSpans /\ commits["spans"] > 0
      BY <1>9 DEF Gate, LedgerInv, RunKnows
    <3>2. project = "dropped" \/ Certified
      BY <2>2, <3>1 DEF LedgerInv, LedgerEarned, Certified, HasSpans
    <3>3. project' = "dropped" \/ Certified'
      BY <3>2, KnowledgeGrows DEF Grows
    <3>4. QED
      BY <1>2, <1>3, <1>9, <2>2, <3>3, RunMoves DEF Gate, LedgerInv, PCs
  <2>3. QED
    BY <1>9, <2>1, <2>2 DEF Gate
<1>10. ASSUME NEW w \in Workers, Sessions(w) PROVE LedgerInv'
  <2>1. project = "dropped" \/ Certified
    BY <1>10 DEF Sessions, LedgerInv, RunKnows
  <2>2. project' = "dropped" \/ Certified'
    BY <2>1, KnowledgeGrows DEF Grows
  <2>3. QED
    BY <1>2, <1>3, <1>10, <2>2, RunMoves DEF Sessions, LedgerInv, PCs
<1>11. ASSUME NEW w \in Workers, WriteLedger(w) PROVE LedgerInv'
  <2>1. project = "dropped" \/ Certified
    BY <1>11 DEF WriteLedger, LedgerInv, RunKnows
  <2>2. LedgerEarned'
    BY <2>1, KnowledgeGrows DEF Grows, LedgerEarned
  <2>3. QED
    BY <1>1, <1>2, <1>5, <1>11, <2>2 DEF WriteLedger, LedgerInv
<1>12. ASSUME NEW w \in Workers, MissingTable(w) PROVE LedgerInv'
  <2>1. LedgerEarned'
    BY <1>12 DEF MissingTable, LedgerEarned
  <2>2. QED
    BY <1>1, <1>2, <1>12, <2>1 DEF MissingTable, LedgerInv
<1>13. ASSUME NEW w \in Workers, Crash(w) PROVE LedgerInv'
  <2>1. LoadKnows'
    BY <1>13, LoadStays DEF Crash, LedgerInv, TypeInv, DorisOK
  <2>2. QED
    BY <1>1, <1>3, <1>13, <2>1 DEF Crash, LedgerInv
<1>14. ASSUME NEW t \in Tables, Commit(t) PROVE LedgerInv'
  <2>1. commits'[t] > 0
    BY <1>14 DEF Commit, TypeInv, DorisOK
  <2>2. LoadKnows'
    BY <1>14, <2>1, LoadStays DEF Commit, LedgerInv, TypeInv, DorisOK
  <2>3. (\A v \in Workers : RunKnows(v))'
    <3>1. CASE waiter[t] = NoWorker
      BY <1>4, <1>14, <3>1 DEF Commit, runs
    <3>2. CASE waiter[t] # NoWorker /\ Fails(waiter[t])
      BY <1>5, <3>2 DEF TypeInv, DorisOK
    <3>3. CASE /\ waiter[t] # NoWorker
               /\ t = "spans"
               /\ Goto(waiter[t], "gate")
      BY <2>1, <3>3, RunMoves DEF LedgerInv, LoadKnows, TypeInv, DorisOK, PCs
    <3>4. CASE /\ waiter[t] # NoWorker
               /\ t = "scalar"
               /\ Goto(waiter[t], "sessions")
      <4>1. Certified'
        BY <2>1, <3>4, KnowledgeGrows
        DEF LedgerInv, LoadKnows, Certified, Grows
      <4>2. QED
        BY <3>4, <4>1, RunMoves DEF LedgerInv, TypeInv, DorisOK, PCs
    <3>5. QED
      BY <1>14, <3>1, <3>2, <3>3, <3>4 DEF Commit, AfterLoad, Tables
  <2>4. QED
    BY <1>3, <1>14, <2>2, <2>3 DEF Commit, LedgerInv
<1>15. ASSUME NEW t \in Tables, Abort(t) \/ GiveUp(t) PROVE LedgerInv'
  <2>1. LoadKnows'
    BY <1>15, LoadStays DEF Abort, GiveUp, LedgerInv, TypeInv, DorisOK
  <2>2. (\A v \in Workers : RunKnows(v))'
    BY <1>4, <1>5, <1>15 DEF Abort, GiveUp, TypeInv, DorisOK
  <2>3. QED
    BY <1>3, <1>15, <2>1, <2>2 DEF Abort, GiveUp, LedgerInv
<1>16. ASSUME NEW t \in Tables, ForgetLabel(t) PROVE LedgerInv'
  <2>1. LoadKnows'
    BY <1>16, LoadStays DEF ForgetLabel, LedgerInv, TypeInv, DorisOK
  <2>2. QED
    BY <1>3, <1>4, <1>16, <2>1 DEF ForgetLabel, LedgerInv, runs
<1>17. CASE LoseLock \/ Requeue \/ Tick \/ UNCHANGED vars
  BY <1>2, <1>3, <1>4, <1>17 DEF LoseLock, Requeue, Tick, vars, runs, LedgerInv
<1>18. ASSUME NEW r \in Redrivers, RedriveStep(r) \/ CycleEnds(r)
       PROVE  LedgerInv'
  <2>1. Completed' => Completed
    BY <1>18 DEF RedriveStep, ReadFailed, Decide, RecordPoison, Discard,
      RemoveForRedrive, AddAgain, CycleEnds, Completed, pg
  <2>2. LedgerEarned'
    BY <2>1, LedgerStays DEF LedgerInv
  <2>3. UNCHANGED <<pc, doris>>
    BY <1>18 DEF RedriveStep, ReadFailed, Decide, RecordPoison, Discard,
      RemoveForRedrive, AddAgain, CycleEnds, runs
  <2>4. QED
    BY <1>2, <1>4, <2>2, <2>3 DEF LedgerInv
<1>19. CASE Erase \/ Tombstone \/ DropTables
  <2>1. UNCHANGED <<pc, txn, waiter, commits, ledgers>>
    BY <1>19 DEF Erase, Tombstone, DropTables, runs, pg, doris
  <2>2. LoadKnows'
    BY <2>1, LoadStays DEF LedgerInv
  <2>3. LedgerEarned'
    BY <2>1, LedgerStays DEF LedgerInv, Completed
  <2>4. QED
    BY <1>4, <2>1, <2>2, <2>3 DEF LedgerInv
<1>20. QED
  BY <1>6, <1>7, <1>8, <1>9, <1>10, <1>11, <1>12, <1>13, <1>14, <1>15, <1>16,
     <1>17, <1>18, <1>19
  DEF Next, Run, Settle, Tables

(***************************************************************************)
(* The completion ledger never certifies a group of a live project whose   *)
(* spans and scalar loads did not both commit, in any order of attempts,   *)
(* lost replies, overtaken runs and redrives.                              *)
(***************************************************************************)
THEOREM LedgerCertifies == Spec => []LedgerMeansLoaded
<1>1. Init => LedgerInv
  BY DEF Init, LedgerInv, RunKnows, LoadKnows, LedgerEarned, Completed,
         Tables
<1>2. TypeInv /\ LedgerInv /\ [Next]_vars => LedgerInv'
  BY LedgerStep
<1>3. LedgerInv => LedgerMeansLoaded
  BY DEF LedgerInv, LedgerEarned, LedgerMeansLoaded
<1>4. QED
  BY <1>1, <1>2, <1>3, TypeInvariant, PTL DEF Spec
-----------------------------------------------------------------------------
(***************************************************************************)
(* What a user deleted after the group was completed.                      *)
(***************************************************************************)

\* A transaction loads what the group holds, whether or not it is awaited.
TxnKnows ==
  /\ txn["spans"] = "running" => HasSpans
  /\ txn["scalar"] = "running" => content = "both"

ErasedInv ==
  /\ TxnKnows
  /\ erased # {} => Completed
  /\ ErasedStaysErased

LEMMA TxnStep ==
  ASSUME TypeInv, LedgerInv, TxnKnows, [Next]_vars
  PROVE  TxnKnows'
<1>1. content' = content
  BY StepGrows DEF Grows
<1>2. CASE \A t \in Tables : txn'[t] = "running" => txn[t] = "running"
  BY <1>1, <1>2 DEF TxnKnows, HasSpans, Tables
<1>3. ASSUME NEW w \in Workers, Load(w, "spans") PROVE TxnKnows'
  <2>1. HasSpans
    BY <1>3 DEF Load, LedgerInv, RunKnows
  <2>2. txn'["scalar"] = txn["scalar"]
    BY <1>3 DEF Load, TypeInv, DorisOK, Tables
  <2>3. QED
    BY <1>1, <2>1, <2>2 DEF TxnKnows, HasSpans
<1>4. ASSUME NEW w \in Workers, Load(w, "scalar") PROVE TxnKnows'
  <2>1. content = "both"
    BY <1>4 DEF Load, LedgerInv, RunKnows
  <2>2. txn'["spans"] = txn["spans"]
    BY <1>4 DEF Load, TypeInv, DorisOK, Tables
  <2>3. QED
    BY <1>1, <2>1, <2>2 DEF TxnKnows, HasSpans
<1>5. ASSUME NEW t \in Tables, Settle(t) \/ GiveUp(t) \/ ForgetLabel(t)
      PROVE  TxnKnows'
  BY <1>2, <1>5
  DEF Settle, Commit, Abort, GiveUp, ForgetLabel, TypeInv, DorisOK
<1>6. CASE UNCHANGED txn
  BY <1>2, <1>6
<1>7. QED
  BY <1>3, <1>4, <1>5, <1>6
  DEF Next, vars, Run, RedriveStep, Take, Prepare, Gate, Sessions, WriteLedger,
      MissingTable, Finish, Error, Crash, LoseLock, Requeue, ReadFailed, Decide,
      RecordPoison, Discard, RemoveForRedrive, AddAgain, CycleEnds, Erase,
      Tombstone, DropTables, Tick, doris

LEMMA CompletedStays ==
  ASSUME TypeInv, [Next]_vars
  PROVE  Completed => Completed'
BY DEF Completed, Next, vars, Run, RedriveStep, Settle, Take, Prepare, Load,
  Gate, Sessions, WriteLedger, MissingTable, Finish, Error, Crash, LoseLock,
  Requeue, Commit, Abort, GiveUp, ForgetLabel, ReadFailed, Decide,
  RecordPoison, Discard, RemoveForRedrive, AddAgain, CycleEnds, Erase,
  Tombstone, DropTables, Tick, pg

\* A load that commits after the deletion would be the second of its table.
LEMMA ErasedStep ==
  ASSUME TypeInv, LabelInv, LedgerInv, ErasedInv, [Next]_vars
  PROVE  ErasedInv'
<1>1. TxnKnows'
  BY TxnStep DEF ErasedInv
<1>2. CASE UNCHANGED <<rows, erased>>
  BY <1>1, <1>2, CompletedStays, OutlivedGrows DEF ErasedInv, ErasedStaysErased
<1>3. ASSUME NEW t \in Tables, Commit(t) PROVE ErasedInv'
  <2>1. txn[t] = "running" /\ project # "dropped"
    BY <1>3 DEF Commit
  <2>2. rows' = rows \cup {t} /\ erased' = erased
    BY <1>3 DEF Commit, history
  <2>3. CASE t \in outlived
    BY <1>1, <2>2, <2>3, CompletedStays, OutlivedGrows
    DEF ErasedInv, ErasedStaysErased
  <2>4. CASE t \notin outlived
    <3>1. commits[t] = 0
      BY <2>1, <2>4 DEF LabelInv
    <3>2. ~ Certified
      BY <2>1, <3>1 DEF ErasedInv, TxnKnows, HasSpans, Certified, Tables
    <3>3. erased = {}
      BY <2>1, <3>2 DEF ErasedInv, LedgerInv, LedgerEarned
    <3>4. QED
      BY <1>1, <2>2, <3>3 DEF ErasedInv, ErasedStaysErased
  <2>5. QED
    BY <2>3, <2>4
<1>4. CASE Erase
  <2>1. rows' = {} /\ (erased' # {} => Completed)
    BY <1>4 DEF Erase, ErasedInv
  <2>2. QED
    BY <1>1, <2>1, CompletedStays DEF ErasedInv, ErasedStaysErased
<1>5. CASE DropTables
  <2>1. rows' = {} /\ erased' = erased
    BY <1>5 DEF DropTables, history
  <2>2. QED
    BY <1>1, <2>1, CompletedStays DEF ErasedInv, ErasedStaysErased
<1>6. QED
  BY <1>2, <1>3, <1>4, <1>5
  DEF Next, vars, Run, RedriveStep, Settle, Take, Prepare, Load, Gate,
      Sessions, WriteLedger, MissingTable, Finish, Error, Crash, LoseLock,
      Requeue, Abort, GiveUp, ForgetLabel, ReadFailed, Decide, RecordPoison,
      Discard, RemoveForRedrive, AddAgain, CycleEnds, Tombstone, Tick, doris,
      history

(***************************************************************************)
(* No replay, late commit or overtaken run brings back what a user deleted *)
(* after the group was completed, as long as the label of the table was    *)
(* not forgotten while the job was under way.                              *)
(***************************************************************************)
THEOREM DeletionsHold == Spec => []ErasedStaysErased
<1>1. Init => WaitsForLoad /\ LabelInv
  BY GroupJobAssumption DEF Init, WaitsForLoad, LabelInv
<1>2. Init => LedgerInv /\ ErasedInv
  BY DEF Init, LedgerInv, RunKnows, LoadKnows, LedgerEarned, Completed, Tables,
         ErasedInv, TxnKnows, ErasedStaysErased
<1>3. TypeInv /\ WaitsForLoad /\ LabelInv /\ [Next]_vars
      => WaitsForLoad' /\ LabelInv'
  BY WaitsStep, LabelStep
<1>4. TypeInv /\ LedgerInv /\ [Next]_vars => LedgerInv'
  BY LedgerStep
<1>5. /\ TypeInv /\ LabelInv /\ LedgerInv /\ ErasedInv /\ [Next]_vars
      => ErasedInv'
  BY ErasedStep
<1>6. ErasedInv => ErasedStaysErased
  BY DEF ErasedInv
<1>7. QED
  BY <1>1, <1>2, <1>3, <1>4, <1>5, <1>6, TypeInvariant, PTL DEF Spec
-----------------------------------------------------------------------------
(***************************************************************************)
(* How a job may leave the queue.                                          *)
(***************************************************************************)
LossInv ==
  /\ \A w \in Workers : pc[w] = "done" => ledgers # {}
  /\ \A r \in Redrivers : rpc[r] = "discard" => ledgers # {}
  /\ faults["cycle"] <= MaxFaults["cycle"]
  /\ NoSilentLoss

LEMMA LedgersStay ==
  ASSUME [Next]_vars
  PROVE  ledgers # {} => ledgers' # {}
BY DEF Next, vars, Run, RedriveStep, Settle, Take, Prepare, Load, Gate,
  Sessions, WriteLedger, MissingTable, Finish, Error, Crash, LoseLock, Requeue,
  Commit, Abort, GiveUp, ForgetLabel, ReadFailed, Decide, RecordPoison, Discard,
  RemoveForRedrive, AddAgain, CycleEnds, Erase, Tombstone, DropTables, Tick, pg

\* What a step may do to the faults that are left, and to a worker or a cycle
\* that is about to take the job away.
LEMMA LossFrame ==
  ASSUME TypeInv, LossInv, [Next]_vars
  PROVE  /\ \A w \in Workers : pc'[w] = "done" => ledgers' # {}
         /\ \A r \in Redrivers : rpc'[r] = "discard" => ledgers' # {}
         /\ faults'["cycle"] <= faults["cycle"]
         /\ \A r \in Redrivers : CycleEnds(r) => faults'["cycle"] < faults["cycle"]
<1>1. \A w \in Workers : pc'[w] = "done" => pc[w] = "done" \/ ledgers' # {}
  <2>1. CASE UNCHANGED pc
    BY <2>1
  <2>2. ASSUME NEW v \in Workers, WriteLedger(v) \/ MissingTable(v)
        PROVE  ledgers' # {}
    BY <2>2 DEF WriteLedger, MissingTable
  <2>3. ASSUME NEW v \in Workers, NEW label \in PCs \ {"done"}, Goto(v, label)
        PROVE  \A w \in Workers : pc'[w] = "done" => pc[w] = "done"
    BY <2>3 DEF Goto, TypeInv, RunsOK
  <2>4. ASSUME NEW v \in Workers, Take(v) \/ Prepare(v) \/ Gate(v)
                 \/ Sessions(v) \/ Finish(v) \/ Error(v) \/ Crash(v)
        PROVE  \E label \in PCs \ {"done"} : Goto(v, label)
    BY <2>4 DEF Take, Prepare, Gate, Sessions, Finish, Error, Crash, Fails, PCs
  <2>5. ASSUME NEW v \in Workers, NEW t \in Tables, Load(v, t)
        PROVE  \E label \in PCs \ {"done"} : Goto(v, label)
    BY <2>5 DEF Load, AfterLoad, Fails, PCs
  <2>6. ASSUME NEW t \in Tables, Settle(t) \/ GiveUp(t)
        PROVE  \/ UNCHANGED pc
               \/ \E v \in Workers, label \in PCs \ {"done"} : Goto(v, label)
    BY <2>6
    DEF Settle, Commit, Abort, GiveUp, AfterLoad, Fails, PCs, runs, TypeInv,
        DorisOK
  <2>7. QED
    BY <2>1, <2>2, <2>3, <2>4, <2>5, <2>6
    DEF Next, vars, Run, RedriveStep, LoseLock, Requeue, ForgetLabel,
        ReadFailed, Decide, RecordPoison, Discard, RemoveForRedrive, AddAgain,
        CycleEnds, Erase, Tombstone, DropTables, Tick, runs, Tables
<1>2. \A r \in Redrivers : rpc'[r] = "discard" =>
                              rpc[r] = "discard" \/ ledgers' # {}
  <2>1. CASE UNCHANGED rpc
    BY <2>1
  <2>2. ASSUME NEW q \in Redrivers, NEW label \in RPCs \ {"discard"},
               GotoR(q, label)
        PROVE  \A r \in Redrivers : rpc'[r] = "discard" => rpc[r] = "discard"
    BY <2>2 DEF GotoR, TypeInv, CycleOK
  <2>3. ASSUME NEW q \in Redrivers, RedriveStep(q) \/ CycleEnds(q)
        PROVE  \/ ledgers' # {}
               \/ \E label \in RPCs \ {"discard"} : GotoR(q, label)
    BY <2>3
    DEF RedriveStep, ReadFailed, Decide, RecordPoison, Discard,
        RemoveForRedrive, AddAgain, CycleEnds, RPCs
  <2>4. QED
    BY <2>1, <2>2, <2>3
    DEF Next, vars, Run, Settle, Take, Prepare, Load, Gate, Sessions,
        WriteLedger, MissingTable, Finish, Error, Crash, LoseLock, Requeue,
        Commit, Abort, GiveUp, ForgetLabel, Erase, Tombstone, DropTables, Tick,
        cycle
<1>3. /\ faults'["cycle"] <= faults["cycle"]
      /\ \A r \in Redrivers : CycleEnds(r) => faults'["cycle"] < faults["cycle"]
  <2>1. faults \in [FaultKinds -> Nat] /\ "cycle" \in FaultKinds
    BY DEF TypeInv, FaultsOK, FaultKinds
  <2>2. ASSUME NEW kind \in FaultKinds, Spend(kind)
        PROVE  /\ faults'["cycle"] <= faults["cycle"]
               /\ kind = "cycle" => faults'["cycle"] < faults["cycle"]
    BY <2>1, <2>2 DEF Spend
  <2>3. UNCHANGED faults \/ \E kind \in FaultKinds : Spend(kind)
    BY DEF Next, vars, Run, RedriveStep, Settle, Take, Prepare, Load, Gate,
      Sessions, WriteLedger, MissingTable, Finish, Error, Crash, LoseLock,
      Requeue, Commit, Abort, GiveUp, ForgetLabel, ReadFailed, Decide,
      RecordPoison, Discard, RemoveForRedrive, AddAgain, CycleEnds, Erase,
      Tombstone, DropTables, Tick, FaultKinds
  <2>4. QED
    BY <2>1, <2>2, <2>3 DEF CycleEnds
<1>4. QED
  BY <1>1, <1>2, <1>3, LedgersStay DEF LossInv

LEMMA LossStep ==
  ASSUME TypeInv, LossInv, [Next]_vars
  PROVE  LossInv'
<1>1. faults["cycle"] \in Nat /\ faults'["cycle"] \in Nat
      /\ MaxFaults["cycle"] \in Nat
  <2>1. TypeInv'
    BY TypeStep
  <2>2. QED
    BY <2>1, GroupJobAssumption DEF TypeInv, FaultsOK, FaultKinds
<1>2. /\ faults'["cycle"] <= MaxFaults["cycle"]
      /\ faults'["cycle"] = MaxFaults["cycle"] =>
           faults["cycle"] = MaxFaults["cycle"]
  BY <1>1, LossFrame DEF LossInv
<1>3. CASE ledgers' # {}
  BY <1>2, <1>3, LossFrame DEF LossInv, NoSilentLoss, CycleEnded
<1>4. CASE job' # "none"
  BY <1>2, <1>4, LossFrame DEF LossInv, NoSilentLoss, CycleEnded
<1>5. CASE ledgers' = {} /\ UNCHANGED <<job, rpc>>
  BY <1>2, <1>5, LossFrame, LedgersStay DEF LossInv, NoSilentLoss, CycleEnded
<1>6. ASSUME NEW r \in Redrivers, CycleEnds(r) PROVE LossInv'
  <2>1. faults'["cycle"] # MaxFaults["cycle"]
    BY <1>1, <1>6, LossFrame DEF LossInv
  <2>2. QED
    BY <1>2, <2>1, LossFrame DEF LossInv, NoSilentLoss, CycleEnded
<1>7. ASSUME NEW r \in Redrivers, RedriveStep(r), ledgers' = {}, job' = "none"
      PROVE  LossInv'
  <2>1. ledgers = {}
    BY <1>7, LedgersStay
  <2>2. CASE GotoR(r, "add")
    BY <1>2, <2>2, LossFrame
    DEF LossInv, NoSilentLoss, CycleEnded, GotoR, TypeInv, CycleOK
  <2>3. CASE /\ UNCHANGED job
             /\ \A q \in Redrivers : rpc[q] = "add" => rpc'[q] = "add"
    BY <1>2, <1>7, <2>1, <2>3, LossFrame DEF LossInv, NoSilentLoss, CycleEnded
  <2>4. ~ Discard(r)
    BY <2>1 DEF Discard, LossInv
  <2>5. ~ AddAgain(r)
    BY <1>7 DEF AddAgain
  <2>6. ASSUME ReadFailed(r) \/ Decide(r) \/ RecordPoison(r)
               \/ (RemoveForRedrive(r) /\ ~ GotoR(r, "add"))
        PROVE  /\ UNCHANGED job
               /\ \A q \in Redrivers : rpc[q] = "add" => rpc'[q] = "add"
    BY <2>6
    DEF ReadFailed, Decide, RecordPoison, RemoveForRedrive, GotoR, queue,
        TypeInv, CycleOK
  <2>7. QED
    BY <1>7, <2>2, <2>3, <2>4, <2>5, <2>6 DEF RedriveStep
<1>8. ASSUME NEW w \in Workers, Finish(w) PROVE ledgers' # {}
  BY <1>8, LedgersStay DEF Finish, LossInv
<1>9. ASSUME \/ \E w \in Workers : Run(w) \/ Error(w) \/ Crash(w)
             \/ LoseLock \/ Requeue
             \/ \E t \in Tables : Settle(t) \/ GiveUp(t) \/ ForgetLabel(t)
             \/ Erase \/ Tombstone \/ DropTables \/ Tick \/ UNCHANGED vars
      PROVE  /\ UNCHANGED rpc
             /\ UNCHANGED job \/ job' # "none" \/ \E w \in Workers : Finish(w)
  BY <1>9
  DEF vars, Run, Settle, Take, Prepare, Load, Gate, Sessions, WriteLedger,
      MissingTable, Error, Crash, LoseLock, Requeue, Commit, Abort, GiveUp,
      ForgetLabel, Erase, Tombstone, DropTables, Tick, Fails, queue, cycle,
      Finish
<1>10. QED
  BY <1>3, <1>4, <1>5, <1>6, <1>7, <1>8, <1>9 DEF Next

(***************************************************************************)
(* A job leaves the queue with the group in a ledger, or into the hands of *)
(* a redrive cycle that will add it again, for any number of workers and   *)
(* cycles.                                                                 *)
(***************************************************************************)
THEOREM LossesAreRecorded == Spec => []NoSilentLoss
<1>1. Init => LossInv
  BY GroupJobAssumption DEF Init, LossInv, NoSilentLoss, CycleEnded, FaultKinds
<1>2. TypeInv /\ LossInv /\ [Next]_vars => LossInv'
  BY LossStep
<1>3. LossInv => NoSilentLoss
  BY DEF LossInv
<1>4. QED
  BY <1>1, <1>2, <1>3, TypeInvariant, PTL DEF Spec
=============================================================================
