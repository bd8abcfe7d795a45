-------------------------- MODULE SplitTables_proofs --------------------------
(***************************************************************************)
(* Theorems about SplitTables, for any number of requests, refreshes and   *)
(* attempts, any retentions and any budget of faults.                      *)
(***************************************************************************)
EXTENDS SplitTables, TLAPS

-----------------------------------------------------------------------------
(***************************************************************************)
(* The type invariant by groups of variables.  A job that is not done for  *)
(* good has an attempt left, and runs whenever the worker is busy.         *)
(***************************************************************************)
WebSteps == {"start", "racing", "enqueue", "done"}
CleanSteps == {"idle", "row", "refresh", "spans", "scalar", "project"}
Marks == {"overlap", "ignored", "unqueued", "overtaken"}

ProjectOK ==
  /\ project \in {"live", "tombstone", "gone"}
  /\ row \in Rows
  /\ retention \in Retentions
  /\ past \subseteq Marks
  /\ events \in [EventKinds -> Nat]

DorisOK ==
  /\ exist \subseteq Tables
  /\ ttl \in [Tables -> Retentions]
  /\ mv \in {"absent", "building", "finished", "cancelled"}

QueueOK ==
  /\ job \in {"none", "waiting", "active", "failed"}
  /\ attempts \in 0..MaxAttempts
  /\ job \in {"waiting", "active"} => attempts < MaxAttempts
  /\ pc["worker"] # "idle" => job = "active"

RunsOK ==
  /\ pc \in [Provisioners -> Steps]
  /\ kept \in [Provisioners -> Retentions]

UsersOK ==
  /\ web \in WebSteps
  /\ req \in [Requests -> {"idle", "look", "create", "enqueue"}]
  /\ setter \in {"idle", "enqueue"}
  /\ cleaning \in [Cleaners -> CleanSteps]

MemoryOK ==
  /\ cache \in Rows
  /\ reads \in [Refreshes -> Rows \cup {"idle"}]
  /\ lane \in {"unknown", "ready"}

TypeInv == ProjectOK /\ DorisOK /\ QueueOK /\ RunsOK /\ UsersOK /\ MemoryOK

LEMMA TypeParts == TypeInv => TypeOK
BY DEF TypeInv, ProjectOK, DorisOK, QueueOK, RunsOK, UsersOK, MemoryOK, TypeOK,
   WebSteps, CleanSteps, Marks

\* A group of variables that a step leaves alone keeps its type.
LEMMA Frames ==
  ASSUME TypeInv
  PROVE  /\ UNCHANGED <<project, row, retention, past, events>> => ProjectOK'
         /\ UNCHANGED doris => DorisOK'
         /\ UNCHANGED <<queue, pc>> => QueueOK'
         /\ UNCHANGED <<pc, kept>> => RunsOK'
         /\ UNCHANGED <<users, cleaning>> => UsersOK'
         /\ UNCHANGED memory => MemoryOK'
BY DEF TypeInv, ProjectOK, DorisOK, QueueOK, RunsOK, UsersOK, MemoryOK, doris, queue, users,
   memory

LEMMA TypeInit == Init => TypeInv
<1> SUFFICES ASSUME Init PROVE TypeInv
  OBVIOUS
<1>1. ProjectOK
  BY SplitTablesAssumption DEF Init, ProjectOK, Rows
<1>2. DorisOK
  BY DEF Init, DorisOK
<1>3. QueueOK
  BY SplitTablesAssumption DEF Init, QueueOK, Provisioners
<1>4. RunsOK
  BY DEF Init, RunsOK, Steps
<1>5. UsersOK
  <2>1. web \in WebSteps
    BY DEF Init, WebSteps
  <2>2. QED
    BY <2>1 DEF Init, UsersOK, CleanSteps
<1>6. MemoryOK
  BY DEF Init, MemoryOK, Rows
<1>7. QED
  BY <1>1, <1>2, <1>3, <1>4, <1>5, <1>6 DEF TypeInv

LEMMA SpendType ==
  ASSUME TypeInv, NEW kind, Spend(kind)
  PROVE  events' \in [EventKinds -> Nat]
<1>1. events \in [EventKinds -> Nat] /\ events' = [events EXCEPT ![kind] = @ - 1]
  BY DEF Spend, TypeInv, ProjectOK
<1>2. \A k \in EventKinds : k = kind => events[k] - 1 \in Nat
  BY <1>1 DEF Spend
<1>3. QED
  BY <1>1, <1>2

LEMMA EnqueueType ==
  ASSUME TypeInv, Enqueue \/ UNCHANGED queue, pc' = pc
  PROVE  QueueOK'
BY SplitTablesAssumption DEF Enqueue, queue, TypeInv, QueueOK

LEMMA TryEnqueueType ==
  ASSUME TypeInv, TryEnqueue, pc' = pc
  PROVE  /\ QueueOK'
         /\ events' \in [EventKinds -> Nat]
         /\ past' \subseteq Marks
<1>1. (Enqueue \/ UNCHANGED queue) /\ (UNCHANGED events \/ Spend("lost"))
  BY DEF TryEnqueue
<1>2. events' \in [EventKinds -> Nat]
  BY <1>1, SpendType DEF TypeInv, ProjectOK
<1>3. past' \subseteq Marks
  BY DEF TryEnqueue, TypeInv, ProjectOK, Marks
<1>4. QED
  BY <1>1, <1>2, <1>3, EnqueueType

\* The creation of the project, its uploads and its settings.
LEMMA UserType ==
  ASSUME TypeInv,
         \/ CreateProject \/ InlineTimeout \/ Fallback \/ ChangeRetention \/ EnqueueForRetention
         \/ \E q \in Requests : Accept(q) \/ Serve(q)
  PROVE  TypeInv'
<1>1. CASE CreateProject
  BY <1>1, Frames DEF CreateProject, TypeInv, ProjectOK, RunsOK, QueueOK, UsersOK, Rows, Steps,
     WebSteps, Provisioners, queue
<1>2. CASE InlineTimeout
  BY <1>2, Frames, SpendType DEF InlineTimeout, TypeInv, ProjectOK, UsersOK, WebSteps
<1>3. CASE Fallback
  BY <1>3, Frames, TryEnqueueType DEF Fallback, TypeInv, ProjectOK, UsersOK, WebSteps
<1>4. CASE ChangeRetention
  BY <1>4, Frames, SpendType DEF ChangeRetention, TypeInv, ProjectOK, UsersOK
<1>5. CASE EnqueueForRetention
  <2>1. (Enqueue \/ UNCHANGED queue) /\ events' \in [EventKinds -> Nat]
    BY <1>5, SpendType DEF EnqueueForRetention, TypeInv, ProjectOK
  <2>2. past' \subseteq Marks
    BY <1>5 DEF EnqueueForRetention, TypeInv, ProjectOK, Marks
  <2>3. QED
    BY <1>5, <2>1, <2>2, Frames, EnqueueType DEF EnqueueForRetention, TypeInv, ProjectOK, UsersOK
<1>6. ASSUME NEW q \in Requests, Accept(q) \/ Serve(q) PROVE TypeInv'
  <2>1. UsersOK'
    BY <1>6 DEF Accept, Serve, Look, CreateRow, EnqueueForRow, GotoReq, TypeInv, UsersOK
  <2>2. CASE EnqueueForRow(q)
    BY <2>1, <2>2, Frames, TryEnqueueType DEF EnqueueForRow, TypeInv, ProjectOK
  <2>3. CASE Accept(q) \/ Look(q) \/ CreateRow(q)
    BY <2>1, <2>3, Frames DEF Accept, Look, CreateRow, TypeInv, ProjectOK, Rows
  <2>4. QED
    BY <1>6, <2>2, <2>3 DEF Serve
<1>7. QED
  BY <1>1, <1>2, <1>3, <1>4, <1>5, <1>6

\* How a step of provisioning ends.
LEMMA EndsType ==
  ASSUME TypeInv, NEW p \in Provisioners, pc[p] # "idle",
         Fails(p) \/ Succeeds(p) \/ \E s \in Steps : Proceeds(p, s)
  PROVE  /\ QueueOK' /\ pc' \in [Provisioners -> Steps] /\ web' \in WebSteps
<1>1. pc' \in [Provisioners -> Steps] /\ web' \in WebSteps
  BY DEF Fails, Succeeds, Proceeds, Goto, TypeInv, RunsOK, UsersOK, Steps, WebSteps
<1>2. ASSUME p = "worker" PROVE QueueOK'
  <2>1. /\ job = "active" /\ attempts < MaxAttempts
        /\ attempts \in 0..MaxAttempts /\ attempts + 1 \in 0..MaxAttempts
    BY <1>2, SplitTablesAssumption DEF TypeInv, QueueOK
  <2>2. CASE Fails(p)
    <3>1. pc'["worker"] = "idle"
      BY <1>2, <2>2 DEF Fails, Goto, TypeInv, RunsOK
    <3>2. attempts' = attempts + 1 /\ job' = IF attempts' < MaxAttempts THEN "waiting" ELSE "failed"
      BY <1>2, <2>2 DEF Fails
    <3>3. QED
      BY <2>1, <3>1, <3>2 DEF QueueOK
  <2>3. CASE Succeeds(p)
    <3>1. pc'["worker"] = "idle"
      BY <1>2, <2>3 DEF Succeeds, Goto, TypeInv, RunsOK
    <3>2. QED
      BY <1>2, <2>1, <2>3, <3>1 DEF Succeeds, QueueOK
  <2>4. CASE \E s \in Steps : Proceeds(p, s)
    <3>1. UNCHANGED queue
      BY <2>4 DEF Proceeds
    <3>2. QED
      BY <2>1, <3>1 DEF queue, QueueOK
  <2>5. QED
    BY <2>2, <2>3, <2>4
<1>3. ASSUME p # "worker" PROVE QueueOK'
  <2>1. UNCHANGED queue /\ pc'["worker"] = pc["worker"]
    BY <1>3 DEF Fails, Succeeds, Proceeds, Goto, TypeInv, RunsOK, Provisioners
  <2>2. QED
    BY <2>1 DEF queue, TypeInv, QueueOK
<1>4. QED
  BY <1>1, <1>2, <1>3

\* What each step of provisioning does to the control row and the tables.
LEMMA ProvisionStep ==
  ASSUME TypeInv, NEW p \in Provisioners, Provision(p) \/ Error(p)
  PROVE  /\ pc[p] # "idle"
         /\ Fails(p) \/ Succeeds(p) \/ \E s \in Steps : Proceeds(p, s)
         /\ UNCHANGED <<project, retention, req, setter, cleaning, memory, past>>
<1>1. pc[p] # "idle" /\ UNCHANGED <<project, retention, req, setter, cleaning, memory, past>>
  BY DEF Provision, Error, ReadRetention, Create, Alter, ReadMv, CreateMv, Check, Flip, Control
<1>2. Fails(p) \/ Succeeds(p) \/ \E s \in Steps : Proceeds(p, s)
  BY DEF Provision, Error, ReadRetention, Create, Alter, ReadMv, CreateMv, Check, Flip, Control,
     Steps
<1>3. QED
  BY <1>1, <1>2

LEMMA ProvisionType ==
  ASSUME TypeInv, NEW p \in Provisioners, Provision(p) \/ Error(p)
  PROVE  TypeInv'
<1>1. QueueOK' /\ pc' \in [Provisioners -> Steps] /\ web' \in WebSteps
  BY ProvisionStep, EndsType
<1>2. UNCHANGED <<project, retention, req, setter, cleaning, memory, past>>
  BY ProvisionStep
<1>3. kept' \in [Provisioners -> Retentions]
  BY DEF Provision, Error, ReadRetention, Create, Alter, ReadMv, CreateMv, Check, Flip, Control,
     TypeInv, ProjectOK, RunsOK
<1>4. row' \in Rows /\ events' \in [EventKinds -> Nat]
  BY SpendType DEF Provision, Error, ReadRetention, Create, Alter, ReadMv, CreateMv, Check, Flip,
     Control, TypeInv, ProjectOK, Rows
<1>5. DorisOK'
  <2>1. \A t \in Tables : \A s, next : Create(p, t, s, next) => DorisOK'
    BY DEF Create, TypeInv, DorisOK, RunsOK
  <2>2. \A t \in Tables : \A s, next : Alter(p, t, s, next) => DorisOK'
    BY DEF Alter, TypeInv, DorisOK, RunsOK
  <2>3. CreateMv(p) => DorisOK'
    BY DEF CreateMv, TypeInv, DorisOK
  <2>4. ReadRetention(p) \/ ReadMv(p) \/ Check(p) \/ Flip(p) \/ Control \/ Error(p) => DorisOK'
    BY Frames DEF ReadRetention, ReadMv, Check, Flip, Control, Error
  <2>5. "spans" \in Tables /\ "scalar" \in Tables
    BY DEF Tables
  <2>6. QED
    BY <2>1, <2>2, <2>3, <2>4, <2>5 DEF Provision
<1>6. MemoryOK' /\ UsersOK' /\ ProjectOK' /\ RunsOK'
  BY <1>1, <1>2, <1>3, <1>4, Frames DEF TypeInv, UsersOK, ProjectOK, RunsOK
<1>7. QED
  BY <1>1, <1>5, <1>6 DEF TypeInv

\* The queue, the database, the snapshot and the grouper.
LEMMA WorkerType ==
  ASSUME TypeInv,
         \/ TakeJob \/ Crash \/ BuildMv \/ Probe
         \/ \E i \in Refreshes : StartRead(i) \/ Swap(i)
  PROVE  TypeInv'
<1>1. CASE TakeJob
  <2>1. QueueOK' /\ RunsOK'
    BY <1>1 DEF TakeJob, Goto, TypeInv, QueueOK, RunsOK, Steps, Provisioners
  <2>2. QED
    BY <1>1, <2>1, Frames DEF TakeJob, TypeInv
<1>2. CASE Crash
  <2>1. QueueOK' /\ RunsOK'
    BY <1>2 DEF Crash, Goto, TypeInv, QueueOK, RunsOK, Steps, Provisioners
  <2>2. ProjectOK'
    BY <1>2, SpendType DEF Crash, TypeInv, ProjectOK
  <2>3. QED
    BY <1>2, <2>1, <2>2, Frames DEF Crash, TypeInv
<1>3. CASE BuildMv
  <2>1. DorisOK'
    BY <1>3 DEF BuildMv, TypeInv, DorisOK
  <2>2. ProjectOK'
    BY <1>3, SpendType DEF BuildMv, TypeInv, ProjectOK
  <2>3. QED
    BY <1>3, <2>1, <2>2, Frames DEF BuildMv, TypeInv
<1>4. CASE Probe
  <2>1. QueueOK' /\ ProjectOK'
    BY <1>4, Frames, TryEnqueueType DEF Probe, TypeInv, ProjectOK
  <2>2. MemoryOK'
    BY <1>4 DEF Probe, TypeInv, MemoryOK
  <2>3. QED
    BY <1>4, <2>1, <2>2, Frames DEF Probe, TypeInv
<1>5. ASSUME NEW i \in Refreshes, StartRead(i) \/ Swap(i) PROVE TypeInv'
  <2>1. MemoryOK'
    BY <1>5 DEF StartRead, Swap, TypeInv, MemoryOK, ProjectOK
  <2>2. ProjectOK'
    BY <1>5, SpendType DEF StartRead, Swap, TypeInv, ProjectOK
  <2>3. QED
    BY <1>5, <2>1, <2>2, Frames DEF StartRead, Swap, TypeInv
<1>6. QED
  BY <1>1, <1>2, <1>3, <1>4, <1>5

LEMMA NextCleanType ==
  ASSUME NEW c \in Cleaners, NEW step \in CleanSteps \ {"project"}
  PROVE  NextClean(c, step) \in CleanSteps
BY DEF NextClean, CleanSteps

LEMMA CleanType ==
  ASSUME TypeInv,
         \/ Tombstone \/ FindTombstone
         \/ \E c \in Cleaners : Clean(c) \/ CleanError(c)
  PROVE  TypeInv'
<1>1. \A c \in Cleaners, step \in CleanSteps \ {"project"} :
        Cleans(c, step) => cleaning' \in [Cleaners -> CleanSteps]
  BY NextCleanType DEF Cleans, TypeInv, UsersOK
<1>2. \A c \in Cleaners : NextClean(c, "idle") \in CleanSteps
  BY NextCleanType DEF CleanSteps
<1>3. CASE Tombstone
  BY <1>2, <1>3, Frames, SpendType DEF Tombstone, TypeInv, ProjectOK, UsersOK, users, Cleaners
<1>4. CASE FindTombstone
  BY <1>1, <1>4, Frames DEF FindTombstone, TypeInv, UsersOK, users, Cleaners, CleanSteps
<1>5. ASSUME NEW c \in Cleaners, Clean(c) \/ CleanError(c) PROVE TypeInv'
  <2>1. cleaning' \in [Cleaners -> CleanSteps]
    BY <1>1, <1>2, <1>5 DEF Clean, CleanRow, CleanRefresh, CleanTable, CleanProject, CleanError,
       CleanSteps, TypeInv, UsersOK
  <2>2. UsersOK'
    BY <1>5, <2>1 DEF Clean, CleanRow, CleanRefresh, CleanTable, CleanProject, CleanError,
       TypeInv, UsersOK, users
  <2>3. ProjectOK'
    BY <1>5, SpendType DEF Clean, CleanRow, CleanRefresh, CleanTable, CleanProject, CleanError,
       TypeInv, ProjectOK, Rows, Marks
  <2>4. DorisOK'
    BY <1>5 DEF Clean, CleanRow, CleanRefresh, CleanTable, CleanProject, CleanError,
       TypeInv, DorisOK, doris
  <2>5. MemoryOK'
    BY <1>5 DEF Clean, CleanRow, CleanRefresh, CleanTable, CleanProject, CleanError,
       TypeInv, MemoryOK, ProjectOK, memory
  <2>6. QueueOK' /\ RunsOK'
    BY <1>5, Frames DEF Clean, CleanRow, CleanRefresh, CleanTable, CleanProject, CleanError
  <2>7. QED
    BY <2>2, <2>3, <2>4, <2>5, <2>6 DEF TypeInv
<1>6. QED
  BY <1>3, <1>4, <1>5

LEMMA TypeStep == TypeInv /\ [Next]_vars => TypeInv'
<1> SUFFICES ASSUME TypeInv, [Next]_vars PROVE TypeInv'
  OBVIOUS
<1>1. CASE UNCHANGED vars
  BY <1>1, Frames DEF vars, doris, queue, users, memory, TypeInv
<1>2. QED
  BY <1>1, UserType, ProvisionType, WorkerType, CleanType DEF Next

\* Every variable keeps its type; no job runs more often than its attempts allow.
THEOREM TypeCorrect == Spec => []TypeOK
BY TypeInit, TypeStep, TypeParts, PTL DEF Spec

-----------------------------------------------------------------------------
(***************************************************************************)
(* The gates of a live project: nothing is cleaned before the project is   *)
(* deleted, so tables that exist go on existing, and so does a built view. *)
(***************************************************************************)
CleansDeleted == project = "live" => \A c \in Cleaners : cleaning[c] = "idle"
FlipsBuilt ==
  project = "live" => \A p \in Provisioners : pc[p] = "flip" => exist = Tables

GateInv == CleansDeleted /\ FlipsBuilt /\ FlipGate /\ ReadyMeansBuilt

\* Steps that are not of the deletion leave cleaners alone.
LEMMA OthersDoNotClean ==
  ASSUME [Next]_vars
  PROVE  \/ UNCHANGED <<project, cleaning>>
         \/ Tombstone \/ FindTombstone \/ \E c \in Cleaners : Clean(c) \/ CleanError(c)
BY DEF Next, vars, CreateProject, InlineTimeout, Fallback, Accept, Serve, Look, CreateRow,
   EnqueueForRow, ChangeRetention, EnqueueForRetention, TakeJob, Crash, BuildMv, Provision,
   ReadRetention, Create, Alter, ReadMv, CreateMv, Check, Flip, Control, Error, StartRead, Swap,
   Probe

LEMMA CleansStep == TypeInv /\ CleansDeleted /\ [Next]_vars => CleansDeleted'
<1> SUFFICES ASSUME TypeInv, CleansDeleted, [Next]_vars PROVE CleansDeleted'
  OBVIOUS
<1>1. CASE UNCHANGED <<project, cleaning>>
  BY <1>1 DEF CleansDeleted
<1>2. CASE \E c \in Cleaners : Clean(c) \/ CleanError(c)
  <2>1. PICK c \in Cleaners : cleaning[c] # "idle" /\ (project' = project \/ project' = "gone")
    BY <1>2 DEF Clean, CleanRow, CleanRefresh, CleanTable, CleanProject, CleanError, Cleans,
       Cleaners
  <2>2. QED
    BY <2>1 DEF CleansDeleted
<1>3. CASE Tombstone \/ FindTombstone
  BY <1>3 DEF Tombstone, FindTombstone, CleansDeleted
<1>4. QED
  BY <1>1, <1>2, <1>3, OthersDoNotClean

\* While the project is live tables are made, and none is dropped.
LEMMA TablesStay ==
  ASSUME TypeInv, CleansDeleted, [Next]_vars, project' = "live"
  PROVE  /\ project = "live"
         /\ exist \subseteq exist'
         /\ mv = "finished" => mv' = "finished"
<1>1. project = "live"
  BY DEF Next, vars, CreateProject, InlineTimeout, Fallback, Accept, Serve, Look, CreateRow,
     EnqueueForRow, ChangeRetention, EnqueueForRetention, TakeJob, Crash, BuildMv, Provision,
     ReadRetention, Create, Alter, ReadMv, CreateMv, Check, Flip, Control, Error, StartRead,
     Swap, Probe, Tombstone, FindTombstone, Clean, CleanRow, CleanRefresh, CleanTable,
     CleanProject, CleanError
<1>2. \A c \in Cleaners : ~Clean(c)
  BY <1>1 DEF CleansDeleted, Clean, CleanRow, CleanRefresh, CleanTable, CleanProject, Cleans,
     Cleaners
<1>3. QED
  BY <1>1, <1>2 DEF Next, vars, doris, CreateProject, InlineTimeout, Fallback, Accept, Serve,
     Look, CreateRow, EnqueueForRow, ChangeRetention, EnqueueForRetention, TakeJob, Crash,
     BuildMv, Provision, ReadRetention, Create, Alter, ReadMv, CreateMv, Check, Flip, Control,
     Error, StartRead, Swap, Probe, Tombstone, FindTombstone, CleanError

\* A provisioner that is about to flip the row has checked the tables.
LEMMA FlipsStep ==
  ASSUME TypeInv, GateInv, [Next]_vars
  PROVE  FlipsBuilt'
<1> SUFFICES ASSUME project' = "live", NEW p \in Provisioners, pc'[p] = "flip"
             PROVE  exist' = Tables
  BY DEF FlipsBuilt
<1>1. exist \subseteq exist' /\ exist' \subseteq Tables /\ project = "live"
  BY TablesStay, TypeStep DEF GateInv, TypeInv, DorisOK
<1>2. CASE pc[p] = "flip"
  BY <1>1, <1>2 DEF GateInv, FlipsBuilt
<1>3. CASE pc[p] # "flip"
  <2>1. Check(p) /\ exist = Tables
    <3>1. PICK q \in Provisioners : Provision(q)
      BY <1>3 DEF Next, vars, CreateProject, InlineTimeout, Fallback, Accept, Serve, Look,
         CreateRow, EnqueueForRow, ChangeRetention, EnqueueForRetention, TakeJob, Crash, BuildMv,
         Error, Fails, Goto, StartRead, Swap, Probe, Tombstone, FindTombstone, Clean, CleanRow,
         CleanRefresh, CleanTable, CleanProject, CleanError, TypeInv, RunsOK, Provisioners
    <3>2. p = q
      BY <1>3, <3>1 DEF Provision, ReadRetention, Create, Alter, ReadMv, CreateMv, Check, Flip,
         Control, Fails, Succeeds, Proceeds, Goto, TypeInv, RunsOK
    <3>3. QED
      BY <1>3, <3>1, <3>2 DEF Provision, ReadRetention, Create, Alter, ReadMv, CreateMv, Check,
         Flip, Control, Fails, Succeeds, Proceeds, Goto, TypeInv, RunsOK
  <2>2. QED
    BY <1>1, <2>1
<1>4. QED
  BY <1>2, <1>3

LEMMA GateStep == TypeInv /\ GateInv /\ [Next]_vars => GateInv'
<1> SUFFICES ASSUME TypeInv, GateInv, [Next]_vars PROVE GateInv'
  OBVIOUS
<1>1. CleansDeleted' /\ FlipsBuilt'
  BY CleansStep, FlipsStep DEF GateInv
<1>2. project' = "live" => /\ project = "live"
                           /\ exist = Tables => exist' = Tables
                           /\ mv = "finished" => mv' = "finished"
  BY TablesStay, TypeStep DEF GateInv, TypeInv, DorisOK
<1>3. FlipGate'
  <2>1. row' = "live" => row = "live" \/ \E p \in Provisioners : pc[p] = "flip"
    BY DEF Next, vars, CreateProject, InlineTimeout, Fallback, Accept, Serve, Look, CreateRow,
       EnqueueForRow, ChangeRetention, EnqueueForRetention, TakeJob, Crash, BuildMv, Provision,
       ReadRetention, Create, Alter, ReadMv, CreateMv, Check, Flip, Control, Error, StartRead,
       Swap, Probe, Tombstone, FindTombstone, Clean, CleanRow, CleanRefresh, CleanTable,
       CleanProject, CleanError
  <2>2. QED
    BY <1>2, <2>1 DEF GateInv, FlipsBuilt, FlipGate
<1>4. ReadyMeansBuilt'
  <2>1. lane' = "ready" => lane = "ready" \/ (exist = Tables /\ mv = "finished")
    BY DEF Next, vars, memory, CreateProject, InlineTimeout, Fallback, Accept, Serve, Look,
       CreateRow, EnqueueForRow, ChangeRetention, EnqueueForRetention, TakeJob, Crash, BuildMv,
       Provision, ReadRetention, Create, Alter, ReadMv, CreateMv, Check, Flip, Control, Error,
       StartRead, Swap, Probe, Tombstone, FindTombstone, Clean, CleanRow, CleanRefresh,
       CleanTable, CleanProject, CleanError
  <2>2. QED
    BY <1>2, <2>1 DEF GateInv, ReadyMeansBuilt
<1>5. QED
  BY <1>1, <1>3, <1>4 DEF GateInv

LEMMA GateInit == Init => GateInv
BY DEF Init, GateInv, CleansDeleted, FlipsBuilt, FlipGate, ReadyMeansBuilt

\* A row goes live only with both base tables, in whatever way the inline run
\* and the job overlap, are repeated or fail.
THEOREM FlipGateHolds == Spec => []FlipGate
BY GateInit, GateStep, TypeInit, TypeStep, PTL DEF Spec, GateInv

\* The grouper's memory of a lane stays true as long as the project lives.
THEOREM ReadinessHolds == Spec => []ReadyMeansBuilt
BY GateInit, GateStep, TypeInit, TypeStep, PTL DEF Spec, GateInv

-----------------------------------------------------------------------------
(***************************************************************************)
(* Deletion.  Once a row was deleted that nobody was at work on, there is  *)
(* no row and nobody to make one; the tables go one after the other.       *)
(***************************************************************************)
Clean0 == past \cap {"overlap", "ignored"} = {}
\* Somebody has deleted the row.
RowDeleted ==
  project = "gone" \/ \E c \in Cleaners : cleaning[c] \notin {"idle", "row"}

CreatedInv == project # "live" => web \in {"enqueue", "done"}
RowInv == Clean0 /\ RowDeleted => row = "none" /\ ~InProgress
TablesInv ==
  Clean0 => /\ cleaning["job"] \in {"scalar", "project"} => "spans" \notin exist
            /\ cleaning["job"] = "project" \/ project = "gone" => exist = {}

PurgeInv == CreatedInv /\ RowInv /\ TablesInv

LEMMA PastGrows == [Next]_vars => past \subseteq past'
BY DEF Next, vars, CreateProject, InlineTimeout, Fallback, Accept, Serve, Look, CreateRow,
   EnqueueForRow, ChangeRetention, EnqueueForRetention, TakeJob, Crash, BuildMv, Provision,
   ReadRetention, Create, Alter, ReadMv, CreateMv, Check, Flip, Control, Error, StartRead, Swap,
   Probe, TryEnqueue, Tombstone, FindTombstone, Clean, CleanRow, CleanRefresh, CleanTable,
   CleanProject, CleanError

LEMMA CreatedStep == TypeInv /\ CleansDeleted /\ CreatedInv /\ [Next]_vars => CreatedInv'
<1> SUFFICES ASSUME TypeInv, CleansDeleted, CreatedInv, [Next]_vars PROVE CreatedInv'
  OBVIOUS
<1>1. project' # project => web' = web /\ (web \in {"enqueue", "done"} \/ project # "live")
  <2>1. CASE UNCHANGED <<project, cleaning>>
    BY <2>1
  <2>2. CASE Tombstone \/ FindTombstone
    BY <2>2 DEF Tombstone, FindTombstone, users
  <2>3. CASE \E c \in Cleaners : Clean(c) \/ CleanError(c)
    <3>1. project' = project \/ CleanProject
      BY <2>3 DEF Clean, CleanRow, CleanRefresh, CleanTable, CleanError
    <3>2. project' # project => web' = web /\ project # "live"
      BY <3>1 DEF CleanProject, CleansDeleted, users, Cleaners
    <3>3. QED
      BY <3>2
  <2>4. QED
    BY <2>1, <2>2, <2>3, OthersDoNotClean
<1>2. web \in {"enqueue", "done"} => web' \in {"enqueue", "done"}
  <2>1. \A p \in Provisioners : web \in {"enqueue", "done"} /\ (Provision(p) \/ Error(p))
          => web' \in {"enqueue", "done"}
    BY ProvisionStep DEF Fails, Succeeds, Proceeds
  <2>2. QED
    BY <2>1 DEF Next, vars, CreateProject, InlineTimeout, Fallback, Accept, Serve, Look, CreateRow,
     EnqueueForRow, ChangeRetention, EnqueueForRetention, TakeJob, Crash, BuildMv, Provision,
     ReadRetention, Create, Alter, ReadMv, CreateMv, Check, Flip, Control, Error, StartRead,
     Swap, Probe, Tombstone, FindTombstone, Clean, CleanRow, CleanRefresh, CleanTable,
     CleanProject, CleanError, users
<1>3. QED
  BY <1>1, <1>2 DEF CreatedInv

\* Without a row, and with nobody at work, nothing of it comes back.
LEMMA QuietStep ==
  ASSUME TypeInv, [Next]_vars, project # "live", web \in {"enqueue", "done"},
         row = "none", ~InProgress
  PROVE  row' = "none" /\ ~InProgress' /\ exist' \subseteq exist
<1>1. \A p \in Provisioners : pc[p] \in {"idle", "control"}
  BY DEF InProgress
<1>2. \A q \in Requests : req[q] \notin {"look", "create"}
  BY DEF InProgress
<1>3. CASE \E p \in Provisioners : Provision(p) \/ Error(p)
  <2>1. PICK p \in Provisioners : Provision(p) \/ Error(p)
    BY <1>3
  <2>2. (p = "worker" /\ Control) \/ Error(p)
    BY <1>1, <2>1 DEF Provision, ReadRetention, Create, Alter, ReadMv, CreateMv, Check, Flip
  <2>3. pc' = [pc EXCEPT ![p] = "idle"] /\ UNCHANGED <<row, req, doris>>
    BY <2>2 DEF Control, Error, Fails, Succeeds, Goto
  <2>4. QED
    BY <1>1, <1>2, <2>3 DEF InProgress, doris, TypeInv, RunsOK
<1>4. CASE TakeJob \/ Crash
  BY <1>1, <1>2, <1>4 DEF TakeJob, Crash, Goto, InProgress, doris, users, TypeInv, RunsOK
<1>5. CASE \E q \in Requests : Accept(q) \/ Serve(q)
  BY <1>1, <1>2, <1>5 DEF Accept, Serve, Look, CreateRow, EnqueueForRow, GotoReq, InProgress,
     doris, TypeInv, UsersOK
<1>6. CASE \E c \in Cleaners : Clean(c) \/ CleanError(c)
  BY <1>1, <1>2, <1>6 DEF Clean, CleanRow, CleanRefresh, CleanTable, CleanProject, CleanError,
     InProgress, doris, users
<1>7. CASE \/ CreateProject \/ InlineTimeout \/ Fallback \/ ChangeRetention \/ EnqueueForRetention
           \/ BuildMv \/ Probe \/ Tombstone \/ FindTombstone \/ UNCHANGED vars
           \/ \E i \in Refreshes : StartRead(i) \/ Swap(i)
  BY <1>1, <1>2, <1>7 DEF vars, CreateProject, InlineTimeout, Fallback, ChangeRetention,
     EnqueueForRetention, BuildMv, Probe, Tombstone, FindTombstone, StartRead, Swap,
     InProgress, doris, users
<1>8. QED
  BY <1>3, <1>4, <1>5, <1>6, <1>7 DEF Next

LEMMA RowStep ==
  ASSUME TypeInv, CleansDeleted, PurgeInv, [Next]_vars
  PROVE  RowInv'
<1> SUFFICES ASSUME Clean0', RowDeleted' PROVE row' = "none" /\ ~InProgress'
  BY DEF RowInv
<1>1. Clean0
  BY PastGrows DEF Clean0
<1>2. CASE RowDeleted
  <2>1. project # "live" /\ web \in {"enqueue", "done"} /\ row = "none" /\ ~InProgress
    BY <1>1, <1>2 DEF RowDeleted, CleansDeleted, PurgeInv, CreatedInv, RowInv
  <2>2. QED
    BY <2>1, QuietStep
<1>3. CASE ~RowDeleted
  <2>1. PICK c \in Cleaners : CleanRow(c)
    <3>1. ~UNCHANGED <<project, cleaning>>
      BY <1>3 DEF RowDeleted
    <3>2. ~Tombstone /\ ~FindTombstone
      BY <1>3 DEF RowDeleted, Tombstone, FindTombstone, Cleans, NextClean, Cleaners, TypeInv,
         UsersOK
    <3>3. \A c \in Cleaners : ~CleanError(c)
      BY <1>3 DEF RowDeleted, CleanError, NextClean, Cleaners, TypeInv, UsersOK
    <3>4. \A c \in Cleaners : cleaning[c] \in {"idle", "row"}
      BY <1>3 DEF RowDeleted
    <3>5. QED
      BY <3>1, <3>2, <3>3, <3>4, OthersDoNotClean DEF Clean, CleanRefresh, CleanTable,
         CleanProject, Cleans, Cleaners
  <2>2. row' = "none" /\ ~InProgress
    BY <2>1 DEF CleanRow, Clean0
  <2>3. QED
    BY <2>1, <2>2 DEF CleanRow, InProgress, users
<1>4. QED
  BY <1>2, <1>3

LEMMA TablesStep ==
  ASSUME TypeInv, CleansDeleted, PurgeInv, [Next]_vars
  PROVE  TablesInv'
<1> SUFFICES ASSUME Clean0'
             PROVE  /\ cleaning'["job"] \in {"scalar", "project"} => "spans" \notin exist'
                    /\ cleaning'["job"] = "project" \/ project' = "gone" => exist' = {}
  BY DEF TablesInv
<1>1. Clean0
  BY PastGrows DEF Clean0
<1>2. RowDeleted => exist' \subseteq exist
  <2>1. RowDeleted => project # "live" /\ web \in {"enqueue", "done"} /\ row = "none" /\ ~InProgress
    BY <1>1 DEF RowDeleted, CleansDeleted, PurgeInv, CreatedInv, RowInv
  <2>2. QED
    BY <2>1, QuietStep
<1>3. "job" \in Cleaners
  BY DEF Cleaners
<1>4. CASE cleaning'["job"] = cleaning["job"] /\ project' = project
  BY <1>1, <1>2, <1>3, <1>4 DEF RowDeleted, PurgeInv, TablesInv
<1>5. CASE CleanTable("job", "spans")
  <2>1. cleaning["job"] = "spans" /\ cleaning'["job"] = "scalar" /\ project' = project
    BY <1>3, <1>5 DEF CleanTable, Cleans, NextClean, TypeInv, UsersOK
  <2>2. exist' = exist \ {"spans"}
    BY <1>5 DEF CleanTable
  <2>3. project = "gone" => exist = {}
    BY <1>1 DEF PurgeInv, TablesInv
  <2>4. QED
    BY <2>1, <2>2, <2>3
<1>6. CASE CleanTable("job", "scalar")
  <2>1. cleaning["job"] = "scalar" /\ exist' = exist \ {"scalar"}
    BY <1>6 DEF CleanTable, Cleans
  <2>2. exist \subseteq {"spans", "scalar"} /\ "spans" \notin exist
    BY <1>1, <2>1 DEF PurgeInv, TablesInv, TypeInv, DorisOK, Tables
  <2>3. QED
    BY <2>1, <2>2
<1>7. CASE CleanProject
  BY <1>1, <1>7 DEF CleanProject, PurgeInv, TablesInv, doris
<1>8. CASE \/ Tombstone \/ CleanRow("job") \/ CleanRefresh("job") \/ CleanError("job")
  <2>1. cleaning'["job"] \in {"row", "refresh", "spans"}
    BY <1>3, <1>8 DEF Tombstone, CleanRow, CleanRefresh, CleanError, Cleans, NextClean, TypeInv,
       UsersOK
  <2>2. exist' = exist /\ (project' = "gone" => project = "gone")
    BY <1>8 DEF Tombstone, CleanRow, CleanRefresh, CleanError, doris
  <2>3. QED
    BY <1>1, <2>1, <2>2 DEF PurgeInv, TablesInv
<1>9. CASE FindTombstone \/ (Clean("batch") /\ ~CleanProject) \/ CleanError("batch")
  <2>1. cleaning'["job"] = cleaning["job"] /\ project' = project
    BY <1>3, <1>9 DEF FindTombstone, Clean, CleanRow, CleanRefresh, CleanTable, CleanError,
       Cleans, TypeInv, UsersOK, Cleaners
  <2>2. QED
    BY <1>4, <2>1
<1>10. QED
  BY <1>4, <1>5, <1>6, <1>7, <1>8, <1>9, OthersDoNotClean DEF Clean, Cleaners

\* A project that was deleted is gone with its row and its tables, whatever
\* queued jobs, probes and the other cleaner do meanwhile, unless somebody was
\* at work on the row when it was deleted or an error kept it.
THEOREM DeletionIsFinal == Spec => []NoResurrection
<1>1. Init => PurgeInv
  BY DEF Init, PurgeInv, CreatedInv, RowInv, TablesInv, RowDeleted, Cleaners
<1>2. TypeInv /\ CleansDeleted /\ PurgeInv /\ [Next]_vars => PurgeInv'
  BY CreatedStep, RowStep, TablesStep DEF PurgeInv
<1>3. PurgeInv => NoResurrection
  BY DEF PurgeInv, RowInv, TablesInv, RowDeleted, Clean0, NoResurrection
<1>4. Init => CleansDeleted
  BY DEF Init, CleansDeleted
<1>5. QED
  BY <1>1, <1>2, <1>3, <1>4, TypeInit, TypeStep, CleansStep, PTL DEF Spec

-----------------------------------------------------------------------------
(***************************************************************************)
(* The time to live.  While no change of the retention waits to be queued  *)
(* and none was overtaken, whoever provisions has the retention of the     *)
(* project, and what the job has altered already stays so.                 *)
(***************************************************************************)
Steady == project = "live" /\ setter = "idle" /\ "overtaken" \notin past

\* Without a row there is nothing to provision.
UndesignatedInv ==
  project = "live" /\ row = "none" =>
    /\ exist = {} /\ pc["inline"] = "idle" /\ pc["worker"] \in {"idle", "control"}

InlineInv == Steady => ~ InlineOutdated

WorkerInv ==
  Steady /\ pc["worker"] \notin {"idle", "control", "retention"}
    => kept["worker"] = retention

AlteredInv ==
  Steady => /\ pc["worker"] \in {"alterScalar", "mv", "createMv", "check", "flip"}
                 => ttl["spans"] = retention
            /\ pc["worker"] \in {"mv", "createMv", "check", "flip"}
                 => ttl["scalar"] = retention

SettledInv == Steady /\ job = "none" => \A t \in exist : ttl[t] = retention

TtlInv ==
  UndesignatedInv /\ InlineInv /\ WorkerInv /\ AlteredInv /\ SettledInv

\* A step of provisioning leaves the setting and the other provisioner alone.
LEMMA ProvisionFrame ==
  ASSUME TypeInv, NEW p \in Provisioners, Provision(p) \/ Error(p)
  PROVE  /\ Steady' = Steady
         /\ \A q \in Provisioners \ {p} : pc'[q] = pc[q] /\ kept'[q] = kept[q]
<1>1. UNCHANGED <<project, setter, past>>
  BY ProvisionStep
<1>2. \A q \in Provisioners \ {p} : pc'[q] = pc[q]
  BY ProvisionStep DEF Fails, Succeeds, Proceeds, Goto, TypeInv, RunsOK
<1>3. \A q \in Provisioners \ {p} : kept'[q] = kept[q]
  BY DEF Provision, Error, ReadRetention, Create, Alter, ReadMv, CreateMv, Check, Flip, Control,
     TypeInv, RunsOK
<1>4. QED
  BY <1>1, <1>2, <1>3 DEF Steady

\* It works with the retention it read, and that is the project's.
LEMMA ProvisionKnows ==
  ASSUME TypeInv, TtlInv, Steady, NEW p \in Provisioners, Provision(p) \/ Error(p)
  PROVE  /\ pc[p] \notin {"control", "retention"} => kept[p] = retention
         /\ pc'[p] \notin {"idle", "control", "retention"} => kept'[p] = retention
<1>1. pc[p] \notin {"control", "retention"} => kept[p] = retention
  <2>1. pc[p] # "idle"
    BY ProvisionStep
  <2>2. QED
    BY <2>1 DEF TtlInv, InlineInv, InlineOutdated, WorkerInv, Provisioners
<1>2. CASE ReadRetention(p)
  BY <1>1, <1>2 DEF ReadRetention, TypeInv, RunsOK
<1>3. CASE ~ ReadRetention(p)
  <2>1. kept' = kept
    BY <1>3 DEF Provision, Error, Create, Alter, ReadMv, CreateMv, Check, Flip, Control
  <2>2. pc'[p] \notin {"idle", "control", "retention"} => pc[p] \notin {"control", "retention"}
    BY <1>3 DEF Provision, Error, Create, Alter, ReadMv, CreateMv, Check, Flip, Control, Fails,
       Succeeds, Proceeds, Goto, TypeInv, RunsOK
  <2>3. QED
    BY <1>1, <2>1, <2>2
<1>4. QED
  BY <1>1, <1>2, <1>3

\* What it writes to the tables is therefore the retention.
LEMMA ProvisionWrites ==
  ASSUME TypeInv, TtlInv, Steady, NEW p \in Provisioners, Provision(p) \/ Error(p)
  PROVE  /\ \A t \in Tables : ttl'[t] \in {ttl[t], retention}
         /\ \A t \in exist' : t \in exist \/ ttl'[t] = retention
<1>1. \A t \in Tables : \A s, next : Create(p, t, s, next) =>
        /\ ttl' \in {ttl, [ttl EXCEPT ![t] = kept[p]]} /\ exist' = exist \cup {t}
        /\ t \notin exist => ttl' = [ttl EXCEPT ![t] = kept[p]]
  BY DEF Create
<1>2. \A t \in Tables : \A s, next : Alter(p, t, s, next) =>
        ttl' \in {ttl, [ttl EXCEPT ![t] = kept[p]]} /\ exist' = exist
  BY DEF Alter
<1>3. ReadRetention(p) \/ ReadMv(p) \/ CreateMv(p) \/ Check(p) \/ Flip(p) \/ Control \/ Error(p)
        => ttl' = ttl /\ exist' = exist
  BY DEF ReadRetention, ReadMv, CreateMv, Check, Flip, Control, Error, doris
<1>4. ASSUME \/ Create(p, "spans", "createSpans", "createScalar")
             \/ Create(p, "scalar", "createScalar", "alterSpans")
             \/ Alter(p, "spans", "alterSpans", "alterScalar")
             \/ Alter(p, "scalar", "alterScalar", "mv")
      PROVE  kept[p] = retention
  BY <1>4, ProvisionKnows DEF Create, Alter
<1>5. QED
  BY <1>1, <1>2, <1>3, <1>4 DEF Provision, TypeInv, DorisOK, Tables

LEMMA ProvisionTtl ==
  ASSUME TypeInv, TtlInv, NEW p \in Provisioners, Provision(p) \/ Error(p), project = "live"
  PROVE  TtlInv'
<1>1. UNCHANGED <<project, retention, setter, past>> /\ pc[p] # "idle"
  BY ProvisionStep
<1>2. UndesignatedInv'
  <2>1. row' = "none" => row = "none"
    BY DEF Provision, Error, ReadRetention, Create, Alter, ReadMv, CreateMv, Check, Flip, Control
  <2>2. ASSUME row' = "none" PROVE p = "worker" /\ pc[p] = "control" /\ exist = {}
    BY <1>1, <2>1, <2>2 DEF TtlInv, UndesignatedInv, Provisioners
  <2>3. ASSUME row' = "none" PROVE exist' = {} /\ pc'["worker"] = "idle"
    BY <2>1, <2>2, <2>3
    DEF Provision, Error, ReadRetention, Create, Alter, ReadMv, CreateMv, Check, Flip, Control,
        Fails, Succeeds, Goto, TypeInv, RunsOK, doris
  <2>4. QED
    BY <1>1, <2>1, <2>2, <2>3, ProvisionFrame DEF UndesignatedInv, TtlInv, Provisioners
<1>3. SUFFICES ASSUME Steady
               PROVE  InlineInv' /\ WorkerInv' /\ AlteredInv' /\ SettledInv'
  BY <1>2, ProvisionFrame DEF TtlInv, InlineInv, WorkerInv, AlteredInv, SettledInv
<1>4. InlineInv' /\ WorkerInv'
  <2>1. CASE p = "inline"
    <3>1. pc'["inline"] # "control"
      BY <2>1 DEF Provision, Error, ReadRetention, Create, Alter, ReadMv, CreateMv, Check, Flip,
         Fails, Succeeds, Proceeds, Goto, TypeInv, RunsOK
    <3>2. QED
      BY <1>1, <2>1, <3>1, ProvisionKnows, ProvisionFrame
      DEF InlineInv, InlineOutdated, WorkerInv, TtlInv, Steady, Provisioners
  <2>2. CASE p = "worker"
    BY <1>1, <2>2, ProvisionKnows, ProvisionFrame
    DEF InlineInv, InlineOutdated, WorkerInv, TtlInv, Steady, Provisioners
  <2>3. QED
    BY <2>1, <2>2 DEF Provisioners
<1>5. AlteredInv'
  <2>1. \A t \in Tables : ttl[t] = retention => ttl'[t] = retention'
    BY <1>1, <1>3, ProvisionWrites
  <2>2. CASE p = "inline"
    <3>1. pc'["worker"] = pc["worker"]
      BY <2>2, ProvisionFrame DEF Provisioners
    <3>2. QED
      BY <1>1, <1>3, <2>1, <3>1 DEF AlteredInv, TtlInv, Tables
  <2>3. CASE p = "worker"
    <3>1. \/ pc'["worker"] \notin {"alterScalar", "mv", "createMv", "check", "flip"}
          \/ pc'["worker"] = "alterScalar" /\ Alter(p, "spans", "alterSpans", "alterScalar")
          \/ pc'["worker"] = "mv" /\ Alter(p, "scalar", "alterScalar", "mv")
          \/ pc["worker"] \in {"mv", "createMv", "check", "flip"}
      BY <2>3
      DEF Provision, Error, ReadRetention, Create, Alter, ReadMv, CreateMv, Check, Flip, Control,
          Fails, Succeeds, Proceeds, Goto, TypeInv, RunsOK
    <3>2. \A t \in Tables, s \in Steps, next \in Steps \ {"idle"} :
            Alter(p, t, s, next) /\ pc'[p] = next => ttl'[t] = kept[p]
      BY DEF Alter, Fails, Goto, TypeInv, RunsOK, DorisOK
    <3>3. pc["worker"] \in {"alterSpans", "alterScalar"} => kept["worker"] = retention
      BY <1>3 DEF TtlInv, WorkerInv
    <3>4. CASE pc'["worker"] = "alterScalar" /\ Alter(p, "spans", "alterSpans", "alterScalar")
      BY <1>1, <2>3, <3>2, <3>3, <3>4 DEF AlteredInv, Alter, Steps, Tables
    <3>5. CASE pc'["worker"] = "mv" /\ Alter(p, "scalar", "alterScalar", "mv")
      <4>1. pc["worker"] = "alterScalar" /\ ttl["spans"] = retention
        BY <1>3, <2>3, <3>5 DEF Alter, AlteredInv, TtlInv
      <4>2. ttl'["scalar"] = retention
        BY <2>3, <3>2, <3>3, <3>5, <4>1 DEF Steps, Tables
      <4>3. QED
        BY <1>1, <2>1, <4>1, <4>2 DEF AlteredInv, Tables
    <3>6. CASE pc["worker"] \in {"mv", "createMv", "check", "flip"}
      BY <1>1, <1>3, <2>1, <3>6 DEF AlteredInv, TtlInv, Tables
    <3>7. QED
      BY <3>1, <3>4, <3>5, <3>6 DEF AlteredInv
  <2>4. QED
    BY <2>2, <2>3 DEF Provisioners
<1>6. SettledInv'
  <2>1. SUFFICES ASSUME job' = "none", NEW t \in exist' PROVE ttl'[t] = retention
    BY <1>1 DEF SettledInv
  <2>2. exist \subseteq Tables
    BY DEF TypeInv, DorisOK
  <2>3. CASE job = "none"
    BY <1>3, <2>2, <2>3, ProvisionWrites DEF TtlInv, SettledInv
  <2>4. CASE job # "none"
    <3>1. (Flip(p) /\ p = "worker" /\ pc[p] = "flip" /\ ttl' = ttl /\ exist' = exist)
            \/ (Control /\ row = "none" /\ exist' = exist)
      BY <2>1, <2>4
      DEF Provision, Error, ReadRetention, Create, Alter, ReadMv, CreateMv, Check, Flip, Control,
          Fails, Succeeds, Proceeds, Provisioners, queue, doris
    <3>2. CASE Flip(p) /\ p = "worker" /\ pc[p] = "flip" /\ ttl' = ttl /\ exist' = exist
      BY <1>3, <2>2, <3>2 DEF TtlInv, AlteredInv, Tables
    <3>3. CASE Control /\ row = "none" /\ exist' = exist
      BY <1>3, <3>3 DEF TtlInv, UndesignatedInv, Steady
    <3>4. QED
      BY <3>1, <3>2, <3>3
  <2>5. QED
    BY <2>3, <2>4
<1>7. QED
  BY <1>4, <1>5, <1>6

\* A change is queued: its job has yet to read, and so has the inline run.
LEMMA ChangeTtl ==
  ASSUME TypeInv, TtlInv, EnqueueForRetention
  PROVE  TtlInv'
<1>1. UNCHANGED <<project, row, exist, ttl, kept, pc, retention>>
  BY DEF EnqueueForRetention, doris
<1>2. ASSUME "overtaken" \notin past'
      PROVE  /\ pc["worker"] \in {"idle", "control", "retention"}
             /\ ~ InlineOutdated
             /\ job' # "none"
  <2>1. WillRead /\ ~ InlineOutdated /\ Enqueue
    BY <1>2 DEF EnqueueForRetention
  <2>2. QED
    BY <2>1 DEF WillRead, Enqueue, queue, TypeInv, QueueOK
<1>3. QED
  BY <1>1, <1>2
  DEF TtlInv, UndesignatedInv, InlineInv, InlineOutdated, WorkerInv, AlteredInv, SettledInv, Steady

LEMMA TtlStep ==
  ASSUME TypeInv, CleansDeleted, TtlInv, [Next]_vars
  PROVE  TtlInv'
<1>1. SUFFICES ASSUME project' = "live" PROVE TtlInv'
  BY DEF TtlInv, UndesignatedInv, InlineInv, WorkerInv, AlteredInv, SettledInv, Steady
<1>2. project = "live" /\ past \subseteq past'
  BY <1>1, TablesStay, PastGrows
<1>3. CASE \E p \in Provisioners : Provision(p) \/ Error(p)
  BY <1>2, <1>3, ProvisionTtl
<1>4. CASE EnqueueForRetention
  BY <1>4, ChangeTtl
<1>5. CASE ChangeRetention
  BY <1>5 DEF ChangeRetention, doris, queue, Steady, TtlInv, UndesignatedInv, InlineInv,
     WorkerInv, AlteredInv, SettledInv
<1>6. CASE CreateProject
  <2>1. UNCHANGED <<project, exist, ttl, kept, retention, job, setter, past>>
    BY <1>6 DEF CreateProject, doris, queue
  <2>2. row' # "none" /\ pc'["inline"] = "retention" /\ pc'["worker"] = pc["worker"]
    BY <1>6 DEF CreateProject, TypeInv, RunsOK, Provisioners
  <2>3. QED
    BY <2>1, <2>2 DEF Steady, TtlInv, UndesignatedInv, InlineInv, InlineOutdated, WorkerInv,
       AlteredInv, SettledInv
<1>7. CASE TakeJob \/ Crash
  <2>1. UNCHANGED <<project, row, exist, ttl, kept, retention, setter, past>>
    BY <1>7 DEF TakeJob, Crash, doris, users
  <2>2. /\ pc'["inline"] = pc["inline"] /\ pc'["worker"] \in {"idle", "control"}
        /\ job' # "none"
    BY <1>7 DEF TakeJob, Crash, Goto, TypeInv, RunsOK, Provisioners
  <2>3. QED
    BY <2>1, <2>2 DEF Steady, TtlInv, UndesignatedInv, InlineInv, InlineOutdated, WorkerInv,
       AlteredInv, SettledInv
<1>8. CASE /\ UNCHANGED <<exist, ttl, kept, pc, retention, setter>>
           /\ job' # "none" \/ UNCHANGED job
           /\ row' # "none" \/ UNCHANGED row
  BY <1>2, <1>8 DEF Steady, TtlInv, UndesignatedInv, InlineInv, InlineOutdated, WorkerInv,
     AlteredInv, SettledInv
<1>9. ~ \E c \in Cleaners : Clean(c) \/ CleanError(c)
  BY <1>2 DEF CleansDeleted, Clean, CleanRow, CleanRefresh, CleanTable, CleanProject, CleanError,
     Cleans, Cleaners
<1>10. ASSUME \/ InlineTimeout \/ Fallback \/ \E q \in Requests : Accept(q) \/ Serve(q)
              \/ BuildMv \/ (\E i \in Refreshes : StartRead(i) \/ Swap(i)) \/ Probe
              \/ Tombstone \/ FindTombstone \/ UNCHANGED vars
       PROVE  /\ UNCHANGED <<exist, ttl, kept, pc, retention, setter>>
              /\ job' # "none" \/ UNCHANGED job
              /\ row' # "none" \/ UNCHANGED row
  BY <1>10 DEF InlineTimeout, Fallback, Accept, Serve, Look, CreateRow, EnqueueForRow, BuildMv,
     StartRead, Swap, Probe, Tombstone, FindTombstone, TryEnqueue, Enqueue, vars, doris, queue,
     users
<1>11. QED
  BY <1>3, <1>4, <1>5, <1>6, <1>7, <1>8, <1>9, <1>10 DEF Next

\* At rest the tables have the project's retention, however inline run and job
\* overlap, fail or are repeated, unless a change was overtaken.
THEOREM RetentionIsApplied == Spec => []TtlFollows
<1>1. Init => TtlInv
  BY DEF Init, TtlInv, UndesignatedInv, InlineInv, InlineOutdated, WorkerInv, AlteredInv,
     SettledInv, Provisioners
<1>2. TypeInv /\ GateInv /\ TtlInv /\ [Next]_vars => TtlInv'
  BY TtlStep DEF GateInv
<1>3. TtlInv => TtlFollows
  BY DEF TtlInv, SettledInv, Steady, TtlFollows, ProvisioningRests
<1>4. QED
  BY <1>1, <1>2, <1>3, GateInit, GateStep, TypeInit, TypeStep, PTL DEF Spec
=============================================================================
