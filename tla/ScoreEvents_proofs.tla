-------------------------- MODULE ScoreEvents_proofs --------------------------
(***************************************************************************)
(* Theorems about ScoreEvents, for any number of files, workers, attempts  *)
(* and faults.                                                             *)
(***************************************************************************)
EXTENDS ScoreEvents, TLAPS, WellFoundedInduction

-----------------------------------------------------------------------------
(***************************************************************************)
(* The first and the last of some files                                    *)
(***************************************************************************)
LEMMA LeastExists ==
  ASSUME NEW S \in SUBSET Nat, S # {}
  PROVE  \E x \in S : \A y \in S : x <= y
<1>1. PICK x \in S : \A y \in S : ~(<<y, x>> \in OpToRel(<, Nat))
  BY WFMin, NatLessThanWellFounded
<1>2. \A y \in S : <<y, x>> \in Nat \X Nat
  OBVIOUS
<1>3. \A y \in S : ~(y < x)
  BY <1>1, <1>2 DEF OpToRel
<1>4. QED
  BY <1>3

LEMMA FirstOfFiles ==
  ASSUME NEW S \in SUBSET Files, S # {}
  PROVE  Min(S) \in S
<1>1. S \in SUBSET Nat
  BY ScoreEventsAssumption DEF Files
<1>2. QED
  BY <1>1, LeastExists DEF Min

LEMMA LastOfFiles ==
  ASSUME NEW S \in SUBSET Files, S # {}
  PROVE  Max(S) \in S /\ \A y \in S : y <= Max(S)
<1> DEFINE T == {NumFiles - x : x \in S}
<1>1. \A x \in S : x \in Nat /\ x <= NumFiles
  BY ScoreEventsAssumption DEF Files
<1>2. T \in SUBSET Nat /\ T # {}
  BY <1>1, ScoreEventsAssumption
<1> HIDE DEF T
<1>3. PICK t \in T : \A u \in T : t <= u
  BY <1>2, LeastExists
<1>4. PICK x \in S : t = NumFiles - x
  BY <1>3 DEF T
<1>5. \A y \in S : NumFiles - x <= NumFiles - y
  BY <1>3, <1>4 DEF T
<1>6. \A y \in S : x >= y
  BY <1>1, <1>4, <1>5, ScoreEventsAssumption
<1>7. Max(S) \in S /\ \A y \in S : Max(S) >= y
  BY <1>6 DEF Max
<1>8. QED
  BY <1>1, <1>7

-----------------------------------------------------------------------------
(***************************************************************************)
(* The type invariant by groups of variables.  A worker that owns a job     *)
(* has its file.                                                           *)
(***************************************************************************)
Steps == {"idle", "list", "load", "mark", "read", "write"}
Jobs == [pc : Steps, queue : Queues, file : 0..NumFiles, own : BOOLEAN,
         list : SUBSET Files, base : Scores]
Entries == [by : Workers, file : Files]
Updates == [by : Workers, list : SUBSET Files, score : Scores]

ClientsOK ==
  /\ flags \in Settings
  /\ client \in [Files -> {"new", "stored", "accepted"}]
  /\ stored \subseteq Files /\ logged \subseteq Files

QueuesOK ==
  /\ waiting \in [Queues -> [Files -> Nat]]
  /\ tries \in [Files -> 0..MaxTries] /\ stalled \subseteq Files
  /\ slow \in BOOLEAN /\ seen \subseteq Files

RowsOK ==
  /\ work \in [Workers -> Jobs]
  /\ \A w \in Workers : work[w].own => work[w].file \in Files
  /\ buffer \subseteq Entries \cup Updates
  /\ row \in Scores

ErasureOK ==
  /\ erasure \in [files : {"none", "find", "unlink", "unlog", "done"},
                  row : {"none", "delete", "done"}, found : SUBSET Files]
  /\ kept \subseteq Files /\ erased \subseteq Files
  /\ faults \in 0..flags.faults

TypeInv == ClientsOK /\ QueuesOK /\ RowsOK /\ ErasureOK

LEMMA TypeParts == TypeInv => TypeOK
BY DEF TypeInv, ClientsOK, QueuesOK, RowsOK, ErasureOK, TypeOK, Jobs, Steps, Entries, Updates

LEMMA FlagsType ==
  ASSUME NEW s \in Settings
  PROVE  /\ s.log \in BOOLEAN /\ s.seen \in BOOLEAN
         /\ s.invalid \in SUBSET Files /\ s.faults \in Nat
BY ScoreEventsAssumption

LEMMA FaultType ==
  ASSUME TypeInv, flags' = flags, Fault \/ faults' = faults
  PROVE  faults' \in 0..flags'.faults
BY FlagsType DEF TypeInv, ClientsOK, ErasureOK, Fault

LEMMA IdleType == Idle \in Jobs /\ NoScore \in Scores
BY ScoreEventsAssumption DEF Idle, NoScore, Jobs, Scores, Steps, Queues

LEMMA RowsType ==
  ASSUME RowsOK, NEW b \in Rows
  PROVE  b \in Updates
BY DEF RowsOK, Rows, Entries

LEMMA MergedType ==
  ASSUME NEW base \in Scores, NEW list \in SUBSET Files, NEW s \in Settings, flags = s,
         ~(base.has = {} /\ Valid(list) = {})
  PROVE  Merged(base, list) \in Scores
<1>1. Valid(list) \in SUBSET Files
  BY DEF Valid
<1>2. Valid(list) # {} => Max(Valid(list)) \in 0..NumFiles /\ Min(Valid(list)) \in 0..NumFiles
  BY <1>1, FirstOfFiles, LastOfFiles, ScoreEventsAssumption DEF Files
<1> DEFINE first == IF base.has # {} THEN base.since ELSE Min(Valid(list))
           last == IF Valid(list) = {} THEN base.shows ELSE Max(Valid(list))
<1>3. first \in 0..NumFiles /\ last \in 0..NumFiles
  BY <1>2 DEF Scores
<1>4. base.has \cup Valid(list) \in SUBSET Files
  BY <1>1 DEF Scores
<1>5. Merged(base, list) = [has |-> base.has \cup Valid(list), shows |-> last, since |-> first]
  BY DEF Merged
<1>6. QED
  BY <1>3, <1>4, <1>5 DEF Scores

LEMMA TypeInit == Init => TypeInv
<1> SUFFICES ASSUME Init PROVE TypeInv
  OBVIOUS
<1>1. ClientsOK
  BY DEF Init, ClientsOK
<1>2. QueuesOK
  <2>1. waiting \in [Queues -> [Files -> Nat]]
    BY DEF Init
  <2>2. tries \in [Files -> 0..MaxTries]
    BY ScoreEventsAssumption DEF Init
  <2>3. QED
    BY <2>1, <2>2 DEF Init, QueuesOK
<1>3. RowsOK
  <2>1. \A w \in Workers : work[w] = Idle
    BY DEF Init
  <2>2. QED
    BY <2>1, IdleType DEF Init, RowsOK, Idle
<1>4. ErasureOK
  BY FlagsType DEF Init, ErasureOK
<1>5. QED
  BY <1>1, <1>2, <1>3, <1>4 DEF TypeInv

\* The clients.
LEMMA ClientType ==
  ASSUME TypeInv, NEW f \in Files, Upload(f) \/ FailUpload(f) \/ Enqueue(f) \/ FailEnqueue(f)
  PROVE  TypeInv'
<1>1. ClientsOK'
  BY DEF Upload, FailUpload, Enqueue, FailEnqueue, TypeInv, ClientsOK
<1>2. QueuesOK'
  <2>1. Add(f) => QueuesOK' \/ ~(slow' \in BOOLEAN /\ seen' \subseteq Files)
    <3> SUFFICES ASSUME Add(f), slow' \in BOOLEAN, seen' \subseteq Files PROVE QueuesOK'
      OBVIOUS
    <3>1. waiting' \in [Queues -> [Files -> Nat]]
      BY DEF Add, TypeInv, QueuesOK, Queues
    <3>2. QED
      BY <3>1, ScoreEventsAssumption DEF Add, TypeInv, QueuesOK
  <2>2. slow' \in BOOLEAN /\ seen' \subseteq Files
    BY DEF Upload, FailUpload, Enqueue, FailEnqueue, caches, TypeInv, QueuesOK
  <2>3. QED
    BY <2>1, <2>2 DEF Upload, FailUpload, Enqueue, FailEnqueue, queues, TypeInv, QueuesOK
<1>3. RowsOK'
  BY DEF Upload, FailUpload, Enqueue, FailEnqueue, TypeInv, RowsOK
<1>4. faults' \in 0..flags'.faults
  BY FaultType DEF Upload, FailUpload, Enqueue, FailEnqueue
<1>5. ErasureOK'
  BY <1>4 DEF Upload, FailUpload, Enqueue, FailEnqueue, promises, TypeInv, ErasureOK
<1>6. QED
  BY <1>1, <1>2, <1>3, <1>5 DEF TypeInv

\* The queues after a job was rejected or delivered again.
LEMMA QueuesType ==
  ASSUME TypeInv, NEW w \in Workers, Rejects(w) \/ Redelivered(w) \/ UNCHANGED queues,
         slow' \in BOOLEAN, seen' \subseteq Files
  PROVE  QueuesOK'
<1>0. work[w].queue \in Queues /\ (work[w].own => work[w].file \in Files)
  BY DEF TypeInv, RowsOK, Jobs
<1>1. CASE Rejects(w)
  <2>1. work[w].own => waiting' \in [Queues -> [Files -> Nat]]
                       /\ tries' \in [Files -> 0..MaxTries]
    <3>1. ASSUME work[w].own, tries[work[w].file] > 1
          PROVE  /\ waiting' \in [Queues -> [Files -> Nat]]
                 /\ tries' \in [Files -> 0..MaxTries]
      <4>1. tries[work[w].file] \in 0..MaxTries /\ tries[work[w].file] - 1 \in 0..MaxTries
        BY <1>0, <3>1, ScoreEventsAssumption DEF TypeInv, QueuesOK
      <4>2. waiting[work[w].queue] \in [Files -> Nat]
        BY <1>0 DEF TypeInv, QueuesOK
      <4>3. QED
        BY <1>0, <1>1, <3>1, <4>1, <4>2 DEF Rejects, TypeInv, QueuesOK
    <3>2. QED
      BY <1>1, <3>1 DEF Rejects, TypeInv, QueuesOK
  <2>2. QED
    BY <1>1, <2>1 DEF Rejects, TypeInv, QueuesOK
<1>2. CASE Redelivered(w)
  <2>1. work[w].own /\ work[w].file \notin stalled => waiting' \in [Queues -> [Files -> Nat]]
    BY <1>0, <1>2 DEF Redelivered, TypeInv, QueuesOK
  <2>2. QED
    BY <1>0, <1>2, <2>1 DEF Redelivered, TypeInv, QueuesOK
<1>3. QED
  BY <1>1, <1>2 DEF queues, TypeInv, QueuesOK

\* What a worker holds after a step of its own.
LEMMA WorkType ==
  ASSUME RowsOK, NEW w \in Workers, NEW job \in Jobs, job.own => job.file \in Files,
         work' = [work EXCEPT ![w] = job]
  PROVE  /\ work' \in [Workers -> Jobs]
         /\ \A v \in Workers : work'[v].own => work'[v].file \in Files
BY DEF RowsOK

LEMMA RestsType ==
  ASSUME RowsOK, NEW w \in Workers, Rests(w)
  PROVE  /\ work' \in [Workers -> Jobs]
         /\ \A v \in Workers : work'[v].own => work'[v].file \in Files
<1>1. Idle.own => Idle.file \in Files
  BY DEF Idle
<1>2. QED
  BY <1>1, IdleType, WorkType DEF Rests

\* The steps of a worker up to its row.
LEMMA JobType ==
  ASSUME TypeInv, NEW w \in Workers,
         List(w) \/ Download(w) \/ Mark(w) \/ Read(w) \/ Stall(w)
  PROVE  TypeInv'
<1> DEFINE Typed == /\ work' \in [Workers -> Jobs]
                    /\ \A v \in Workers : work'[v].own => work'[v].file \in Files
<1>0. work[w] \in Jobs /\ RowsOK /\ (work[w].own => work[w].file \in Files)
  BY DEF TypeInv, RowsOK
<1>1. Typed
  <2>1. CASE List(w)
    <3>1. CASE Listed(w) = {}
      BY <1>0, <2>1, <3>1, RestsType DEF List, Rests
    <3>2. CASE Listed(w) # {}
      <4> DEFINE job == [work[w] EXCEPT !.pc = "load", !.list = Listed(w)]
      <4>1. Listed(w) \in SUBSET Files
        BY DEF Listed, TypeInv, ClientsOK
      <4>2. job \in Jobs /\ (job.own => job.file \in Files) /\ work' = [work EXCEPT ![w] = job]
        BY <1>0, <2>1, <3>2, <4>1 DEF List, Jobs, Steps
      <4> HIDE DEF job
      <4>3. QED
        BY <1>0, <4>2, WorkType
    <3>3. QED
      BY <3>1, <3>2
  <2>2. CASE Download(w)
    <3> DEFINE job == [work[w] EXCEPT !.pc = IF flags.seen THEN "mark" ELSE "read"]
    <3>1. job \in Jobs /\ (job.own => job.file \in Files)
      BY <1>0 DEF Jobs, Steps
    <3>2. Rests(w) \/ work' = [work EXCEPT ![w] = job]
      BY <2>2 DEF Download, Rejects
    <3> HIDE DEF job
    <3>3. QED
      BY <1>0, <3>1, <3>2, WorkType, RestsType
  <2>3. CASE Mark(w)
    <3> DEFINE job == [work[w] EXCEPT !.pc = "read"]
    <3>1. job \in Jobs /\ (job.own => job.file \in Files) /\ work' = [work EXCEPT ![w] = job]
      BY <1>0, <2>3 DEF Mark, Jobs, Steps
    <3> HIDE DEF job
    <3>2. QED
      BY <1>0, <3>1, WorkType
  <2>4. CASE Read(w)
    <3> DEFINE base == IF row.since >= Min(work[w].list) THEN row ELSE NoScore
               job == [work[w] EXCEPT !.pc = "write", !.base = base]
    <3>1. base \in Scores
      BY IdleType DEF TypeInv, RowsOK
    <3> HIDE DEF base
    <3>2. job \in Jobs /\ (job.own => job.file \in Files)
      BY <1>0, <3>1 DEF Jobs, Steps
    <3>3. work' = [work EXCEPT ![w] = job]
      BY <1>0, <2>4 DEF Read, base, RowsOK
    <3> HIDE DEF job
    <3>4. QED
      BY <1>0, <3>2, <3>3, WorkType
  <2>5. CASE Stall(w)
    <3> DEFINE job == [work[w] EXCEPT !.own = FALSE]
    <3>1. job \in Jobs /\ (job.own => job.file \in Files) /\ work' = [work EXCEPT ![w] = job]
      BY <1>0, <2>5 DEF Stall, Jobs
    <3> HIDE DEF job
    <3>2. QED
      BY <1>0, <3>1, WorkType
  <2>6. QED
    BY <2>1, <2>2, <2>3, <2>4, <2>5
<1>2. slow' \in BOOLEAN /\ seen' \subseteq Files
  BY <1>0 DEF List, Download, Mark, Read, Stall, caches, TypeInv, QueuesOK, Jobs
<1>3. Rejects(w) \/ Redelivered(w) \/ UNCHANGED queues
  BY DEF List, Download, Mark, Read, Stall
<1>4. QueuesOK'
  BY <1>2, <1>3, QueuesType
<1>5. UNCHANGED <<flags, client, stored, logged, buffer, row, erasure, erased>>
  BY DEF List, Download, Mark, Read, Stall, promises
<1>6. kept' \subseteq Files
  BY DEF List, Download, Mark, Read, Stall, promises, TypeInv, ErasureOK
<1>7. faults' \in 0..flags'.faults
  BY <1>5, FaultType DEF List, Download, Mark, Read, Stall
<1>8. ClientsOK' /\ RowsOK' /\ ErasureOK'
  BY <1>1, <1>5, <1>6, <1>7 DEF TypeInv, ClientsOK, RowsOK, ErasureOK
<1>9. QED
  BY <1>4, <1>8 DEF TypeInv

LEMMA TakeType ==
  ASSUME TypeInv, NEW w \in Workers, NEW q \in Queues, NEW f \in Files, Take(w, q, f)
  PROVE  TypeInv'
<1> DEFINE rest == [waiting EXCEPT ![q][f] = @ - 1]
           job == [Idle EXCEPT !.pc = "list", !.queue = q, !.file = f, !.own = TRUE]
<1>1. rest \in [Queues -> [Files -> Nat]]
  BY DEF Take, TypeInv, QueuesOK
<1>2. job \in Jobs /\ (job.own => job.file \in Files)
  <2>1. f \in 0..NumFiles
    BY ScoreEventsAssumption DEF Files
  <2>2. QED
    BY <2>1, IdleType DEF Jobs, Steps
<1>3. /\ \/ waiting' = rest /\ UNCHANGED <<tries, stalled>>
         \/ /\ waiting' = [rest EXCEPT !["secondary"][f] = @ + 1]
            /\ tries' = [tries EXCEPT ![f] = MaxTries] /\ stalled' = stalled \ {f}
      /\ work' = work \/ work' = [work EXCEPT ![w] = job]
  BY DEF Take
<1> HIDE DEF rest, job
<1>4. [rest EXCEPT !["secondary"][f] = @ + 1] \in [Queues -> [Files -> Nat]]
  BY <1>1 DEF Queues
<1>5. QueuesOK'
  <2>1. waiting' \in [Queues -> [Files -> Nat]]
    BY <1>1, <1>3, <1>4
  <2>2. tries' \in [Files -> 0..MaxTries] /\ stalled' \subseteq Files
    BY <1>3, ScoreEventsAssumption DEF TypeInv, QueuesOK
  <2>3. QED
    BY <2>1, <2>2 DEF Take, caches, TypeInv, QueuesOK
<1>6. RowsOK'
  <2>1. buffer' \subseteq Entries \cup Updates
    BY DEF Take, TypeInv, RowsOK, Entries
  <2>2. /\ work' \in [Workers -> Jobs]
        /\ \A v \in Workers : work'[v].own => work'[v].file \in Files
    BY <1>2, <1>3, WorkType DEF TypeInv, RowsOK
  <2>3. QED
    BY <2>1, <2>2 DEF Take, TypeInv, RowsOK
<1>7. ClientsOK' /\ ErasureOK'
  BY DEF Take, promises, TypeInv, ClientsOK, ErasureOK
<1>8. QED
  BY <1>5, <1>6, <1>7 DEF TypeInv

\* A worker ends its job: with a row, an error, or a crash.
LEMMA EndType ==
  ASSUME TypeInv, NEW w \in Workers, Write(w) \/ Throw(w) \/ Crash(w)
  PROVE  TypeInv'
<1>0. work[w] \in Jobs /\ RowsOK
  BY DEF TypeInv, RowsOK
<1>1. Rests(w)
  BY DEF Write, Throw, Crash, Rejects
<1>2. buffer' \subseteq Entries \cup Updates
  <2>1. CASE Write(w) /\ ~(work[w].base.has = {} /\ Valid(work[w].list) = {})
    <3> DEFINE new == [by |-> w, list |-> work[w].list,
                       score |-> Merged(work[w].base, work[w].list)]
    <3>1. work[w].base \in Scores /\ work[w].list \in SUBSET Files /\ flags \in Settings
      BY <1>0 DEF Jobs, TypeInv, ClientsOK
    <3>2. new.score \in Scores
      BY <2>1, <3>1, MergedType
    <3>3. buffer' = buffer \cup {new}
      BY <2>1 DEF Write
    <3>4. new \in Updates
      BY <3>1, <3>2 DEF Updates
    <3>5. QED
      BY <1>0, <3>3, <3>4 DEF RowsOK
  <2>2. QED
    BY <1>0, <2>1 DEF Write, Throw, Crash, RowsOK
<1>3. RowsOK'
  <2>1. row' = row
    BY DEF Write, Throw, Crash
  <2>2. QED
    BY <1>0, <1>1, <1>2, <2>1, RestsType DEF RowsOK
<1>4. slow' \in BOOLEAN /\ seen' \subseteq Files
  BY <1>0 DEF Write, Throw, Crash, caches, TypeInv, QueuesOK, Jobs, Steps
<1>5. QueuesOK'
  BY <1>4, QueuesType DEF Write, Throw, Crash
<1>6. faults' \in 0..flags'.faults
  BY FaultType DEF Write, Throw, Crash
<1>7. ClientsOK' /\ ErasureOK'
  <2>1. UNCHANGED <<flags, client, stored, logged, erasure, erased>>
    BY DEF Write, Throw, Crash
  <2>2. kept' \subseteq kept
    BY DEF Write, Throw, Crash
  <2>3. QED
    BY <1>6, <2>1, <2>2 DEF TypeInv, ClientsOK, ErasureOK
<1>8. QED
  BY <1>3, <1>5, <1>7 DEF TypeInv

\* The writer, and the passing of time.
LEMMA WriterType ==
  ASSUME TypeInv, Forget \/ \E b \in buffer : Log(b) \/ Load(b) \/ Discard(b)
  PROVE  TypeInv'
<1>1. CASE Forget
  BY <1>1 DEF Forget, queues, promises, TypeInv, ClientsOK, QueuesOK, RowsOK, ErasureOK
<1>2. CASE \E b \in buffer : Log(b) \/ Load(b) \/ Discard(b)
  <2> PICK b \in buffer : Log(b) \/ Load(b) \/ Discard(b)
    BY <1>2
  <2>1. ClientsOK'
    <3>1. b \notin Rows => b \in Entries
      BY DEF Rows, Updates, TypeInv, RowsOK
    <3>2. QED
      BY <3>1 DEF Log, Load, Discard, Entries, TypeInv, ClientsOK
  <2>2. QueuesOK'
    BY DEF Log, Load, Discard, queues, caches, TypeInv, QueuesOK
  <2>3. RowsOK'
    <3>1. b \in Rows => b.score \in Scores
      BY RowsType DEF Updates, TypeInv
    <3>2. QED
      BY <3>1 DEF Log, Load, Discard, TypeInv, RowsOK
  <2>4. ErasureOK'
    <3>1. faults' \in 0..flags'.faults
      BY FaultType DEF Log, Load, Discard
    <3>2. QED
      BY <3>1 DEF Log, Load, Discard, promises, TypeInv, ErasureOK
  <2>5. QED
    BY <2>1, <2>2, <2>3, <2>4 DEF TypeInv
<1>3. QED
  BY <1>1, <1>2

LEMMA EraseType ==
  ASSUME TypeInv, AskDelete \/ Erase
  PROVE  TypeInv'
<1>1. ClientsOK'
  BY DEF AskDelete, Erase, FindFiles, UnlinkFiles, SoftDelete, DeleteRow, FailErase,
     TypeInv, ClientsOK
<1>2. QueuesOK'
  BY DEF AskDelete, Erase, FindFiles, UnlinkFiles, SoftDelete, DeleteRow, FailErase,
     queues, caches, TypeInv, QueuesOK
<1>3. RowsOK'
  BY IdleType DEF AskDelete, Erase, FindFiles, UnlinkFiles, SoftDelete, DeleteRow, FailErase,
     TypeInv, RowsOK
<1>4. faults' \in 0..flags'.faults
  BY FaultType DEF AskDelete, Erase, FindFiles, UnlinkFiles, SoftDelete, DeleteRow, FailErase
<1>5. ErasureOK'
  <2>1. kept' \subseteq Files /\ erased' \subseteq Files
    BY DEF AskDelete, Erase, FindFiles, UnlinkFiles, SoftDelete, DeleteRow, FailErase,
       promises, TypeInv, ClientsOK, ErasureOK
  <2>2. CASE AskDelete \/ FailErase
    BY <1>4, <2>1, <2>2 DEF AskDelete, FailErase, ErasureOK
  <2>3. CASE FindFiles \/ UnlinkFiles \/ SoftDelete \/ DeleteRow
    BY <1>4, <2>1, <2>3 DEF FindFiles, UnlinkFiles, SoftDelete, DeleteRow,
       TypeInv, ClientsOK, ErasureOK
  <2>4. QED
    BY <2>2, <2>3 DEF Erase
<1>6. QED
  BY <1>1, <1>2, <1>3, <1>5 DEF TypeInv

LEMMA TypeStep == TypeInv /\ [Next]_vars => TypeInv'
<1> SUFFICES ASSUME TypeInv, [Next]_vars PROVE TypeInv'
  OBVIOUS
<1>1. CASE UNCHANGED vars
  BY <1>1 DEF vars, queues, caches, promises, TypeInv, ClientsOK, QueuesOK, RowsOK, ErasureOK
<1>2. QED
  BY <1>1, ClientType, TakeType, JobType, EndType, WriterType, EraseType DEF Next, Job

\* Every variable keeps its type, for any number of files and workers.
THEOREM TypeCorrect == Spec => []TypeOK
BY TypeInit, TypeStep, TypeParts, PTL DEF Spec

-----------------------------------------------------------------------------
(***************************************************************************)
(* What a deletion promised                                                *)
(***************************************************************************)
\* Nothing on its way to the row shows the file.
Clear(f) ==
  /\ \A w \in Reading : f \notin work[w].list /\ f \notin work[w].base.has
  /\ \A b \in Rows : f \notin b.score.has

LEMMA ClearIsNotInFlight ==
  ASSUME NEW f
  PROVE  f \notin InFlight <=> Clear(f)
<1> DEFINE held == {work[w].list \cup work[w].base.has : w \in Reading}
           computed == {b.score.has : b \in Rows}
<1>1. f \notin UNION held
      <=> \A w \in Reading : f \notin work[w].list /\ f \notin work[w].base.has
  OBVIOUS
<1>2. f \notin UNION computed <=> \A b \in Rows : f \notin b.score.has
  OBVIOUS
<1>3. f \notin InFlight <=> f \notin UNION held /\ f \notin UNION computed
  BY DEF InFlight
<1>4. QED
  BY <1>1, <1>2, <1>3 DEF Clear

\* The invariant: the files that are to go are among those found, then out of
\* the bucket, and, once the row is deleted too, out of reach of every job.
FoundInv == erasure.files = "unlink" => erased \subseteq erasure.found
UnstoredInv == erasure.files \in {"unlog", "done"} => erased \cap stored = {}
ClearInv ==
  erasure.files \in {"unlog", "done"} /\ erasure.row = "done"
    => \A f \in erased : f \notin row.has /\ Clear(f)
\* A deployment without the log promises nothing.
UnloggedInv == ~flags.log => erased = {}

\* A job that has not come to read the row has none.
UnreadInv == \A w \in Workers : work[w].pc \in {"idle", "list", "load"} => work[w].base = NoScore

ErasedInv == FoundInv /\ UnstoredInv /\ ClearInv /\ UnloggedInv

Erased == <<flags, erasure, stored, row>>

\* A step that moves no file: it is enough that what is on its way comes from
\* the bucket, from the row, or was on its way before.
LEMMA NothingNew ==
  ASSUME ErasedInv, UNCHANGED Erased, erased' \subseteq erased,
         \A f : Clear(f) /\ f \notin stored /\ f \notin row.has => Clear(f)'
  PROVE  ErasedInv'
BY DEF ErasedInv, FoundInv, UnstoredInv, ClearInv, UnloggedInv, Erased

LEMMA UnreadStep == TypeInv /\ UnreadInv /\ [Next]_vars => UnreadInv'
<1> SUFFICES ASSUME TypeInv, UnreadInv, [Next]_vars PROVE UnreadInv'
  OBVIOUS
<1>0. work \in [Workers -> Jobs]
  BY DEF TypeInv, RowsOK
<1>1. CASE work' = work
  BY <1>1 DEF UnreadInv
<1>2. ASSUME NEW w \in Workers, Job(w) PROVE UnreadInv'
  <2>1. \A v \in Workers \ {w} : work'[v] = work[v]
    BY <1>0, <1>2 DEF Job, Take, List, Download, Mark, Read, Write, Throw, Crash, Stall,
       Rejects, Rests
  <2>2. work'[w].pc \in {"idle", "list", "load"} => work'[w].base = NoScore
    <3>1. CASE Rests(w)
      BY <1>0, <3>1 DEF Rests, Idle
    <3>2. CASE \E q \in Queues, f \in Files : Take(w, q, f)
      <4>1. \/ work' = work
            \/ \E q \in Queues, f \in Files : work' = [work EXCEPT ![w] =
                 [Idle EXCEPT !.pc = "list", !.queue = q, !.file = f, !.own = TRUE]]
        BY <3>2 DEF Take
      <4>2. work' = work \/ work'[w].base = NoScore
        BY <1>0, <4>1 DEF Idle
      <4>3. QED
        BY <4>2 DEF UnreadInv
    <3>3. CASE List(w) /\ ~Rests(w)
      BY <1>0, <3>3 DEF List, Rests, UnreadInv, Jobs
    <3>4. CASE Stall(w)
      BY <1>0, <3>4 DEF Stall, UnreadInv, Jobs
    <3>5. CASE (Download(w) /\ ~Rests(w)) \/ Mark(w) \/ Read(w)
      BY <1>0, <3>5 DEF Download, Mark, Read, Rejects, Jobs
    <3>6. QED
      BY <1>2, <3>1, <3>2, <3>3, <3>4, <3>5 DEF Job, Write, Throw, Crash, Rejects
  <2>3. QED
    BY <2>1, <2>2 DEF UnreadInv
<1>3. QED
  BY <1>1, <1>2 DEF Next, vars, Upload, FailUpload, Enqueue, FailEnqueue, Log, Load, Discard,
     Forget, AskDelete, Erase, FindFiles, UnlinkFiles, SoftDelete, DeleteRow, FailErase

LEMMA ClientErased ==
  ASSUME TypeInv, ErasedInv, NEW f \in Files,
         Upload(f) \/ FailUpload(f) \/ Enqueue(f) \/ FailEnqueue(f)
  PROVE  ErasedInv'
<1>1. UNCHANGED <<flags, erasure, row, work, buffer>>
  BY DEF Upload, FailUpload, Enqueue, FailEnqueue
<1>2. \A g : Clear(g)' <=> Clear(g)
  BY <1>1 DEF Clear, Reading, Rows
<1>3. \/ erased' = erased /\ stored' = stored
      \/ erased' = erased \ {f} /\ stored' \subseteq stored \cup {f}
  BY DEF Upload, FailUpload, Enqueue, FailEnqueue, promises
<1>4. QED
  BY <1>1, <1>2, <1>3 DEF ErasedInv, FoundInv, UnstoredInv, ClearInv, UnloggedInv

LEMMA JobErased ==
  ASSUME TypeInv, ErasedInv, UnreadInv, NEW w \in Workers, Job(w)
  PROVE  ErasedInv'
<1>0. work \in [Workers -> Jobs]
  BY DEF TypeInv, RowsOK
<1>1. UNCHANGED Erased /\ erased' = erased
  BY DEF Job, Take, List, Download, Mark, Read, Write, Throw, Crash, Stall, Erased, promises
<1> SUFFICES ASSUME NEW f, Clear(f), f \notin stored, f \notin row.has PROVE Clear(f)'
  BY <1>1, NothingNew
<1>2. \A v \in Workers \ {w} : work'[v] = work[v]
  BY <1>0 DEF Job, Take, List, Download, Mark, Read, Write, Throw, Crash, Stall, Rejects, Rests
<1>3. CASE \E q \in Queues, g \in Files : Take(w, q, g)
  <2>1. work'[w] = work[w] \/ work'[w].pc = "list"
    <3> PICK q \in Queues, g \in Files : Take(w, q, g)
      BY <1>3
    <3>1. work' = work \/ \E job : work' = [work EXCEPT ![w] = job] /\ job.pc = "list"
      <4> DEFINE job == [Idle EXCEPT !.pc = "list", !.queue = q, !.file = g, !.own = TRUE]
      <4>1. job.pc = "list"
        BY DEF Idle
      <4>2. work' = work \/ work' = [work EXCEPT ![w] = job]
        BY Zenon DEF Take
      <4> HIDE DEF job
      <4>3. QED
        BY <4>1, <4>2
    <3>2. QED
      BY <1>0, <3>1
  <2>2. Rows' = Rows
    BY <1>3 DEF Take, Rows
  <2>3. QED
    BY <1>2, <2>1, <2>2 DEF Clear, Reading
<1>4. CASE Rests(w) /\ Rows' \subseteq Rows
  <2>1. work'[w].pc = "idle"
    BY <1>0, <1>4 DEF Rests, Idle
  <2>2. QED
    BY <1>2, <1>4, <2>1 DEF Clear, Reading
<1>5. CASE List(w)
  <2>1. work'[w].pc \in {"idle", "load"} /\ Rows' = Rows
    BY <1>0, <1>5 DEF List, Idle, Rows, Jobs
  <2>2. QED
    BY <1>2, <2>1 DEF Clear, Reading
<1>6. CASE Download(w) /\ work[w].list \subseteq stored
  <2>1. work'[w].list = work[w].list /\ work'[w].base = work[w].base
    BY <1>0, <1>6 DEF Download, Jobs
  <2>2. work[w].base.has = {}
    BY <1>6 DEF Download, UnreadInv, NoScore
  <2>3. QED
    BY <1>2, <1>6, <2>1, <2>2 DEF Clear, Reading, Rows, Download
<1>7. CASE Mark(w) \/ Read(w)
  <2>1. work[w].pc \in {"mark", "read"} /\ Rows' = Rows
    BY <1>7 DEF Mark, Read, Rows
  <2>2. /\ work'[w].list = work[w].list
        /\ work'[w].base \in {work[w].base, row, NoScore}
    BY <1>0, <1>7 DEF Mark, Read, Jobs
  <2>3. QED
    BY <1>2, <2>1, <2>2 DEF Clear, Reading, NoScore
<1>8. CASE Stall(w)
  <2>1. work'[w] = [work[w] EXCEPT !.own = FALSE] /\ Rows' = Rows
    BY <1>0, <1>8 DEF Stall, Rows
  <2>2. QED
    BY <1>0, <1>2, <2>1 DEF Clear, Reading, Jobs
<1>9. CASE Write(w) /\ ~(work[w].base.has = {} /\ Valid(work[w].list) = {})
  <2> DEFINE new == [by |-> w, list |-> work[w].list,
                     score |-> Merged(work[w].base, work[w].list)]
  <2>1. work[w].pc = "write" /\ buffer' = buffer \cup {new} /\ Rests(w)
    BY <1>9 DEF Write
  <2>2. new.score.has \subseteq work[w].base.has \cup work[w].list
    BY DEF Merged, Valid
  <2>3. f \notin new.score.has
    BY <2>1, <2>2 DEF Clear, Reading
  <2>4. Rows' \subseteq Rows \cup {new} /\ work'[w].pc = "idle"
    BY <1>0, <2>1 DEF Rows, Rests, Idle
  <2> HIDE DEF new
  <2>5. QED
    BY <1>2, <2>3, <2>4 DEF Clear, Reading
<1>10. CASE \/ Download(w) /\ ~(work[w].list \subseteq stored)
            \/ Write(w) /\ work[w].base.has = {} /\ Valid(work[w].list) = {}
            \/ Throw(w) \/ Crash(w)
  <2>1. Rests(w) /\ buffer' \subseteq buffer
    BY <1>10 DEF Download, Write, Throw, Crash, Rejects
  <2>2. QED
    BY <1>4, <2>1 DEF Rows
<1>11. QED
  BY <1>3, <1>5, <1>6, <1>7, <1>8, <1>9, <1>10 DEF Job

LEMMA WriterErased ==
  ASSUME TypeInv, ErasedInv, Forget \/ \E b \in buffer : Log(b) \/ Load(b) \/ Discard(b)
  PROVE  ErasedInv'
<1>1. UNCHANGED <<flags, erasure, stored, erased, work>> /\ buffer' \subseteq buffer
  BY DEF Forget, Log, Load, Discard, promises
<1>2. \A f : Clear(f) => Clear(f)'
  BY <1>1 DEF Clear, Reading, Rows
<1>3. row' = row \/ \E b \in Rows : row' = b.score
  BY DEF Forget, Log, Load, Discard
<1>4. \A f : Clear(f) /\ f \notin row.has => f \notin row'.has
  BY <1>3 DEF Clear
<1>5. QED
  BY <1>1, <1>2, <1>4 DEF ErasedInv, FoundInv, UnstoredInv, ClearInv, UnloggedInv

\* The deletion itself.
LEMMA EraseErased ==
  ASSUME TypeInv, ErasedInv, AskDelete \/ Erase
  PROVE  ErasedInv'
<1>0. erasure \in [files : {"none", "find", "unlink", "unlog", "done"},
                   row : {"none", "delete", "done"}, found : SUBSET Files]
  BY DEF TypeInv, ErasureOK
<1>1. flags' = flags /\ \A f : Clear(f)' <=> Clear(f)
  BY DEF AskDelete, Erase, FindFiles, UnlinkFiles, SoftDelete, DeleteRow, FailErase,
     Clear, Reading, Rows
<1>2. UnloggedInv'
  BY <1>1 DEF AskDelete, Erase, FindFiles, UnlinkFiles, SoftDelete, DeleteRow, FailErase,
     promises, ErasedInv, UnloggedInv
<1>3. CASE AskDelete \/ FailErase
  <2>1. erasure'.row = "delete" /\ erasure'.files \in {"find", "done"}
    BY <1>3 DEF AskDelete, FailErase
  <2>2. erasure'.files = "done" => ~flags.log
    BY <1>3 DEF AskDelete, FailErase
  <2>3. QED
    BY <1>1, <1>2, <2>1, <2>2 DEF ErasedInv, FoundInv, UnstoredInv, ClearInv, UnloggedInv
<1>4. CASE FindFiles
  <2>1. erasure'.files = "unlink" /\ erased' \subseteq erasure'.found
    BY <1>0, <1>4 DEF FindFiles
  <2>2. QED
    BY <1>2, <2>1 DEF ErasedInv, FoundInv, UnstoredInv, ClearInv
<1>5. CASE UnlinkFiles
  <2>1. erased \subseteq erasure.found
    BY <1>5 DEF UnlinkFiles, ErasedInv, FoundInv
  <2>2. UnstoredInv'
    BY <1>5, <2>1 DEF UnlinkFiles, Unlinked, UnstoredInv
  <2>3. erasure'.files = "unlog" /\ erasure'.row = erasure.row /\ row' = row
    BY <1>0, <1>5 DEF UnlinkFiles
  <2>4. ClearInv'
    BY <1>1, <1>5, <2>3, ClearIsNotInFlight DEF UnlinkFiles, ClearInv
  <2>5. QED
    BY <1>2, <2>2, <2>3, <2>4 DEF ErasedInv, FoundInv
<1>6. CASE SoftDelete
  <2>1. /\ erasure.files = "unlog" /\ erasure'.files = "done" /\ erasure'.row = erasure.row
        /\ UNCHANGED <<stored, row, erased>>
    BY <1>0, <1>6 DEF SoftDelete, promises
  <2>2. QED
    BY <1>1, <1>2, <2>1 DEF ErasedInv, FoundInv, UnstoredInv, ClearInv
<1>7. CASE DeleteRow
  <2>1. /\ erasure'.files = erasure.files /\ erasure'.found = erasure.found
        /\ stored' = stored /\ erased' = erased \ InFlight /\ row'.has = {}
    BY <1>0, <1>7 DEF DeleteRow, NoScore
  <2>2. ClearInv'
    BY <1>1, <2>1, ClearIsNotInFlight DEF ClearInv
  <2>3. QED
    BY <1>2, <2>1, <2>2 DEF ErasedInv, FoundInv, UnstoredInv
<1>8. QED
  BY <1>3, <1>4, <1>5, <1>6, <1>7 DEF Erase

\* Whatever jobs run beside a deletion: once both its halves are done, no file
\* that was to go is in the bucket or shown by the row.
THEOREM DeletionLasts == Spec => []StaysErased
<1>1. Init => ErasedInv /\ UnreadInv
  BY DEF Init, ErasedInv, FoundInv, UnstoredInv, ClearInv, UnloggedInv, UnreadInv, Idle
<1>2. TypeInv /\ UnreadInv /\ ErasedInv /\ [Next]_vars => ErasedInv'
  <2> SUFFICES ASSUME TypeInv, UnreadInv, ErasedInv, [Next]_vars PROVE ErasedInv'
    OBVIOUS
  <2>1. CASE UNCHANGED vars
    <3>1. UNCHANGED <<Erased, erased, work, buffer>>
      BY <2>1 DEF vars, Erased, promises
    <3>2. \A f : Clear(f)' <=> Clear(f)
      BY <3>1 DEF Clear, Reading, Rows
    <3>3. QED
      BY <3>1, <3>2, NothingNew
  <2>2. QED
    BY <2>1, ClientErased, JobErased, WriterErased, EraseErased DEF Next
<1>3. ErasedInv => StaysErased
  BY DEF ErasedInv, UnstoredInv, ClearInv, StaysErased
<1>4. QED
  BY <1>1, <1>2, <1>3, TypeInit, TypeStep, UnreadStep, PTL DEF Spec
-----------------------------------------------------------------------------
(***************************************************************************)
(* What an upload promised                                                 *)
(***************************************************************************)
Shown(f) == f \in row.has /\ row.shows >= f

\* The job of the file is in a queue, or with a worker whose failure would
\* bring it back.
Awaited(f) ==
  \/ \E q \in Queues : waiting[q][f] > 0
  \/ \E w \in Workers : /\ work[w].own /\ work[w].file = f
                        /\ work[w].pc = "list" \/ f \in work[w].list

\* The content of the file is on its way to the row.
Merging(f) ==
  \/ flags.seen /\ \E w \in Reading : f \in work[w].list
  \/ \E b \in Rows : f \in b.list

\* The invariant.  A file that counts as seen has no job to wait for.
KeptInv == kept \subseteq stored \ flags.invalid
ServedInv ==
  \A f \in kept :
    /\ client[f] = "accepted" => Shown(f) \/ Merging(f) \/ Awaited(f)
    /\ f \in seen => Shown(f) \/ Merging(f)
\* Nothing computed without a file is still to be loaded once the row has it.
LaterInv ==
  \A f \in kept : f \in row.has =>
    /\ \A w \in Workers : work[w].list # {} => f \in work[w].list
    /\ \A b \in Rows : f \in b.list
CoveredInv ==
  \A b \in Rows : \A f \in Valid(b.list) : f \in b.score.has /\ b.score.shows >= f
Orderly(job) ==
  /\ job.pc = "idle" => ~job.own
  /\ job.pc \in {"load", "mark", "read", "write"} => job.list # {}
  /\ job.pc = "mark" => flags.seen
ListInv == \A w \in Workers : Orderly(work[w])

KeepInv == KeptInv /\ ServedInv /\ LaterInv /\ CoveredInv /\ ListInv

\* A step that takes no cover away.
LEMMA StaysServed ==
  ASSUME ServedInv, kept' \subseteq kept, client' = client, seen' \subseteq seen,
         \A f \in kept' : /\ Shown(f) => Shown(f)'
                          /\ Merging(f) => Shown(f)' \/ Merging(f)'
                          /\ Awaited(f) => Shown(f)' \/ Merging(f)' \/ Awaited(f)'
  PROVE  ServedInv'
BY DEF ServedInv

\* What a worker leaves to the queue.
LEMMA StaysAwaited ==
  ASSUME TypeInv, NEW w \in Workers, NEW f \in Files, Awaited(f),
         \A v \in Workers \ {w} : work'[v] = work[v],
         \A q \in Queues : waiting[q][f] > 0 => waiting'[q][f] > 0,
         work[w].own /\ work[w].file = f => Awaited(f)'
  PROVE  Awaited(f)'
BY DEF Awaited

LEMMA QueueGrows ==
  ASSUME TypeInv, NEW q \in Queues, NEW f \in Files,
         waiting' = [waiting EXCEPT ![q][f] = @ + 1]
  PROVE  /\ waiting'[q][f] > 0
         /\ \A p \in Queues, g \in Files : waiting[p][g] > 0 => waiting'[p][g] > 0
<1>1. waiting \in [Queues -> [Files -> Nat]]
  BY DEF TypeInv, QueuesOK
<1>2. \A p \in Queues, g \in Files : waiting[p][g] \in Nat
  BY <1>1
<1>3. \A p \in Queues, g \in Files :
        waiting'[p][g] = IF p = q /\ g = f THEN waiting[p][g] + 1 ELSE waiting[p][g]
  BY <1>1
<1>4. QED
  BY <1>2, <1>3

\* Files that no attempt is left for when the worker rejects.
Spent(w) == IF work[w].own /\ tries[work[w].file] <= 1 THEN {work[w].file} ELSE {}

LEMMA RejectedAwaits ==
  ASSUME TypeInv, NEW w \in Workers, Rejects(w), NEW f \in Files, f \notin Spent(w), Awaited(f)
  PROVE  Awaited(f)'
<1>0. work \in [Workers -> Jobs] /\ work[w].queue \in Queues
      /\ (work[w].own => work[w].file \in Files)
  BY DEF TypeInv, RowsOK, Jobs
<1>1. \A v \in Workers \ {w} : work'[v] = work[v]
  BY <1>0 DEF Rejects, Rests
<1>2. CASE work[w].own /\ tries[work[w].file] > 1
  <2>1. waiting' = [waiting EXCEPT ![work[w].queue][work[w].file] = @ + 1]
    BY <1>2 DEF Rejects
  <2>2. /\ waiting'[work[w].queue][work[w].file] > 0
        /\ \A p \in Queues, g \in Files : waiting[p][g] > 0 => waiting'[p][g] > 0
    BY <1>0, <1>2, <2>1, QueueGrows
  <2>3. work[w].file = f => Awaited(f)'
    BY <1>0, <2>2 DEF Awaited
  <2>4. QED
    BY <1>1, <2>2, <2>3, StaysAwaited
<1>3. CASE ~(work[w].own /\ tries[work[w].file] > 1)
  <2>1. ~(work[w].own /\ work[w].file = f)
    <3>1. work[w].own => tries[work[w].file] \in Nat
      BY <1>0, ScoreEventsAssumption DEF TypeInv, QueuesOK
    <3>2. QED
      BY <1>3, <3>1 DEF Spent
  <2>2. waiting' = waiting
    BY <1>3 DEF Rejects
  <2>3. QED
    BY <1>1, <2>1, <2>2, StaysAwaited
<1>4. QED
  BY <1>2, <1>3

LEMMA RedeliveredAwaits ==
  ASSUME TypeInv, NEW w \in Workers, Redelivered(w), NEW f \in Files, f \notin Failed(w),
         \A v \in Workers \ {w} : work'[v] = work[v], Awaited(f)
  PROVE  Awaited(f)'
<1>0. work[w].queue \in Queues /\ (work[w].own => work[w].file \in Files)
  BY DEF TypeInv, RowsOK, Jobs
<1>1. CASE work[w].own /\ work[w].file \notin stalled
  <2>1. waiting' = [waiting EXCEPT ![work[w].queue][work[w].file] = @ + 1]
    BY <1>1 DEF Redelivered
  <2>2. /\ waiting'[work[w].queue][work[w].file] > 0
        /\ \A p \in Queues, g \in Files : waiting[p][g] > 0 => waiting'[p][g] > 0
    BY <1>0, <1>1, <2>1, QueueGrows
  <2>3. work[w].file = f => Awaited(f)'
    BY <1>0, <2>2 DEF Awaited
  <2>4. QED
    BY <2>2, <2>3, StaysAwaited
<1>2. CASE ~(work[w].own /\ work[w].file \notin stalled)
  <2>1. waiting' = waiting /\ ~(work[w].own /\ work[w].file = f)
    BY <1>2 DEF Redelivered, Failed
  <2>2. QED
    BY <2>1, StaysAwaited
<1>3. QED
  BY <1>1, <1>2

LEMMA ClientKeeps ==
  ASSUME TypeInv, KeepInv, NEW f \in Files,
         Upload(f) \/ FailUpload(f) \/ Enqueue(f) \/ FailEnqueue(f)
  PROVE  KeepInv'
<1>0. UNCHANGED <<flags, seen, work, buffer, row>>
  BY DEF Upload, FailUpload, Enqueue, FailEnqueue, caches
<1>1. /\ kept' \subseteq kept \cup {f} /\ stored \subseteq stored'
      /\ f \in kept' => f \in kept \/ (f \in stored' /\ Fresh(f) /\ client'[f] = "stored")
  BY DEF Upload, FailUpload, Enqueue, FailEnqueue, promises, TypeInv, ClientsOK
<1>2. KeptInv' /\ CoveredInv' /\ ListInv'
  BY <1>0, <1>1 DEF KeepInv, KeptInv, CoveredInv, ListInv, Orderly, Rows, Valid, Fresh
<1>3. LaterInv'
  BY <1>0, <1>1 DEF KeepInv, LaterInv, Rows, Fresh
<1>4. \A g : /\ Shown(g)' <=> Shown(g)
             /\ Merging(g)' <=> Merging(g)
  BY <1>0 DEF Shown, Merging, Rows, Reading
<1>5. \A g \in Files : Awaited(g) => Awaited(g)'
  <2>1. Add(f) => \A p \in Queues, g \in Files : waiting[p][g] > 0 => waiting'[p][g] > 0
    BY QueueGrows DEF Add, Queues
  <2>2. Add(f) \/ waiting' = waiting
    BY DEF Upload, FailUpload, Enqueue, FailEnqueue, queues
  <2>3. QED
    BY <1>0, <2>1, <2>2 DEF Awaited
<1>6. \A g \in Files \ {f} : client'[g] = client[g]
  BY DEF Upload, FailUpload, Enqueue, FailEnqueue, TypeInv, ClientsOK
<1>7. client'[f] = "accepted" => client[f] = "accepted" \/ Awaited(f)'
  <2>1. CASE Enqueue(f)
    BY <2>1, QueueGrows DEF Enqueue, Add, Queues, Awaited
  <2>2. CASE ~Enqueue(f)
    BY <2>2 DEF Upload, FailUpload, FailEnqueue, TypeInv, ClientsOK
  <2>3. QED
    BY <2>1, <2>2
<1>8. ServedInv'
  <2> SUFFICES ASSUME NEW g \in kept'
               PROVE  /\ client'[g] = "accepted" => Shown(g)' \/ Merging(g)' \/ Awaited(g)'
                      /\ g \in seen' => Shown(g)' \/ Merging(g)'
    BY DEF ServedInv
  <2>1. g \in Files
    BY <1>1 DEF TypeInv, ErasureOK
  <2>2. CASE g \in kept
    BY <1>0, <1>4, <1>5, <1>6, <1>7, <2>1, <2>2 DEF KeepInv, ServedInv
  <2>3. CASE g \notin kept
    BY <1>0, <1>1, <2>3 DEF Fresh
  <2>4. QED
    BY <2>2, <2>3
<1>9. QED
  BY <1>2, <1>3, <1>8 DEF KeepInv
\* A step of a worker that leaves the files and the row alone, computes no
\* row, and begins no list but that of all stored files.
LEMMA JobKeeps ==
  ASSUME TypeInv, KeepInv, NEW w \in Workers,
         UNCHANGED <<flags, client, stored, row>>, kept' \subseteq kept, Rows' \subseteq Rows,
         work' \in [Workers -> Jobs],
         \A v \in Workers \ {w} : work'[v] = work[v],
         work'[w].list \in {{}, work[w].list, stored},
         Orderly(work'[w])
  PROVE  KeptInv' /\ LaterInv' /\ CoveredInv' /\ ListInv'
<1>1. KeptInv' /\ CoveredInv' /\ ListInv'
  BY DEF KeepInv, KeptInv, CoveredInv, ListInv, Orderly, Valid
<1>2. \A f \in kept' : f \in stored
  BY DEF KeepInv, KeptInv
<1>3. LaterInv'
  BY <1>2 DEF KeepInv, LaterInv
<1>4. QED
  BY <1>1, <1>3

LEMMA TakeKeeps ==
  ASSUME TypeInv, KeepInv, NEW w \in Workers, NEW q \in Queues, NEW f \in Files, Take(w, q, f)
  PROVE  KeepInv'
<1> DEFINE rest == [waiting EXCEPT ![q][f] = @ - 1]
           job == [Idle EXCEPT !.pc = "list", !.queue = q, !.file = f, !.own = TRUE]
<1>0. /\ UNCHANGED <<flags, client, stored, row, seen, kept>>
      /\ work[w].pc = "idle" /\ waiting[q][f] > 0
      /\ Rows' = Rows
  BY DEF Take, caches, promises, Rows
<1>1. /\ job.pc = "list" /\ job.list = {} /\ job.own /\ job.file = f
      /\ job \in Jobs
  <2>1. f \in 0..NumFiles
    BY ScoreEventsAssumption DEF Files
  <2>2. Idle \in Jobs /\ Idle.list = {}
    BY IdleType DEF Idle
  <2>3. QED
    BY <2>1, <2>2 DEF Jobs, Steps
<1>2. \/ /\ f \in seen /\ waiting' = rest /\ work' = work
      \/ /\ waiting' = [rest EXCEPT !["secondary"][f] = @ + 1] /\ work' = work
      \/ waiting' = rest /\ work' = [work EXCEPT ![w] = job]
  BY DEF Take
<1>3. work \in [Workers -> Jobs] /\ waiting \in [Queues -> [Files -> Nat]]
  BY DEF TypeInv, RowsOK, QueuesOK
<1>4. rest \in [Queues -> [Files -> Nat]]
      /\ \A p \in Queues, g \in Files : g # f => rest[p][g] = waiting[p][g]
  BY <1>0, <1>3
<1> HIDE DEF rest, job
<1>5. work' \in [Workers -> Jobs] /\ (\A v \in Workers \ {w} : work'[v] = work[v])
      /\ (work'[w] = work[w] \/ work'[w] = job)
  BY <1>1, <1>2, <1>3
<1>6. KeptInv' /\ LaterInv' /\ CoveredInv' /\ ListInv'
  <2>1. work'[w].list \in {{}, work[w].list, stored} /\ Orderly(work'[w])
    BY <1>0, <1>1, <1>5 DEF Orderly, KeepInv, ListInv
  <2>2. QED
    BY <1>0, <1>5, <2>1, JobKeeps
<1>7. \A p \in Queues, g \in Files : g # f => waiting'[p][g] = waiting[p][g]
  BY <1>2, <1>4
<1>8. \A g \in kept : /\ Shown(g)' <=> Shown(g)
                      /\ Merging(g) => Merging(g)'
  <2>1. \A v \in Reading : v # w
    BY <1>0 DEF Reading
  <2>2. \A v \in Reading : v \in Reading' /\ work'[v].list = work[v].list
    BY <1>5, <2>1 DEF Reading
  <2>3. QED
    BY <1>0, <2>2 DEF Shown, Merging
<1>9. \A g \in Files : Awaited(g) => Awaited(g)' \/ (g = f /\ f \in seen)
  <2> SUFFICES ASSUME NEW g \in Files, Awaited(g) PROVE Awaited(g)' \/ (g = f /\ f \in seen)
    OBVIOUS
  <2>1. CASE g # f
    <3>1. ~work[w].own
      BY <1>0 DEF KeepInv, ListInv, Orderly
    <3>2. QED
      BY <1>5, <1>7, <2>1, <3>1, StaysAwaited
  <2>2. CASE g = f
    <3>1. CASE waiting' = [rest EXCEPT !["secondary"][f] = @ + 1]
      <4>1. waiting'["secondary"][f] = rest["secondary"][f] + 1 /\ rest["secondary"][f] \in Nat
        BY <1>4, <3>1 DEF Queues
      <4>2. QED
        BY <2>2, <4>1 DEF Awaited, Queues
    <3>2. CASE work' = [work EXCEPT ![w] = job]
      <4>1. work'[w] = job
        BY <1>3, <3>2
      <4>2. QED
        BY <1>1, <2>2, <4>1 DEF Awaited
    <3>3. QED
      BY <1>2, <2>2, <3>1, <3>2
  <2>3. QED
    BY <2>1, <2>2
<1>10. ServedInv'
  BY <1>0, <1>8, <1>9 DEF KeepInv, ServedInv, TypeInv, ErasureOK
<1>11. QED
  BY <1>6, <1>10 DEF KeepInv

\* A worker that merges nothing is not needed for what is on its way.
LEMMA StaysMerging ==
  ASSUME NEW w \in Workers, NEW f, flags' = flags, Rows \subseteq Rows',
         \A v \in Workers \ {w} : work'[v] = work[v],
         Merging(f), flags.seen /\ w \in Reading /\ f \in work[w].list => Merging(f)'
  PROVE  Merging(f)'
BY DEF Merging, Reading

LEMMA ListKeeps ==
  ASSUME TypeInv, KeepInv, NEW w \in Workers, List(w)
  PROVE  KeepInv'
<1>0. /\ UNCHANGED <<flags, client, stored, row, seen, kept, waiting>> /\ Rows' = Rows
      /\ work[w].pc = "list" /\ work \in [Workers -> Jobs] /\ work[w] \in Jobs
  BY DEF List, queues, caches, promises, Rows, TypeInv, RowsOK
<1> DEFINE job == [work[w] EXCEPT !.pc = "load", !.list = stored]
<1>1. /\ job \in Jobs /\ job.pc = "load" /\ job.list = stored
      /\ job.own = work[w].own /\ job.file = work[w].file
  BY <1>0 DEF Jobs, Steps, TypeInv, ClientsOK
<1>2. \/ stored = {} /\ work' = [work EXCEPT ![w] = Idle]
      \/ stored # {} /\ work' = [work EXCEPT ![w] = job]
  BY DEF List, Listed
<1> HIDE DEF job
<1>3. /\ work' \in [Workers -> Jobs] /\ \A v \in Workers \ {w} : work'[v] = work[v]
      /\ (stored = {} /\ work'[w] = Idle) \/ (stored # {} /\ work'[w] = job)
  BY <1>0, <1>1, <1>2, IdleType
<1>4. work'[w].list \in {{}, work[w].list, stored} /\ Orderly(work'[w])
  BY <1>1, <1>3 DEF Orderly, Idle
<1>5. KeptInv' /\ LaterInv' /\ CoveredInv' /\ ListInv'
  BY <1>0, <1>3, <1>4, JobKeeps
<1>6. \A f \in kept : /\ Shown(f) => Shown(f)'
                      /\ Merging(f) => Merging(f)'
                      /\ Awaited(f) => Awaited(f)'
  <2> SUFFICES ASSUME NEW f \in kept
               PROVE  /\ Shown(f) => Shown(f)'
                      /\ Merging(f) => Merging(f)'
                      /\ Awaited(f) => Awaited(f)'
    OBVIOUS
  <2>1. f \in Files /\ f \in stored
    BY DEF KeepInv, KeptInv, TypeInv, ErasureOK
  <2>2. work[w].own /\ work[w].file = f => Awaited(f)'
    BY <1>1, <1>3, <2>1 DEF Awaited
  <2>3. QED
    BY <1>0, <1>3, <2>1, <2>2, StaysAwaited, StaysMerging DEF Shown, Reading
<1>7. QED
  BY <1>0, <1>5, <1>6, StaysServed DEF KeepInv

\* The content is read, the files are marked, and the row is read.
LEMMA ReadsKeep ==
  ASSUME TypeInv, KeepInv, NEW w \in Workers,
         (Download(w) /\ work[w].list \subseteq stored) \/ Mark(w) \/ Read(w)
  PROVE  KeepInv'
<1>0. /\ UNCHANGED <<flags, client, stored, row, kept, waiting>> /\ Rows' = Rows
      /\ work[w].pc \in {"load", "mark", "read"}
      /\ work \in [Workers -> Jobs] /\ work[w] \in Jobs
  BY DEF Download, Mark, Read, queues, caches, promises, Rows, TypeInv, RowsOK
<1>1. /\ work' \in [Workers -> Jobs] /\ \A v \in Workers \ {w} : work'[v] = work[v]
      /\ work'[w].list = work[w].list /\ work'[w].own = work[w].own
      /\ work'[w].file = work[w].file
      /\ work'[w].pc \in {"mark", "read", "write"} /\ (work'[w].pc = "mark" => flags.seen)
  <2>1. CASE Download(w) \/ Mark(w)
    BY <1>0, <2>1 DEF Download, Mark, Read, Jobs, Steps
  <2>2. CASE Read(w)
    <3> DEFINE base == IF row.since >= Min(work[w].list) THEN row ELSE NoScore
    <3>1. base \in Scores
      BY IdleType DEF TypeInv, RowsOK
    <3>2. work' = [work EXCEPT ![w] = [work[w] EXCEPT !.pc = "write", !.base = base]]
      BY <1>0, <2>2 DEF Read
    <3> HIDE DEF base
    <3>3. QED
      BY <1>0, <3>1, <3>2 DEF Jobs, Steps
  <2>3. QED
    BY <2>1, <2>2
<1>2. work[w].list # {}
  BY <1>0 DEF KeepInv, ListInv, Orderly
<1>3. KeptInv' /\ LaterInv' /\ CoveredInv' /\ ListInv'
  <2>1. work'[w].list \in {{}, work[w].list, stored} /\ Orderly(work'[w])
    BY <1>1, <1>2 DEF Orderly
  <2>2. QED
    BY <1>0, <1>1, <2>1, JobKeeps
<1>4. \A f \in kept : /\ Shown(f) => Shown(f)'
                      /\ Merging(f) => Merging(f)'
                      /\ Awaited(f) => Awaited(f)'
  <2> SUFFICES ASSUME NEW f \in kept
               PROVE  /\ Shown(f) => Shown(f)'
                      /\ Merging(f) => Merging(f)'
                      /\ Awaited(f) => Awaited(f)'
    OBVIOUS
  <2>1. f \in Files
    BY DEF TypeInv, ErasureOK
  <2>2. f \in work[w].list /\ flags.seen => Merging(f)'
    BY <1>0, <1>1 DEF Merging, Reading
  <2>3. Awaited(f) => Awaited(f)'
    BY <1>0, <1>1 DEF Awaited
  <2>4. QED
    BY <1>0, <1>1, <2>2, <2>3, StaysMerging DEF Shown
<1>5. ServedInv'
  <2>1. CASE seen' \subseteq seen
    BY <1>0, <1>4, <2>1, StaysServed DEF KeepInv
  <2>2. CASE Mark(w)
    <3>1. flags.seen /\ seen' \subseteq seen \cup work[w].list
      BY <2>2 DEF Mark, KeepInv, ListInv, Orderly
    <3>2. \A f \in work[w].list : Merging(f)'
      BY <1>0, <1>1, <3>1 DEF Merging, Reading
    <3>3. QED
      BY <1>0, <1>4, <3>1, <3>2 DEF KeepInv, ServedInv
  <2>3. QED
    BY <2>1, <2>2 DEF Download, Read, caches
<1>6. QED
  BY <1>3, <1>5 DEF KeepInv

\* A worker fails: what it alone held is given up.
LEMMA EndsKeep ==
  ASSUME TypeInv, KeepInv, NEW w \in Workers, Rests(w),
         UNCHANGED <<flags, client, stored, row, seen>>, kept' \subseteq kept,
         Rows' \subseteq Rows,
         \A f \in kept' : /\ Merging(f) => Merging(f)'
                          /\ Awaited(f) => Awaited(f)'
  PROVE  KeepInv'
<1>1. /\ work' \in [Workers -> Jobs] /\ \A v \in Workers \ {w} : work'[v] = work[v]
      /\ work'[w] = Idle
  BY RestsType DEF Rests, TypeInv, RowsOK
<1>2. work'[w].list \in {{}, work[w].list, stored} /\ Orderly(work'[w])
  BY <1>1 DEF Orderly, Idle
<1>3. KeptInv' /\ LaterInv' /\ CoveredInv' /\ ListInv'
  BY <1>1, <1>2, JobKeeps
<1>4. \A f : Shown(f)' <=> Shown(f)
  BY DEF Shown
<1>5. QED
  BY <1>3, <1>4, StaysServed DEF KeepInv

LEMMA RejectsKeep ==
  ASSUME TypeInv, KeepInv, NEW w \in Workers,
         \/ Download(w) /\ ~(work[w].list \subseteq stored)
         \/ Write(w) /\ work[w].base.has = {} /\ Valid(work[w].list) = {}
         \/ Throw(w)
  PROVE  KeepInv'
<1>0. /\ Rejects(w) /\ Rests(w) /\ UNCHANGED <<flags, client, stored, row, seen, buffer>>
      /\ kept' \subseteq kept \ Spent(w)
      /\ w \in Reading /\ flags.seen => kept' \subseteq kept \ work[w].list
  BY DEF Download, Write, Throw, Rejects, caches, GivenUp, Spent, Reading
<1>1. Rows' = Rows /\ \A v \in Workers \ {w} : work'[v] = work[v]
  BY <1>0 DEF Rows, Rests, TypeInv, RowsOK
<1>2. ASSUME NEW f \in kept'
      PROVE  (Merging(f) => Merging(f)') /\ (Awaited(f) => Awaited(f)')
  <2>1. f \in Files /\ f \notin Spent(w)
    BY <1>0 DEF TypeInv, ErasureOK
  <2>2. QED
    BY <1>0, <1>1, <1>2, <2>1, StaysMerging, RejectedAwaits
<1>3. QED
  BY <1>0, <1>1, <1>2, EndsKeep

LEMMA CrashKeeps ==
  ASSUME TypeInv, KeepInv, NEW w \in Workers, Crash(w)
  PROVE  KeepInv'
<1>0. /\ Redelivered(w) /\ Rests(w) /\ UNCHANGED <<flags, client, stored, row, seen>>
      /\ kept' \subseteq kept \ Failed(w)
      /\ flags.seen => kept' \subseteq kept \ work[w].list
      /\ Rows' = {b \in Rows : b.by # w}
  BY DEF Crash, caches, Rows
<1>1. \A f \in kept' : \A b \in Rows : f \in b.list => b \in Rows'
  BY <1>0 DEF Crash
<1>2. \A v \in Workers \ {w} : work'[v] = work[v]
  BY <1>0 DEF Rests, TypeInv, RowsOK
<1>3. ASSUME NEW f \in kept'
      PROVE  (Merging(f) => Merging(f)') /\ (Awaited(f) => Awaited(f)')
  <2>1. f \in Files /\ f \notin Failed(w)
    BY <1>0 DEF TypeInv, ErasureOK
  <2>2. Merging(f) => Merging(f)'
    BY <1>0, <1>1, <1>2 DEF Merging, Reading
  <2>3. QED
    BY <1>0, <1>2, <2>1, <2>2, RedeliveredAwaits
<1>4. QED
  BY <1>0, <1>3, EndsKeep

LEMMA StallKeeps ==
  ASSUME TypeInv, KeepInv, NEW w \in Workers, Stall(w)
  PROVE  KeepInv'
<1>0. /\ UNCHANGED <<flags, client, stored, row, seen>> /\ Rows' = Rows
      /\ kept' = kept \ Failed(w) /\ Redelivered(w)
      /\ work \in [Workers -> Jobs] /\ work[w] \in Jobs
  BY DEF Stall, caches, Rows, TypeInv, RowsOK
<1>1. /\ work' \in [Workers -> Jobs] /\ \A v \in Workers \ {w} : work'[v] = work[v]
      /\ work'[w].list = work[w].list /\ ~work'[w].own /\ work'[w].pc = work[w].pc
  BY <1>0 DEF Stall, Jobs
<1>2. KeptInv' /\ LaterInv' /\ CoveredInv' /\ ListInv'
  <2>1. Orderly(work'[w])
    BY <1>1 DEF KeepInv, ListInv, Orderly
  <2>2. QED
    BY <1>0, <1>1, <2>1, JobKeeps
<1>3. ASSUME NEW f \in kept'
      PROVE  /\ Shown(f) => Shown(f)'
             /\ Merging(f) => Merging(f)'
             /\ Awaited(f) => Awaited(f)'
  <2>1. f \in Files /\ f \notin Failed(w)
    BY <1>0 DEF TypeInv, ErasureOK
  <2>2. flags.seen /\ w \in Reading /\ f \in work[w].list => Merging(f)'
    BY <1>0, <1>1 DEF Merging, Reading
  <2>3. QED
    BY <1>0, <1>1, <2>1, <2>2, StaysMerging, RedeliveredAwaits DEF Shown
<1>4. QED
  BY <1>0, <1>2, <1>3, StaysServed DEF KeepInv

\* The row that is computed shows every file whose content went into it.
LEMMA WriteKeeps ==
  ASSUME TypeInv, KeepInv, NEW w \in Workers, Write(w),
         ~(work[w].base.has = {} /\ Valid(work[w].list) = {})
  PROVE  KeepInv'
<1> DEFINE new == [by |-> w, list |-> work[w].list,
                   score |-> Merged(work[w].base, work[w].list)]
<1>0. /\ UNCHANGED <<flags, client, stored, row, seen, kept, waiting>>
      /\ buffer' = buffer \cup {new} /\ Rests(w) /\ work[w].pc = "write"
      /\ work \in [Workers -> Jobs] /\ work[w] \in Jobs
  BY DEF Write, caches, queues, TypeInv, RowsOK
<1>1. Rows' = Rows \cup {new}
  BY <1>0 DEF Rows
<1>2. new.list = work[w].list /\ new.score = Merged(work[w].base, work[w].list)
  OBVIOUS
<1>3. \A f \in Valid(new.list) : f \in new.score.has /\ new.score.shows >= f
  <2>1. Valid(work[w].list) \in SUBSET Files
    BY <1>0 DEF Valid, Jobs
  <2>2. \A f \in Valid(work[w].list) : f <= Max(Valid(work[w].list))
    BY <2>1, LastOfFiles
  <2>3. Valid(work[w].list) # {} => Max(Valid(work[w].list)) \in Files
    BY <2>1, LastOfFiles
  <2>4. /\ new.score.has = work[w].base.has \cup Valid(work[w].list)
        /\ Valid(work[w].list) # {} => new.score.shows = Max(Valid(work[w].list))
    BY <1>2 DEF Merged
  <2>5. QED
    BY <1>2, <2>1, <2>2, <2>3, <2>4, ScoreEventsAssumption DEF Files
<1> HIDE DEF new
<1>4. /\ work' \in [Workers -> Jobs] /\ \A v \in Workers \ {w} : work'[v] = work[v]
      /\ work'[w].list = {} /\ Orderly(work'[w])
  BY <1>0, RestsType DEF Rests, TypeInv, RowsOK, Orderly, Idle
<1>5. KeptInv' /\ ListInv'
  BY <1>0, <1>4 DEF KeepInv, KeptInv, ListInv, Orderly
<1>6. CoveredInv'
  BY <1>0, <1>1, <1>3 DEF KeepInv, CoveredInv, Valid
<1>7. work[w].list # {}
  BY <1>0 DEF KeepInv, ListInv, Orderly
<1>8. LaterInv'
  BY <1>0, <1>1, <1>2, <1>4, <1>7 DEF KeepInv, LaterInv
<1>9. ASSUME NEW f \in kept
      PROVE  /\ Shown(f) => Shown(f)'
             /\ Merging(f) => Merging(f)'
             /\ Awaited(f) => Merging(f)' \/ Awaited(f)'
  <2>1. f \in work[w].list => Merging(f)'
    BY <1>1, <1>2 DEF Merging
  <2>2. f \notin work[w].list => (Awaited(f) => Awaited(f)')
    BY <1>0, <1>4 DEF Awaited
  <2>3. Rows \subseteq Rows'
    BY <1>1
  <2>4. QED
    BY <1>0, <1>4, <2>1, <2>2, <2>3, StaysMerging DEF Shown
<1>10. QED
  BY <1>0, <1>5, <1>6, <1>8, <1>9, StaysServed DEF KeepInv

LEMMA WriterKeeps ==
  ASSUME TypeInv, KeepInv, Forget \/ \E b \in buffer : Log(b) \/ Load(b) \/ Discard(b)
  PROVE  KeepInv'
<1>0. /\ UNCHANGED <<flags, client, stored, work, waiting>>
      /\ kept' \subseteq kept /\ seen' \subseteq seen /\ Rows' \subseteq Rows
  BY DEF Forget, Log, Load, Discard, queues, caches, promises, Rows
<1>1. KeptInv' /\ CoveredInv' /\ ListInv'
  BY <1>0 DEF KeepInv, KeptInv, CoveredInv, ListInv, Orderly, Valid
<1>2. \A f : Awaited(f) => Awaited(f)'
  BY <1>0 DEF Awaited
<1>3. CASE row' = row /\ \A f \in kept' : \A b \in Rows : f \in b.list => b \in Rows'
  <2>1. LaterInv'
    BY <1>0, <1>3 DEF KeepInv, LaterInv
  <2>2. \A f \in kept' : (Shown(f) => Shown(f)') /\ (Merging(f) => Merging(f)')
    BY <1>0, <1>3 DEF Shown, Merging, Reading
  <2>3. QED
    BY <1>0, <1>1, <1>2, <2>1, <2>2, StaysServed DEF KeepInv
<1>4. CASE \E b \in buffer : Load(b)
  <2> PICK b \in Rows : Load(b)
    BY <1>4 DEF Load
  <2>1. /\ row' = b.score /\ Rows' = Rows \ {b}
        /\ \A f \in kept' : f \in kept /\ (f \in b.score.has => ~Threatened(b, f))
    BY DEF Load, Rows
  <2>2. LaterInv'
    BY <1>0, <2>1 DEF LaterInv, Threatened
  <2>3. ASSUME NEW f \in kept', f \in b.list PROVE Shown(f)'
    <3>1. f \in Valid(b.list)
      BY <2>1, <2>3 DEF KeepInv, KeptInv, Valid
    <3>2. QED
      BY <2>1, <3>1 DEF KeepInv, CoveredInv, Shown
  <2>4. \A f \in kept' : Shown(f) => f \in b.list
    BY <2>1 DEF KeepInv, LaterInv, Shown
  <2>5. \A f \in kept' : Merging(f) => f \in b.list \/ Merging(f)'
    BY <1>0, <2>1 DEF Merging, Reading
  <2>6. QED
    BY <1>0, <1>1, <1>2, <2>2, <2>3, <2>4, <2>5, StaysServed DEF KeepInv
<1>5. CASE \E b \in buffer : Discard(b)
  <2> PICK b \in buffer : Discard(b)
    BY <1>5
  <2>1. row' = row /\ Rows' = Rows \ {b} /\ (b \in Rows => kept' = kept \ b.list)
    BY DEF Discard, Rows
  <2>2. QED
    BY <1>3, <2>1
<1>6. CASE Forget \/ \E b \in buffer : Log(b)
  <2>1. row' = row /\ Rows' = Rows
    BY <1>6 DEF Forget, Log, Rows
  <2>2. QED
    BY <1>3, <2>1
<1>7. QED
  BY <1>4, <1>5, <1>6

LEMMA EraseKeeps ==
  ASSUME TypeInv, KeepInv, AskDelete \/ Erase
  PROVE  KeepInv'
<1>0. /\ UNCHANGED <<flags, client, work, buffer, waiting, seen>> /\ kept' \subseteq kept
  BY DEF AskDelete, Erase, FindFiles, UnlinkFiles, SoftDelete, DeleteRow, FailErase,
     queues, caches, promises
<1>1. KeptInv'
  BY <1>0 DEF AskDelete, Erase, FindFiles, UnlinkFiles, Unlinked, SoftDelete, DeleteRow,
     FailErase, promises, KeepInv, KeptInv
<1>2. CoveredInv' /\ ListInv'
  BY <1>0 DEF KeepInv, CoveredInv, ListInv, Orderly, Valid, Rows
<1>3. row' = row \/ (row'.has = {} /\ \A f \in kept' : f \notin row.has)
  BY DEF AskDelete, Erase, FindFiles, UnlinkFiles, SoftDelete, DeleteRow, FailErase, NoScore
<1>4. LaterInv'
  BY <1>0, <1>3 DEF KeepInv, LaterInv, Rows
<1>5. \A f \in kept' : /\ Shown(f) => Shown(f)'
                       /\ Merging(f) => Merging(f)'
                       /\ Awaited(f) => Awaited(f)'
  BY <1>0, <1>3 DEF Shown, Merging, Awaited, Reading, Rows
<1>6. QED
  BY <1>0, <1>1, <1>2, <1>4, <1>5, StaysServed DEF KeepInv

LEMMA KeepInit == Init => KeepInv
<1> SUFFICES ASSUME Init PROVE KeepInv
  OBVIOUS
<1>1. Rows = {} /\ kept = {} /\ \A w \in Workers : work[w] = Idle
  BY DEF Init, Rows
<1>2. Orderly(Idle)
  BY DEF Orderly, Idle
<1>3. QED
  BY <1>1, <1>2 DEF KeepInv, KeptInv, ServedInv, LaterInv, CoveredInv, ListInv

LEMMA KeepStep == TypeInv /\ KeepInv /\ [Next]_vars => KeepInv'
<1> SUFFICES ASSUME TypeInv, KeepInv, [Next]_vars PROVE KeepInv'
  OBVIOUS
<1>1. CASE UNCHANGED vars
  <2>1. UNCHANGED <<flags, client, stored, seen, work, buffer, waiting, row, kept>>
    BY <1>1 DEF vars, queues, caches, promises
  <2>2. QED
    BY <2>1 DEF KeepInv, KeptInv, ServedInv, LaterInv, CoveredInv, ListInv, Orderly, Rows,
       Reading, Shown, Merging, Awaited, Valid
<1>2. ASSUME NEW w \in Workers, Job(w) PROVE KeepInv'
  BY <1>2, TakeKeeps, ListKeeps, ReadsKeep, RejectsKeep, WriteKeeps, CrashKeeps, StallKeeps
  DEF Job
<1>3. QED
  BY <1>1, <1>2, ClientKeeps, WriterKeeps, EraseKeeps DEF Next

\* Whatever fails, crashes and stalls: once all is done, an event that was
\* accepted and not excused is in the row and not hidden by an older one.
THEOREM NoEventIsLost == Spec => []Reflected
<1>1. TypeInv /\ KeepInv => Reflected
  <2> SUFFICES ASSUME TypeInv, KeepInv, Quiet, NEW f \in kept, client[f] = "accepted"
               PROVE  f \in row.has /\ row.shows >= f
    BY DEF Reflected
  <2>1. Shown(f) \/ Merging(f) \/ Awaited(f)
    BY DEF KeepInv, ServedInv
  <2>2. ~Merging(f)
    BY DEF Merging, Quiet, Reading
  <2>3. ~Awaited(f)
    <3>1. f \in Files /\ \A q \in Queues : waiting[q][f] = 0
      BY DEF Quiet, TypeInv, ErasureOK
    <3>2. \A w \in Workers : ~work[w].own
      BY DEF Quiet, KeepInv, ListInv, Orderly
    <3>3. QED
      BY <3>1, <3>2 DEF Awaited
  <2>4. QED
    BY <2>1, <2>2, <2>3 DEF Shown
<1>2. QED
  BY <1>1, TypeInit, TypeStep, KeepInit, KeepStep, PTL DEF Spec

\* However rows overtake each other on their way: the row never goes back to
\* one from before an event that it showed, unless the event was excused.
THEOREM NoEventIsTakenBack == Spec => NeverGoesBack
<1> DEFINE Back == \A f \in kept' : f \in row.has /\ row.shows >= f
                                    => f \in row'.has /\ row'.shows >= f
<1>1. TypeInv /\ KeepInv /\ [Next]_vars => [Back]_vars
  <2> SUFFICES ASSUME TypeInv, KeepInv, [Next]_vars, NEW f \in kept',
                      f \in row.has, row.shows >= f
               PROVE  f \in row'.has /\ row'.shows >= f
    OBVIOUS
  <2>1. CASE row' = row
    BY <2>1
  <2>2. CASE \E b \in buffer : Load(b)
    <3> PICK b \in Rows : Load(b)
      BY <2>2 DEF Load
    <3>1. f \in kept /\ f \in b.list /\ f \notin flags.invalid
      BY DEF Load, KeepInv, KeptInv, LaterInv
    <3>2. f \in Valid(b.list)
      BY <3>1 DEF Valid
    <3>3. QED
      BY <3>2 DEF Load, KeepInv, CoveredInv
  <2>3. CASE DeleteRow
    BY <2>3 DEF DeleteRow
  <2>4. ASSUME NEW w \in Workers, Job(w) PROVE row' = row
    BY <2>4 DEF Job, Take, List, Download, Mark, Read, Write, Throw, Crash, Stall
  <2>5. CASE Erase /\ ~DeleteRow
    BY <2>1, <2>5 DEF Erase, FindFiles, UnlinkFiles, SoftDelete, FailErase
  <2>6. QED
    BY <2>1, <2>2, <2>3, <2>4, <2>5 DEF Next, vars, Upload, FailUpload, Enqueue, FailEnqueue,
       Log, Discard, Forget, AskDelete
<1>2. QED
  BY <1>1, TypeInit, TypeStep, KeepInit, KeepStep, PTL DEF Spec, NeverGoesBack
=============================================================================
