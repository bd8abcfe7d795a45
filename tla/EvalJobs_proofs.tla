---------------------------- MODULE EvalJobs_proofs ----------------------------
(***************************************************************************)
(* Theorems about EvalJobs, for any number of configurations, rows, jobs   *)
(* and executors, and any number of upserts, errors, crashes and stalls.   *)
(***************************************************************************)
EXTENDS EvalJobs, TLAPS, SequenceTheorems

-----------------------------------------------------------------------------
(***************************************************************************)
(* The type invariant by groups of variables                               *)
(***************************************************************************)
CreatorSteps == {"idle", "query", "cache", "trace", "look", "match", "create", "cancel", "enqueue"}
CreatorJobs == [pc : CreatorSteps, tries : Nat, scope : SUBSET Configs, todo : SUBSET Configs,
                view : SUBSET SUBSET Configs, seen : SUBSET Rows, for : SUBSET Configs,
                row : Rows \cup {NoRow}]
Statuses == {"PENDING", "DELAYED", "COMPLETED", "ERROR", "CANCELLED", "gone"}
RunSteps == {"idle", "delete", "cancel", "call", "complete", "delay", "lapse", "stop", "error"}
Runs == [pc : RunSteps, row : Rows \cup {NoRow}, own : BOOLEAN]

SettingsOK ==
  /\ active \subseteq Configs /\ matching \subseteq Configs
  /\ noConfigs \in {"unset", "right", "wrong"} /\ clearing \in BOOLEAN
  /\ left \in [Kinds -> Nat]
CreatorsOK == creator \in [Jobs -> CreatorJobs]
RowsOK ==
  /\ made \in 0..MaxRows
  /\ of \in [1..made -> Configs]
  /\ status \in [Rows -> Statuses]
  /\ old \subseteq Rows
RunsOK ==
  /\ waiting \in [Rows -> Nat]
  /\ exec \in [Executors -> Runs]
  /\ scores \in [Configs -> Nat]
PromisesOK == owed \subseteq Always /\ once \subseteq Configs

TypeInv == SettingsOK /\ CreatorsOK /\ RowsOK /\ RunsOK /\ PromisesOK

LEMMA TypeParts == TypeInv => TypeOK
<1> SUFFICES ASSUME TypeInv PROVE TypeOK
  OBVIOUS
<1>1. CreatorSteps = {"idle", "query", "cache", "trace", "look", "match"}
                       \cup {"create", "cancel", "enqueue"}
  BY DEF CreatorSteps
<1>2. QED
  BY <1>1 DEF TypeInv, SettingsOK, CreatorsOK, RowsOK, RunsOK, PromisesOK, TypeOK,
     CreatorJobs, Statuses, RunSteps, Runs

\* A group of variables that a step leaves alone keeps its type.
LEMMA Frames ==
  ASSUME TypeInv
  PROVE  /\ UNCHANGED <<active, matching, noConfigs, clearing, left>> => SettingsOK'
         /\ UNCHANGED creator => CreatorsOK'
         /\ UNCHANGED <<database, old>> => RowsOK'
         /\ UNCHANGED <<waiting, exec, scores>> => RunsOK'
         /\ UNCHANGED promises => PromisesOK'
BY DEF TypeInv, SettingsOK, CreatorsOK, RowsOK, RunsOK, PromisesOK, database, promises

LEMMA IdleType == Idle \in CreatorJobs /\ Resting \in Runs
BY DEF Idle, Resting, CreatorJobs, CreatorSteps, Runs, RunSteps

LEMMA SpendType ==
  ASSUME TypeInv, NEW k \in Kinds, Spend(k)
  PROVE  left' \in [Kinds -> Nat]
BY DEF Spend, TypeInv, SettingsOK

LEMMA TypeInit == Init => TypeInv
<1> SUFFICES ASSUME Init PROVE TypeInv
  OBVIOUS
<1>1. SettingsOK
  <2>1. left \in [Kinds -> Nat]
    BY EvalJobsAssumption DEF Init, Kinds
  <2>2. QED
    BY <2>1 DEF Init, SettingsOK
<1>2. RowsOK
  BY EvalJobsAssumption DEF Init, RowsOK, Statuses
<1>3. CreatorsOK /\ RunsOK
  BY IdleType DEF Init, CreatorsOK, RunsOK
<1>4. PromisesOK
  BY DEF Init, PromisesOK
<1>5. QED
  BY <1>1, <1>2, <1>3, <1>4 DEF TypeInv

\* Creator jobs are added, and the user interface changes configurations.
LEMMA OutsideType ==
  ASSUME TypeInv,
         \/ Upsert \/ (\E j \in Jobs, c \in Configs : Backfill(j, c))
         \/ (\E c \in Configs : Activate(c) \/ Deactivate(c))
         \/ ClearCache \/ FailClearCache \/ Expire \/ Age
  PROVE  TypeInv'
<1>0. "arrivals" \in Kinds /\ "events" \in Kinds
  BY DEF Kinds
<1>1. ASSUME NEW j \in Jobs, NEW scope \in SUBSET Configs, NEW tries \in Nat, Add(j, scope, tries)
      PROVE  CreatorsOK'
  <2> DEFINE job == [creator[j] EXCEPT !.pc = "query", !.scope = scope, !.tries = tries]
  <2>1. creator[j] \in CreatorJobs /\ creator \in [Jobs -> CreatorJobs]
    BY DEF TypeInv, CreatorsOK
  <2>2. job \in CreatorJobs
    BY <2>1 DEF CreatorJobs, CreatorSteps
  <2>3. creator' = [creator EXCEPT ![j] = job]
    BY <1>1, <2>1 DEF Add
  <2> HIDE DEF job
  <2>4. QED
    BY <2>1, <2>2, <2>3 DEF CreatorsOK
<1>2. CASE Upsert
  <2>1. CreatorsOK'
    BY <1>1, <1>2, Frames, EvalJobsAssumption DEF Upsert
  <2>2. SettingsOK'
    BY <1>0, <1>2, SpendType, EvalJobsAssumption DEF Upsert, TypeInv, SettingsOK
  <2>3. QED
    BY <1>2, <2>1, <2>2, Frames DEF Upsert, TypeInv, PromisesOK
<1>3. ASSUME NEW j \in Jobs, NEW c \in Configs, Backfill(j, c) PROVE TypeInv'
  <2>1. CreatorsOK'
    BY <1>1, <1>3, EvalJobsAssumption DEF Backfill
  <2>2. SettingsOK'
    BY <1>0, <1>3, SpendType DEF Backfill, TypeInv, SettingsOK
  <2>3. QED
    BY <1>3, <2>1, <2>2, Frames DEF Backfill, TypeInv, PromisesOK
<1>4. ASSUME NEW c \in Configs, Activate(c) \/ Deactivate(c) PROVE TypeInv'
  <2>1. SettingsOK'
    BY <1>0, <1>4, SpendType DEF Activate, Deactivate, TypeInv, SettingsOK
  <2>2. QED
    BY <1>4, <2>1, Frames DEF Activate, Deactivate, TypeInv, PromisesOK, promises
<1>5. CASE ClearCache \/ FailClearCache \/ Expire
  <2>1. SettingsOK'
    BY <1>0, <1>5, SpendType DEF ClearCache, FailClearCache, Expire, TypeInv, SettingsOK
  <2>2. QED
    BY <1>5, <2>1, Frames DEF ClearCache, FailClearCache, Expire, TypeInv
<1>6. CASE Age
  <2>1. RowsOK'
    BY <1>6, EvalJobsAssumption DEF Age, database, TypeInv, RowsOK, Rows
  <2>2. QED
    BY <1>6, <2>1, Frames DEF Age, TypeInv
<1>7. QED
  BY <1>2, <1>3, <1>4, <1>5, <1>6

-----------------------------------------------------------------------------
(***************************************************************************)
(* Creator jobs                                                            *)
(***************************************************************************)
LEMMA ContinueType ==
  ASSUME NEW job \in CreatorJobs
  PROVE  Continue(job) \in CreatorJobs
BY IdleType DEF Continue, CreatorJobs, CreatorSteps

\* What a match may lead to.
LEMMA MatchJob ==
  ASSUME TypeInv, NEW j \in Jobs, NEW c \in Configs, Match(j, c)
  PROVE  LET rest == [creator[j] EXCEPT !.todo = @ \ {c}] IN
         \/ creator' = [creator EXCEPT ![j] = Continue(rest)]
         \/ /\ MatchingJob(j, c) = {}
            /\ creator' = [creator EXCEPT ![j] = [rest EXCEPT !.pc = "create", !.for = {c}]]
         \/ \E r \in MatchingJob(j, c) :
              creator' = [creator EXCEPT ![j] = [rest EXCEPT !.pc = "cancel", !.row = r]]
BY DEF Match

LEMMA CreatorType ==
  ASSUME TypeInv, NEW j \in Jobs, CreatorStep(j)
  PROVE  TypeInv'
<1>0. creator[j] \in CreatorJobs /\ creator \in [Jobs -> CreatorJobs]
  BY DEF TypeInv, CreatorsOK
<1>1. CASE Query(j) \/ ReadTrace(j) \/ Look(j)
  <2>1. CreatorsOK'
    <3>1. CASE Query(j)
      <4>1. Found(j) \in SUBSET Configs
        BY <1>0 DEF Found, TypeInv, SettingsOK
      <4>2. QED
        BY <1>0, <3>1, <4>1 DEF Query, CreatorsOK, CreatorJobs, CreatorSteps
    <3>2. CASE ReadTrace(j)
      BY <1>0, <3>2 DEF ReadTrace, CreatorsOK, CreatorJobs, CreatorSteps, TypeInv, SettingsOK
    <3>3. CASE Look(j)
      <4>1. Existing(j) \in SUBSET Rows
        BY EvalJobsAssumption DEF Existing, Rows, TypeInv, RowsOK
      <4>2. QED
        BY <1>0, <3>3, <4>1 DEF Look, CreatorsOK, CreatorJobs, CreatorSteps
    <3>4. QED
      BY <1>1, <3>1, <3>2, <3>3
  <2>2. QED
    BY <1>1, <2>1, Frames DEF Query, ReadTrace, Look, TypeInv
<1>2. CASE SetNoEvalConfigsCache(j)
  <2>1. CreatorsOK' /\ SettingsOK'
    BY <1>0, <1>2, IdleType DEF SetNoEvalConfigsCache, CreatorsOK, TypeInv, SettingsOK
  <2>2. QED
    BY <1>2, <2>1, Frames DEF SetNoEvalConfigsCache, TypeInv
<1>3. ASSUME NEW c \in Configs, Match(j, c) PROVE TypeInv'
  <2> DEFINE rest == [creator[j] EXCEPT !.todo = @ \ {c}]
  <2>1. rest \in CreatorJobs
    BY <1>0 DEF CreatorJobs
  <2>2. MatchingJob(j, c) \in SUBSET Rows
    BY <1>0 DEF MatchingJob, CreatorJobs
  <2>3. /\ Continue(rest) \in CreatorJobs
        /\ [rest EXCEPT !.pc = "create", !.for = {c}] \in CreatorJobs
        /\ \A r \in Rows : [rest EXCEPT !.pc = "cancel", !.row = r] \in CreatorJobs
    BY <2>1, ContinueType DEF CreatorJobs, CreatorSteps
  <2> DEFINE create == [rest EXCEPT !.pc = "create", !.for = {c}]
             cancel(r) == [rest EXCEPT !.pc = "cancel", !.row = r]
  <2>4. \/ creator' = [creator EXCEPT ![j] = Continue(rest)]
        \/ creator' = [creator EXCEPT ![j] = create]
        \/ \E r \in Rows : creator' = [creator EXCEPT ![j] = cancel(r)]
    BY <1>3, <2>2, MatchJob
  <2> HIDE DEF rest, create, cancel
  <2>5. CreatorsOK'
    BY <1>0, <2>3, <2>4 DEF CreatorsOK, create, cancel
  <2>6. PromisesOK'
    BY <1>3 DEF Match, TypeInv, PromisesOK
  <2>7. QED
    BY <1>3, <2>5, <2>6, Frames DEF Match, TypeInv
<1>4. CASE Create(j)
  <2>1. PICK c \in creator[j].for : of' = Append(of, c)
    BY <1>4 DEF Create
  <2>2. c \in Configs /\ made \in 0..MaxRows /\ made < MaxRows /\ made' = made + 1
    BY <1>0, <1>4 DEF Create, CreatorJobs, TypeInv, RowsOK
  <2>3. of \in Seq(Configs) /\ Len(of) = made
    BY <2>2, EvalJobsAssumption DEF TypeInv, RowsOK
  <2>4. of' \in [1..made' -> Configs]
    <3>1. of' \in Seq(Configs) /\ Len(of') = made'
      BY <2>1, <2>2, <2>3, AppendProperties
    <3>2. QED
      BY <3>1, LenProperties
  <2>5. made' \in Rows /\ made' \in 0..MaxRows
    BY <2>2, EvalJobsAssumption DEF Rows
  <2>6. RowsOK'
    BY <1>4, <2>4, <2>5 DEF Create, TypeInv, RowsOK, Statuses
  <2>7. CreatorsOK'
    BY <1>0, <1>4, <2>5 DEF Create, CreatorsOK, CreatorJobs, CreatorSteps
  <2>8. QED
    BY <1>4, <2>6, <2>7, Frames DEF Create, TypeInv, PromisesOK
<1>5. CASE Enqueue(j)
  BY <1>0, <1>5, ContinueType, Frames DEF Enqueue, TypeInv, CreatorsOK, RunsOK
<1>6. CASE CancelDeselected(j)
  <2>1. CreatorsOK'
    BY <1>0, <1>6, ContinueType DEF CancelDeselected, CreatorsOK
  <2>2. RowsOK' /\ PromisesOK'
    BY <1>6 DEF CancelDeselected, TypeInv, RowsOK, PromisesOK, Statuses
  <2>3. QED
    BY <1>6, <2>1, <2>2, Frames DEF CancelDeselected, TypeInv
<1>7. CASE FailCreator(j)
  <2>1. CreatorsOK'
    <3> DEFINE again == [Idle EXCEPT !.pc = "query", !.scope = creator[j].scope,
                                     !.tries = creator[j].tries - 1]
    <3>1. creator[j].tries > 1 => again \in CreatorJobs
      <4>1. creator[j].tries > 1 => creator[j].tries - 1 \in Nat
        BY <1>0 DEF CreatorJobs
      <4>2. creator[j].scope \in SUBSET Configs
        BY <1>0 DEF CreatorJobs
      <4>3. QED
        BY <4>1, <4>2, IdleType DEF CreatorJobs, CreatorSteps
    <3>2. \/ creator[j].tries > 1 /\ creator' = [creator EXCEPT ![j] = again]
          \/ creator' = [creator EXCEPT ![j] = Idle]
      BY <1>7 DEF FailCreator
    <3> HIDE DEF again
    <3>3. QED
      BY <1>0, <3>1, <3>2, IdleType DEF CreatorsOK
  <2>2. SettingsOK' /\ PromisesOK'
    BY <1>7, SpendType DEF FailCreator, TypeInv, SettingsOK, PromisesOK, Kinds
  <2>3. QED
    BY <1>7, <2>1, <2>2, Frames DEF FailCreator, TypeInv
<1>8. QED
  BY <1>1, <1>2, <1>3, <1>4, <1>5, <1>6, <1>7 DEF CreatorStep

-----------------------------------------------------------------------------
(***************************************************************************)
(* Executors.  A step takes a row, goes on with it, rests, or gives the    *)
(* row back to the queue.                                                  *)
(***************************************************************************)
LEMMA RunType ==
  ASSUME TypeInv, NEW e \in Executors,
         \/ \E pc \in RunSteps : Goes(e, pc)
         \/ Rests(e)
         \/ exec' = [exec EXCEPT ![e].own = FALSE]
  PROVE  exec' \in [Executors -> Runs]
<1>0. exec \in [Executors -> Runs] /\ Resting \in Runs
  BY IdleType DEF TypeInv, RunsOK
<1>1. ASSUME NEW pc \in RunSteps, Goes(e, pc) PROVE exec' \in [Executors -> Runs]
  <2>1. [exec[e] EXCEPT !.pc = pc] \in Runs
    BY <1>0 DEF Runs
  <2>2. QED
    BY <1>0, <1>1, <2>1 DEF Goes
<1>2. CASE Rests(e)
  BY <1>0, <1>2 DEF Rests
<1>3. CASE exec' = [exec EXCEPT ![e].own = FALSE]
  <2>1. [exec[e] EXCEPT !.own = FALSE] \in Runs
    BY <1>0 DEF Runs
  <2>2. QED
    BY <1>0, <1>3, <2>1
<1>4. QED
  BY <1>1, <1>2, <1>3

LEMMA WaitType ==
  ASSUME TypeInv, NEW r
  PROVE  [waiting EXCEPT ![r] = @ + 1] \in [Rows -> Nat]
<1>1. \A x \in Rows : waiting[x] + 1 \in Nat
  BY DEF TypeInv, RunsOK
<1>2. QED
  BY <1>1 DEF TypeInv, RunsOK

LEMMA TakeType ==
  ASSUME TypeInv, NEW e \in Executors, NEW r \in Rows, Take(e, r)
  PROVE  TypeInv'
<1> DEFINE run(pc) == [pc |-> pc, row |-> r, own |-> TRUE]
<1>1. \A pc \in RunSteps : run(pc) \in Runs
  BY DEF Runs
<1>2. exec' = exec \/ \E pc \in {"delete", "call", "cancel"} : exec' = [exec EXCEPT ![e] = run(pc)]
  BY DEF Take
<1> HIDE DEF run
<1>3. exec' \in [Executors -> Runs]
  BY <1>1, <1>2 DEF TypeInv, RunsOK, RunSteps
<1>4. waiting' \in [Rows -> Nat]
  BY DEF Take, TypeInv, RunsOK
<1>5. RunsOK' /\ PromisesOK'
  BY <1>3, <1>4 DEF Take, TypeInv, RunsOK, PromisesOK
<1>6. QED
  BY <1>5, Frames DEF Take, TypeInv

LEMMA RunStepType ==
  ASSUME TypeInv, NEW e \in Executors,
         \/ Delete(e) \/ CancelNotExecutable(e) \/ Refused(e) \/ Block(e) \/ WriteScore(e)
         \/ Complete(e) \/ Retry(e) \/ MarkDelayed(e) \/ MarkError(e)
         \/ Throw(e) \/ Crash(e) \/ Stall(e)
  PROVE  TypeInv'
<1>1. exec' \in [Executors -> Runs]
  BY RunType DEF Delete, CancelNotExecutable, Refused, Block, WriteScore, Complete, Retry,
     MarkDelayed, MarkError, Throw, Crash, Stall, Rejects, RunSteps
<1>2. waiting' \in [Rows -> Nat]
  BY WaitType DEF Delete, CancelNotExecutable, Refused, Block, WriteScore, Complete, Retry,
     MarkDelayed, MarkError, Throw, Crash, Stall, Rejects, TypeInv, RunsOK
<1>3. scores' \in [Configs -> Nat]
  <2>1. \A c \in Configs : scores[c] + 1 \in Nat
    BY DEF TypeInv, RunsOK
  <2>2. QED
    BY <2>1 DEF Delete, CancelNotExecutable, Refused, Block, WriteScore, Complete, Retry,
       MarkDelayed, MarkError, Throw, Crash, Stall, TypeInv, RunsOK
<1>4. RowsOK'
  <2>1. status' = status \/ \E to \in Statuses : Set(e, to)
    BY DEF Delete, CancelNotExecutable, Refused, Block, WriteScore, Complete, Retry,
       MarkDelayed, MarkError, Throw, Crash, Stall, Statuses, database
  <2>2. status' \in [Rows -> Statuses]
    BY <2>1 DEF Set, TypeInv, RowsOK
  <2>3. UNCHANGED <<made, of, old>>
    BY DEF Delete, CancelNotExecutable, Refused, Block, WriteScore, Complete, Retry,
       MarkDelayed, MarkError, Throw, Crash, Stall, Same, database
  <2>4. QED
    BY <2>2, <2>3 DEF TypeInv, RowsOK
<1>5. SettingsOK' /\ CreatorsOK'
  <2>1. Block(e) => SettingsOK'
    BY DEF Block, TypeInv, SettingsOK
  <2>2. Throw(e) \/ Crash(e) \/ Stall(e) => SettingsOK'
    BY SpendType DEF Throw, Crash, Stall, TypeInv, SettingsOK, Kinds
  <2>3. QED
    BY <2>1, <2>2, Frames DEF Delete, CancelNotExecutable, Refused, Block, WriteScore, Complete,
       Retry, MarkDelayed, MarkError, Throw, Crash, Stall, Same
<1>6. PromisesOK'
  BY DEF Delete, CancelNotExecutable, Refused, Block, WriteScore, Complete, Retry, MarkDelayed,
     MarkError, Throw, Crash, Stall, Twice, TypeInv, PromisesOK, promises
<1>7. QED
  BY <1>1, <1>2, <1>3, <1>4, <1>5, <1>6 DEF TypeInv, RunsOK

LEMMA TypeStep == TypeInv /\ [Next]_vars => TypeInv'
<1> SUFFICES ASSUME TypeInv, [Next]_vars PROVE TypeInv'
  OBVIOUS
<1>1. CASE UNCHANGED vars
  BY <1>1, Frames DEF vars, TypeInv
<1>2. QED
  BY <1>1, OutsideType, CreatorType, TakeType, RunStepType DEF Next, ExecutorStep

\* Every variable keeps its type.
THEOREM TypeCorrect == Spec => []TypeOK
BY TypeInit, TypeStep, TypeParts, PTL DEF Spec

-----------------------------------------------------------------------------
(***************************************************************************)
(* One delivery at a time.  As long as a configuration is to score at most *)
(* once, each of its rows is with one creator, or in the queue, or with    *)
(* one executor (also in the queue when that is about to say that it was   *)
(* delayed), and a completed row is with nobody.                           *)
(***************************************************************************)
Carries(j, r) == creator[j].pc = "enqueue" /\ creator[j].row = r

Alone(r) ==
  /\ waiting[r] \in {0, 1}
  /\ \A e, f \in On(r) : e = f
  /\ \A e \in On(r) : /\ exec[e].pc # "delay" => waiting[r] = 0
                      /\ status[r] \notin {"gone", "COMPLETED"}
  /\ \A j \in Jobs : Carries(j, r) => /\ waiting[r] = 0 /\ On(r) = {}
                                      /\ status[r] # "COMPLETED"
                                      /\ \A i \in Jobs : Carries(i, r) => i = j
  /\ status[r] = "COMPLETED" => waiting[r] = 0

Unused(r) == waiting[r] = 0 /\ On(r) = {} /\ \A j \in Jobs : ~Carries(j, r)

AloneInv == \A r \in 1..made : of[r] \in once => Alone(r)
UnusedInv == \A r \in Rows : r > made => Unused(r)
RestingInv == \A e \in Executors : exec[e].pc = "idle" <=> exec[e].row = NoRow

DeliveryInv == AloneInv /\ UnusedInv /\ RestingInv

RunStep(e) ==
  \/ Delete(e) \/ CancelNotExecutable(e) \/ Refused(e) \/ Block(e) \/ WriteScore(e)
  \/ Complete(e) \/ Retry(e) \/ MarkDelayed(e) \/ MarkError(e)
  \/ Throw(e) \/ Crash(e) \/ Stall(e)

LEMMA RowsAreNumbers == /\ \A r \in Rows : r \in Nat /\ r # NoRow
                        /\ (TypeInv => 1..made \subseteq Rows /\ made \in Nat)
BY EvalJobsAssumption DEF Rows, NoRow, TypeInv, RowsOK

\* A step of an executor is about its own row.
LEMMA RunStepShape ==
  ASSUME TypeInv, NEW e \in Executors, RunStep(e)
  PROVE  /\ exec[e].pc # "idle"
         /\ UNCHANGED <<creator, made, of>> /\ once' \subseteq once
         /\ \A f \in Executors \ {e} : exec'[f] = exec[f]
         /\ \/ exec'[e] = Resting
            \/ exec'[e].row = exec[e].row /\ exec'[e].pc # "idle"
         /\ \A r \in Rows \ {exec[e].row} : waiting'[r] = waiting[r] /\ status'[r] = status[r]
<1>0. exec \in [Executors -> Runs] /\ waiting \in [Rows -> Nat] /\ status \in [Rows -> Statuses]
  BY DEF TypeInv, RunsOK, RowsOK
<1>1. exec[e].pc # "idle" /\ UNCHANGED <<creator, made, of>> /\ once' \subseteq once
  BY DEF RunStep, Delete, CancelNotExecutable, Refused, Block, WriteScore, Complete, Retry,
     MarkDelayed, MarkError, Throw, Crash, Stall, Same, Working, Twice, database, promises
<1>2. \/ Rests(e) \/ exec' = [exec EXCEPT ![e].own = FALSE]
      \/ \E pc \in RunSteps \ {"idle"} : Goes(e, pc)
  BY DEF RunStep, Delete, CancelNotExecutable, Refused, Block, WriteScore, Complete, Retry,
     MarkDelayed, MarkError, Throw, Crash, Stall, Rejects, RunSteps
<1>3. /\ \A f \in Executors \ {e} : exec'[f] = exec[f]
      /\ \/ exec'[e] = Resting
         \/ exec'[e].row = exec[e].row /\ exec'[e].pc # "idle"
  BY <1>0, <1>1, <1>2 DEF Rests, Goes, Runs
<1>4. waiting' = waiting \/ waiting' = [waiting EXCEPT ![exec[e].row] = @ + 1]
  BY DEF RunStep, Delete, CancelNotExecutable, Refused, Block, WriteScore, Complete, Retry,
     MarkDelayed, MarkError, Throw, Crash, Stall, Rejects
<1>5. status' = status \/ \E to \in Statuses : Set(e, to)
  BY DEF RunStep, Delete, CancelNotExecutable, Refused, Block, WriteScore, Complete, Retry,
     MarkDelayed, MarkError, Throw, Crash, Stall, Statuses, database
<1>6. \A r \in Rows \ {exec[e].row} : waiting'[r] = waiting[r] /\ status'[r] = status[r]
  BY <1>0, <1>4, <1>5 DEF Set
<1>7. QED
  BY <1>1, <1>3, <1>6

\* What a step does to its row, when it has it alone.
LEMMA OwnRow ==
  ASSUME TypeInv, NEW e \in Executors, RunStep(e), NEW r \in Rows, exec[e].row = r,
         Alone(r), of[r] \in once'
  PROVE  /\ waiting'[r] \in {0, 1}
         /\ \/ /\ exec'[e] = Resting
               /\ status'[r] = "COMPLETED" => waiting'[r] = 0
            \/ /\ status'[r] = status[r]
               /\ exec'[e].pc # "delay" => waiting'[r] = 0
<1>0. exec \in [Executors -> Runs] /\ waiting \in [Rows -> Nat] /\ status \in [Rows -> Statuses]
  BY DEF TypeInv, RunsOK, RowsOK
<1>1. /\ e \in On(r) /\ waiting[r] \in {0, 1} /\ ~Gone(e) /\ status[r] # "COMPLETED"
      /\ exec[e].pc # "delay" => waiting[r] = 0
  BY DEF On, Alone, Gone
<1>2. CASE Delete(e) \/ CancelNotExecutable(e) \/ Complete(e)
  <2>1. exec[e].pc # "delay" /\ waiting' = waiting /\ Rests(e)
    BY <1>1, <1>2 DEF Delete, CancelNotExecutable, Complete
  <2>2. QED
    BY <1>0, <1>1, <2>1 DEF Rests
<1>3. CASE Refused(e) \/ Block(e) \/ WriteScore(e) \/ Throw(e)
  <2>1. exec[e].pc # "delay" /\ waiting' = waiting /\ status' = status
    BY <1>3 DEF Refused, Block, WriteScore, Throw, Working, database
  <2>2. QED
    BY <1>1, <2>1
<1>4. CASE Retry(e)
  <2>1. exec[e].pc = "call" /\ status' = status /\ waiting[r] = 0
    BY <1>1, <1>4 DEF Retry
  <2>2. \/ waiting' = waiting
        \/ waiting' = [waiting EXCEPT ![r] = @ + 1] /\ Goes(e, "delay")
    BY <1>1, <1>4 DEF Retry
  <2>3. QED
    BY <1>0, <2>1, <2>2 DEF Goes, Runs
<1>5. CASE MarkDelayed(e)
  <2>1. Set(e, "DELAYED") /\ Rests(e) /\ waiting' = waiting
    BY <1>1, <1>5 DEF MarkDelayed
  <2>2. QED
    BY <1>0, <1>1, <2>1 DEF Set, Rests
<1>6. CASE MarkError(e)
  <2>1. exec[e].pc # "delay" /\ Set(e, "ERROR") /\ Rests(e)
    BY <1>1, <1>6 DEF MarkError, Rejects
  <2>2. waiting' = waiting \/ waiting' = [waiting EXCEPT ![r] = @ + 1]
    BY <1>6 DEF MarkError, Rejects
  <2>3. QED
    BY <1>0, <1>1, <2>1, <2>2 DEF Set, Rests
<1>7. CASE Crash(e)
  <2>1. exec[e].pc # "delay" /\ status' = status /\ Rests(e)
    BY <1>7 DEF Crash, Twice, Rejects, database
  <2>2. waiting' = waiting \/ waiting' = [waiting EXCEPT ![r] = @ + 1]
    BY <1>7 DEF Crash, Rejects
  <2>3. QED
    BY <1>0, <1>1, <2>1, <2>2 DEF Rests
<1>8. ~Stall(e)
  BY DEF Stall
<1>9. QED
  BY <1>2, <1>3, <1>4, <1>5, <1>6, <1>7, <1>8 DEF RunStep

LEMMA RunStepDelivery ==
  ASSUME TypeInv, DeliveryInv, NEW e \in Executors, RunStep(e)
  PROVE  DeliveryInv'
<1>0. /\ exec[e].pc # "idle"
      /\ UNCHANGED <<creator, made, of>> /\ once' \subseteq once
      /\ \A f \in Executors \ {e} : exec'[f] = exec[f]
      /\ \/ exec'[e] = Resting
         \/ exec'[e].row = exec[e].row /\ exec'[e].pc # "idle"
      /\ \A r \in Rows \ {exec[e].row} : waiting'[r] = waiting[r] /\ status'[r] = status[r]
  BY RunStepShape
<1> DEFINE own == exec[e].row
<1>1. own \in Rows
  BY <1>0 DEF DeliveryInv, RestingInv, TypeInv, RunsOK, Runs
<1>2. own <= made
  BY <1>1, RowsAreNumbers DEF DeliveryInv, UnusedInv, Unused, On
<1>3. RestingInv'
  BY <1>0 DEF DeliveryInv, RestingInv, Resting
<1>4. \A r \in Rows \ {own} : On(r)' = On(r) /\ \A f \in On(r) : exec'[f] = exec[f]
  BY <1>0, RowsAreNumbers DEF On, Resting
<1>5. UnusedInv'
  BY <1>0, <1>2, <1>4, RowsAreNumbers DEF DeliveryInv, UnusedInv, Unused, Carries
<1>6. ASSUME NEW r \in 1..made, of[r] \in once' PROVE Alone(r)'
  <2>1. Alone(r) /\ r \in Rows
    BY <1>0, <1>6, RowsAreNumbers DEF DeliveryInv, AloneInv
  <2>2. CASE r # own
    BY <1>0, <1>4, <2>1, <2>2 DEF Alone, Carries
  <2>3. CASE r = own
    <3>1. e \in On(r) /\ On(r) = {e} /\ \A j \in Jobs : ~Carries(j, r)
      BY <2>1, <2>3 DEF Alone, On
    <3>2. \A j \in Jobs : ~Carries(j, r)'
      BY <1>0, <3>1 DEF Carries
    <3>3. On(r)' \subseteq {e}
      BY <1>0, <3>1 DEF On
    <3>4. status[r] \notin {"gone", "COMPLETED"}
      BY <2>1, <3>1 DEF Alone
    <3>5. exec'[e] = Resting => On(r)' = {}
      BY <2>1, <3>3, RowsAreNumbers DEF On, Resting
    <3>6. QED
      BY <1>6, <2>1, <2>3, <3>2, <3>3, <3>4, <3>5, OwnRow DEF Alone
  <2>4. QED
    BY <2>2, <2>3
<1>7. QED
  BY <1>0, <1>3, <1>5, <1>6 DEF DeliveryInv, AloneInv

LEMMA TakeDelivery ==
  ASSUME TypeInv, DeliveryInv, NEW e \in Executors, NEW r \in Rows, Take(e, r)
  PROVE  DeliveryInv'
<1>0. /\ exec[e].pc = "idle" /\ waiting[r] > 0 /\ waiting' = [waiting EXCEPT ![r] = @ - 1]
      /\ UNCHANGED <<creator, made, of, status>> /\ once' \subseteq once
      /\ On(r) # {} => of[r] \notin once'
  BY DEF Take, database
<1>1. \/ exec' = exec
      \/ /\ status[r] # "gone"
         /\ \E pc \in {"delete", "call", "cancel"} :
              exec' = [exec EXCEPT ![e] = [pc |-> pc, row |-> r, own |-> TRUE]]
  BY DEF Take
<1>2. /\ \A f \in Executors \ {e} : exec'[f] = exec[f]
      /\ \/ exec'[e] = exec[e]
         \/ status[r] # "gone" /\ exec'[e].row = r /\ exec'[e].pc \notin {"idle", "delay"}
  BY <1>1 DEF TypeInv, RunsOK
<1>3. e \notin On(r) /\ exec[e].row = NoRow /\ r <= made
  BY <1>0, RowsAreNumbers DEF DeliveryInv, RestingInv, UnusedInv, Unused, On
<1>4. RestingInv'
  BY <1>2, RowsAreNumbers DEF DeliveryInv, RestingInv
<1>5. \A s \in Rows \ {r} : /\ On(s)' = On(s) /\ \A f \in On(s) : exec'[f] = exec[f]
                            /\ waiting'[s] = waiting[s]
  BY <1>0, <1>2, <1>3, RowsAreNumbers DEF On, TypeInv, RunsOK
<1>6. UnusedInv'
  BY <1>0, <1>3, <1>5, RowsAreNumbers DEF DeliveryInv, UnusedInv, Unused, Carries
<1>7. ASSUME NEW s \in 1..made, of[s] \in once' PROVE Alone(s)'
  <2>1. Alone(s) /\ s \in Rows
    BY <1>0, <1>7, RowsAreNumbers DEF DeliveryInv, AloneInv
  <2>2. CASE s # r
    BY <1>0, <1>5, <2>1, <2>2 DEF Alone, Carries
  <2>3. CASE s = r
    <3>1. On(r) = {} /\ waiting[r] = 1 /\ status[r] # "COMPLETED" /\ \A j \in Jobs : ~Carries(j, r)
      BY <1>0, <1>7, <2>1, <2>3 DEF Alone
    <3>2. waiting'[r] = 0 /\ \A j \in Jobs : ~Carries(j, r)'
      BY <1>0, <3>1 DEF Carries, TypeInv, RunsOK
    <3>3. On(r)' \subseteq {e} /\ (On(r)' # {} => status[r] # "gone")
      BY <1>2, <1>3, <3>1 DEF On
    <3>4. QED
      BY <1>0, <2>3, <3>1, <3>2, <3>3 DEF Alone
  <2>4. QED
    BY <2>2, <2>3
<1>8. QED
  BY <1>0, <1>4, <1>6, <1>7 DEF DeliveryInv, AloneInv

\* Creator jobs carry rows of their own.
LEMMA CreatorDelivery ==
  ASSUME TypeInv, DeliveryInv, NEW j \in Jobs, CreatorStep(j)
  PROVE  DeliveryInv'
<1>0. creator \in [Jobs -> CreatorJobs] /\ creator[j] \in CreatorJobs
  BY DEF TypeInv, CreatorsOK
<1>1. exec' = exec
  BY DEF CreatorStep, Query, SetNoEvalConfigsCache, ReadTrace, Look, Match, Create, Enqueue,
     CancelDeselected, FailCreator
<1>2. RestingInv' /\ \A r : On(r)' = On(r)
  BY <1>1 DEF DeliveryInv, RestingInv, On
<1>3. \A i \in Jobs \ {j} : creator'[i] = creator[i]
  BY <1>0 DEF CreatorStep, Query, SetNoEvalConfigsCache, ReadTrace, Look, Match, Create, Enqueue,
     CancelDeselected, FailCreator
<1>4. \A job \in CreatorJobs : Continue(job).pc # "enqueue"
  BY DEF Continue, Idle, CreatorJobs
<1>5. CASE Create(j)
  <2>1. /\ made' = made + 1 /\ made < MaxRows /\ waiting' = waiting /\ once' \subseteq once
        /\ status' = [status EXCEPT ![made'] = "PENDING"]
        /\ \E c : of' = Append(of, c)
    BY <1>5 DEF Create
  <2>2. PICK new \in Rows : new = made + 1 /\ made \in Nat /\ made' = new
    BY <2>1, EvalJobsAssumption DEF Rows, TypeInv, RowsOK
  <2>3. creator'[j].pc = "enqueue" /\ creator'[j].row = new
    BY <1>0, <1>5, <2>2 DEF Create, CreatorJobs
  <2>4. Unused(new)
    BY <2>2 DEF DeliveryInv, UnusedInv
  <2>5. \A i \in Jobs, r \in Rows \ {new} : Carries(i, r)' => i # j /\ Carries(i, r)
    BY <1>3, <2>3 DEF Carries
  <2>6. \A i \in Jobs : Carries(i, new)' => i = j
    BY <1>3, <2>4 DEF Carries, Unused
  <2>7. UnusedInv'
    BY <1>2, <2>1, <2>2, <2>5 DEF DeliveryInv, UnusedInv, Unused, Rows
  <2>8. ASSUME NEW r \in 1..made', of'[r] \in once' PROVE Alone(r)'
    <3>1. CASE r = new
      <4>1. waiting'[r] = 0 /\ On(r)' = {} /\ status'[r] = "PENDING"
        BY <1>2, <2>1, <2>2, <2>4, <3>1 DEF Unused, TypeInv, RowsOK
      <4>2. QED
        BY <2>6, <3>1, <4>1 DEF Alone
    <3>2. CASE r # new
      <4>1. r \in 1..made /\ r \in Rows
        BY <2>1, <2>2, <3>2, RowsAreNumbers
      <4>2. of'[r] = of[r]
        BY <2>1, <2>2, <4>1 DEF TypeInv, RowsOK
      <4>3. Alone(r)
        BY <2>1, <2>8, <4>1, <4>2 DEF DeliveryInv, AloneInv
      <4>4. waiting'[r] = waiting[r] /\ status'[r] = status[r]
        BY <2>1, <3>2, <4>1 DEF TypeInv, RowsOK
      <4>5. QED
        BY <1>1, <1>2, <2>5, <3>2, <4>1, <4>3, <4>4 DEF Alone
    <3>3. QED
      BY <3>1, <3>2
  <2>9. QED
    BY <1>2, <2>7, <2>8 DEF DeliveryInv, AloneInv
<1>6. CASE Enqueue(j)
  <2> DEFINE own == creator[j].row
  <2>1. /\ waiting' = [waiting EXCEPT ![own] = @ + 1] /\ UNCHANGED <<made, of, status, once>>
        /\ creator[j].pc = "enqueue" /\ creator'[j].pc # "enqueue"
    BY <1>0, <1>4, <1>6 DEF Enqueue, database, promises
  <2>2. \A i \in Jobs : \A r : Carries(i, r)' <=> i # j /\ Carries(i, r)
    BY <1>3, <2>1 DEF Carries
  <2>3. Carries(j, own)
    BY <2>1 DEF Carries
  <2>4. \A r \in Rows \ {own} : waiting'[r] = waiting[r]
    BY <2>1 DEF TypeInv, RunsOK
  <2>5. own \in Rows => own <= made
    BY <2>3, RowsAreNumbers DEF DeliveryInv, UnusedInv, Unused
  <2>6. UnusedInv'
    BY <1>2, <2>1, <2>2, <2>4, <2>5, RowsAreNumbers DEF DeliveryInv, UnusedInv, Unused
  <2>7. ASSUME NEW r \in 1..made, of[r] \in once PROVE Alone(r)'
    <3>1. Alone(r) /\ r \in Rows
      BY <2>7, RowsAreNumbers DEF DeliveryInv, AloneInv
    <3>2. CASE r # own
      BY <1>1, <1>2, <2>1, <2>2, <2>4, <3>1, <3>2 DEF Alone
    <3>3. CASE r = own
      <4>1. waiting[r] = 0 /\ On(r) = {} /\ status[r] # "COMPLETED"
            /\ \A i \in Jobs : ~Carries(i, r)'
        BY <2>2, <2>3, <3>1, <3>3 DEF Alone
      <4>2. waiting'[r] = 1
        BY <2>1, <3>1, <3>3, <4>1 DEF TypeInv, RunsOK
      <4>3. QED
        BY <1>2, <2>1, <4>1, <4>2 DEF Alone
    <3>4. QED
      BY <3>2, <3>3
  <2>8. QED
    BY <1>2, <2>1, <2>6, <2>7 DEF DeliveryInv, AloneInv
<1>7. CASE CreatorStep(j) /\ ~Create(j) /\ ~Enqueue(j)
  <2>1. UNCHANGED <<waiting, made, of, once>>
    BY <1>7 DEF CreatorStep, Query, SetNoEvalConfigsCache, ReadTrace, Look, Match,
       CancelDeselected, FailCreator, database, promises
  <2>2. \A r \in Rows : \/ status'[r] = status[r]
                        \/ /\ status'[r] = "CANCELLED"
                           /\ status[r] \notin {"gone", "COMPLETED"}
    <3>1. CASE CancelDeselected(j)
      <4>1. status' = status \/ /\ Cancellable(creator[j].row)
                                /\ status' = [status EXCEPT ![creator[j].row] = "CANCELLED"]
        BY <3>1 DEF CancelDeselected
      <4>2. QED
        BY <4>1 DEF Cancellable, TypeInv, RowsOK
    <3>2. CASE ~CancelDeselected(j)
      BY <1>7, <3>2 DEF CreatorStep, Query, SetNoEvalConfigsCache, ReadTrace, Look, Match,
         FailCreator, database
    <3>3. QED
      BY <3>1, <3>2
  <2>3. creator'[j].pc # "enqueue"
    <3>1. CASE \E c \in Configs : Match(j, c)
      <4> PICK c \in Configs : Match(j, c)
        BY <3>1
      <4> DEFINE rest == [creator[j] EXCEPT !.todo = @ \ {c}]
                 create == [rest EXCEPT !.pc = "create", !.for = {c}]
                 cancel(r) == [rest EXCEPT !.pc = "cancel", !.row = r]
      <4>1. rest \in CreatorJobs
        BY <1>0 DEF CreatorJobs
      <4>2. Continue(rest).pc # "enqueue"
        BY <1>4, <4>1
      <4>3. create.pc = "create" /\ \A r : cancel(r).pc = "cancel"
        BY <4>1 DEF CreatorJobs
      <4>4. \/ creator' = [creator EXCEPT ![j] = Continue(rest)]
            \/ creator' = [creator EXCEPT ![j] = create]
            \/ \E r : creator' = [creator EXCEPT ![j] = cancel(r)]
        BY MatchJob
      <4> HIDE DEF rest, create, cancel
      <4>5. QED
        <5>1. \A job : creator' = [creator EXCEPT ![j] = job] => creator'[j] = job
          BY <1>0
        <5>2. QED
          BY <4>2, <4>3, <4>4, <5>1
    <3>2. CASE CancelDeselected(j)
      BY <1>0, <1>4, <3>2 DEF CancelDeselected
    <3>3. CASE FailCreator(j)
      <4>1. Idle.pc = "idle"
        BY DEF Idle
      <4>2. QED
        <5> DEFINE again == [Idle EXCEPT !.pc = "query", !.scope = creator[j].scope,
                                         !.tries = creator[j].tries - 1]
        <5>1. creator' = [creator EXCEPT ![j] = Idle] \/ creator' = [creator EXCEPT ![j] = again]
          BY <3>3, Zenon DEF FailCreator
        <5>2. again.pc = "query"
          BY DEF Idle
        <5> HIDE DEF again
        <5>3. creator'[j] = Idle \/ creator'[j] = again
          BY <1>0, <5>1
        <5>4. QED
          BY <4>1, <5>2, <5>3
    <3>4. CASE Query(j)
      <4> DEFINE next == CASE Found(j) = {} -> "cache"
                           [] \E c \in Configs : Found(j) = {c} -> "look"
                           [] OTHER -> "trace"
      <4>1. creator' = [creator EXCEPT ![j].todo = Found(j), ![j].pc = next]
        BY <3>4 DEF Query
      <4>2. next # "enqueue"
        OBVIOUS
      <4> HIDE DEF next
      <4>3. QED
        BY <1>0, <4>1, <4>2 DEF CreatorJobs
    <3>5. CASE SetNoEvalConfigsCache(j)
      BY <1>0, <3>5 DEF SetNoEvalConfigsCache, Idle
    <3>6. CASE ReadTrace(j) \/ Look(j)
      BY <1>0, <3>6 DEF ReadTrace, Look, CreatorJobs
    <3>7. QED
      BY <1>7, <3>1, <3>2, <3>3, <3>4, <3>5, <3>6 DEF CreatorStep
  <2>4. \A i \in Jobs : \A r : Carries(i, r)' => Carries(i, r)
    BY <1>3, <2>3 DEF Carries
  <2>5. UnusedInv'
    BY <1>2, <2>1, <2>4 DEF DeliveryInv, UnusedInv, Unused
  <2>6. ASSUME NEW r \in 1..made, of[r] \in once PROVE Alone(r)'
    <3>1. Alone(r) /\ r \in Rows
      BY <2>6, RowsAreNumbers DEF DeliveryInv, AloneInv
    <3>2. QED
      BY <1>1, <1>2, <2>1, <2>2, <2>4, <3>1 DEF Alone
  <2>7. QED
    BY <1>2, <2>1, <2>5, <2>6 DEF DeliveryInv, AloneInv
<1>8. QED
  BY <1>5, <1>6, <1>7

LEMMA DeliveryStep == TypeInv /\ DeliveryInv /\ [Next]_vars => DeliveryInv'
<1> SUFFICES ASSUME TypeInv, DeliveryInv, [Next]_vars PROVE DeliveryInv'
  OBVIOUS
<1>1. CASE \E j \in Jobs : CreatorStep(j)
  BY <1>1, CreatorDelivery
<1>2. CASE \E e \in Executors : ExecutorStep(e)
  BY <1>2, TakeDelivery, RunStepDelivery DEF ExecutorStep, RunStep
<1>3. CASE \/ Upsert \/ (\E j \in Jobs, c \in Configs : Backfill(j, c))
           \/ (\E c \in Configs : Activate(c) \/ Deactivate(c))
           \/ ClearCache \/ FailClearCache \/ Expire \/ Age \/ UNCHANGED vars
  <2>1. UNCHANGED <<made, of, status, waiting, exec, once>>
    BY <1>3 DEF Upsert, Backfill, Activate, Deactivate, ClearCache, FailClearCache, Expire, Age,
       vars, database, promises
  <2>2. \A i \in Jobs : creator'[i].pc = "enqueue" => creator'[i] = creator[i]
    <3>1. \A j \in Jobs, i \in Jobs : \A scope, tries : Add(j, scope, tries)
            => creator'[i] = creator[i] \/ creator'[i].pc = "query"
      BY DEF Add, TypeInv, CreatorsOK, CreatorJobs
    <3>2. creator' = creator \/ \E j \in Jobs : \E scope, tries : Add(j, scope, tries)
      BY <1>3 DEF Upsert, Backfill, Activate, Deactivate, ClearCache, FailClearCache, Expire,
         Age, vars
    <3>3. QED
      BY <3>1, <3>2
  <2>3. \A i \in Jobs : \A r : Carries(i, r)' => Carries(i, r)
    BY <2>2 DEF Carries
  <2>4. QED
    BY <2>1, <2>3 DEF DeliveryInv, AloneInv, UnusedInv, RestingInv, Alone, Unused, On
<1>4. QED
  BY <1>1, <1>2, <1>3 DEF Next

LEMMA DeliveryInit == Init => DeliveryInv
<1> SUFFICES ASSUME Init PROVE DeliveryInv
  OBVIOUS
<1>1. /\ \A e \in Executors : exec[e].pc = "idle" /\ exec[e].row = NoRow
      /\ \A j \in Jobs : creator[j].pc = "idle"
      /\ \A r \in Rows : waiting[r] = 0
      /\ made = 0
  BY DEF Init, Resting, Idle
<1>2. QED
  BY <1>1, RowsAreNumbers DEF DeliveryInv, AloneInv, UnusedInv, RestingInv, Unused, Carries, On

\* A row that a run completed stays completed, through every redelivery that
\* does not make the configuration run twice.
THEOREM CompletionLasts == Spec => CompletedStays
<1>1. TypeInv /\ DeliveryInv /\ [Next]_vars
        => [\A r \in 1..made : status[r] = "COMPLETED" /\ of[r] \in once'
              => status'[r] = "COMPLETED"]_vars
  <2> SUFFICES ASSUME TypeInv, DeliveryInv, Next, NEW r \in 1..made, status[r] = "COMPLETED",
                      of[r] \in once'
               PROVE  status'[r] = "COMPLETED"
    BY DEF vars
  <2>0. r \in Rows /\ r <= made /\ made \in Nat
    BY RowsAreNumbers
  <2>1. CASE \E e \in Executors : RunStep(e)
    <3> PICK e \in Executors : RunStep(e)
      BY <2>1
    <3>1. of[r] \in once
      BY RunStepShape
    <3>2. exec[e].row # r
      BY <3>1 DEF DeliveryInv, AloneInv, Alone, On
    <3>3. QED
      BY <2>0, <3>2, RunStepShape
  <2>2. CASE \E j \in Jobs : Create(j)
    BY <2>0, <2>2 DEF Create, TypeInv, RowsOK
  <2>3. CASE \E j \in Jobs : CancelDeselected(j)
    <3>1. PICK x : status' = status \/ (Cancellable(x) /\ status' = [status EXCEPT ![x] = "CANCELLED"])
      BY <2>3 DEF CancelDeselected
    <3>2. QED
      BY <2>0, <3>1 DEF Cancellable, TypeInv, RowsOK
  <2>4. CASE status' = status
    BY <2>4
  <2>5. QED
    BY <2>1, <2>2, <2>3, <2>4 DEF Next, CreatorStep, ExecutorStep, RunStep, Upsert, Backfill,
       Activate, Deactivate, ClearCache, FailClearCache, Expire, Age, Query,
       SetNoEvalConfigsCache, ReadTrace, Look, Match, Enqueue, FailCreator, Take, database
<1>2. QED
  BY <1>1, TypeInit, TypeStep, DeliveryInit, DeliveryStep, PTL DEF Spec, CompletedStays

-----------------------------------------------------------------------------
(***************************************************************************)
(* One score.  As long as a configuration is to score at most once it has  *)
(* at most one row that is not gone, and after its score that row is       *)
(* completed, or about to be.                                              *)
(***************************************************************************)
Made(c) == {r \in 1..made : of[r] = c /\ status[r] # "gone"}
Completing(r) == \E e \in On(r) : exec[e].pc = "complete"

SingleRow(c) == \A r, s \in Made(c) : r = s
ScoredRow(c) == \E r \in Made(c) : status[r] = "COMPLETED" \/ Completing(r)

ScoreInv ==
  \A c \in once : /\ SingleRow(c)
                  /\ scores[c] \in {0, 1}
                  /\ scores[c] = 1 => ScoredRow(c)

\* Creator jobs have seen rows that exist, and make one where they saw none.
SeenInv ==
  \A j \in Jobs :
    /\ creator[j].seen \subseteq 1..made
    /\ creator[j].pc = "create" => \E c \in Configs : /\ creator[j].for = {c}
                                                      /\ \A r \in creator[j].seen : of[r] # c

LEMMA SeenStep == TypeInv /\ SeenInv /\ [Next]_vars => SeenInv'
<1> SUFFICES ASSUME TypeInv, SeenInv, [Next]_vars PROVE SeenInv'
  OBVIOUS
<1>0. creator \in [Jobs -> CreatorJobs] /\ made \in Nat
  BY RowsAreNumbers DEF TypeInv, CreatorsOK
<1>1. 1..made \subseteq 1..made' /\ \A r \in 1..made : of'[r] = of[r]
  <2>1. CASE \E j \in Jobs : Create(j)
    <3>1. made' = made + 1 /\ \E c : of' = Append(of, c)
      BY <2>1 DEF Create
    <3>2. QED
      BY <1>0, <3>1 DEF TypeInv, RowsOK
  <2>2. CASE UNCHANGED <<made, of>>
    BY <2>2
  <2>3. ASSUME NEW j \in Jobs, CreatorStep(j), ~Create(j) PROVE UNCHANGED <<made, of>>
    BY <2>3 DEF CreatorStep, Query, SetNoEvalConfigsCache, ReadTrace, Look, Match, Enqueue,
       CancelDeselected, FailCreator, database
  <2>4. ASSUME NEW e \in Executors, ExecutorStep(e) PROVE UNCHANGED <<made, of>>
    BY <2>4 DEF ExecutorStep, Take, Delete, CancelNotExecutable, Refused, Block, WriteScore,
       Complete, Retry, MarkDelayed, MarkError, Throw, Crash, Stall, Same, database
  <2>5. CASE UNCHANGED vars
    BY <2>5 DEF vars, database
  <2>6. CASE \/ \E j \in Jobs : CreatorStep(j)
             \/ \E e \in Executors : ExecutorStep(e)
    BY <2>1, <2>3, <2>4, <2>6
  <2>7. QED
    BY <2>2, <2>5, <2>6 DEF Next, Upsert, Backfill, Activate, Deactivate,
       ClearCache, FailClearCache, Expire, Age, database
<1>2. ASSUME NEW j \in Jobs, creator'[j] = creator[j]
      PROVE  /\ creator'[j].seen \subseteq 1..made'
             /\ creator'[j].pc = "create" =>
                  \E c \in Configs : /\ creator'[j].for = {c}
                                     /\ \A r \in creator'[j].seen : of'[r] # c
  BY <1>1, <1>2 DEF SeenInv
<1>3. CASE creator' = creator
  BY <1>2, <1>3 DEF SeenInv
<1> DEFINE Kept(old1, job) == /\ job.pc # "create"
                              /\ job.seen = old1.seen \/ job.seen = {}
<1>4. ASSUME NEW j \in Jobs, \A i \in Jobs \ {j} : creator'[i] = creator[i],
             Kept(creator[j], creator'[j])
      PROVE  SeenInv'
  BY <1>1, <1>2, <1>4 DEF SeenInv
<1>5. ASSUME NEW j \in Jobs, NEW scope, NEW tries, Add(j, scope, tries) PROVE SeenInv'
  <2>1. (\A i \in Jobs \ {j} : creator'[i] = creator[i]) /\ Kept(creator[j], creator'[j])
    BY <1>0, <1>5 DEF Add, CreatorJobs
  <2>2. QED
    BY <1>4, <2>1
<1>6. ASSUME NEW job \in CreatorJobs, job.pc # "create"
      PROVE  Kept(job, Continue(job))
  BY <1>6 DEF Continue, Idle, CreatorJobs
<1> HIDE DEF Kept
<1>7. ASSUME NEW j \in Jobs, CreatorStep(j) PROVE SeenInv'
  <2>0. creator[j] \in CreatorJobs
    BY <1>0
  <2>1. \A i \in Jobs \ {j} : creator'[i] = creator[i]
    BY <1>0, <1>7 DEF CreatorStep, Query, SetNoEvalConfigsCache, ReadTrace, Look, Match, Create,
       Enqueue, CancelDeselected, FailCreator
  <2>2. CASE Query(j) \/ ReadTrace(j) \/ Create(j)
    BY <1>0, <1>4, <2>0, <2>1, <2>2 DEF Query, ReadTrace, Create, CreatorJobs, Kept
  <2>3. CASE SetNoEvalConfigsCache(j) \/ FailCreator(j)
    <3>1. creator'[j].pc \in {"idle", "query"} /\ creator'[j].seen = {}
      <4>1. Idle.pc = "idle" /\ Idle.seen = {}
        BY DEF Idle
      <4> DEFINE again == [Idle EXCEPT !.pc = "query", !.scope = creator[j].scope,
                                       !.tries = creator[j].tries - 1]
      <4>2. again.pc = "query" /\ again.seen = Idle.seen
        BY IdleType DEF CreatorJobs
      <4>3. creator' = [creator EXCEPT ![j] = Idle] \/ creator' = [creator EXCEPT ![j] = again]
        BY <2>3 DEF SetNoEvalConfigsCache, FailCreator
      <4> HIDE DEF again
      <4>4. creator'[j] = Idle \/ creator'[j] = again
        BY <1>0, <4>3
      <4>5. QED
        BY <4>1, <4>2, <4>4
    <3>2. QED
      BY <1>4, <2>1, <3>1 DEF Kept
  <2>4. CASE Enqueue(j) \/ CancelDeselected(j)
    <3>1. creator'[j] = Continue(creator[j]) /\ creator[j].pc # "create"
      BY <1>0, <2>4 DEF Enqueue, CancelDeselected
    <3>2. QED
      BY <1>4, <1>6, <2>0, <2>1, <3>1
  <2>5. CASE Look(j)
    <3>1. creator'[j].seen \subseteq 1..made /\ creator'[j].pc = "match"
      BY <1>0, <2>0, <2>5 DEF Look, Existing, CreatorJobs
    <3>2. QED
      BY <1>1, <1>2, <2>1, <3>1 DEF SeenInv
  <2>6. ASSUME NEW c \in Configs, Match(j, c) PROVE SeenInv'
    <3> DEFINE rest == [creator[j] EXCEPT !.todo = @ \ {c}]
               create == [rest EXCEPT !.pc = "create", !.for = {c}]
               cancel(r) == [rest EXCEPT !.pc = "cancel", !.row = r]
    <3>1. rest \in CreatorJobs /\ rest.pc = "match" /\ rest.seen = creator[j].seen
      BY <2>0, <2>6 DEF CreatorJobs, Match
    <3>2. /\ create.pc = "create" /\ create.for = {c} /\ create.seen = rest.seen
          /\ \A r : cancel(r).pc = "cancel" /\ cancel(r).seen = rest.seen
      BY <3>1 DEF CreatorJobs
    <3>3. \/ creator' = [creator EXCEPT ![j] = Continue(rest)]
          \/ MatchingJob(j, c) = {} /\ creator' = [creator EXCEPT ![j] = create]
          \/ \E r : creator' = [creator EXCEPT ![j] = cancel(r)]
      BY <2>6, MatchJob
    <3> HIDE DEF rest, create, cancel
    <3>4. CASE creator' = [creator EXCEPT ![j] = Continue(rest)]
      <4>1. creator'[j] = Continue(rest) /\ Kept(rest, creator'[j])
        BY <1>0, <1>6, <3>1, <3>4
      <4>2. QED
        BY <1>4, <2>1, <3>1, <4>1 DEF Kept
    <3>5. CASE \E r : creator' = [creator EXCEPT ![j] = cancel(r)]
      BY <1>0, <1>4, <2>1, <3>1, <3>2, <3>5 DEF Kept
    <3>6. CASE MatchingJob(j, c) = {} /\ creator' = [creator EXCEPT ![j] = create]
      <4>1. \A r \in creator[j].seen : of[r] # c
        BY <3>6 DEF MatchingJob
      <4>2. creator'[j] = create
        BY <1>0, <3>6
      <4>3. creator[j].seen \subseteq 1..made
        BY DEF SeenInv
      <4>4. QED
        BY <1>1, <1>2, <2>1, <3>1, <3>2, <4>1, <4>2, <4>3 DEF SeenInv
    <3>7. QED
      BY <3>3, <3>4, <3>5, <3>6
  <2>7. QED
    BY <1>7, <2>2, <2>3, <2>4, <2>5, <2>6 DEF CreatorStep
<1>8. creator' = creator \/ (\E j \in Jobs : CreatorStep(j))
      \/ \E j \in Jobs : \E scope, tries : Add(j, scope, tries)
  BY DEF Next, vars, ExecutorStep, Upsert, Backfill, Activate, Deactivate, ClearCache,
     FailClearCache, Expire, Age, Take, Delete, CancelNotExecutable, Refused, Block, WriteScore,
     Complete, Retry, MarkDelayed, MarkError, Throw, Crash, Stall, Same
<1>9. QED
  BY <1>3, <1>5, <1>7, <1>8

\* A step that leaves the rows and the scores of a configuration alone.
LEMMA SameScore ==
  ASSUME TypeInv, NEW c \in once, SingleRow(c), scores[c] \in {0, 1},
         scores[c] = 1 => ScoredRow(c),
         scores'[c] = scores[c], Made(c)' \subseteq Made(c),
         \A r \in Made(c) : status[r] = "COMPLETED" \/ Completing(r)
           => r \in Made(c)' /\ (status'[r] = "COMPLETED" \/ Completing(r)')
  PROVE  /\ SingleRow(c)'
         /\ scores'[c] \in {0, 1}
         /\ scores'[c] = 1 => ScoredRow(c)'
BY DEF SingleRow, ScoredRow

LEMMA RunStepScore ==
  ASSUME TypeInv, DeliveryInv, ScoreInv, NEW e \in Executors, RunStep(e)
  PROVE  ScoreInv'
<1>0. /\ exec[e].pc # "idle"
      /\ UNCHANGED <<creator, made, of>> /\ once' \subseteq once
      /\ \A f \in Executors \ {e} : exec'[f] = exec[f]
      /\ \/ exec'[e] = Resting
         \/ exec'[e].row = exec[e].row /\ exec'[e].pc # "idle"
      /\ \A r \in Rows \ {exec[e].row} : waiting'[r] = waiting[r] /\ status'[r] = status[r]
  BY RunStepShape
<1>1. PICK own \in Rows : own = exec[e].row /\ own \in 1..made
  <2>1. exec[e].row \in Rows
    BY <1>0 DEF DeliveryInv, RestingInv, TypeInv, RunsOK, Runs
  <2>2. exec[e].row <= made
    BY <2>1, RowsAreNumbers DEF DeliveryInv, UnusedInv, Unused, On
  <2>3. QED
    BY <2>1, <2>2, RowsAreNumbers DEF Rows
<1>2. \A r \in 1..made : r \in Rows
  BY RowsAreNumbers
<1>3. \A r \in Rows \ {own} : Completing(r) => Completing(r)'
  BY <1>0, <1>1 DEF Completing, On
<1> SUFFICES ASSUME NEW c \in once'
             PROVE  /\ SingleRow(c)'
                    /\ scores'[c] \in {0, 1}
                    /\ scores'[c] = 1 => ScoredRow(c)'
  BY DEF ScoreInv
<1>4. /\ c \in once /\ c \in Configs
      /\ SingleRow(c) /\ scores[c] \in {0, 1} /\ (scores[c] = 1 => ScoredRow(c))
  BY <1>0 DEF ScoreInv, TypeInv, PromisesOK
<1>5. CASE of[own] # c
  <2>1. scores'[c] = scores[c]
    <3>1. CASE WriteScore(e)
      BY <1>1, <1>4, <1>5, <3>1 DEF WriteScore, TypeInv, RunsOK
    <3>2. CASE ~WriteScore(e)
      BY <3>2 DEF RunStep, Delete, CancelNotExecutable, Refused, Block, Complete, Retry,
         MarkDelayed, MarkError, Throw, Crash, Stall
    <3>3. QED
      BY <3>1, <3>2
  <2>2. Made(c)' = Made(c) /\ \A r \in Made(c) : r # own /\ status'[r] = status[r]
    BY <1>0, <1>1, <1>2, <1>5 DEF Made
  <2>3. QED
    BY <1>2, <1>3, <1>4, <2>1, <2>2, SameScore DEF Made
<1>6. CASE of[own] = c
  <2>1. Alone(own)
    BY <1>1, <1>4, <1>6 DEF DeliveryInv, AloneInv
  <2>2. On(own) = {e} /\ status[own] \notin {"gone", "COMPLETED"}
    BY <1>1, <2>1 DEF Alone, On
  <2>3. Made(c) = {own}
    BY <1>1, <1>4, <1>6, <2>2 DEF Made, SingleRow
  <2>4. Made(c)' \subseteq Made(c)
    BY <1>0, <1>1, <1>2, <2>2, <2>3 DEF Made
  <2>5. scores[c] = 1 => exec[e].pc = "complete"
    BY <1>4, <2>2, <2>3 DEF ScoredRow, Completing
  <2>6. CASE WriteScore(e)
    <3>1. exec[e].pc = "call" /\ scores'[c] = scores[c] + 1 /\ status' = status
      BY <1>1, <1>4, <1>6, <2>6 DEF WriteScore, TypeInv, RunsOK
    <3>2. scores'[c] = 1
      BY <1>4, <2>5, <3>1
    <3>3. exec'[e].pc = "complete" /\ exec'[e].row = own
      BY <1>1, <2>6 DEF WriteScore, Goes, TypeInv, RunsOK, Runs
    <3>4. own \in Made(c)' /\ Completing(own)'
      BY <1>0, <1>1, <2>3, <3>1, <3>3 DEF Made, Completing, On
    <3>5. QED
      BY <2>3, <2>4, <3>2, <3>4 DEF SingleRow, ScoredRow
  <2>7. CASE exec[e].pc = "complete"
    <3>1. Complete(e)
      BY <1>1, <1>6, <2>7 DEF RunStep, Delete, CancelNotExecutable, Refused, Block, WriteScore, Retry,
         MarkDelayed, MarkError, Throw, Crash, Stall, Twice, Working
    <3>2. status'[own] = "COMPLETED" /\ scores' = scores
      BY <1>1, <2>2, <3>1 DEF Complete, Gone, Set, TypeInv, RowsOK
    <3>3. own \in Made(c)'
      BY <1>0, <1>1, <1>6, <3>2 DEF Made
    <3>4. QED
      BY <1>4, <2>3, <2>4, <3>2, <3>3 DEF SingleRow, ScoredRow
  <2>8. CASE ~WriteScore(e) /\ exec[e].pc # "complete"
    <3>1. scores' = scores
      BY <2>8 DEF RunStep, Delete, CancelNotExecutable, Refused, Block, Complete, Retry,
         MarkDelayed, MarkError, Throw, Crash, Stall
    <3>2. QED
      BY <1>4, <2>3, <2>4, <2>5, <2>8, <3>1 DEF SingleRow
  <2>9. QED
    BY <2>6, <2>7, <2>8
<1>7. QED
  BY <1>5, <1>6

LEMMA CreateScore ==
  ASSUME TypeInv, SeenInv, ScoreInv, NEW j \in Jobs, Create(j)
  PROVE  ScoreInv'
<1>0. /\ made' = made + 1 /\ made < MaxRows /\ once' \subseteq once
      /\ status' = [status EXCEPT ![made'] = "PENDING"]
      /\ UNCHANGED <<exec, scores>> /\ creator[j].pc = "create"
  BY DEF Create
<1>1. PICK new \in Rows : new = made + 1 /\ made \in Nat /\ made' = new
  BY <1>0, EvalJobsAssumption DEF Rows, TypeInv, RowsOK
<1>2. PICK d \in Configs : /\ creator[j].for = {d}
                           /\ \A r \in creator[j].seen : of[r] # d
  BY <1>0 DEF SeenInv
<1>3. of' = Append(of, d) /\ (Overlooked(j, d) # {} => d \notin once')
  BY <1>2 DEF Create
<1>4. of'[new] = d /\ \A r \in 1..made : of'[r] = of[r] /\ status'[r] = status[r]
  <2>1. of'[new] = d /\ \A r \in 1..made : of'[r] = of[r]
    BY <1>1, <1>3 DEF TypeInv, RowsOK
  <2>2. \A r \in 1..made : r # new /\ r \in Rows
    BY <1>1, RowsAreNumbers
  <2>3. QED
    BY <1>0, <1>1, <2>1, <2>2 DEF TypeInv, RowsOK
<1>5. 1..made' = (1..made) \cup {new}
  BY <1>1
<1>6. \A r : Completing(r)' <=> Completing(r)
  BY <1>0 DEF Completing, On
<1> SUFFICES ASSUME NEW c \in once'
             PROVE  /\ SingleRow(c)'
                    /\ scores'[c] \in {0, 1}
                    /\ scores'[c] = 1 => ScoredRow(c)'
  BY DEF ScoreInv
<1>7. /\ c \in once /\ c \in Configs
      /\ SingleRow(c) /\ scores[c] \in {0, 1} /\ (scores[c] = 1 => ScoredRow(c))
  BY <1>0 DEF ScoreInv, TypeInv, PromisesOK
<1>8. CASE c # d
  <2>1. Made(c)' = Made(c)
    BY <1>4, <1>5, <1>8 DEF Made
  <2>2. \A r \in Made(c) : status'[r] = status[r]
    BY <1>4 DEF Made
  <2>3. QED
    BY <1>0, <1>6, <1>7, <2>1, <2>2, SameScore
<1>9. CASE c = d
  <2>1. Made(c) = {}
    BY <1>2, <1>3, <1>9 DEF Overlooked, Made
  <2>2. Made(c)' \subseteq {new}
    BY <1>4, <1>5, <2>1 DEF Made
  <2>3. scores[c] = 0
    BY <1>7, <2>1 DEF ScoredRow
  <2>4. QED
    BY <1>0, <2>2, <2>3 DEF SingleRow
<1>10. QED
  BY <1>8, <1>9

LEMMA ScoreStep == TypeInv /\ DeliveryInv /\ SeenInv /\ ScoreInv /\ [Next]_vars => ScoreInv'
<1> SUFFICES ASSUME TypeInv, DeliveryInv, SeenInv, ScoreInv, [Next]_vars PROVE ScoreInv'
  OBVIOUS
<1>1. CASE \E e \in Executors : RunStep(e)
  BY <1>1, RunStepScore
<1>2. CASE \E j \in Jobs : Create(j)
  BY <1>2, CreateScore
<1>3. ASSUME /\ UNCHANGED <<made, of, scores>> /\ once' \subseteq once
             /\ \A r \in Rows : /\ status'[r] = "gone" <=> status[r] = "gone"
                                /\ status[r] = "COMPLETED" => status'[r] = "COMPLETED"
             /\ \A r \in Rows : Completing(r) => Completing(r)'
      PROVE  ScoreInv'
  <2> SUFFICES ASSUME NEW c \in once'
               PROVE  /\ SingleRow(c)'
                      /\ scores'[c] \in {0, 1}
                      /\ scores'[c] = 1 => ScoredRow(c)'
    BY DEF ScoreInv
  <2>1. c \in once /\ SingleRow(c) /\ scores[c] \in {0, 1} /\ (scores[c] = 1 => ScoredRow(c))
    BY <1>3 DEF ScoreInv
  <2>2. Made(c)' = Made(c) /\ Made(c) \subseteq Rows
    BY <1>3, RowsAreNumbers DEF Made
  <2>3. QED
    BY <1>3, <2>1, <2>2, SameScore
<1>4. CASE \E j \in Jobs : CancelDeselected(j)
  <2>1. UNCHANGED <<made, of, scores, once, exec>>
    BY <1>4 DEF CancelDeselected
  <2>2. PICK x : status' = status \/ (Cancellable(x) /\ status' = [status EXCEPT ![x] = "CANCELLED"])
    BY <1>4 DEF CancelDeselected
  <2>3. \A r \in Rows : /\ status'[r] = "gone" <=> status[r] = "gone"
                        /\ status[r] = "COMPLETED" => status'[r] = "COMPLETED"
    BY <2>2 DEF Cancellable, TypeInv, RowsOK
  <2>4. \A r \in Rows : Completing(r) => Completing(r)'
    BY <2>1 DEF Completing, On
  <2>5. QED
    BY <1>3, <2>1, <2>3, <2>4
<1>5. CASE \E e \in Executors, r \in Rows : Take(e, r)
  <2> PICK e \in Executors, r \in Rows : Take(e, r)
    BY <1>5
  <2>1. /\ UNCHANGED <<made, of, scores, status>> /\ once' \subseteq once /\ exec[e].pc = "idle"
        /\ \A f \in Executors \ {e} : exec'[f] = exec[f]
    BY DEF Take, database, TypeInv, RunsOK
  <2>2. \A s \in Rows : Completing(s) => Completing(s)'
    BY <2>1 DEF Completing, On
  <2>3. QED
    BY <1>3, <2>1, <2>2
<1>6. CASE UNCHANGED <<made, of, scores, status, once, exec>>
  <2>1. \A s \in Rows : Completing(s) => Completing(s)'
    BY <1>6 DEF Completing, On
  <2>2. QED
    BY <1>3, <1>6, <2>1
<1>7. QED
  BY <1>1, <1>2, <1>4, <1>5, <1>6 DEF Next, vars, CreatorStep, ExecutorStep, RunStep, Upsert,
     Backfill, Activate, Deactivate, ClearCache, FailClearCache, Expire, Age, Query,
     SetNoEvalConfigsCache, ReadTrace, Look, Match, Enqueue, FailCreator, database, promises

\* Whatever upserts, backfills, cancellations and redeliveries there are: a
\* configuration scores the trace once, unless two creators made a row at the
\* same time, or a run was repeated after it had answered or next to another.
THEOREM OneScore == Spec => []ScoredOnce
<1>1. Init => SeenInv /\ ScoreInv
  <2> SUFFICES ASSUME Init PROVE SeenInv /\ ScoreInv
    OBVIOUS
  <2>1. made = 0 /\ \A c \in Configs : scores[c] = 0
    BY DEF Init
  <2>2. \A j \in Jobs : creator[j].pc = "idle" /\ creator[j].seen = {}
    BY DEF Init, Idle
  <2>3. once = Configs /\ \A c : Made(c) = {}
    BY <2>1 DEF Init, Made
  <2>4. QED
    BY <2>1, <2>2, <2>3 DEF SeenInv, ScoreInv, SingleRow
<1>2. ScoreInv => ScoredOnce
  BY DEF ScoreInv, ScoredOnce
<1>3. QED
  BY <1>1, <1>2, TypeInit, TypeStep, DeliveryInit, DeliveryStep, SeenStep, ScoreStep, PTL DEF Spec
-----------------------------------------------------------------------------
(***************************************************************************)
(* No evaluation is lost.  A configuration that owes the trace a score has *)
(* given one, or has a row that failed; or it has an open row that         *)
(* somebody is going to run; or a creator job is still to consider it, and *)
(* will find that the trace matches.                                       *)
(***************************************************************************)
Scored(c) == scores[c] > 0 \/ \E r \in 1..made : of[r] = c /\ status[r] = "ERROR"

\* An executor that is not about to say that the next attempt was added.
Attends(e, r) == exec[e].row = r /\ exec[e].own /\ exec[e].pc # "delay"
Running(r) ==
  \/ waiting[r] > 0
  \/ \E e \in Executors : Attends(e, r)
  \/ \E j \in Jobs : Carries(j, r)
Lives(c) == \E r \in 1..made : of[r] = c /\ Pending(r) /\ Running(r)

Considers(j, c) ==
  /\ \A m \in creator[j].view : c \in m
  /\ \/ creator[j].pc = "query" /\ c \in creator[j].scope
     \/ /\ creator[j].pc \in {"trace", "look", "match", "create", "cancel", "enqueue"}
        /\ c \in creator[j].todo
     \/ creator[j].pc = "create" /\ c \in creator[j].for

CareInv == \A c \in owed : Scored(c) \/ Lives(c) \/ \E j \in Jobs : Considers(j, c)

\* What is owed can be given, and the cache is right when it says so.
OwedInv == owed \subseteq active \cap matching
CacheInv == noConfigs = "right" => active = {} \/ clearing
\* A creator job that begins again considers everything that it was about.
ScopeInv ==
  \A j \in Jobs :
    /\ creator[j].pc = "idle" => creator[j] = Idle
    /\ creator[j].todo \cup creator[j].for \subseteq creator[j].scope
    /\ creator[j].pc = "enqueue" => /\ creator[j].row \in 1..made
                                    /\ of[creator[j].row] \in creator[j].scope
\* A row is completed after its score was written.
EarnedInv ==
  /\ \A r \in 1..made : status[r] = "COMPLETED" => scores[of[r]] > 0
  /\ \A e \in Executors : exec[e].pc = "complete" => scores[of[exec[e].row]] > 0

OweInv == OwedInv /\ CacheInv /\ ScopeInv /\ EarnedInv /\ CareInv

LEMMA ScoredKept ==
  ASSUME TypeInv, NEW c \in Configs, scores'[c] \in Nat, scores'[c] >= scores[c],
         made' \in Nat, made <= made', \A r \in 1..made : of'[r] = of[r],
         \A r \in 1..made : of[r] = c /\ status[r] = "ERROR" => status'[r] = "ERROR",
         Scored(c)
  PROVE  Scored(c)'
<1>1. CASE scores[c] > 0
  <2>1. scores[c] \in Nat
    BY DEF TypeInv, RunsOK
  <2>2. CASE scores'[c] > 0
    BY <2>2 DEF Scored
  <2>3. QED
    BY <1>1, <2>1, <2>2
<1>2. ASSUME NEW r \in 1..made, of[r] = c, status[r] = "ERROR"
      PROVE  Scored(c)'
  <2>1. r \in 1..made' /\ of'[r] = c /\ status'[r] = "ERROR"
    BY <1>2, RowsAreNumbers
  <2>2. QED
    BY <2>1 DEF Scored
<1>3. QED
  BY <1>1, <1>2 DEF Scored

LEMMA RunStepScored ==
  ASSUME TypeInv, DeliveryInv, OweInv, NEW e \in Executors, RunStep(e), NEW c \in owed',
         Scored(c)
  PROVE  Scored(c)'
<1>0. /\ UNCHANGED <<made, of>> /\ made \in Nat /\ owed' \subseteq owed
      /\ \A r \in Rows \ {exec[e].row} : status'[r] = status[r]
  BY RunStepShape, RowsAreNumbers DEF RunStep, Delete, CancelNotExecutable, Refused, Block, WriteScore, Complete, Retry,
     MarkDelayed, MarkError, Throw, Crash, Stall, promises
<1>1. c \in Configs
  BY <1>0, EvalJobsAssumption DEF TypeInv, PromisesOK
<1>2. scores'[c] \in Nat /\ scores'[c] >= scores[c]
  <2>1. scores' = scores \/ scores' = [scores EXCEPT ![of[exec[e].row]] = @ + 1]
    BY DEF RunStep, Delete, CancelNotExecutable, Refused, Block, WriteScore, Complete, Retry,
       MarkDelayed, MarkError, Throw, Crash, Stall
  <2>2. QED
    BY <1>1, <2>1 DEF TypeInv, RunsOK
<1>3. CASE Complete(e)
  <2>1. scores' = scores /\ scores[of[exec[e].row]] > 0
    BY <1>3 DEF Complete, OweInv, EarnedInv
  <2>2. CASE of[exec[e].row] = c
    BY <2>1, <2>2 DEF Scored
  <2>3. CASE of[exec[e].row] # c
    BY <1>0, <1>1, <1>2, <2>3, ScoredKept, RowsAreNumbers
  <2>4. QED
    BY <2>2, <2>3
<1>4. ASSUME ~Complete(e), NEW r \in 1..made, of[r] = c, status[r] = "ERROR"
      PROVE  status'[r] = "ERROR"
  <2>1. r \in Rows
    BY RowsAreNumbers
  <2>2. CASE r = exec[e].row
    <3>1. status[exec[e].row] = "ERROR" /\ of[exec[e].row] \in owed'
      BY <1>4, <2>2
    <3>2. status' = status \/ Set(e, "ERROR")
      BY <1>4, <3>1 DEF RunStep, Delete, CancelNotExecutable, Refused, Block, WriteScore, Retry,
         MarkDelayed, MarkError, Throw, Crash, Stall, Ended, Gone, database
    <3>3. QED
      BY <1>4, <2>1, <2>2, <3>2 DEF Set, TypeInv, RowsOK
  <2>3. QED
    BY <1>0, <1>4, <2>1, <2>2
<1>5. QED
  BY <1>0, <1>1, <1>2, <1>3, <1>4, ScoredKept

\* A row that stays open, and whose job another one has, is going to be run.
LEMMA LivesKept ==
  ASSUME TypeInv, NEW r \in 1..made, of'[r] = of[r], made' \in Nat, made <= made',
         Pending(r)', Running(r)'
  PROVE  Lives(of[r])'
<1>1. r \in 1..made'
  BY RowsAreNumbers
<1>2. QED
  BY <1>1 DEF Lives

LEMMA RunStepLives ==
  ASSUME TypeInv, DeliveryInv, OweInv, NEW e \in Executors, RunStep(e), NEW c \in owed',
         Lives(c)
  PROVE  Scored(c)' \/ Lives(c)'
<1>0. /\ exec[e].pc # "idle"
      /\ UNCHANGED <<creator, made, of>>
      /\ \A f \in Executors \ {e} : exec'[f] = exec[f]
      /\ \A r \in Rows \ {exec[e].row} : waiting'[r] = waiting[r] /\ status'[r] = status[r]
  BY RunStepShape
<1>1. PICK r \in 1..made : of[r] = c /\ Pending(r) /\ Running(r)
  BY DEF Lives
<1>2. r \in Rows /\ made \in Nat /\ status \in [Rows -> Statuses] /\ waiting \in [Rows -> Nat]
      /\ exec \in [Executors -> Runs]
  BY RowsAreNumbers DEF TypeInv, RowsOK, RunsOK
<1>3. Pending(r)' /\ Running(r)' => Lives(c)'
  BY <1>0, <1>1, <1>2, LivesKept
<1>4. \A j \in Jobs : Carries(j, r)' <=> Carries(j, r)
  BY <1>0 DEF Carries
<1>5. \A f \in Executors \ {e} : Attends(f, r) => Attends(f, r)'
  BY <1>0 DEF Attends
<1>6. CASE r # exec[e].row
  <2>1. ~Attends(e, r) /\ waiting'[r] = waiting[r] /\ status'[r] = status[r]
    BY <1>0, <1>2, <1>6 DEF Attends
  <2>2. QED
    BY <1>1, <1>3, <1>4, <1>5, <2>1 DEF Running, Pending
<1>7. CASE r = exec[e].row
  <2>0. of[exec[e].row] = c /\ ~Gone(e) /\ status[r] \in {"PENDING", "DELAYED"} /\ ~Ended(r)
    BY <1>1, <1>7 DEF Gone, Pending, Ended
  <2>1. ~Delete(e) /\ ~CancelNotExecutable(e) /\ ~Block(e)
    BY <1>7, <2>0 DEF Delete, CancelNotExecutable, Block
  <2>2. ASSUME status' = status, waiting' = waiting, Attends(e, r) => Attends(e, r)'
        PROVE  Lives(c)'
    BY <1>1, <1>3, <1>4, <1>5, <2>2 DEF Running, Pending
  <2>3. ASSUME status' = status, waiting' = [waiting EXCEPT ![exec[e].row] = @ + 1]
        PROVE  Lives(c)'
    <3>1. waiting'[r] > 0
      BY <1>2, <1>7, <2>3
    <3>2. QED
      BY <1>1, <1>3, <2>3, <3>1 DEF Running, Pending
  <2>4. CASE Refused(e) \/ Throw(e)
    <3>1. status' = status /\ waiting' = waiting /\ \E pc \in {"stop", "error"} : Goes(e, pc)
      BY <2>4 DEF Refused, Throw, database
    <3>2. QED
      BY <1>2, <2>2, <3>1 DEF Goes, Attends, Runs
  <2>5. CASE WriteScore(e)
    <3>1. scores'[c] > 0
      <4>1. c \in Configs /\ scores \in [Configs -> Nat]
        BY <1>1 DEF TypeInv, RowsOK, RunsOK
      <4>2. QED
        BY <2>0, <2>5, <4>1 DEF WriteScore
    <3>2. QED
      BY <3>1 DEF Scored
  <2>6. CASE Complete(e)
    <3>1. scores' = scores /\ scores[c] > 0
      BY <2>0, <2>6 DEF Complete, OweInv, EarnedInv
    <3>2. QED
      BY <3>1 DEF Scored
  <2>7. CASE Retry(e)
    <3>1. /\ status' = status
          /\ \/ Goes(e, "lapse") /\ waiting' = waiting
             \/ waiting' = [waiting EXCEPT ![exec[e].row] = @ + 1]
      BY <2>0, <2>7 DEF Retry
    <3>2. QED
      BY <1>2, <2>2, <2>3, <3>1 DEF Goes, Attends, Runs
  <2>8. CASE MarkDelayed(e)
    <3>1. /\ exec[e].pc = "delay" /\ Set(e, "DELAYED") /\ waiting' = waiting
      BY <2>0, <2>8 DEF MarkDelayed
    <3>2. ~Attends(e, r) /\ status'[r] = "DELAYED"
      BY <1>2, <1>7, <3>1 DEF Attends, Set
    <3>3. QED
      BY <1>1, <1>3, <1>4, <1>5, <3>1, <3>2 DEF Running, Pending
  <2>9. CASE MarkError(e)
    <3>1. status'[r] = "ERROR"
      BY <1>2, <1>7, <2>0, <2>9 DEF MarkError, Set
    <3>2. QED
      BY <1>0, <1>1, <3>1 DEF Scored
  <2>10. CASE Crash(e) \/ Stall(e)
    <3>1. /\ status' = status
          /\ \/ ~exec[e].own /\ waiting' = waiting
             \/ waiting' = [waiting EXCEPT ![exec[e].row] = @ + 1]
      BY <2>10 DEF Crash, Stall, Rejects, database
    <3>2. QED
      BY <2>2, <2>3, <3>1 DEF Attends
  <2>11. QED
    BY <2>1, <2>4, <2>5, <2>6, <2>7, <2>8, <2>9, <2>10 DEF RunStep
<1>8. QED
  BY <1>6, <1>7

LEMMA RunStepEarned ==
  ASSUME TypeInv, DeliveryInv, EarnedInv, NEW e \in Executors, RunStep(e)
  PROVE  EarnedInv'
<1>0. /\ UNCHANGED <<made, of>>
      /\ \A f \in Executors \ {e} : exec'[f] = exec[f]
      /\ \A r \in Rows \ {exec[e].row} : status'[r] = status[r]
  BY RunStepShape
<1>1. /\ status \in [Rows -> Statuses] /\ exec \in [Executors -> Runs] /\ scores \in [Configs -> Nat]
      /\ of \in [1..made -> Configs] /\ 1..made \subseteq Rows
  BY RowsAreNumbers DEF TypeInv, RowsOK, RunsOK
<1>2. \A c \in Configs : scores[c] > 0 => scores'[c] > 0
  <2>1. scores' = scores \/ scores' = [scores EXCEPT ![of[exec[e].row]] = @ + 1]
    BY DEF RunStep, Delete, CancelNotExecutable, Refused, Block, WriteScore, Complete, Retry,
       MarkDelayed, MarkError, Throw, Crash, Stall
  <2>2. QED
    BY <1>1, <2>1
<1>3. \A f \in Executors : exec[f].pc = "complete" => exec[f].row \in 1..made
  BY <1>1, RowsAreNumbers DEF DeliveryInv, RestingInv, UnusedInv, Unused, On, Runs, Rows
<1>4. ASSUME NEW r \in 1..made, status'[r] = "COMPLETED"
      PROVE  scores'[of[r]] > 0
  <2>1. CASE status[r] = "COMPLETED"
    BY <1>1, <1>2, <2>1 DEF EarnedInv
  <2>2. CASE status[r] # "COMPLETED"
    <3>1. r = exec[e].row /\ status' # status
      BY <1>0, <1>1, <1>4, <2>2
    <3>2. Complete(e)
      <4>1. ASSUME NEW to \in Statuses, Set(e, to) PROVE to = "COMPLETED"
        BY <1>1, <1>4, <3>1, <4>1 DEF Set
      <4>2. QED
        BY <3>1, <4>1 DEF RunStep, Delete, CancelNotExecutable, Refused, Block, WriteScore, Retry,
           MarkDelayed, MarkError, Throw, Crash, Stall, Statuses, database
    <3>3. scores[of[r]] > 0
      BY <3>1, <3>2 DEF Complete, EarnedInv
    <3>4. QED
      BY <1>1, <1>2, <3>3
  <2>3. QED
    BY <2>1, <2>2
<1>5. ASSUME NEW f \in Executors, exec'[f].pc = "complete"
      PROVE  scores'[of[exec'[f].row]] > 0
  <2>1. CASE exec[f].pc = "complete" /\ exec'[f].row = exec[f].row
    BY <1>1, <1>2, <1>3, <2>1 DEF EarnedInv
  <2>2. CASE ~(exec[f].pc = "complete" /\ exec'[f].row = exec[f].row)
    <3>1. f = e
      BY <1>0, <1>5, <2>2
    <3>2. WriteScore(e)
      <4>1. ASSUME NEW pc \in RunSteps, Goes(e, pc) PROVE pc = "complete"
        BY <1>1, <1>5, <3>1, <4>1 DEF Goes, Runs
      <4>2. ~Rests(e) /\ exec' # [exec EXCEPT ![e].own = FALSE]
        BY <1>1, <1>5, <2>2, <3>1 DEF Rests, Resting, Runs
      <4>3. QED
        BY <4>1, <4>2 DEF RunStep, Delete, CancelNotExecutable, Refused, Block, Complete, Retry,
           MarkDelayed, MarkError, Throw, Crash, Stall, Rejects, RunSteps
    <3>3. exec'[e].row = exec[e].row /\ exec[e].row \in 1..made
      <4>1. exec'[e].row = exec[e].row /\ exec[e].pc = "call"
        BY <1>1, <3>2 DEF WriteScore, Goes, Runs
      <4>2. QED
        BY <1>1, <4>1, RowsAreNumbers DEF DeliveryInv, RestingInv, UnusedInv, Unused, On, Runs, Rows
    <3>4. QED
      BY <1>1, <3>1, <3>2, <3>3 DEF WriteScore
  <2>3. QED
    BY <2>1, <2>2
<1>6. QED
  BY <1>0, <1>4, <1>5 DEF EarnedInv

LEMMA RunStepOwed ==
  ASSUME TypeInv, DeliveryInv, OweInv, NEW e \in Executors, RunStep(e)
  PROVE  OweInv'
<1>0. /\ UNCHANGED <<creator, made, of>> /\ owed' \subseteq owed
      /\ UNCHANGED <<matching, clearing>>
  BY RunStepShape DEF RunStep, Delete, CancelNotExecutable, Refused, Block, WriteScore, Complete,
     Retry, MarkDelayed, MarkError, Throw, Crash, Stall, Same, promises
<1>1. OwedInv' /\ CacheInv'
  <2>1. CASE Block(e)
    BY <2>1 DEF Block, OweInv, OwedInv, CacheInv
  <2>2. CASE ~Block(e)
    <3>1. UNCHANGED <<active, noConfigs>>
      BY <2>2 DEF RunStep, Delete, CancelNotExecutable, Refused, WriteScore, Complete,
         Retry, MarkDelayed, MarkError, Throw, Crash, Stall, Same
    <3>2. QED
      BY <1>0, <3>1 DEF OweInv, OwedInv, CacheInv
  <2>3. QED
    BY <2>1, <2>2
<1>2. ScopeInv'
  BY <1>0 DEF OweInv, ScopeInv
<1>3. \A j, c : Considers(j, c)' <=> Considers(j, c)
  BY <1>0 DEF Considers
<1>4. CareInv'
  BY <1>0, <1>3, RunStepScored, RunStepLives DEF OweInv, CareInv
<1>5. QED
  BY <1>1, <1>2, <1>4, RunStepEarned DEF OweInv

LEMMA TakeOwed ==
  ASSUME TypeInv, DeliveryInv, OweInv, NEW e \in Executors, NEW r \in Rows, Take(e, r)
  PROVE  OweInv'
<1>0. /\ exec[e].pc = "idle" /\ waiting[r] > 0 /\ waiting' = [waiting EXCEPT ![r] = @ - 1]
      /\ UNCHANGED <<creator, made, of, status, scores, owed, active, matching, noConfigs, clearing>>
  BY DEF Take, database
<1>1. \/ exec' = exec /\ status[r] = "gone"
      \/ \E pc \in {"delete", "call", "cancel"} :
           exec' = [exec EXCEPT ![e] = [pc |-> pc, row |-> r, own |-> TRUE]]
  BY DEF Take
<1>2. exec[e].row = NoRow
  BY <1>0 DEF DeliveryInv, RestingInv
<1>3. /\ \A f \in Executors \ {e} : exec'[f] = exec[f]
      /\ \/ exec'[e] = exec[e] /\ status[r] = "gone"
         \/ exec'[e].row = r /\ exec'[e].own /\ exec'[e].pc \in {"delete", "call", "cancel"}
  BY <1>1 DEF TypeInv, RunsOK
<1>4. OwedInv' /\ CacheInv' /\ ScopeInv' /\ EarnedInv'
  BY <1>0, <1>3 DEF OweInv, OwedInv, CacheInv, ScopeInv, EarnedInv
<1>5. \A j, c : Considers(j, c)' <=> Considers(j, c)
  BY <1>0 DEF Considers
<1>6. \A c : Scored(c)' <=> Scored(c)
  BY <1>0 DEF Scored
<1>7. ASSUME NEW s \in 1..made, Pending(s), Running(s) PROVE Running(s)'
  <2>1. s \in Rows /\ s # NoRow
    BY RowsAreNumbers
  <2>2. CASE s = r
    BY <1>3, <1>7, <2>2 DEF Pending, Running, Attends
  <2>3. CASE s # r
    <3>1. waiting'[s] = waiting[s]
      BY <1>0, <2>1, <2>3 DEF TypeInv, RunsOK
    <3>2. \A f \in Executors : Attends(f, s) => Attends(f, s)'
      BY <1>2, <1>3, <2>1 DEF Attends
    <3>3. QED
      BY <1>0, <1>7, <3>1, <3>2 DEF Running, Carries
  <2>4. QED
    BY <2>2, <2>3
<1>8. \A c : Lives(c) => Lives(c)'
  BY <1>0, <1>7 DEF Lives, Pending
<1>9. CareInv'
  BY <1>0, <1>5, <1>6, <1>8 DEF OweInv, CareInv
<1>10. QED
  BY <1>4, <1>9 DEF OweInv
-----------------------------------------------------------------------------
(***************************************************************************)
(* Creator jobs, and everybody else                                        *)
(***************************************************************************)
\* A step that leaves the rows and the executors alone, and gives no row back.
LEMMA RowsOwed ==
  ASSUME TypeInv, UNCHANGED <<made, of, status, exec, scores>>,
         \A r \in Rows : waiting[r] > 0 => waiting'[r] > 0,
         \A i \in Jobs, r \in Rows : Carries(i, r) => Carries(i, r)' \/ waiting'[r] > 0
  PROVE  \A c : (Scored(c) => Scored(c)') /\ (Lives(c) => Lives(c)')
<1>1. \A r \in 1..made : Running(r) => Running(r)'
  BY RowsAreNumbers DEF Running, Attends
<1>2. QED
  BY <1>1 DEF Scored, Lives, Pending

\* The jobs are those of before, but one.
LEMMA OtherJobs ==
  ASSUME TypeInv, NEW j \in Jobs, NEW job, creator' = [creator EXCEPT ![j] = job]
  PROVE  /\ creator'[j] = job
         /\ \A i \in Jobs \ {j} : /\ creator'[i] = creator[i]
                                  /\ \A c : Considers(i, c)' <=> Considers(i, c)
                                  /\ \A r : Carries(i, r)' <=> Carries(i, r)
<1>1. creator'[j] = job /\ \A i \in Jobs \ {j} : creator'[i] = creator[i]
  BY DEF TypeInv, CreatorsOK
<1>2. QED
  BY <1>1 DEF Considers, Carries

\* A job that goes on considers the configurations that are left.
LEMMA ContinueOwed ==
  ASSUME NEW job \in CreatorJobs, job.todo \cup job.for \subseteq job.scope
  PROVE  /\ Continue(job).pc \in {"idle", "match"}
         /\ Continue(job).pc = "idle" => Continue(job) = Idle
         /\ Continue(job).todo \cup Continue(job).for \subseteq Continue(job).scope
         /\ job.todo # {} => /\ Continue(job).pc = "match" /\ Continue(job).todo = job.todo
                             /\ Continue(job).view = job.view
<1>1. CASE job.todo = {}
  BY <1>1 DEF Continue, Idle
<1>2. CASE job.todo # {}
  BY <1>2 DEF Continue, CreatorJobs
<1>3. QED
  BY <1>1, <1>2

\* What has to be shown of one creator job's step that changes no row.
JobKeeps(j, job) ==
  /\ job.pc = "idle" => job = Idle
  /\ job.todo \cup job.for \subseteq job.scope
  /\ job.pc = "enqueue" => creator[j].pc = "enqueue" /\ job = creator[j]
  /\ creator[j].pc = "enqueue" => job = creator[j]
JobCares(j, job, c) ==
  /\ \A m \in job.view : c \in m
  /\ \/ job.pc = "query" /\ c \in job.scope
     \/ job.pc \in {"trace", "look", "match", "create", "cancel"} /\ c \in job.todo
     \/ job.pc = "create" /\ c \in job.for

LEMMA JobOwed ==
  ASSUME TypeInv, OweInv, NEW j \in Jobs, NEW job,
         creator' = [creator EXCEPT ![j] = job],
         JobKeeps(j, job),
         UNCHANGED <<made, of, status, waiting, exec, scores, active, matching, clearing>>,
         CacheInv', owed' \subseteq owed,
         \A c \in owed' : Considers(j, c) => JobCares(j, job, c) \/ Scored(c) \/ Lives(c)
  PROVE  OweInv'
<1>1. /\ creator'[j] = job
      /\ \A i \in Jobs \ {j} : /\ creator'[i] = creator[i]
                               /\ \A c : Considers(i, c)' <=> Considers(i, c)
                               /\ \A r : Carries(i, r)' <=> Carries(i, r)
  BY OtherJobs
<1>2. ScopeInv'
  BY <1>1 DEF OweInv, ScopeInv, JobKeeps
<1>3. OwedInv' /\ EarnedInv'
  BY DEF OweInv, OwedInv, EarnedInv
<1>4. \A c : (Scored(c) => Scored(c)') /\ (Lives(c) => Lives(c)')
  <2>1. \A i \in Jobs, r \in Rows : Carries(i, r) => Carries(i, r)'
    BY <1>1 DEF JobKeeps, Carries
  <2>2. QED
    BY <2>1, RowsOwed
<1>5. \A c : JobCares(j, job, c) => Considers(j, c)'
  BY <1>1 DEF JobCares, Considers
<1>6. CareInv'
  BY <1>1, <1>4, <1>5 DEF OweInv, CareInv
<1>7. QED
  BY <1>2, <1>3, <1>6 DEF OweInv

LEMMA ReadOwed ==
  ASSUME TypeInv, OweInv, NEW j \in Jobs,
         Query(j) \/ SetNoEvalConfigsCache(j) \/ ReadTrace(j) \/ Look(j)
  PROVE  OweInv'
<1>0. creator \in [Jobs -> CreatorJobs] /\ creator[j] \in CreatorJobs
      /\ creator[j].todo \cup creator[j].for \subseteq creator[j].scope
  BY DEF TypeInv, CreatorsOK, OweInv, ScopeInv
<1>1. /\ UNCHANGED <<made, of, status, waiting, exec, scores, active, matching, clearing, owed>>
      /\ CacheInv'
  BY DEF Query, SetNoEvalConfigsCache, ReadTrace, Look, OweInv, CacheInv, database, promises
<1>2. \A c \in owed : c \in active /\ c \in matching
  BY DEF OweInv, OwedInv
<1>3. CASE Query(j)
  <2> DEFINE next == CASE Found(j) = {} -> "cache"
                       [] \E c \in Configs : Found(j) = {c} -> "look"
                       [] OTHER -> "trace"
             job == [creator[j] EXCEPT !.todo = Found(j), !.pc = next]
  <2>1. creator' = [creator EXCEPT ![j] = job] /\ creator[j].pc = "query"
    BY <1>0, <1>3 DEF Query
  <2>2. next \in {"cache", "look", "trace"} /\ (Found(j) # {} => next # "cache")
    OBVIOUS
  <2> HIDE DEF next
  <2>3. job.pc = next /\ job.todo = Found(j) /\ job.for = creator[j].for
        /\ job.scope = creator[j].scope /\ job.view = creator[j].view
    BY <1>0 DEF CreatorJobs
  <2> HIDE DEF job
  <2>4. JobKeeps(j, job)
    BY <1>0, <2>1, <2>2, <2>3 DEF JobKeeps, Found
  <2>5. \A c \in owed : Considers(j, c) => JobCares(j, job, c)
    BY <1>2, <2>1, <2>2, <2>3 DEF JobCares, Considers, Found
  <2>6. QED
    BY <1>1, <2>1, <2>4, <2>5, JobOwed
<1>4. CASE SetNoEvalConfigsCache(j)
  <2>1. creator' = [creator EXCEPT ![j] = Idle] /\ creator[j].pc = "cache"
    BY <1>4 DEF SetNoEvalConfigsCache
  <2>2. JobKeeps(j, Idle) /\ \A c : ~Considers(j, c)
    BY <2>1 DEF JobKeeps, Considers, Idle
  <2>3. QED
    BY <1>1, <2>1, <2>2, JobOwed
<1>5. CASE ReadTrace(j)
  <2> DEFINE job == [creator[j] EXCEPT !.view = {matching}, !.pc = "look"]
  <2>1. creator' = [creator EXCEPT ![j] = job] /\ creator[j].pc = "trace"
    BY <1>0, <1>5 DEF ReadTrace
  <2>2. job.pc = "look" /\ job.todo = creator[j].todo /\ job.for = creator[j].for
        /\ job.scope = creator[j].scope /\ job.view = {matching}
    BY <1>0 DEF CreatorJobs
  <2> HIDE DEF job
  <2>3. JobKeeps(j, job) /\ \A c \in owed : Considers(j, c) => JobCares(j, job, c)
    BY <1>0, <1>2, <2>1, <2>2 DEF JobKeeps, JobCares, Considers
  <2>4. QED
    BY <1>1, <2>1, <2>3, JobOwed
<1>6. CASE Look(j)
  <2> DEFINE job == [creator[j] EXCEPT !.seen = Existing(j), !.pc = "match"]
  <2>1. creator' = [creator EXCEPT ![j] = job] /\ creator[j].pc = "look"
    BY <1>0, <1>6 DEF Look
  <2>2. job.pc = "match" /\ job.todo = creator[j].todo /\ job.for = creator[j].for
        /\ job.scope = creator[j].scope /\ job.view = creator[j].view
    BY <1>0 DEF CreatorJobs
  <2> HIDE DEF job
  <2>3. JobKeeps(j, job) /\ \A c : Considers(j, c) => JobCares(j, job, c)
    BY <1>0, <2>1, <2>2 DEF JobKeeps, JobCares, Considers
  <2>4. QED
    BY <1>1, <2>1, <2>3, JobOwed
<1>7. QED
  BY <1>3, <1>4, <1>5, <1>6
\* Whatever the match of the owed configuration finds, it keeps the promise.
LEMMA MatchOwed ==
  ASSUME TypeInv, SeenInv, OweInv, NEW j \in Jobs, NEW d \in Configs, Match(j, d)
  PROVE  OweInv'
<1> DEFINE rest == [creator[j] EXCEPT !.todo = @ \ {d}]
           create == [rest EXCEPT !.pc = "create", !.for = {d}]
           cancel(r) == [rest EXCEPT !.pc = "cancel", !.row = r]
<1>0. creator \in [Jobs -> CreatorJobs] /\ creator[j] \in CreatorJobs
      /\ creator[j].todo \cup creator[j].for \subseteq creator[j].scope
      /\ creator[j].pc = "match" /\ d \in creator[j].todo
  BY DEF TypeInv, CreatorsOK, OweInv, ScopeInv, Match
<1>1. /\ UNCHANGED <<made, of, status, waiting, exec, scores, active, matching, clearing>>
      /\ owed' \subseteq owed /\ CacheInv'
  BY DEF Match, OweInv, CacheInv, database
<1>2. rest \in CreatorJobs /\ rest.pc = "match" /\ rest.todo = creator[j].todo \ {d}
      /\ rest.for = creator[j].for /\ rest.scope = creator[j].scope /\ rest.view = creator[j].view
  BY <1>0 DEF CreatorJobs
<1>3. /\ create.pc = "create" /\ create.for = {d} /\ create.todo = rest.todo
      /\ create.scope = rest.scope /\ create.view = rest.view
      /\ \A r : /\ cancel(r).pc = "cancel" /\ cancel(r).for = rest.for /\ cancel(r).todo = rest.todo
                /\ cancel(r).scope = rest.scope /\ cancel(r).view = rest.view
  BY <1>2 DEF CreatorJobs
<1>4. \/ /\ \E m \in creator[j].view \cup {matching} : d \in m
         /\ \E r \in MatchingJob(j, d) :
              d \in owed' => Ended(r) \/ (Pending(r) /\ Attended(r))
         /\ creator' = [creator EXCEPT ![j] = Continue(rest)]
      \/ /\ \E m \in creator[j].view \cup {matching} : d \notin m \/ d \notin Always
         /\ creator' = [creator EXCEPT ![j] = Continue(rest)]
      \/ creator' = [creator EXCEPT ![j] = create]
      \/ /\ \E m \in creator[j].view \cup {matching} : d \notin m
         /\ \E r : creator' = [creator EXCEPT ![j] = cancel(r)]
  BY DEF Match
<1> HIDE DEF rest, create, cancel
<1>5. \A c \in owed : c \in Always /\ c \in matching /\ c \in Configs
  BY EvalJobsAssumption DEF OweInv, OwedInv, TypeInv, PromisesOK
<1>6. ASSUME NEW c \in owed', Considers(j, c), c # d
      PROVE  c \in rest.todo /\ \A m \in rest.view : c \in m
  BY <1>0, <1>2, <1>6 DEF Considers
<1>7. d \in owed' /\ Considers(j, d) => \A m \in creator[j].view \cup {matching} : d \in m
  BY <1>1, <1>5 DEF Considers
<1>8. CASE creator' = [creator EXCEPT ![j] = create]
  <2>1. JobKeeps(j, create)
    BY <1>0, <1>2, <1>3 DEF JobKeeps
  <2>2. \A c \in owed' : Considers(j, c) => JobCares(j, create, c)
    BY <1>2, <1>3, <1>6, <1>7 DEF JobCares
  <2>3. QED
    BY <1>1, <1>8, <2>1, <2>2, JobOwed
<1>9. CASE \E r : creator' = [creator EXCEPT ![j] = cancel(r)]
  <2> PICK r : creator' = [creator EXCEPT ![j] = cancel(r)]
    BY <1>9
  <2>1. JobKeeps(j, cancel(r))
    BY <1>0, <1>2, <1>3 DEF JobKeeps
  <2>2. CASE d \in owed' /\ Considers(j, d)
    <3>1. creator'[j].pc = "cancel"
      BY <1>0, <1>3
    <3>2. Continue(rest).pc # "cancel" /\ create.pc # "cancel"
      BY <1>0, <1>2, <1>3, ContinueOwed
    <3>3. QED
      BY <1>0, <1>4, <1>7, <2>2, <3>1, <3>2
  <2>3. CASE ~(d \in owed' /\ Considers(j, d))
    <3>1. \A c \in owed' : Considers(j, c) => JobCares(j, cancel(r), c)
      BY <1>3, <1>6, <2>3 DEF JobCares
    <3>2. QED
      BY <1>1, <2>1, <3>1, JobOwed
  <2>4. QED
    BY <2>2, <2>3
<1>10. CASE creator' = [creator EXCEPT ![j] = Continue(rest)]
  <2>1. /\ Continue(rest).pc \in {"idle", "match"}
        /\ Continue(rest).pc = "idle" => Continue(rest) = Idle
        /\ Continue(rest).todo \cup Continue(rest).for \subseteq Continue(rest).scope
        /\ rest.todo # {} => /\ Continue(rest).pc = "match" /\ Continue(rest).todo = rest.todo
                             /\ Continue(rest).view = rest.view
    BY <1>0, <1>2, ContinueOwed
  <2>2. JobKeeps(j, Continue(rest))
    BY <1>0, <2>1 DEF JobKeeps
  <2>3. ASSUME d \in owed', Considers(j, d) PROVE Scored(d) \/ Lives(d)
    <3>1. creator'[j] = Continue(rest)
      BY <1>0, <1>10
    <3>2. creator'[j] # create /\ \A r : creator'[j] # cancel(r)
      BY <1>3, <2>1, <3>1
    <3>3. PICK r \in MatchingJob(j, d) : Ended(r) \/ (Pending(r) /\ Attended(r))
      <4>1. creator' # [creator EXCEPT ![j] = create]
            /\ \A r : creator' # [creator EXCEPT ![j] = cancel(r)]
        BY <1>0, <3>2
      <4>2. QED
        BY <1>1, <1>4, <1>5, <1>7, <2>3, <4>1
    <3>4. r \in 1..made /\ of[r] = d
      BY DEF MatchingJob, SeenInv
    <3>5. CASE Ended(r)
      BY <3>4, <3>5 DEF Ended, Scored, OweInv, EarnedInv
    <3>6. CASE Pending(r) /\ Attended(r)
      <4>1. Running(r)
        BY <3>6 DEF Attended, Running, Attends, Carries, On
      <4>2. QED
        BY <3>4, <3>6, <4>1 DEF Lives
    <3>7. QED
      BY <3>3, <3>5, <3>6
  <2>4. \A c \in owed' : Considers(j, c) => JobCares(j, Continue(rest), c) \/ Scored(c) \/ Lives(c)
    BY <1>6, <2>1, <2>3 DEF JobCares
  <2>5. QED
    BY <1>1, <1>10, <2>2, <2>4, JobOwed
<1>11. QED
  BY <1>4, <1>8, <1>9, <1>10

LEMMA CreateOwed ==
  ASSUME TypeInv, DeliveryInv, SeenInv, OweInv, NEW j \in Jobs, Create(j)
  PROVE  OweInv'
<1>0. creator \in [Jobs -> CreatorJobs] /\ creator[j] \in CreatorJobs
      /\ creator[j].todo \cup creator[j].for \subseteq creator[j].scope
      /\ creator[j].pc = "create" /\ made < MaxRows /\ made' = made + 1
      /\ status' = [status EXCEPT ![made'] = "PENDING"]
      /\ UNCHANGED <<active, matching, noConfigs, clearing, waiting, exec, scores, owed>>
  BY DEF TypeInv, CreatorsOK, OweInv, ScopeInv, Create
<1>1. PICK new \in Rows : new = made + 1 /\ made \in Nat /\ made' = new
  BY <1>0, EvalJobsAssumption DEF Rows, TypeInv, RowsOK
<1>2. PICK d \in Configs : creator[j].for = {d}
  BY <1>0 DEF SeenInv
<1>3. of'[new] = d /\ status'[new] = "PENDING"
      /\ \A r \in 1..made : r \in 1..made' /\ of'[r] = of[r] /\ status'[r] = status[r]
  <2>1. of' = Append(of, d)
    BY <1>2 DEF Create
  <2>2. \A r \in 1..made : r # new /\ r \in Rows
    BY <1>1, RowsAreNumbers
  <2>3. QED
    BY <1>0, <1>1, <2>1, <2>2 DEF TypeInv, RowsOK
<1> DEFINE job == [creator[j] EXCEPT !.pc = "enqueue", !.for = {}, !.row = made']
<1>4. creator' = [creator EXCEPT ![j] = job]
  BY <1>0 DEF Create
<1>5. job.pc = "enqueue" /\ job.for = {} /\ job.row = new /\ job.todo = creator[j].todo
      /\ job.scope = creator[j].scope /\ job.view = creator[j].view
  BY <1>0, <1>1 DEF CreatorJobs
<1> HIDE DEF job
<1>6. /\ creator'[j] = job
      /\ \A i \in Jobs \ {j} : /\ creator'[i] = creator[i]
                               /\ \A c : Considers(i, c)' <=> Considers(i, c)
                               /\ \A r : Carries(i, r)' <=> Carries(i, r)
  BY <1>4, OtherJobs
<1>7. OwedInv' /\ CacheInv'
  BY <1>0 DEF OweInv, OwedInv, CacheInv
<1>8. ScopeInv'
  <2>1. new \in 1..made' /\ of'[new] \in creator[j].scope
    BY <1>0, <1>1, <1>2, <1>3
  <2>2. QED
    BY <1>0, <1>3, <1>5, <1>6, <2>1 DEF OweInv, ScopeInv
<1>9. EarnedInv'
  <2>1. \A r \in 1..made' : r = new \/ r \in 1..made
    BY <1>0, <1>1
  <2>2. \A e \in Executors : exec[e].pc = "complete" => exec[e].row \in 1..made
    BY <1>1, RowsAreNumbers
    DEF DeliveryInv, RestingInv, UnusedInv, Unused, On, Runs, Rows, TypeInv, RunsOK
  <2>3. QED
    BY <1>0, <1>3, <2>1, <2>2 DEF OweInv, EarnedInv
<1>10. \A c : Scored(c) => Scored(c)'
  BY <1>0, <1>3 DEF Scored
<1>11. \A c : Lives(c) => Lives(c)'
  <2>1. \A r : Running(r) => Running(r)'
    BY <1>0, <1>6 DEF Running, Attends, Carries
  <2>2. QED
    BY <1>3, <2>1 DEF Lives, Pending
<1>12. ASSUME NEW c, Considers(j, c) PROVE Considers(j, c)' \/ Lives(c)'
  <2>1. CASE c \in creator[j].todo
    BY <1>5, <1>6, <1>12, <2>1 DEF Considers
  <2>2. CASE c = d
    <3>1. Carries(j, new)'
      BY <1>5, <1>6 DEF Carries
    <3>2. new \in 1..made'
      BY <1>0, <1>1
    <3>3. QED
      BY <1>3, <2>2, <3>1, <3>2 DEF Lives, Pending, Running
  <2>3. QED
    BY <1>0, <1>2, <1>12, <2>1, <2>2 DEF Considers
<1>13. CareInv'
  BY <1>0, <1>6, <1>10, <1>11, <1>12 DEF OweInv, CareInv
<1>14. QED
  BY <1>7, <1>8, <1>9, <1>13 DEF OweInv

\* The job goes on, after it added the execution job or cancelled the row.
LEMMA GoesOnOwed ==
  ASSUME TypeInv, OweInv, NEW j \in Jobs, Enqueue(j) \/ CancelDeselected(j)
  PROVE  OweInv'
<1>0. creator \in [Jobs -> CreatorJobs] /\ creator[j] \in CreatorJobs
      /\ creator[j].todo \cup creator[j].for \subseteq creator[j].scope
      /\ creator' = [creator EXCEPT ![j] = Continue(creator[j])]
      /\ creator[j].pc \in {"enqueue", "cancel"}
      /\ UNCHANGED <<active, matching, noConfigs, clearing, exec, scores, made, of>>
      /\ owed' \subseteq owed
  BY DEF TypeInv, CreatorsOK, OweInv, ScopeInv, Enqueue, CancelDeselected, database, promises
<1>1. /\ creator'[j] = Continue(creator[j])
      /\ \A i \in Jobs \ {j} : /\ creator'[i] = creator[i]
                               /\ \A c : Considers(i, c)' <=> Considers(i, c)
                               /\ \A r : Carries(i, r)' <=> Carries(i, r)
  BY <1>0, OtherJobs
<1>2. /\ creator'[j].pc \in {"idle", "match"}
      /\ creator'[j].pc = "idle" => creator'[j] = Idle
      /\ creator'[j].todo \cup creator'[j].for \subseteq creator'[j].scope
      /\ creator[j].todo # {} => /\ creator'[j].pc = "match" /\ creator'[j].todo = creator[j].todo
                                 /\ creator'[j].view = creator[j].view
  BY <1>0, <1>1, ContinueOwed
<1>3. \A c : Considers(j, c) => Considers(j, c)'
  BY <1>0, <1>2 DEF Considers
<1>4. OwedInv' /\ CacheInv' /\ ScopeInv'
  BY <1>0, <1>1, <1>2 DEF OweInv, OwedInv, CacheInv, ScopeInv
<1>5. CASE Enqueue(j)
  <2>1. /\ UNCHANGED <<status, owed>>
        /\ waiting' = [waiting EXCEPT ![creator[j].row] = @ + 1]
    BY <1>5 DEF Enqueue, database, promises
  <2>2. \A r \in Rows : /\ waiting[r] > 0 => waiting'[r] > 0
                        /\ Carries(j, r) => waiting'[r] > 0
    BY <2>1 DEF Carries, TypeInv, RunsOK
  <2>3. \A c : (Scored(c) => Scored(c)') /\ (Lives(c) => Lives(c)')
    BY <1>0, <1>1, <2>1, <2>2, RowsOwed
  <2>4. CareInv' /\ EarnedInv'
    BY <1>0, <1>1, <1>3, <2>1, <2>3 DEF OweInv, CareInv, EarnedInv
  <2>5. QED
    BY <1>4, <2>4 DEF OweInv
<1>6. CASE CancelDeselected(j)
  <2>1. \/ UNCHANGED <<status, owed>>
        \/ /\ status' = [status EXCEPT ![creator[j].row] = "CANCELLED"]
           /\ owed' = owed \ {of[creator[j].row]}
    BY <1>6 DEF CancelDeselected
  <2>2. waiting' = waiting /\ creator[j].pc = "cancel"
    BY <1>6 DEF CancelDeselected
  <2>3. \A r \in Rows : status'[r] = status[r] \/ (status'[r] = "CANCELLED" /\ of[r] \notin owed')
    BY <2>1 DEF TypeInv, RowsOK
  <2>4. \A r \in 1..made : of[r] \in owed' => status'[r] = status[r]
    BY <2>3, RowsAreNumbers
  <2>5. EarnedInv'
    BY <1>0, <2>3, RowsAreNumbers DEF OweInv, EarnedInv
  <2>6. \A r : Running(r) => Running(r)'
    BY <1>0, <1>1, <2>2 DEF Running, Attends, Carries
  <2>7. \A c \in owed' : (Scored(c) => Scored(c)') /\ (Lives(c) => Lives(c)')
    BY <1>0, <2>4, <2>6 DEF Scored, Lives, Pending
  <2>8. CareInv'
    BY <1>0, <1>1, <1>3, <2>7 DEF OweInv, CareInv
  <2>9. QED
    BY <1>4, <2>5, <2>8 DEF OweInv
<1>7. QED
  BY <1>5, <1>6

\* A job that fails begins again with its whole scope, or gives it up.
LEMMA FailOwed ==
  ASSUME TypeInv, OweInv, NEW j \in Jobs, FailCreator(j)
  PROVE  OweInv'
<1> DEFINE again == [Idle EXCEPT !.pc = "query", !.scope = creator[j].scope,
                                 !.tries = creator[j].tries - 1]
<1>0. /\ creator \in [Jobs -> CreatorJobs] /\ creator[j] \in CreatorJobs
      /\ creator[j].todo \cup creator[j].for \subseteq creator[j].scope
      /\ creator[j].pc = "enqueue" => of[creator[j].row] \in creator[j].scope
      /\ UNCHANGED <<active, matching, noConfigs, clearing, exec, scores, made, of, status, waiting>>
      /\ owed' \subseteq owed
  BY DEF TypeInv, CreatorsOK, OweInv, ScopeInv, FailCreator, database
<1>1. \/ creator' = [creator EXCEPT ![j] = again]
      \/ creator' = [creator EXCEPT ![j] = Idle] /\ owed' = owed \ creator[j].scope
  BY DEF FailCreator
<1>2. /\ again.pc = "query" /\ again.scope = creator[j].scope /\ again.view = {}
      /\ again.todo = {} /\ again.for = {} /\ Idle.pc = "idle" /\ Idle.todo = {} /\ Idle.for = {}
  BY DEF Idle
<1> HIDE DEF again
<1>3. OwedInv' /\ CacheInv' /\ EarnedInv'
  BY <1>0 DEF OweInv, OwedInv, CacheInv, EarnedInv
<1>4. /\ \A i \in Jobs \ {j} : /\ creator'[i] = creator[i]
                               /\ \A c : Considers(i, c)' <=> Considers(i, c)
                               /\ \A r : Carries(i, r)' <=> Carries(i, r)
      /\ \/ creator'[j] = again
         \/ creator'[j] = Idle /\ owed' = owed \ creator[j].scope
  BY <1>1, OtherJobs
<1>5. ScopeInv'
  BY <1>0, <1>2, <1>4 DEF OweInv, ScopeInv
<1>6. \A c \in owed' : c \in creator[j].scope => Considers(j, c)'
  BY <1>2, <1>4 DEF Considers
<1>7. \A c \in owed' : Considers(j, c) => Considers(j, c)'
  BY <1>0, <1>6 DEF Considers
<1>8. ASSUME NEW c \in owed', Lives(c) PROVE Lives(c)' \/ Considers(j, c)'
  <2>1. PICK r \in 1..made : of[r] = c /\ Pending(r) /\ Running(r)
    BY <1>8 DEF Lives
  <2>2. CASE Carries(j, r)
    BY <1>0, <1>6, <2>1, <2>2 DEF Carries
  <2>3. CASE ~Carries(j, r)
    <3>1. Running(r)'
      BY <1>0, <1>4, <2>1, <2>3 DEF Running, Attends
    <3>2. QED
      BY <1>0, <2>1, <3>1 DEF Lives, Pending
  <2>4. QED
    BY <2>2, <2>3
<1>9. \A c : Scored(c) => Scored(c)'
  BY <1>0 DEF Scored
<1>10. CareInv'
  BY <1>0, <1>4, <1>7, <1>8, <1>9 DEF OweInv, CareInv
<1>11. QED
  BY <1>3, <1>5, <1>10 DEF OweInv
\* A new job considers all that it is about.
LEMMA AddOwed ==
  ASSUME TypeInv, OweInv, NEW j \in Jobs, NEW scope \in SUBSET Configs, NEW tries,
         Add(j, scope, tries)
  PROVE  /\ \A i \in Jobs : \A r : Carries(i, r) => Carries(i, r)'
         /\ \A i \in Jobs : \A c : Considers(i, c) => Considers(i, c)'
         /\ \A c \in scope : Considers(j, c)'
         /\ UNCHANGED <<made, of>> => ScopeInv'
<1> DEFINE job == [creator[j] EXCEPT !.pc = "query", !.scope = scope, !.tries = tries]
<1>1. creator' = [creator EXCEPT ![j] = job] /\ creator[j] = Idle
  BY DEF Add, TypeInv, CreatorsOK, OweInv, ScopeInv
<1>2. /\ job.pc = "query" /\ job.scope = scope /\ job.view = {} /\ job.todo = {} /\ job.for = {}
      /\ Idle.pc = "idle"
  BY <1>1 DEF Idle
<1> HIDE DEF job
<1>3. /\ creator'[j] = job
      /\ \A i \in Jobs \ {j} : /\ creator'[i] = creator[i]
                               /\ \A c : Considers(i, c)' <=> Considers(i, c)
                               /\ \A r : Carries(i, r)' <=> Carries(i, r)
  BY <1>1, OtherJobs
<1>4. \A c, r : ~Considers(j, c) /\ ~Carries(j, r)
  BY <1>1, <1>2 DEF Considers, Carries
<1>5. \A c \in scope : Considers(j, c)'
  BY <1>2, <1>3 DEF Considers
<1>6. UNCHANGED <<made, of>> => ScopeInv'
  BY <1>2, <1>3 DEF OweInv, ScopeInv
<1>7. QED
  BY <1>3, <1>4, <1>5, <1>6

LEMMA OutsideOwed ==
  ASSUME TypeInv, OweInv,
         \/ Upsert \/ (\E j \in Jobs, c \in Configs : Backfill(j, c))
         \/ (\E c \in Configs : Activate(c) \/ Deactivate(c))
         \/ ClearCache \/ FailClearCache \/ Expire \/ Age \/ UNCHANGED vars
  PROVE  OweInv'
<1>0. UNCHANGED <<made, of, status, exec, scores, waiting>>
  BY DEF Upsert, Backfill, Activate, Deactivate, ClearCache, FailClearCache, Expire, Age, vars,
     database
<1>1. EarnedInv'
  BY <1>0 DEF OweInv, EarnedInv
<1>2. \A c \in owed : Scored(c) \/ Lives(c) \/ \E j \in Jobs : Considers(j, c)
  BY DEF OweInv, CareInv
<1>3. (\A i \in Jobs, r \in Rows : Carries(i, r) => Carries(i, r)')
        => \A c : (Scored(c) => Scored(c)') /\ (Lives(c) => Lives(c)')
  BY <1>0, RowsOwed
<1>4. CASE Upsert
  <2>1. OwedInv'
    BY <1>4 DEF Upsert, OwedInv
  <2>2. UNCHANGED <<active, noConfigs, clearing>>
    BY <1>4 DEF Upsert
  <2>3. CacheInv'
    BY <2>2 DEF OweInv, CacheInv
  <2>4. CASE Skips
    <3>1. owed' = {}
      BY <1>4, <2>4 DEF Upsert, Skips, OweInv, CacheInv, TypeInv, SettingsOK
    <3>2. creator' = creator
      BY <1>4, <2>4 DEF Upsert
    <3>3. ScopeInv'
      BY <1>0, <3>2 DEF OweInv, ScopeInv
    <3>4. QED
      BY <1>1, <2>1, <2>3, <3>1, <3>3 DEF OweInv, CareInv
  <2>5. CASE ~Skips
    <3>1. PICK j \in Jobs : Add(j, Configs, UpsertTries)
      BY <1>4, <2>5 DEF Upsert
    <3>2. ScopeInv' /\ \A c \in Configs : Considers(j, c)'
      BY <1>0, <3>1, AddOwed
    <3>3. owed' \subseteq Configs
      BY <1>4, EvalJobsAssumption DEF Upsert
    <3>4. QED
      BY <1>1, <2>1, <2>3, <3>2, <3>3 DEF OweInv, CareInv
  <2>6. QED
    BY <2>4, <2>5
<1>5. ASSUME NEW j \in Jobs, NEW d \in Configs, Backfill(j, d) PROVE OweInv'
  <2>1. /\ Add(j, {d}, BackfillTries) /\ owed' \subseteq owed \cup ({d} \cap active \cap matching)
        /\ UNCHANGED <<active, matching, noConfigs, clearing>>
    BY <1>5 DEF Backfill
  <2>2. OwedInv' /\ CacheInv'
    BY <2>1 DEF OweInv, OwedInv, CacheInv
  <2>3. /\ \A i \in Jobs : \A r : Carries(i, r) => Carries(i, r)'
        /\ \A i \in Jobs : \A c : Considers(i, c) => Considers(i, c)'
        /\ Considers(j, d)' /\ ScopeInv'
    BY <1>0, <2>1, AddOwed
  <2>4. CareInv'
    BY <1>2, <1>3, <2>1, <2>3 DEF CareInv
  <2>5. QED
    BY <1>1, <2>2, <2>3, <2>4 DEF OweInv
<1>6. ASSUME creator' = creator, owed' \subseteq owed, OwedInv', CacheInv' PROVE OweInv'
  <2>1. ScopeInv'
    BY <1>0, <1>6 DEF OweInv, ScopeInv
  <2>2. \A j : (\A r : Carries(j, r)' <=> Carries(j, r)) /\ (\A c : Considers(j, c)' <=> Considers(j, c))
    BY <1>6 DEF Carries, Considers
  <2>3. CareInv'
    BY <1>2, <1>3, <1>6, <2>2 DEF CareInv
  <2>4. QED
    BY <1>1, <1>6, <2>1, <2>3 DEF OweInv
<1>7. CASE \/ (\E c \in Configs : Activate(c) \/ Deactivate(c))
           \/ ClearCache \/ FailClearCache \/ Expire \/ Age \/ UNCHANGED vars
  <2>1. creator' = creator /\ owed' \subseteq owed
    BY <1>7 DEF Activate, Deactivate, ClearCache, FailClearCache, Expire, Age, vars, promises
  <2>2. OwedInv' /\ CacheInv'
    BY <1>7 DEF Activate, Deactivate, ClearCache, FailClearCache, Expire, Age, vars, promises,
       OweInv, OwedInv, CacheInv
  <2>3. QED
    BY <1>6, <2>1, <2>2
<1>8. QED
  BY <1>4, <1>5, <1>7

LEMMA OweStep ==
  TypeInv /\ DeliveryInv /\ SeenInv /\ OweInv /\ [Next]_vars => OweInv'
<1> SUFFICES ASSUME TypeInv, DeliveryInv, SeenInv, OweInv, [Next]_vars PROVE OweInv'
  OBVIOUS
<1>1. ASSUME NEW j \in Jobs, CreatorStep(j) PROVE OweInv'
  BY <1>1, ReadOwed, MatchOwed, CreateOwed, GoesOnOwed, FailOwed DEF CreatorStep
<1>2. ASSUME NEW e \in Executors, ExecutorStep(e) PROVE OweInv'
  BY <1>2, TakeOwed, RunStepOwed DEF ExecutorStep, RunStep
<1>3. QED
  BY <1>1, <1>2, OutsideOwed DEF Next

\* When nothing is left to do, every configuration that was to evaluate the
\* trace has scored it, or has a row that says that it failed: whatever the
\* creator jobs and the executors did at the same time, and whichever of them
\* crashed, stalled or was delivered again.
THEOREM EvaluationsHappen == Spec => []Evaluated
<1>1. Init => SeenInv /\ OweInv
  <2> SUFFICES ASSUME Init PROVE SeenInv /\ OweInv
    OBVIOUS
  <2>1. /\ made = 0 /\ owed = {} /\ noConfigs = "unset"
        /\ \A e \in Executors : exec[e].pc = "idle"
        /\ \A j \in Jobs : creator[j] = Idle
    BY DEF Init, Resting
  <2>2. Idle.pc = "idle" /\ Idle.seen = {} /\ Idle.todo = {} /\ Idle.for = {}
    BY DEF Idle
  <2>3. SeenInv /\ ScopeInv
    BY <2>1, <2>2 DEF SeenInv, ScopeInv
  <2>4. OwedInv /\ CacheInv /\ EarnedInv /\ CareInv
    BY <2>1 DEF OwedInv, CacheInv, EarnedInv, CareInv
  <2>5. QED
    BY <2>3, <2>4 DEF OweInv
<1>2. TypeInv /\ OweInv => Evaluated
  <2> SUFFICES ASSUME TypeInv, OweInv, Quiet, NEW c \in owed PROVE Scored(c)
    BY DEF Evaluated, Scored
  <2>1. \A j \in Jobs : ~Considers(j, c)
    BY DEF Quiet, Considers
  <2>2. \A r \in Rows : ~Running(r)
    BY DEF Quiet, Running, Attended, Attends, On, Carries
  <2>3. ~Lives(c)
    BY <2>2, RowsAreNumbers DEF Lives
  <2>4. QED
    BY <2>1, <2>3 DEF OweInv, CareInv
<1>3. QED
  BY <1>1, <1>2, TypeInit, TypeStep, DeliveryInit, DeliveryStep, SeenStep, OweStep, PTL DEF Spec
=============================================================================
