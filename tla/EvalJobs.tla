------------------------------- MODULE EvalJobs -------------------------------
(***************************************************************************)
(* The evaluator jobs of one trace.  Every upsert of the trace adds a      *)
(* creator job (TraceUpsert, or CreateEval from the user interface), which *)
(* decides for each active evaluator configuration whether to make a row   *)
(* of job_executions and an execution job, to leave what it finds, or to   *)
(* cancel it (createEvalJobs, evalService.ts).  An executor loads the row, *)
(* calls the model, writes the score and ends the row (evaluate,           *)
(* executeLLMAsJudgeEvaluation and the processor of evalQueue.ts).         *)
(* A cache says that the project has no configuration to run, so that      *)
(* ingestion can skip the creator job (evalJobConfigCache.ts).             *)
(* Configurations are about traces: dataset items are left out.            *)
(***************************************************************************)
EXTENDS Naturals, Sequences

CONSTANTS
  Configs,     \* evaluator configurations of the project
  Always,      \* those whose sampling is 1
  Updates,     \* sets of configurations whose filters an upsert may make the trace pass
  Jobs,        \* creator jobs in progress or waiting
  Executors,   \* execution jobs that run at a time
  MaxRows,     \* bound: rows ever made
  UpsertTries,    \* attempts of a creator job that an upsert adds
  BackfillTries,  \* attempts of one that the user interface adds
  MaxArrivals, \* bound: upserts of the trace, and backfills
  MaxEvents    \* bound: changes of configurations, awaits that reject, crashes and stalls

\* An execution job is delivered again after a crash or a stall at most 3
\* times (maxStalledCount), and after an error 9 times (attempts).
ASSUME EvalJobsAssumption ==
  /\ Always \subseteq Configs /\ Updates \subseteq SUBSET Configs
  /\ UpsertTries \in Nat \ {0} /\ BackfillTries \in Nat \ {0}
  /\ MaxRows \in Nat /\ MaxArrivals \in Nat
  /\ MaxEvents \in 0..3

Rows == 1..MaxRows
NoRow == 0

VARIABLES
  active,     \* configurations that are active and not blocked
  matching,   \* configurations whose filter the trace passes
  noConfigs,  \* whether the cache says that there are none, and whether that was right
  clearing,   \* a configuration was activated, the cache is to be cleared
  creator,    \* what each creator job does next, and what it has read
  made,       \* rows made so far
  of,         \* the configuration of each row
  status,     \* its status, "gone" when there is no such row
  old,        \* rows made more than a day ago
  waiting,    \* execution jobs of each row in the queue
  exec,       \* what each executor does next
  scores,     \* scores written by the rows of each configuration
  owed,       \* history: configurations that are to evaluate the trace
  once,       \* history: configurations that are to do so at most once
  left        \* what may still happen, by kind

database == <<made, of, status>>
promises == <<owed, once>>
vars == <<active, matching, noConfigs, clearing, creator, database, old,
          waiting, exec, scores, promises, left>>

Idle == [pc |-> "idle", tries |-> 0, scope |-> {}, todo |-> {}, view |-> {}, seen |-> {},
         for |-> {}, row |-> NoRow]
Resting == [pc |-> "idle", row |-> NoRow, own |-> FALSE]
Kinds == {"arrivals", "events"}

TypeOK ==
  /\ active \subseteq Configs /\ matching \subseteq Configs
  /\ noConfigs \in {"unset", "right", "wrong"} /\ clearing \in BOOLEAN
  /\ creator \in [Jobs -> [pc : {"idle", "query", "cache", "trace", "look", "match"}
                                  \cup {"create", "cancel", "enqueue"},
                           tries : Nat,
                           scope : SUBSET Configs, todo : SUBSET Configs,
                           view : SUBSET SUBSET Configs, seen : SUBSET Rows,
                           for : SUBSET Configs, row : Rows \cup {NoRow}]]
  /\ made \in 0..MaxRows
  /\ of \in [1..made -> Configs]
  /\ status \in [Rows -> {"PENDING", "DELAYED", "COMPLETED", "ERROR", "CANCELLED", "gone"}]
  /\ old \subseteq Rows
  /\ waiting \in [Rows -> Nat]
  /\ exec \in [Executors ->
       [pc : {"idle", "delete", "cancel", "call", "complete", "delay", "lapse", "stop", "error"},
        row : Rows \cup {NoRow}, own : BOOLEAN]]
  /\ scores \in [Configs -> Nat]
  /\ owed \subseteq Always /\ once \subseteq Configs
  /\ left \in [Kinds -> Nat]

Init ==
  /\ active \in SUBSET Configs
  /\ matching = {} /\ noConfigs = "unset" /\ clearing = FALSE
  /\ creator = [j \in Jobs |-> Idle]
  /\ made = 0 /\ of = <<>> /\ status = [r \in Rows |-> "gone"]
  /\ old = {} /\ waiting = [r \in Rows |-> 0]
  /\ exec = [e \in Executors |-> Resting]
  /\ scores = [c \in Configs |-> 0]
  /\ owed = {} /\ once = Configs
  /\ left = [k \in Kinds |-> CASE k = "arrivals" -> MaxArrivals
                               [] k = "events" -> MaxEvents]

Spend(k) == left[k] > 0 /\ left' = [left EXCEPT ![k] = @ - 1]

On(r) == {e \in Executors : exec[e].row = r}
\* Somebody is going to run the row.
Attended(r) ==
  \/ waiting[r] > 0
  \/ \E e \in On(r) : exec[e].own /\ exec[e].pc \notin {"delay", "lapse"}
  \/ \E j \in Jobs : creator[j].pc = "enqueue" /\ creator[j].row = r

(***************************************************************************)
(* Ingestion, and the user interface, add creator jobs.                    *)
(***************************************************************************)
Add(j, scope, tries) ==
  /\ creator[j].pc = "idle"
  /\ creator' = [creator EXCEPT ![j].pc = "query", ![j].scope = scope, ![j].tries = tries]

\* The trace is written, and the cache says whether anybody is interested.
Skips == noConfigs # "unset"

Upsert ==
  /\ Spend("arrivals")
  /\ matching' \in Updates
  /\ \/ ~Skips /\ \E j \in Jobs : Add(j, Configs, UpsertTries)
     \/ Skips /\ UNCHANGED creator
  /\ owed' = IF noConfigs = "wrong" \/ (Skips /\ clearing) THEN {}
             ELSE active \cap matching' \cap Always
  /\ UNCHANGED <<active, noConfigs, clearing, database, old, waiting, exec, scores, once>>

\* A configuration is applied to traces that exist.
Backfill(j, c) ==
  /\ Spend("arrivals")
  /\ Add(j, {c}, BackfillTries)
  /\ owed' = owed \cup ({c} \cap active \cap matching \cap Always)
  /\ UNCHANGED <<active, matching, noConfigs, clearing, database, old, waiting, exec, scores, once>>

(***************************************************************************)
(* createEvalJobs                                                          *)
(***************************************************************************)
Found(j) == active \cap creator[j].scope

\* With several configurations the trace is read first, and once.
Query(j) ==
  /\ creator[j].pc = "query"
  /\ creator' = [creator EXCEPT
       ![j].todo = Found(j),
       ![j].pc = CASE Found(j) = {} -> "cache"
                   [] \E c \in Configs : Found(j) = {c} -> "look"
                   [] OTHER -> "trace"]
  /\ UNCHANGED <<active, matching, noConfigs, clearing, database, old, waiting, exec, scores,
                 promises, left>>

\* The cache is for the whole project, whatever the query was limited to.
SetNoEvalConfigsCache(j) ==
  /\ creator[j].pc = "cache"
  /\ noConfigs' = IF active = {} \/ clearing THEN "right" ELSE "wrong"
  /\ creator' = [creator EXCEPT ![j] = Idle]
  /\ UNCHANGED <<active, matching, clearing, database, old, waiting, exec, scores, promises, left>>

\* A read that fails leaves every configuration to the lookup that Match may
\* choose in any case.
ReadTrace(j) ==
  /\ creator[j].pc = "trace"
  /\ creator' = [creator EXCEPT ![j].view = {matching}, ![j].pc = "look"]
  /\ UNCHANGED <<active, matching, noConfigs, clearing, database, old, waiting, exec, scores,
                 promises, left>>

Existing(j) == {r \in 1..made : status[r] # "gone" /\ of[r] \in creator[j].todo}

Look(j) ==
  /\ creator[j].pc = "look"
  /\ creator' = [creator EXCEPT ![j].seen = Existing(j), ![j].pc = "match"]
  /\ UNCHANGED <<active, matching, noConfigs, clearing, database, old, waiting, exec, scores,
                 promises, left>>

\* Mutation: the loop returns where it should continue.
ContinueReturns(job) == Idle

\* The job goes on with the configurations that are left.
Continue(job) ==
  IF job.todo = {} THEN Idle ELSE [job EXCEPT !.pc = "match", !.for = {}, !.row = NoRow]

Ended(r) == status[r] \in {"COMPLETED", "ERROR"}
Pending(r) == status[r] \in {"PENDING", "DELAYED"}

\* Mutation: only rows that have not ended count as duplicates.
MatchingJobOpen(j, c) == {r \in creator[j].seen : of[r] = c /\ ~Ended(r)}

MatchingJob(j, c) == {r \in creator[j].seen : of[r] = c}

\* One configuration against the trace, as it was read or as it is now.
Match(j, c) ==
  /\ creator[j].pc = "match" /\ c \in creator[j].todo
  /\ \E m \in creator[j].view \cup {matching} :
     LET rest == [creator[j] EXCEPT !.todo = @ \ {c}]
         found == MatchingJob(j, c)
     IN
     \* The row that was found is left alone: a promise ends here when that
     \* row was cancelled, or has lost its execution job.
     \/ /\ c \in m
        /\ \E r \in found :
             owed' = IF Ended(r) \/ (Pending(r) /\ Attended(r)) THEN owed ELSE owed \ {c}
        /\ creator' = [creator EXCEPT ![j] = Continue(rest)]
     \* No match and nothing to cancel, or sampled out.
     \/ /\ c \notin m \/ c \notin Always
        /\ found = {}
        /\ creator' = [creator EXCEPT ![j] = Continue(rest)]
        /\ UNCHANGED owed
     \/ /\ c \in m /\ found = {}
        /\ creator' = [creator EXCEPT ![j] = [rest EXCEPT !.pc = "create", !.for = {c}]]
        /\ UNCHANGED owed
     \/ /\ c \notin m
        /\ \E r \in found :
             creator' = [creator EXCEPT ![j] = [rest EXCEPT !.pc = "cancel", !.row = r]]
        /\ UNCHANGED owed
  /\ UNCHANGED <<active, matching, noConfigs, clearing, database, old, waiting, exec, scores,
                 once, left>>

\* Nothing in the table stops a second row when another one was made since
\* this job looked: the configuration may then score the trace twice.
Overlooked(j, c) == {r \in (1..made) \ creator[j].seen : of[r] = c /\ status[r] # "gone"}

Create(j) ==
  /\ creator[j].pc = "create" /\ made < MaxRows
  /\ \E c \in creator[j].for :
       /\ of' = Append(of, c)
       /\ once' = IF Overlooked(j, c) = {} THEN once ELSE once \ {c}
  /\ made' = made + 1
  /\ status' = [status EXCEPT ![made'] = "PENDING"]
  /\ creator' = [creator EXCEPT ![j].pc = "enqueue", ![j].for = {}, ![j].row = made']
  /\ UNCHANGED <<active, matching, noConfigs, clearing, old, waiting, exec, scores, owed, left>>

Enqueue(j) ==
  /\ creator[j].pc = "enqueue"
  /\ waiting' = [waiting EXCEPT ![creator[j].row] = @ + 1]
  /\ creator' = [creator EXCEPT ![j] = Continue(@)]
  /\ UNCHANGED <<active, matching, noConfigs, clearing, database, old, exec, scores, promises, left>>

\* Mutation: what is completed is cancelled too.
CancellableAny(r) == status[r] # "gone"

Cancellable(r) == status[r] \notin {"COMPLETED", "gone"}

\* The trace may match again by now.
CancelDeselected(j) ==
  /\ creator[j].pc = "cancel"
  /\ LET r == creator[j].row IN
     IF Cancellable(r)
     THEN /\ status' = [status EXCEPT ![r] = "CANCELLED"]
          /\ owed' = owed \ {of[r]}
     ELSE UNCHANGED <<status, owed>>
  /\ creator' = [creator EXCEPT ![j] = Continue(@)]
  /\ UNCHANGED <<active, matching, noConfigs, clearing, made, of, old, waiting, exec, scores,
                 once, left>>

\* An await rejects, or the process dies: the job begins again, and finds the
\* row that it had made but not enqueued; after its last attempt it is given up.
FailCreator(j) ==
  /\ creator[j].pc # "idle"
  /\ Spend("events")
  /\ LET job == creator[j] IN
     \/ /\ job.tries > 1
        /\ creator' = [creator EXCEPT
             ![j] = [Idle EXCEPT !.pc = "query", !.scope = job.scope, !.tries = job.tries - 1]]
        /\ UNCHANGED owed
     \/ /\ job.tries <= 1
        /\ creator' = [creator EXCEPT ![j] = Idle]
        /\ owed' = owed \ job.scope
  /\ UNCHANGED <<active, matching, noConfigs, clearing, database, old, waiting, exec, scores, once>>

(***************************************************************************)
(* The processor of the execution queue, and evaluate                      *)
(***************************************************************************)
Goes(e, pc) == exec' = [exec EXCEPT ![e].pc = pc]
Rests(e) == exec' = [exec EXCEPT ![e] = Resting]
\* The job rejects: the queue delivers it again, unless its lock was lost
\* and it was delivered already.
Rejects(e) ==
  /\ Rests(e)
  /\ waiting' = IF exec[e].own THEN [waiting EXCEPT ![exec[e].row] = @ + 1] ELSE waiting

\* The row and its configuration are read as soon as the job is taken.
Take(e, r) ==
  /\ exec[e].pc = "idle" /\ waiting[r] > 0
  /\ waiting' = [waiting EXCEPT ![r] = @ - 1]
  /\ LET run(pc) == [exec EXCEPT ![e] = [pc |-> pc, row |-> r, own |-> TRUE]] IN
     exec' = CASE status[r] = "gone" -> exec
               [] status[r] = "CANCELLED" -> run("delete")
               [] OTHER -> run(IF of[r] \in active THEN "call" ELSE "cancel")
  /\ once' = IF On(r) = {} THEN once ELSE once \ {of[r]}
  /\ UNCHANGED <<active, matching, noConfigs, clearing, creator, database, old, scores, owed, left>>

Set(e, to) == status' = [status EXCEPT ![exec[e].row] = to]
Gone(e) == status[exec[e].row] = "gone"
Same == UNCHANGED <<active, matching, noConfigs, clearing, creator, made, of, old, left>>

\* A row that another delivery has ended meanwhile goes with it.
Delete(e) ==
  /\ exec[e].pc = "delete"
  /\ IF Gone(e)
     THEN Goes(e, "error") /\ UNCHANGED <<status, owed>>
     ELSE /\ Set(e, "gone") /\ Rests(e)
          /\ owed' = IF status[exec[e].row] = "CANCELLED" THEN owed ELSE owed \ {of[exec[e].row]}
  /\ Same /\ UNCHANGED <<waiting, scores, once>>

\* The configuration may be active again by now.
CancelNotExecutable(e) ==
  /\ exec[e].pc = "cancel"
  /\ IF Gone(e)
     THEN Goes(e, "error") /\ UNCHANGED <<status, owed>>
     ELSE Set(e, "CANCELLED") /\ Rests(e) /\ owed' = owed \ {of[exec[e].row]}
  /\ Same /\ UNCHANGED <<waiting, scores, once>>

\* The model rejects the request for good, or its answer is of no use.
Refused(e) ==
  /\ exec[e].pc = "call"
  /\ Goes(e, "stop")
  /\ Same /\ UNCHANGED <<status, waiting, scores, promises>>

\* The answer shows that the configuration cannot work: it is blocked, and the
\* cache that says there are none is cleared (blockEvaluatorConfigs).
Block(e) ==
  /\ exec[e].pc = "call"
  /\ LET c == of[exec[e].row] IN
     /\ active' = active \ {c}
     /\ owed' = owed \ {c}
     /\ noConfigs' = IF c \in active THEN "unset" ELSE noConfigs
  /\ Goes(e, "stop")
  /\ UNCHANGED <<matching, clearing, creator, database, old, waiting, scores, once, left>>

\* The model answers: a file is stored, and its ingestion enqueued, under a
\* new id each time.
WriteScore(e) ==
  /\ exec[e].pc = "call"
  /\ scores' = [scores EXCEPT ![of[exec[e].row]] = @ + 1]
  /\ Goes(e, "complete")
  /\ Same /\ UNCHANGED <<status, waiting, promises>>

Complete(e) ==
  /\ exec[e].pc = "complete"
  /\ IF Gone(e) THEN Goes(e, "error") /\ UNCHANGED status
     ELSE Set(e, "COMPLETED") /\ Rests(e)
  /\ Same /\ UNCHANGED <<waiting, scores, promises>>

\* The model is overloaded (retryLLMRateLimitError): the next attempt is added before the row says so,
\* and not at all when the row is older than a day.
Retry(e) ==
  /\ exec[e].pc = "call"
  /\ LET r == exec[e].row IN
     \/ Gone(e) /\ Rejects(e)
     \/ ~Gone(e) /\ r \in old /\ Goes(e, "lapse") /\ UNCHANGED waiting
     \/ ~Gone(e) /\ r \notin old /\ Goes(e, "delay") /\ waiting' = [waiting EXCEPT ![r] = @ + 1]
  /\ Same /\ UNCHANGED <<status, scores, promises>>

\* Without a next attempt the row stays delayed; the next attempt may have
\* ended the row by now.
MarkDelayed(e) ==
  /\ exec[e].pc \in {"delay", "lapse"}
  /\ IF Gone(e)
     THEN Rejects(e) /\ UNCHANGED <<status, owed>>
     ELSE /\ Set(e, "DELAYED") /\ Rests(e) /\ UNCHANGED waiting
          /\ owed' = IF exec[e].pc = "lapse" \/ Ended(exec[e].row)
                     THEN owed \ {of[exec[e].row]} ELSE owed
  /\ Same /\ UNCHANGED <<scores, once>>

\* An error of the model or of the configuration is final; any other goes
\* back to the queue.
MarkError(e) ==
  /\ exec[e].pc \in {"stop", "error"}
  /\ IF Gone(e) THEN UNCHANGED status ELSE Set(e, "ERROR")
  /\ IF exec[e].pc = "stop" /\ ~Gone(e) THEN Rests(e) /\ UNCHANGED waiting ELSE Rejects(e)
  /\ Same /\ UNCHANGED <<scores, promises>>

(***************************************************************************)
(* Faults of an executor.  A run that is repeated after it wrote a score,  *)
(* or after it added the next attempt, may lead to a second score.         *)
(***************************************************************************)
Working == {"delete", "cancel", "call", "complete"}
Twice(e) == once' = IF exec[e].pc \in {"complete", "delay"} THEN once \ {of[exec[e].row]} ELSE once

Throw(e) ==
  /\ exec[e].pc \in Working
  /\ Spend("events")
  /\ Goes(e, "error") /\ Twice(e)
  /\ UNCHANGED <<active, matching, noConfigs, clearing, creator, database, old, waiting, scores, owed>>

Crash(e) ==
  /\ exec[e].pc # "idle"
  /\ Spend("events")
  /\ Rejects(e) /\ Twice(e)
  /\ UNCHANGED <<active, matching, noConfigs, clearing, creator, database, old, scores, owed>>

\* The lock of the job expires, and the executor goes on.
Stall(e) ==
  /\ exec[e].pc # "idle" /\ exec[e].own
  /\ Spend("events")
  /\ exec' = [exec EXCEPT ![e].own = FALSE]
  /\ waiting' = [waiting EXCEPT ![exec[e].row] = @ + 1]
  /\ once' = once \ {of[exec[e].row]}
  /\ UNCHANGED <<active, matching, noConfigs, clearing, creator, database, old, scores, owed>>

(***************************************************************************)
(* The user interface, and time.                                           *)
(***************************************************************************)
Activate(c) ==
  /\ c \notin active /\ ~clearing
  /\ Spend("events")
  /\ active' = active \cup {c} /\ clearing' = TRUE
  /\ UNCHANGED <<matching, noConfigs, creator, database, old, waiting, exec, scores, promises>>

ClearCache ==
  /\ clearing
  /\ clearing' = FALSE /\ noConfigs' = "unset"
  /\ UNCHANGED <<active, matching, creator, database, old, waiting, exec, scores, promises, left>>

\* The request dies first, or the error of the cache is swallowed.
FailClearCache ==
  /\ clearing
  /\ Spend("events")
  /\ clearing' = FALSE
  /\ noConfigs' = IF noConfigs = "right" THEN "wrong" ELSE noConfigs
  /\ UNCHANGED <<active, matching, creator, database, old, waiting, exec, scores, promises>>

Deactivate(c) ==
  /\ c \in active
  /\ Spend("events")
  /\ active' = active \ {c} /\ owed' = owed \ {c}
  /\ UNCHANGED <<matching, noConfigs, clearing, creator, database, old, waiting, exec, scores, once>>

Expire ==
  /\ noConfigs # "unset"
  /\ noConfigs' = "unset"
  /\ UNCHANGED <<active, matching, clearing, creator, database, old, waiting, exec, scores,
                 promises, left>>

\* A day passes.
Age ==
  /\ old # 1..made
  /\ old' = 1..made
  /\ UNCHANGED <<active, matching, noConfigs, clearing, creator, database, waiting, exec, scores,
                 promises, left>>

CreatorStep(j) ==
  \/ Query(j) \/ SetNoEvalConfigsCache(j) \/ ReadTrace(j) \/ Look(j)
  \/ (\E c \in Configs : Match(j, c)) \/ Create(j) \/ Enqueue(j) \/ CancelDeselected(j)
  \/ FailCreator(j)

ExecutorStep(e) ==
  \/ (\E r \in Rows : Take(e, r)) \/ Delete(e) \/ CancelNotExecutable(e)
  \/ Refused(e) \/ Block(e) \/ WriteScore(e) \/ Complete(e) \/ Retry(e) \/ MarkDelayed(e)
  \/ MarkError(e) \/ Throw(e) \/ Crash(e) \/ Stall(e)

Next ==
  \/ Upsert
  \/ \E j \in Jobs, c \in Configs : Backfill(j, c)
  \/ \E j \in Jobs : CreatorStep(j)
  \/ \E e \in Executors : ExecutorStep(e)
  \/ \E c \in Configs : Activate(c) \/ Deactivate(c)
  \/ ClearCache \/ FailClearCache \/ Expire \/ Age

Spec == Init /\ [][Next]_vars

(***************************************************************************)
(* Properties                                                              *)
(***************************************************************************)
Quiet ==
  /\ \A j \in Jobs : creator[j].pc = "idle"
  /\ \A r \in Rows : On(r) = {} /\ ~Attended(r)
  /\ ~clearing

\* A trace that passed the filter of an active configuration when it was
\* written, and goes on doing so, is scored by that configuration, or the row
\* says that it failed.
Evaluated ==
  Quiet => \A c \in owed :
    \/ scores[c] > 0
    \/ \E r \in 1..made : of[r] = c /\ status[r] = "ERROR"

\* A configuration scores the trace once.
ScoredOnce == \A c \in once : scores[c] <= 1

\* What a run has completed is not taken back.
CompletedStays ==
  [][\A r \in 1..made : status[r] = "COMPLETED" /\ of[r] \in once' => status'[r] = "COMPLETED"]_vars

\* evalService.ts:219: "Cache the fact that there are no job configurations
\* for this project".
CacheMeansNone == noConfigs # "unset" => active = {} \/ clearing
=============================================================================
