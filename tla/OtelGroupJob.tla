----------------------------- MODULE OtelGroupJob -----------------------------
(***************************************************************************)
(* One published group from the ingestion queue to the analytics database: *)
(* the group job (worker/src/queues/otelGroupJobProcessor.ts), the stream  *)
(* loads with a label that is the same for every attempt                   *)
(* (packages/shared/src/server/doris/client.ts), and the redrive of failed *)
(* jobs with its poison ledger (worker/src/services/dlq/otelDlqRedrive.ts).*)
(* Groups share neither labels nor jobs, so one group is enough.           *)
(*                                                                         *)
(* Each action is one call to PostgreSQL, Redis or Doris.  A load is a     *)
(* transaction of the database that outlives the caller's patience: it may *)
(* commit after the caller gave up, crashed or lost its job.               *)
(*                                                                         *)
(* Time is coarse and starts at 0, when the group was published (the       *)
(* timestamp in the job's data).                                           *)
(***************************************************************************)
EXTENDS Integers

CONSTANTS
  Workers,      \* job slots of the worker processes
  Redrivers,    \* redrive cycles that may overlap
  NoWorker,
  MaxAttempts,  \* attempts of a job in one envelope
  MaxStalled,   \* maxStalledCount: a job that stalls more often fails
  MaxRedrives,  \* LITEFUSE_OTEL_DLQ_MAX_REDRIVES
  AgeLimit,     \* LITEFUSE_OTEL_LABEL_KEEP_MS, the age guard of the redrive
  LabelKeep,    \* how long the database keeps the label of a load
  Horizon,      \* the model's last instant
  MaxFaults,    \* how often each kind of fault may happen
  Apart         \* pairs of kinds that do not happen in the same behaviour

FaultKinds == {"error", "reply", "abort", "stall", "crash", "cycle"}
Tables == {"spans", "scalar"}

ASSUME GroupJobAssumption ==
  /\ NoWorker \notin Workers
  /\ MaxAttempts \in Nat \ {0}
  /\ MaxStalled \in Nat
  /\ MaxRedrives \in Nat
  /\ AgeLimit \in Nat
  /\ LabelKeep \in Nat
  /\ AgeLimit <= LabelKeep    \* "must mirror": equal unless configured
  /\ Horizon \in Nat
  /\ MaxFaults \in [FaultKinds -> Nat]
  /\ Apart \subseteq SUBSET FaultKinds

VARIABLES
  content,     \* what the group's files hold
  job,         \* where the queue has the job
  runner,      \* the worker that holds the job's lock
  attempts,    \* failed attempts of this envelope
  stalls,      \* how often it was found stalled
  redrives,    \* data.redrives
  pc,          \* what each worker does next
  dedup,       \* the workers whose spans load was deduplicated by its label
  txn,         \* the load transaction under each table's label
  waiter,      \* the worker that waits for that transaction
  stamp,       \* when it committed
  commits,     \* history: loads committed into each table
  rows,        \* the tables that hold the group's rows
  ledgers,     \* the ledgers that list the group
  project,     \* live, a tombstone, or a tombstone whose tables are dropped
  erased,      \* history: the tables from which a user deleted the traces of
               \* a completed group
  outlived,    \* history: the tables whose label was forgotten while the job
               \* was still under way
  rpc,         \* what each redrive cycle does next
  snap,        \* data.redrives of the job as the cycle read it
  now,
  faults

queue == <<job, runner, attempts, stalls, redrives>>
runs  == <<pc, dedup>>
history == <<erased, outlived>>
doris == <<txn, waiter, stamp, commits, rows, history>>
pg    == <<ledgers, project>>
cycle == <<rpc, snap>>
vars  == <<content, queue, runs, doris, pg, cycle, now, faults>>

\* "broken": a transform error that no replay gets past and no whitelist names.
Contents == {"both", "spansOnly", "empty", "broken"}
PCs == {"idle", "prepare", "spans", "scalar", "await", "gate", "sessions",
        "ledger", "done"}
RPCs == {"idle", "decide", "record", "discard", "remove", "add"}

TypeOK ==
  /\ content \in Contents
  /\ job \in {"none", "waiting", "active", "failed"}
  /\ runner \in Workers \cup {NoWorker}
  /\ attempts \in 0..MaxAttempts
  /\ stalls \in 0..MaxStalled + 1
  /\ redrives \in 0..MaxRedrives
  /\ pc \in [Workers -> PCs]
  /\ dedup \subseteq Workers
  /\ txn \in [Tables -> {"free", "running", "visible"}]
  /\ waiter \in [Tables -> Workers \cup {NoWorker}]
  /\ stamp \in [Tables -> Nat]
  /\ commits \in [Tables -> Nat]
  /\ rows \subseteq Tables
  /\ erased \subseteq Tables
  /\ outlived \subseteq Tables
  /\ ledgers \subseteq {"completion", "poison"}
  /\ project \in {"live", "tombstone", "dropped"}
  /\ rpc \in [Redrivers -> RPCs]
  /\ snap \in [Redrivers -> 0..MaxRedrives]
  /\ now \in Nat
  /\ faults \in [FaultKinds -> Nat]

Init ==
  /\ content \in Contents
  /\ job = "waiting"
  /\ runner = NoWorker
  /\ attempts = 0
  /\ stalls = 0
  /\ redrives = 0
  /\ pc = [w \in Workers |-> "idle"]
  /\ dedup = {}
  /\ txn = [t \in Tables |-> "free"]
  /\ waiter = [t \in Tables |-> NoWorker]
  /\ stamp = [t \in Tables |-> 0]
  /\ commits = [t \in Tables |-> 0]
  /\ rows = {}
  /\ erased = {}
  /\ outlived = {}
  /\ ledgers = {}
  /\ project = "live"
  /\ rpc = [r \in Redrivers |-> "idle"]
  /\ snap = [r \in Redrivers |-> 0]
  /\ now = 0
  /\ faults = MaxFaults

Spend(kind) ==
  /\ faults[kind] > 0
  /\ \A pair \in Apart : kind \in pair =>
       \A other \in pair \ {kind} : faults[other] = MaxFaults[other]
  /\ faults' = [faults EXCEPT ![kind] = @ - 1]

Completed == "completion" \in ledgers

Goto(w, label) == pc' = [pc EXCEPT ![w] = label]

(***************************************************************************)
(* The queue.  A worker whose lock was lost goes on, but its outcome no    *)
(* longer moves the job.                                                   *)
(***************************************************************************)
Fails(w) ==
  /\ Goto(w, "idle")
  /\ IF runner = w
     THEN /\ attempts' = attempts + 1
          /\ job' = IF attempts' < MaxAttempts THEN "waiting" ELSE "failed"
          /\ runner' = NoWorker
     ELSE UNCHANGED <<attempts, job, runner>>
  /\ UNCHANGED <<stalls, redrives>>

Take(w) ==
  /\ pc[w] = "idle"
  /\ job = "waiting"
  /\ job' = "active"
  /\ runner' = w
  /\ Goto(w, "prepare")
  /\ UNCHANGED <<content, attempts, stalls, redrives, dedup, doris, pg, cycle,
                 now, faults>>

\* The job is complete and leaves the queue.
Finish(w) ==
  /\ pc[w] = "done"
  /\ Goto(w, "idle")
  /\ IF runner = w
     THEN job' = "none" /\ runner' = NoWorker
     ELSE UNCHANGED <<job, runner>>
  /\ UNCHANGED <<content, attempts, stalls, redrives, dedup, doris, pg, cycle,
                 now, faults>>

\* The lock of a running job is not renewed in time: it will be requeued
\* although its worker is still at it.
LoseLock ==
  /\ job = "active"
  /\ runner # NoWorker
  /\ Spend("stall")
  /\ runner' = NoWorker
  /\ UNCHANGED <<content, job, attempts, stalls, redrives, runs, doris, pg,
                 cycle, now>>

\* The queue finds it stalled.
Requeue ==
  /\ job = "active"
  /\ runner = NoWorker
  /\ stalls' = stalls + 1
  /\ job' = IF stalls < MaxStalled THEN "waiting" ELSE "failed"
  /\ UNCHANGED <<content, runner, attempts, redrives, runs, doris, pg, cycle,
                 now, faults>>

Crash(w) ==
  /\ pc[w] # "idle"
  /\ Spend("crash")
  /\ Goto(w, "idle")
  /\ runner' = IF runner = w THEN NoWorker ELSE runner
  /\ waiter' = [t \in Tables |-> IF waiter[t] = w THEN NoWorker ELSE waiter[t]]
  /\ UNCHANGED <<content, job, attempts, stalls, redrives, dedup, txn, stamp,
                 commits, rows, history, pg, cycle, now>>

(***************************************************************************)
(* The run of a job.                                                       *)
(***************************************************************************)

\* A call of the run fails, and the job with it: the split cache is cold, a
\* download, a load that never reached the database, a PostgreSQL query.
Error(w) ==
  /\ pc[w] \in {"prepare", "spans", "scalar", "gate", "sessions", "ledger"}
  /\ Spend("error")
  /\ Fails(w)
  /\ UNCHANGED <<content, dedup, doris, pg, cycle, now>>

\* Download, transform, retention filter.  A file that can never be ingested
\* is dropped from the group; when none is left only the ledger is written.
Prepare(w) ==
  /\ pc[w] = "prepare"
  /\ \/ content = "broken" /\ Fails(w)
     \/ /\ content # "broken"
        /\ Goto(w, IF content = "empty" THEN "ledger" ELSE "spans")
        /\ UNCHANGED queue
  /\ UNCHANGED <<content, dedup, doris, pg, cycle, now, faults>>

AfterLoad(w, t, deduped) ==
  IF t = "spans"
  THEN /\ dedup' = IF deduped THEN dedup \cup {w} ELSE dedup \ {w}
       /\ Goto(w, "gate")
  ELSE UNCHANGED dedup /\ Goto(w, "sessions")

\* Mutant: a label of its own for every attempt.
LoadUnlabelled(w, t) ==
  /\ pc[w] = t
  /\ project # "dropped"
  /\ txn[t] # "running"
  /\ txn' = [txn EXCEPT ![t] = "running"]
  /\ waiter' = [waiter EXCEPT ![t] = w]
  /\ Goto(w, "await")
  /\ UNCHANGED <<content, queue, dedup, stamp, commits, rows, history, pg,
                 cycle, now, faults>>

\* streamLoadBody with the group's label.
Load(w, t) ==
  /\ pc[w] = t
  /\ project # "dropped"
  /\ \/ /\ txn[t] = "free"
        /\ txn' = [txn EXCEPT ![t] = "running"]
        /\ waiter' = [waiter EXCEPT ![t] = w]
        /\ Goto(w, "await")
        /\ UNCHANGED <<queue, dedup>>
     \/ /\ txn[t] = "running"      \* label busy
        /\ Fails(w)
        /\ UNCHANGED <<dedup, txn, waiter>>
     \/ /\ txn[t] = "visible"
        /\ AfterLoad(w, t, TRUE)
        /\ UNCHANGED <<queue, txn, waiter>>
  /\ UNCHANGED <<content, stamp, commits, rows, history, pg, cycle, now,
                 faults>>

\* The transaction commits.  A caller that still waits learns of it, unless
\* the reply is lost; "Publish Timeout" is a success.
Commit(t) ==
  /\ txn[t] = "running"
  /\ project # "dropped"
  /\ txn' = [txn EXCEPT ![t] = "visible"]
  /\ stamp' = [stamp EXCEPT ![t] = now]
  /\ commits' = [commits EXCEPT ![t] = @ + 1]
  /\ rows' = rows \cup {t}
  /\ waiter' = [waiter EXCEPT ![t] = NoWorker]
  /\ \/ waiter[t] = NoWorker /\ UNCHANGED <<queue, runs, faults>>
     \/ waiter[t] # NoWorker /\ AfterLoad(waiter[t], t, FALSE)
        /\ UNCHANGED <<queue, faults>>
     \/ waiter[t] # NoWorker /\ Spend("reply") /\ Fails(waiter[t])
        /\ UNCHANGED dedup
  /\ UNCHANGED <<content, history, pg, cycle, now>>

\* It aborts, on its own or because the table is gone, and frees the label.
Abort(t) ==
  /\ txn[t] = "running"
  /\ IF project = "dropped" THEN UNCHANGED faults ELSE Spend("abort")
  /\ txn' = [txn EXCEPT ![t] = "free"]
  /\ waiter' = [waiter EXCEPT ![t] = NoWorker]
  /\ \/ waiter[t] = NoWorker /\ UNCHANGED <<queue, pc>>
     \/ waiter[t] # NoWorker /\ Fails(waiter[t])
  /\ UNCHANGED <<content, dedup, stamp, commits, rows, history, pg, cycle,
                 now>>

\* The caller gives up on a transaction that goes on.
GiveUp(t) ==
  /\ waiter[t] # NoWorker
  /\ Spend("reply")
  /\ waiter' = [waiter EXCEPT ![t] = NoWorker]
  /\ Fails(waiter[t])
  /\ UNCHANGED <<content, dedup, txn, stamp, commits, rows, history, pg, cycle,
                 now>>

\* The target table does not exist.  The tables of a live project are never
\* dropped here: the project is a tombstone, the group is dead-lettered.
MissingTable(w) ==
  /\ pc[w] \in Tables
  /\ project = "dropped"
  /\ ledgers' = ledgers \cup {"completion"}
  /\ Goto(w, "done")
  /\ UNCHANGED <<content, queue, dedup, doris, project, cycle, now, faults>>

\* Mutant: any deduplicated spans load skips the scalar load.
GateOnLabelOnly(w) ==
  /\ pc[w] = "gate"
  /\ Goto(w, IF w \in dedup \/ content # "both" THEN "sessions" ELSE "scalar")
  /\ UNCHANGED <<content, queue, dedup, doris, pg, cycle, now, faults>>

\* The scalar load is skipped when the label was deduplicated and the ledger
\* says that the group was completed before.
Gate(w) ==
  /\ pc[w] = "gate"
  /\ Goto(w, IF (w \in dedup /\ Completed) \/ content # "both"
             THEN "sessions" ELSE "scalar")
  /\ UNCHANGED <<content, queue, dedup, doris, pg, cycle, now, faults>>

\* Evaluations are scheduled and sessions upserted.
Sessions(w) ==
  /\ pc[w] = "sessions"
  /\ Goto(w, "ledger")
  /\ UNCHANGED <<content, queue, dedup, doris, pg, cycle, now, faults>>

WriteLedger(w) ==
  /\ pc[w] = "ledger"
  /\ ledgers' = ledgers \cup {"completion"}
  /\ \/ Goto(w, "done") /\ UNCHANGED <<queue, faults>>
     \/ Spend("error") /\ Fails(w)          \* the reply is lost
  /\ UNCHANGED <<content, dedup, doris, project, cycle, now>>

(***************************************************************************)
(* The redrive of failed jobs.  A cycle reads the failed jobs once and     *)
(* then works through them, so what it does to a job rests on old data.    *)
(***************************************************************************)
GotoR(r, label) == rpc' = [rpc EXCEPT ![r] = label]

\* getFailed.
ReadFailed(r) ==
  /\ rpc[r] = "idle"
  /\ job = "failed"
  /\ GotoR(r, "decide")
  /\ snap' = [snap EXCEPT ![r] = redrives]
  /\ UNCHANGED <<content, queue, runs, doris, pg, now, faults>>

\* Mutant: no age guard.
DecideAnyAge(r) ==
  /\ rpc[r] = "decide"
  /\ GotoR(r, IF snap[r] >= MaxRedrives
              THEN "record" ELSE "remove")
  /\ UNCHANGED <<content, queue, runs, doris, pg, snap, now, faults>>

\* Mutant: a poison job is removed without a record.
DecideDiscard(r) ==
  /\ rpc[r] = "decide"
  /\ GotoR(r, IF now > AgeLimit \/ snap[r] >= MaxRedrives
              THEN "discard" ELSE "remove")
  /\ UNCHANGED <<content, queue, runs, doris, pg, snap, now, faults>>

\* decideOtelRedrive: too old or too often redriven is poison.
Decide(r) ==
  /\ rpc[r] = "decide"
  /\ GotoR(r, IF now > AgeLimit \/ snap[r] >= MaxRedrives
              THEN "record" ELSE "remove")
  /\ UNCHANGED <<content, queue, runs, doris, pg, snap, now, faults>>

\* The poison ledger comes before the removal: when the write fails the job
\* stays where it is.
RecordPoison(r) ==
  /\ rpc[r] = "record"
  /\ \/ /\ ledgers' = ledgers \cup {"poison"}
        /\ GotoR(r, "discard")
        /\ UNCHANGED faults
     \/ /\ Spend("error")
        /\ GotoR(r, "idle")
        /\ ledgers' \in {ledgers, ledgers \cup {"poison"}}
  /\ UNCHANGED <<content, queue, runs, doris, project, snap, now>>

\* job.remove refuses a locked job and does not mind one that is gone.
Removable == job = "active" => runner = NoWorker
Remove ==
  /\ Removable
  /\ job' = "none"
  /\ attempts' = 0
  /\ stalls' = 0
  /\ redrives' = 0
  /\ UNCHANGED runner

Discard(r) ==
  /\ rpc[r] = "discard"
  /\ GotoR(r, "idle")
  /\ \/ Remove
     \/ ~ Removable /\ UNCHANGED queue
  /\ UNCHANGED <<content, runs, doris, pg, snap, now, faults>>

\* Redrive: remove, then add again under the same id.
RemoveForRedrive(r) ==
  /\ rpc[r] = "remove"
  /\ \/ Remove /\ GotoR(r, "add")
     \/ ~ Removable /\ GotoR(r, "idle") /\ UNCHANGED queue
  /\ UNCHANGED <<content, runs, doris, pg, snap, now, faults>>

\* Mutant: the job is added before it is removed, which adds nothing.
RemoveLast(r) ==
  /\ rpc[r] = "add"
  /\ GotoR(r, "idle")
  /\ UNCHANGED <<content, queue, runs, doris, pg, snap, now, faults>>

AddAgain(r) ==
  /\ rpc[r] = "add"
  /\ GotoR(r, "idle")
  /\ IF job = "none"
     THEN job' = "waiting" /\ redrives' = snap[r] + 1
     ELSE UNCHANGED <<job, redrives>>
  /\ UNCHANGED <<content, runner, attempts, stalls, runs, doris, pg, snap,
                 now, faults>>

\* The cycle ends between its two calls: a crash, or queue.add fails.
CycleEnds(r) ==
  /\ rpc[r] \notin {"idle", "decide"}
  /\ Spend("cycle")
  /\ GotoR(r, "idle")
  /\ UNCHANGED <<content, queue, runs, doris, pg, snap, now>>

(***************************************************************************)
(* Users, the database and time.                                           *)
(***************************************************************************)

\* A trace deletion: the rows the group has by now go from both tables.
Erase ==
  /\ rows # {}
  /\ rows' = {}
  /\ erased' = IF Completed THEN Tables ELSE erased
  /\ UNCHANGED <<content, queue, runs, txn, waiter, stamp, commits, outlived,
                 pg, cycle, now, faults>>

Tombstone ==
  /\ project = "live"
  /\ project' = "tombstone"
  /\ UNCHANGED <<content, queue, runs, doris, ledgers, cycle, now, faults>>

DropTables ==
  /\ project = "tombstone"
  /\ project' = "dropped"
  /\ rows' = {}
  /\ UNCHANGED <<content, queue, runs, txn, waiter, stamp, commits, history,
                 ledgers, cycle, now, faults>>

\* The job is under way: queued, run, loading, or about to be queued again.
Busy ==
  \/ job \in {"waiting", "active"}
  \/ \E w \in Workers : pc[w] # "idle"
  \/ \E t \in Tables : txn[t] = "running"
  \/ \E r \in Redrivers : rpc[r] \in {"remove", "add"}

\* The database forgets a label.
ForgetLabel(t) ==
  /\ txn[t] = "visible"
  /\ now - stamp[t] > LabelKeep
  /\ txn' = [txn EXCEPT ![t] = "free"]
  /\ outlived' = IF Busy THEN outlived \cup {t} ELSE outlived
  /\ UNCHANGED <<content, queue, runs, waiter, stamp, commits, rows, erased,
                 pg, cycle, now, faults>>

\* A day, or whatever a unit is, passes: jobs may wait and loads may take long.
Tick ==
  /\ now < Horizon
  /\ now' = now + 1
  /\ UNCHANGED <<content, queue, runs, doris, pg, cycle, faults>>

-----------------------------------------------------------------------------
Run(w) ==
  \/ Take(w) \/ Prepare(w) \/ Load(w, "spans") \/ Gate(w) \/ Load(w, "scalar")
  \/ Sessions(w) \/ WriteLedger(w) \/ MissingTable(w) \/ Finish(w)

RedriveStep(r) ==
  \/ ReadFailed(r) \/ Decide(r) \/ RecordPoison(r) \/ Discard(r)
  \/ RemoveForRedrive(r) \/ AddAgain(r)

Settle(t) == Commit(t) \/ Abort(t)

Next ==
  \/ \E w \in Workers : Run(w) \/ Error(w) \/ Crash(w)
  \/ LoseLock \/ Requeue
  \/ \E t \in Tables : Settle(t) \/ GiveUp(t) \/ ForgetLabel(t)
  \/ \E r \in Redrivers : RedriveStep(r) \/ CycleEnds(r)
  \/ Erase \/ Tombstone \/ DropTables \/ Tick

Spec == Init /\ [][Next]_vars

(***************************************************************************)
(* Fairness.  Workers take what waits and their calls return, the queue    *)
(* finds stalled jobs, the database ends its transactions and the redrive  *)
(* runs every ten minutes.  Nothing is assumed of users, faults or time.   *)
(***************************************************************************)
FairSpec ==
  /\ Spec
  /\ WF_vars(\E w \in Workers : Take(w))
  /\ \A w \in Workers : WF_vars(pc[w] # "idle" /\ Run(w))
  /\ \A t \in Tables : WF_vars(Settle(t))
  /\ WF_vars(Requeue)
  /\ \A r \in Redrivers : WF_vars(RedriveStep(r))

-----------------------------------------------------------------------------
(***************************************************************************)
(* The group is loaded at most once into each table, whatever attempts     *)
(* time out, stall, crash, overlap or are redriven (the deterministic      *)
(* label; the age guard of the redrive, for a job "older than the label    *)
(* retention window" that a "blind replay would double-load"), unless the  *)
(* label was forgotten while the job was still under way.                  *)
(***************************************************************************)
LoadedOnce == \A t \in Tables \ outlived : commits[t] <= 1

\* Everything the group holds was loaded.
Certified ==
  /\ content # "broken"
  /\ content \in {"both", "spansOnly"} => commits["spans"] > 0
  /\ content = "both" => commits["scalar"] > 0

(***************************************************************************)
(* The ledger certifies that everything the group holds was loaded, except *)
(* for a deleted project ("its existence certifies this group completed    *)
(* once end-to-end").                                                      *)
(***************************************************************************)
LedgerMeansLoaded == Completed /\ project = "live" => Certified

(***************************************************************************)
(* What a user deleted after the group was completed stays deleted, even   *)
(* when the job is run again or an overtaken run goes on (the scalar gate  *)
(* and the labels), unless the label of the table was forgotten while the  *)
(* job was still under way.                                                *)
(***************************************************************************)
ErasedStaysErased == erased \cap rows \subseteq outlived

\* A redrive cycle ended half way, possibly between remove and add.
CycleEnded == faults["cycle"] # MaxFaults["cycle"]

(***************************************************************************)
(* A job leaves the queue only when the group is in a ledger, or while a   *)
(* redrive cycle is about to add it again, unless a cycle ended half way.  *)
(***************************************************************************)
NoSilentLoss ==
  job = "none" /\ ~ CycleEnded =>
    \/ ledgers # {}
    \/ \E r \in Redrivers : rpc[r] = "add"

(***************************************************************************)
(* Every group ends in a ledger, completed or poison, although redrive     *)
(* cycles overlap and work on old reads, unless one ended half way.        *)
(***************************************************************************)
Settled == <>(ledgers # {} \/ CycleEnded)
=============================================================================
