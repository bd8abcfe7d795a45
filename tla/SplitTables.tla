----------------------------- MODULE SplitTables -----------------------------
(***************************************************************************)
(* The tables of one project: its row in the control table                 *)
(* (dorisProjectTableSplitControl.ts), provisioning inline in the web      *)
(* server and by the queue (splitProjectActivation.ts,                     *)
(* provisionSplitTables.ts, dorisSplitTableProvisioningQueue.ts), the      *)
(* cached snapshot (tableSplitCache.ts), the grouper's readiness gate, and *)
(* the deletion of the project (projectDelete.ts, batch-project-cleaner).  *)
(* Projects share nothing here.  Each action is one call to PostgreSQL,    *)
(* Doris or Redis.                                                         *)
(***************************************************************************)
EXTENDS Naturals

CONSTANTS
  Requests,     \* ingestion requests in progress
  Refreshes,    \* refreshes of the snapshot in progress
  MaxAttempts,  \* attempts of a provisioning job
  Retentions,   \* values of the project's retention
  Creations,    \* "inline": made by the web server; "legacy": before the split
  Budgets       \* how often each kind of event may happen: any of these

EventKinds == {"error", "crash", "timeout", "lost", "cancel", "change", "delete"}
Tables == {"spans", "scalar"}
Provisioners == {"inline", "worker"}
Cleaners == {"job", "batch"}

ASSUME SplitTablesAssumption ==
  /\ MaxAttempts \in Nat \ {0}
  /\ Retentions # {}
  /\ Creations \subseteq {"inline", "legacy"}
  /\ Budgets \subseteq [EventKinds -> Nat]

VARIABLES
  project,    \* the project's row: live, a tombstone, or gone
  row,        \* its control row: none, pending (split = false) or live
  exist,      \* the base tables that exist
  ttl,        \* their time to live
  mv,         \* the materialized view, which belongs to the spans table
  retention,  \* Project.retentionDays
  job,        \* the provisioning job, whose id is the project's
  attempts,   \* its failed attempts
  pc,         \* what each provisioner does next
  kept,       \* the retention it read
  web,        \* the request that creates the project
  req,        \* what each ingestion request does next
  setter,     \* the request that changes the retention
  cleaning,   \* what each cleaner does next
  cache,      \* the snapshot of the row in the worker's memory
  reads,      \* rows read by refreshes that did not swap them in yet
  lane,       \* the grouper's memory of the project's lane
  past,       \* history: "overlap", the row was deleted under somebody who had
              \* read it; "ignored", an error kept it from being deleted;
              \* "unqueued", an enqueue was lost; "overtaken", a change of the
              \* retention was, or met a provisioner that had read it already
  events      \* events left

doris  == <<exist, ttl, mv>>
queue  == <<job, attempts>>
users  == <<web, req, setter>>
memory == <<cache, reads, lane>>
vars == <<project, row, doris, retention, queue, pc, kept, users, cleaning,
          memory, past, events>>

Rows == {"none", "pending", "live"}
Steps == {"idle", "control", "retention", "createSpans", "createScalar",
          "alterSpans", "alterScalar", "mv", "createMv", "check", "flip"}

TypeOK ==
  /\ project \in {"live", "tombstone", "gone"}
  /\ row \in Rows
  /\ exist \subseteq Tables
  /\ ttl \in [Tables -> Retentions]
  /\ mv \in {"absent", "building", "finished", "cancelled"}
  /\ retention \in Retentions
  /\ job \in {"none", "waiting", "active", "failed"}
  /\ attempts \in 0..MaxAttempts
  /\ pc \in [Provisioners -> Steps]
  /\ kept \in [Provisioners -> Retentions]
  /\ web \in {"start", "racing", "enqueue", "done"}
  /\ req \in [Requests -> {"idle", "look", "create", "enqueue"}]
  /\ setter \in {"idle", "enqueue"}
  /\ cleaning \in [Cleaners -> {"idle", "row", "refresh", "spans", "scalar",
                                "project"}]
  /\ cache \in Rows
  /\ reads \in [Refreshes -> Rows \cup {"idle"}]
  /\ lane \in {"unknown", "ready"}
  /\ past \subseteq {"overlap", "ignored", "unqueued", "overtaken"}
  /\ events \in [EventKinds -> Nat]

Init ==
  /\ project = "live"
  /\ row = "none"
  /\ exist = {}
  /\ retention \in Retentions
  /\ ttl = [t \in Tables |-> retention]
  /\ mv = "absent"
  /\ job = "none"
  /\ attempts = 0
  /\ pc = [p \in Provisioners |-> "idle"]
  /\ kept = [p \in Provisioners |-> retention]
  /\ \E c \in Creations : web = IF c = "inline" THEN "start" ELSE "done"
  /\ req = [q \in Requests |-> "idle"]
  /\ setter = "idle"
  /\ cleaning = [c \in Cleaners |-> "idle"]
  /\ cache = "none"
  /\ reads = [i \in Refreshes |-> "idle"]
  /\ lane = "unknown"
  /\ past = {}
  /\ events \in Budgets

Spend(kind) ==
  /\ events[kind] > 0
  /\ events' = [events EXCEPT ![kind] = @ - 1]

(***************************************************************************)
(* The queue.  A job of that id that waits, runs or failed keeps a new one *)
(* from being added.                                                       *)
(***************************************************************************)
Enqueue ==
  IF job = "none"
  THEN job' = "waiting" /\ attempts' = 0
  ELSE UNCHANGED queue

\* Callers log an enqueue that fails and go on.
TryEnqueue ==
  \/ Enqueue /\ UNCHANGED <<past, events>>
  \/ /\ Spend("lost")
     /\ past' = past \cup {"unqueued"}
     /\ UNCHANGED queue

(***************************************************************************)
(* Designation.                                                            *)
(***************************************************************************)

\* provisionSplitForNewProject: the control row, then the inline run.
CreateProject ==
  /\ web = "start"
  /\ row' = "pending"
  /\ web' = "racing"
  /\ pc' = [pc EXCEPT !["inline"] = "retention"]
  /\ UNCHANGED <<project, doris, retention, queue, kept, req, setter, cleaning,
                 memory, past, events>>

\* The request waits no longer; the inline run goes on.
InlineTimeout ==
  /\ web = "racing"
  /\ Spend("timeout")
  /\ web' = "enqueue"
  /\ UNCHANGED <<project, row, doris, retention, queue, pc, kept, req, setter,
                 cleaning, memory, past>>

Fallback ==
  /\ web = "enqueue"
  /\ web' = "done"
  /\ TryEnqueue
  /\ UNCHANGED <<project, row, doris, retention, pc, kept, req, setter,
                 cleaning, memory>>

GotoReq(q, label) == req' = [req EXCEPT ![q] = label]

\* A file arrives: its API key is checked first.
Accept(q) ==
  /\ req[q] = "idle"
  /\ project = "live"
  /\ web \in {"enqueue", "done"}
  /\ GotoReq(q, "look")
  /\ UNCHANGED <<project, row, doris, retention, queue, pc, kept, web, setter,
                 cleaning, memory, past, events>>

\* ensureProjectSplitDesignated.
Look(q) ==
  /\ req[q] = "look"
  /\ GotoReq(q, IF row = "none" THEN "create" ELSE "idle")
  /\ UNCHANGED <<project, row, doris, retention, queue, pc, kept, web, setter,
                 cleaning, memory, past, events>>

\* Mutant: the row is live at once.
CreateRowLive(q) ==
  /\ req[q] = "create"
  /\ row' = IF row = "none" THEN "live" ELSE row
  /\ GotoReq(q, IF row = "none" THEN "enqueue" ELSE "idle")
  /\ UNCHANGED <<project, doris, retention, queue, pc, kept, web, setter,
                 cleaning, memory, past, events>>

\* Of two requests one creates the row, and only that one queues the job.
CreateRow(q) ==
  /\ req[q] = "create"
  /\ row' = IF row = "none" THEN "pending" ELSE row
  /\ GotoReq(q, IF row = "none" THEN "enqueue" ELSE "idle")
  /\ UNCHANGED <<project, doris, retention, queue, pc, kept, web, setter,
                 cleaning, memory, past, events>>

EnqueueForRow(q) ==
  /\ req[q] = "enqueue"
  /\ GotoReq(q, "idle")
  /\ TryEnqueue
  /\ UNCHANGED <<project, row, doris, retention, pc, kept, web, setter,
                 cleaning, memory>>

\* setRetention: the setting, then the job that carries it to the tables.
ChangeRetention ==
  /\ project = "live"
  /\ web \in {"enqueue", "done"}
  /\ setter = "idle"
  /\ Spend("change")
  /\ retention' \in Retentions \ {retention}
  /\ setter' = "enqueue"
  /\ UNCHANGED <<project, row, doris, queue, pc, kept, web, req, cleaning,
                 memory, past>>

\* The job that is added has yet to read the retention.
WillRead == job \in {"none", "waiting"} \/ pc["worker"] \in {"control", "retention"}

\* An inline run that was given up goes on with a retention that was changed.
InlineOutdated ==
  pc["inline"] \notin {"idle", "retention"} /\ kept["inline"] # retention

EnqueueForRetention ==
  /\ setter = "enqueue"
  /\ setter' = "idle"
  /\ \/ /\ Enqueue
        /\ past' = IF WillRead /\ ~ InlineOutdated
                   THEN past ELSE past \cup {"overtaken"}
        /\ UNCHANGED events
     \/ /\ Spend("lost")
        /\ past' = past \cup {"overtaken"}
        /\ UNCHANGED queue
  /\ UNCHANGED <<project, row, doris, retention, pc, kept, web, req, cleaning,
                 memory>>

(***************************************************************************)
(* Provisioning, inline or by the worker.                                  *)
(***************************************************************************)
Goto(p, label) == pc' = [pc EXCEPT ![p] = label]

Fails(p) ==
  /\ Goto(p, "idle")
  /\ IF p = "worker"
     THEN /\ attempts' = attempts + 1
          /\ job' = IF attempts' < MaxAttempts THEN "waiting" ELSE "failed"
          /\ UNCHANGED web
     ELSE /\ web' = IF web = "racing" THEN "enqueue" ELSE web
          /\ UNCHANGED queue

\* The job is complete and leaves the queue, or the request returns.
Succeeds(p) ==
  /\ Goto(p, "idle")
  /\ IF p = "worker"
     THEN job' = "none" /\ UNCHANGED <<attempts, web>>
     ELSE /\ web' = IF web = "racing" THEN "done" ELSE web
          /\ UNCHANGED queue

Proceeds(p, label) == Goto(p, label) /\ UNCHANGED <<queue, web>>

TakeJob ==
  /\ job = "waiting"
  /\ pc["worker"] = "idle"
  /\ job' = "active"
  /\ Goto("worker", "control")
  /\ UNCHANGED <<project, row, doris, retention, attempts, kept, users,
                 cleaning, memory, past, events>>

\* Any call fails.
Error(p) ==
  /\ pc[p] # "idle"
  /\ Spend("error")
  /\ Fails(p)
  /\ UNCHANGED <<project, row, doris, retention, kept, req, setter, cleaning,
                 memory, past>>

\* The worker dies, and the queue finds its job stalled.
Crash ==
  /\ pc["worker"] # "idle"
  /\ Spend("crash")
  /\ Goto("worker", "idle")
  /\ job' = "waiting"
  /\ UNCHANGED <<project, row, doris, retention, attempts, kept, users,
                 cleaning, memory, past>>

\* Without a control row there is nothing to provision.
Control ==
  /\ pc["worker"] = "control"
  /\ IF row = "none" THEN Succeeds("worker") ELSE Proceeds("worker", "retention")
  /\ UNCHANGED <<project, row, doris, retention, kept, req, setter, cleaning,
                 memory, past, events>>

ReadRetention(p) ==
  /\ pc[p] = "retention"
  /\ kept' = [kept EXCEPT ![p] = retention]
  /\ Proceeds(p, "createSpans")
  /\ UNCHANGED <<project, row, doris, retention, req, setter, cleaning, memory,
                 past, events>>

\* CREATE TABLE IF NOT EXISTS.
Create(p, t, label, next) ==
  /\ pc[p] = label
  /\ exist' = exist \cup {t}
  /\ ttl' = IF t \in exist THEN ttl ELSE [ttl EXCEPT ![t] = kept[p]]
  /\ Proceeds(p, next)
  /\ UNCHANGED <<project, row, mv, retention, kept, req, setter, cleaning,
                 memory, past, events>>

\* Mutant: the table keeps the retention it was created with.
AlterNothing(p, t, label, next) ==
  /\ pc[p] = label
  /\ Proceeds(p, next)
  /\ UNCHANGED <<project, row, doris, retention, kept, req, setter, cleaning,
                 memory, past, events>>

\* ALTER TABLE, which fails without the table.
Alter(p, t, label, next) ==
  /\ pc[p] = label
  /\ IF t \in exist
     THEN ttl' = [ttl EXCEPT ![t] = kept[p]] /\ Proceeds(p, next)
     ELSE Fails(p) /\ UNCHANGED ttl
  /\ UNCHANGED <<project, row, exist, mv, retention, kept, req, setter,
                 cleaning, memory, past, events>>

\* Mutant: the view is taken for present.
ReadMvNever(p) ==
  /\ pc[p] = "mv"
  /\ Proceeds(p, "check")
  /\ UNCHANGED <<project, row, doris, retention, kept, req, setter, cleaning,
                 memory, past, events>>

\* Mutant: the view is created again while it is built or when it is there.
ReadMvAlways(p) ==
  /\ pc[p] = "mv"
  /\ Proceeds(p, "createMv")
  /\ UNCHANGED <<project, row, doris, retention, kept, req, setter, cleaning,
                 memory, past, events>>

ReadMv(p) ==
  /\ pc[p] = "mv"
  /\ Proceeds(p, IF mv \in {"absent", "cancelled"} THEN "createMv" ELSE "check")
  /\ UNCHANGED <<project, row, doris, retention, kept, req, setter, cleaning,
                 memory, past, events>>

\* CREATE MATERIALIZED VIEW is no IF NOT EXISTS.
CreateMv(p) ==
  /\ pc[p] = "createMv"
  /\ IF "spans" \in exist /\ mv \in {"absent", "cancelled"}
     THEN mv' = "building" /\ Proceeds(p, "check")
     ELSE Fails(p) /\ UNCHANGED mv
  /\ UNCHANGED <<project, row, exist, ttl, retention, kept, req, setter,
                 cleaning, memory, past, events>>

Check(p) ==
  /\ pc[p] = "check"
  /\ IF exist = Tables THEN Proceeds(p, "flip") ELSE Fails(p)
  /\ UNCHANGED <<project, row, doris, retention, kept, req, setter, cleaning,
                 memory, past, events>>

\* An update, which fails without the row.
Flip(p) ==
  /\ pc[p] = "flip"
  /\ IF row = "none"
     THEN Fails(p) /\ UNCHANGED row
     ELSE row' = "live" /\ Succeeds(p)
  /\ UNCHANGED <<project, doris, retention, kept, req, setter, cleaning, memory,
                 past, events>>

Provision(p) ==
  \/ ReadRetention(p)
  \/ Create(p, "spans", "createSpans", "createScalar")
  \/ Create(p, "scalar", "createScalar", "alterSpans")
  \/ Alter(p, "spans", "alterSpans", "alterScalar")
  \/ Alter(p, "scalar", "alterScalar", "mv")
  \/ ReadMv(p) \/ CreateMv(p) \/ Check(p) \/ Flip(p)
  \/ p = "worker" /\ Control

\* The database builds the view, or gives up on it.
BuildMv ==
  /\ mv = "building"
  /\ \/ mv' = "finished" /\ UNCHANGED events
     \/ mv' = "cancelled" /\ Spend("cancel")
  /\ UNCHANGED <<project, row, exist, ttl, retention, queue, pc, kept, users,
                 cleaning, memory, past>>

(***************************************************************************)
(* The snapshot.  Every 15 seconds, and on every broadcast that arrives, a *)
(* refresh reads the rows and then swaps its own result in.                *)
(***************************************************************************)
\* Mutant: only the first read counts.
StartReadOnce(i) ==
  /\ reads[i] = "idle"
  /\ cache = "none"
  /\ reads' = [reads EXCEPT ![i] = row]
  /\ UNCHANGED <<project, row, doris, retention, queue, pc, kept, users,
                 cleaning, cache, lane, past, events>>

StartRead(i) ==
  /\ reads[i] = "idle"
  /\ reads' = [reads EXCEPT ![i] = row]
  /\ UNCHANGED <<project, row, doris, retention, queue, pc, kept, users,
                 cleaning, cache, lane, past, events>>

\* A refresh that fails keeps the last snapshot.
Swap(i) ==
  /\ reads[i] # "idle"
  /\ reads' = [reads EXCEPT ![i] = "idle"]
  /\ \/ cache' = reads[i] /\ UNCHANGED events
     \/ Spend("error") /\ UNCHANGED cache
  /\ UNCHANGED <<project, row, doris, retention, queue, pc, kept, users,
                 cleaning, lane, past>>

(***************************************************************************)
(* The grouper.  A lane that was found ready once is never looked at       *)
(* again; one whose tables are missing is provisioned again.               *)
(***************************************************************************)
\* Mutant: the view is not waited for.
ProbeTablesOnly ==
  /\ cache = "live"
  /\ lane = "unknown"
  /\ \/ exist = Tables /\ lane' = "ready" /\ UNCHANGED <<queue, past, events>>
     \/ exist # Tables /\ TryEnqueue /\ UNCHANGED lane
  /\ UNCHANGED <<project, row, doris, retention, pc, kept, users, cleaning,
                 cache, reads>>

Probe ==
  /\ cache = "live"
  /\ lane = "unknown"
  /\ \/ /\ exist = Tables
        /\ mv = "finished"
        /\ lane' = "ready"
        /\ UNCHANGED <<queue, past, events>>
     \/ exist # Tables /\ TryEnqueue /\ UNCHANGED lane
  /\ UNCHANGED <<project, row, doris, retention, pc, kept, users, cleaning,
                 cache, reads>>

(***************************************************************************)
(* Deletion.  The queued job and the batch cleaner share the cleanup; only *)
(* the job deletes the project's row in the end.                           *)
(***************************************************************************)
\* Mutant: the tables are dropped first.
NextCleanDropsFirst(c, step) ==
  CASE step = "idle"    -> "spans"
    [] step = "spans"   -> "scalar"
    [] step = "scalar"  -> "row"
    [] step = "row"     -> "refresh"
    [] step = "refresh" -> IF c = "job" THEN "project" ELSE "idle"

\* The control row goes first.
NextClean(c, step) ==
  CASE step = "idle"    -> "row"
    [] step = "row"     -> "refresh"
    [] step = "refresh" -> "spans"
    [] step = "spans"   -> "scalar"
    [] step = "scalar"  -> IF c = "job" THEN "project" ELSE "idle"

Cleans(c, step) ==
  /\ cleaning[c] = step
  /\ cleaning' = [cleaning EXCEPT ![c] = NextClean(c, step)]

Tombstone ==
  /\ project = "live"
  /\ web \in {"enqueue", "done"}
  /\ Spend("delete")
  /\ project' = "tombstone"
  /\ cleaning' = [cleaning EXCEPT !["job"] = NextClean("job", "idle")]
  /\ UNCHANGED <<row, doris, retention, queue, pc, kept, users, memory, past>>

FindTombstone ==
  /\ project = "tombstone"
  /\ Cleans("batch", "idle")
  /\ UNCHANGED <<project, row, doris, retention, queue, pc, kept, users,
                 memory, past, events>>

\* Somebody read the row, or that there is none, and acts on it later.
InProgress ==
  \/ \E p \in Provisioners : pc[p] \notin {"idle", "control"}
  \/ \E q \in Requests : req[q] \in {"look", "create"}

\* Whatever keeps the row from being deleted is ignored.
CleanRow(c) ==
  /\ Cleans(c, "row")
  /\ \/ /\ row' = "none"
        /\ past' = IF InProgress THEN past \cup {"overlap"} ELSE past
        /\ UNCHANGED events
     \/ /\ Spend("error")
        /\ past' = past \cup {"ignored"}
        /\ UNCHANGED row
  /\ UNCHANGED <<project, doris, retention, queue, pc, kept, users, memory>>

\* The worker's own snapshot.
CleanRefresh(c) ==
  /\ Cleans(c, "refresh")
  /\ cache' = row
  /\ UNCHANGED <<project, row, doris, retention, queue, pc, kept, users, reads,
                 lane, past, events>>

CleanTable(c, t) ==
  /\ Cleans(c, t)
  /\ exist' = exist \ {t}
  /\ mv' = IF t = "spans" THEN "absent" ELSE mv
  /\ UNCHANGED <<project, row, ttl, retention, queue, pc, kept, users, memory,
                 past, events>>

CleanProject ==
  /\ cleaning["job"] = "project"
  /\ cleaning' = [cleaning EXCEPT !["job"] = "idle"]
  /\ project' = "gone"
  /\ UNCHANGED <<row, doris, retention, queue, pc, kept, users, memory, past,
                 events>>

\* A call fails: the job is retried, the batch cleaner comes round again.
CleanError(c) ==
  /\ cleaning[c] # "idle"
  /\ Spend("error")
  /\ cleaning' = [cleaning EXCEPT ![c] = IF c = "job" THEN NextClean(c, "idle")
                                                  ELSE "idle"]
  /\ UNCHANGED <<project, row, doris, retention, queue, pc, kept, users, memory,
                 past>>

Clean(c) ==
  \/ CleanRow(c) \/ CleanRefresh(c)
  \/ CleanTable(c, "spans") \/ CleanTable(c, "scalar")
  \/ c = "job" /\ CleanProject

-----------------------------------------------------------------------------
Serve(q) == Look(q) \/ CreateRow(q) \/ EnqueueForRow(q)

Next ==
  \/ CreateProject \/ InlineTimeout \/ Fallback
  \/ \E q \in Requests : Accept(q) \/ Serve(q)
  \/ ChangeRetention \/ EnqueueForRetention
  \/ TakeJob \/ Crash \/ BuildMv
  \/ \E p \in Provisioners : Provision(p) \/ Error(p)
  \/ \E i \in Refreshes : StartRead(i) \/ Swap(i)
  \/ Probe
  \/ Tombstone \/ FindTombstone
  \/ \E c \in Cleaners : Clean(c) \/ CleanError(c)

Spec == Init /\ [][Next]_vars

(***************************************************************************)
(* Fairness.  Requests and jobs that began go on, the queue's worker takes *)
(* jobs, Doris finishes its builds, the snapshot is refreshed and the      *)
(* grouper probes for ever.  Nothing is assumed of users and faults.       *)
(***************************************************************************)
FairSpec ==
  /\ Spec
  /\ WF_vars(CreateProject)
  /\ WF_vars(Fallback)
  /\ \A q \in Requests : WF_vars(Serve(q))
  /\ WF_vars(EnqueueForRetention)
  /\ WF_vars(TakeJob)
  /\ \A p \in Provisioners : WF_vars(Provision(p))
  /\ WF_vars(BuildMv)
  /\ \A i \in Refreshes : WF_vars(StartRead(i)) /\ WF_vars(Swap(i))
  /\ WF_vars(Probe)
  /\ \A c \in Cleaners : WF_vars(Clean(c))

-----------------------------------------------------------------------------
(***************************************************************************)
(* A live project whose row is live has both base tables (the "flip-gate   *)
(* invariant": reads are routed to the tables from then on).               *)
(***************************************************************************)
FlipGate == project = "live" /\ row = "live" => exist = Tables

(***************************************************************************)
(* The grouper cuts a live project's lane only when the tables exist and   *)
(* the view is built, although it never looks again ("readiness is         *)
(* monotonic once set").                                                   *)
(***************************************************************************)
ReadyMeansBuilt ==
  project = "live" /\ lane = "ready" => exist = Tables /\ mv = "finished"

(***************************************************************************)
(* Nothing of a deleted project comes back (the row is deleted before the  *)
(* tables, so that neither a queued job nor the grouper's self-heal        *)
(* provisions them again), unless somebody was at work on the row or it    *)
(* could not be deleted.                                                   *)
(***************************************************************************)
NoResurrection ==
  project = "gone" /\ past \cap {"overlap", "ignored"} = {}
    => row = "none" /\ exist = {}

ProvisioningRests ==
  job = "none" /\ setter = "idle" /\ \A p \in Provisioners : pc[p] = "idle"

(***************************************************************************)
(* When no provisioner is at work and none is queued, the tables have the  *)
(* project's retention ("its dynamic_partition TTL must follow"), unless a *)
(* change of it was lost or met a provisioner that had read it before: the *)
(* active job, which swallows the new one, or an inline run that was given *)
(* up and alters the tables back after the new job.                        *)
(***************************************************************************)
TtlFollows ==
  project = "live" /\ ProvisioningRests /\ "overtaken" \notin past
    => \A t \in exist : ttl[t] = retention

(***************************************************************************)
(* A designated project goes live: whoever creates the row queues its job, *)
(* the job outlasts an inline run that was given up and statements that    *)
(* are not idempotent.  Nobody looks for pending rows, so that a lost      *)
(* enqueue is not made up for.                                             *)
(***************************************************************************)
GoesLive ==
  row = "pending" ~>
    row # "pending" \/ project # "live" \/ "unqueued" \in past

(***************************************************************************)
(* What a comment says of a designation whose enqueue failed: "propagation *)
(* + the provisioning kick are RECOVERABLE".                               *)
(***************************************************************************)
KickIsRecoverable == row = "pending" ~> row # "pending" \/ project # "live"

(***************************************************************************)
(* The lane of a live project gets ready, unless Doris gave up on its view *)
(* when the row was live already: the grouper then waits for ever.         *)
(***************************************************************************)
LaneGetsReady ==
  row = "live" ~> lane = "ready" \/ project # "live" \/ mv = "cancelled"

(***************************************************************************)
(* The snapshot settles on the row, whatever order refreshes swap in.      *)
(***************************************************************************)
CacheConverges == <>[](cache = row)

=============================================================================
