------------------------ MODULE BackgroundMigrations ------------------------
(***************************************************************************)
(* BackgroundMigrationManager (backgroundMigrationManager.ts): every worker *)
(* process runs the rows of background_migrations one after the other, in  *)
(* the order of their names, behind a lock of the row that a heartbeat     *)
(* keeps fresh.  Three strands of a process share activeMigration: the     *)
(* loop of run, the heartbeat's timer, and close, which the shutdown       *)
(* calls.  An action is what a strand does up to its next await; a call to *)
(* PostgreSQL takes effect when its reply arrives.  The migrations         *)
(* themselves are external.                                                *)
(***************************************************************************)
EXTENDS Naturals

CONSTANTS
  Workers,        \* worker processes; one that restarts is another member
  NoWorker,
  NumMigrations,
  Budgets         \* how often each kind of event may happen: any of these

Migrations == 1..NumMigrations   \* in the order of their names
None == 0

EventKinds == {"error", "crash", "stall", "throw", "invalid", "retry",
               "shutdown"}

ASSUME BackgroundMigrationsAssumption ==
  /\ NumMigrations \in Nat
  /\ NoWorker \notin Workers
  /\ Budgets \subseteq [EventKinds -> Nat]

VARIABLES
  finished,   \* rows with finishedAt
  failed,     \* rows with failedAt
  owner,      \* workerId of each row
  lock,       \* lockedAt: null, less than 60 s ago, or older
  pc,         \* what the loop of each process does next
  active,     \* activeMigration
  target,     \* the migration the loop works on
  quit,       \* migrationToRun is false
  aborted,    \* abort was called on the loop's migration
  chain,      \* a timer of the heartbeat is set
  closing,    \* how far close is
  closes,     \* the migration close works on
  done,       \* history: migrations that ran to their end once
  ended,      \* history: migrations whose run ended under a close
  unflushed,  \* history: processes whose shutdown stopped in close
  past,       \* history: what else happened
  events      \* events left

rows    == <<finished, failed, owner, lock>>
loop    == <<pc, target, quit>>
memory  == <<active, aborted, chain>>
close   == <<closing, closes>>
history == <<done, ended, unflushed, past>>
vars == <<rows, loop, memory, close, history, events>>

Steps == {"off", "acquire", "beat", "validate", "invalid", "run", "finish",
          "fail", "done", "rejected", "dead"}
Marks == {"error", "stall", "stale", "retry", "orphan"}

TypeOK ==
  /\ finished \subseteq Migrations
  /\ failed \subseteq Migrations
  /\ owner \in [Migrations -> Workers \cup {NoWorker}]
  /\ lock \in [Migrations -> {"none", "fresh", "old"}]
  /\ pc \in [Workers -> Steps]
  /\ active \in [Workers -> Migrations \cup {None}]
  /\ target \in [Workers -> Migrations \cup {None}]
  /\ quit \in [Workers -> BOOLEAN]
  /\ aborted \in [Workers -> BOOLEAN]
  /\ chain \in [Workers -> BOOLEAN]
  /\ closing \in [Workers -> {"open", "aborting", "releasing", "closed"}]
  /\ closes \in [Workers -> Migrations \cup {None}]
  /\ done \subseteq Migrations
  /\ ended \subseteq Migrations
  /\ unflushed \subseteq Workers
  /\ past \subseteq Marks
  /\ events \in [EventKinds -> Nat]

Init ==
  /\ finished = {} /\ failed = {}
  /\ owner = [m \in Migrations |-> NoWorker]
  /\ lock = [m \in Migrations |-> "none"]
  /\ pc = [w \in Workers |-> "off"]
  /\ active = [w \in Workers |-> None]
  /\ target = [w \in Workers |-> None]
  /\ quit = [w \in Workers |-> FALSE]
  /\ aborted = [w \in Workers |-> FALSE]
  /\ chain = [w \in Workers |-> FALSE]
  /\ closing = [w \in Workers |-> "open"]
  /\ closes = [w \in Workers |-> None]
  /\ done = {} /\ ended = {} /\ unflushed = {} /\ past = {}
  /\ events \in Budgets

Spend(kind) ==
  /\ events[kind] > 0
  /\ events' = [events EXCEPT ![kind] = @ - 1]

Up(w) == pc[w] \notin {"off", "dead"}
Open(m) == m \notin finished \cup failed

\* Mutant: the lock is part of the query.
FirstUnlocked(m) ==
  /\ Open(m) /\ lock[m] # "fresh"
  /\ \A k \in Migrations : Open(k) /\ lock[k] # "fresh" => m <= k

First(m) == Open(m) /\ \A k \in Migrations : Open(k) => m <= k

\* The heartbeat of a process keeps the lock of a row fresh.
Beats(w, m) ==
  /\ Open(m) /\ owner[m] = w
  /\ \/ chain[w] /\ active[w] = m
     \/ pc[w] = "beat" /\ target[w] = m

(***************************************************************************)
(* The loop of run.                                                        *)
(***************************************************************************)
Goto(w, step) == pc' = [pc EXCEPT ![w] = step]

Start(w) ==
  /\ pc[w] = "off"
  /\ Goto(w, "acquire")
  /\ UNCHANGED <<rows, target, quit, memory, close, history, events>>

\* The transaction locks the first row that is neither finished nor failed.
Acquire(w, m) ==
  /\ pc[w] = "acquire" /\ ~quit[w]
  /\ First(m)
  /\ lock[m] # "fresh"
  /\ owner' = [owner EXCEPT ![m] = w]
  /\ lock' = [lock EXCEPT ![m] = "fresh"]
  /\ active' = [active EXCEPT ![w] = m]
  /\ target' = [target EXCEPT ![w] = m]
  /\ aborted' = [aborted EXCEPT ![w] = FALSE]
  /\ Goto(w, "beat")
  /\ UNCHANGED <<finished, failed, quit, chain, close, history, events>>

\* Nothing to run, or its lock is fresh: the loop ends, but for a migration
\* that is still the active one, which is run once more.
NothingToRun(w) ==
  /\ pc[w] = "acquire"
  /\ \A m \in Migrations : First(m) => lock[m] = "fresh" \/ quit[w]
  /\ IF active[w] = None \/ quit[w]
     THEN Goto(w, "done") /\ UNCHANGED <<target, quit, past>>
     ELSE /\ Goto(w, "beat")
          /\ quit' = [quit EXCEPT ![w] = TRUE]
          /\ target' = [target EXCEPT ![w] = active[w]]
          /\ past' = past \cup {"stale"}
  /\ UNCHANGED <<rows, memory, close, done, ended, unflushed, events>>

\* The transaction fails: it assigned activeMigration, or had not come to it.
AcquireFails(w) ==
  /\ pc[w] = "acquire" /\ ~quit[w]
  /\ Spend("error")
  /\ \/ \E m \in Migrations :
          /\ First(m) /\ lock[m] # "fresh"
          /\ active' = [active EXCEPT ![w] = m]
     \/ UNCHANGED active
  /\ past' = past \cup {"error"}
  /\ Goto(w, "rejected")
  /\ UNCHANGED <<rows, target, quit, aborted, chain, close, done, ended,
                 unflushed>>

\* updateMany of heartBeat.
KeepFresh(w, m) ==
  lock' = IF Open(m) /\ owner[m] = w
          THEN [lock EXCEPT ![m] = "fresh"] ELSE lock

Beat(w) ==
  /\ pc[w] = "beat"
  /\ KeepFresh(w, target[w])
  /\ chain' = [chain EXCEPT ![w] = TRUE]
  /\ Goto(w, IF active[w] = None THEN "rejected" ELSE "validate")
  /\ UNCHANGED <<finished, failed, owner, target, quit, active, aborted, close,
                 history, events>>

BeatFails(w) ==
  /\ pc[w] = "beat"
  /\ Spend("error")
  /\ past' = past \cup {"error"}
  /\ Goto(w, "rejected")
  /\ UNCHANGED <<rows, target, quit, memory, close, done, ended, unflushed>>

Validate(w) ==
  /\ pc[w] = "validate"
  /\ \/ Goto(w, "run") /\ UNCHANGED events
     \/ Spend("invalid") /\ Goto(w, IF active[w] = None THEN "rejected" ELSE "invalid")
     \/ Spend("throw") /\ Goto(w, "rejected")
  /\ UNCHANGED <<rows, target, quit, memory, close, history>>

\* A run, or the end of the loop's pass, that falls into close.
Overlaps(w) == closing[w] \in {"aborting", "releasing"}
Ended(w) == ended' = IF Overlaps(w) THEN ended \cup {target[w]} ELSE ended

\* Mutant: a run that returns is marked.
AfterRunAlways(w) == Goto(w, "finish")

\* Without activeMigration the run was aborted.
AfterRun(w) == Goto(w, IF active[w] = None THEN "acquire" ELSE "finish")

\* run(args) of the migration: to its end, until it sees the abort, or an error.
Run(w) ==
  /\ pc[w] = "run"
  /\ \/ /\ done' = done \cup {target[w]}
        /\ AfterRun(w)
        /\ UNCHANGED events
     \/ /\ aborted[w]
        /\ AfterRun(w)
        /\ UNCHANGED <<done, events>>
     \/ /\ Spend("throw")
        /\ Goto(w, IF active[w] = None THEN "rejected" ELSE "fail")
        /\ UNCHANGED done
  /\ Ended(w)
  /\ UNCHANGED <<rows, target, quit, memory, close, unflushed, past>>

\* The update that marks a row, which fails unless the row is still ours.
Mark(w, m) ==
  /\ owner[m] = w
  /\ lock' = [lock EXCEPT ![m] = "none"]
  /\ UNCHANGED <<owner, events>>

MarkFails(w, m) ==
  /\ \/ owner[m] # w /\ UNCHANGED <<events, past>>
     \/ Spend("error") /\ past' = past \cup {"error"}
  /\ UNCHANGED rows

\* Mutants: activeMigration is not cleared; the loop ends.
LetGoKeeps(w) == Goto(w, "acquire") /\ Ended(w) /\ UNCHANGED active
LetGoEnds(w) ==
  /\ active' = [active EXCEPT ![w] = None]
  /\ Goto(w, "done")
  /\ Ended(w)

LetGo(w) ==
  /\ active' = [active EXCEPT ![w] = None]
  /\ Goto(w, "acquire")
  /\ Ended(w)

Finish(w) ==
  /\ pc[w] = "finish"
  /\ \/ /\ Mark(w, target[w])
        /\ finished' = finished \cup {target[w]}
        /\ IF active[w] = None
           THEN Goto(w, "rejected") /\ UNCHANGED <<active, ended>>
           ELSE LetGo(w)
        /\ UNCHANGED <<failed, past>>
     \/ /\ MarkFails(w, target[w])
        /\ Goto(w, IF active[w] = None THEN "rejected" ELSE "fail")
        /\ UNCHANGED <<active, ended>>
  /\ UNCHANGED <<target, quit, aborted, chain, close, done, unflushed>>

Fail(w) ==
  /\ pc[w] = "fail"
  /\ \/ /\ Mark(w, target[w])
        /\ failed' = failed \cup {target[w]}
        /\ LetGo(w)
        /\ UNCHANGED <<finished, past>>
     \/ /\ MarkFails(w, target[w])
        /\ Goto(w, "rejected")
        /\ UNCHANGED <<active, ended>>
  /\ UNCHANGED <<target, quit, aborted, chain, close, done, unflushed>>

\* The loop goes on without having cleared activeMigration.
MarkInvalid(w) ==
  /\ pc[w] = "invalid"
  /\ \/ /\ Mark(w, target[w])
        /\ failed' = failed \cup {target[w]}
        /\ Goto(w, "acquire")
        /\ UNCHANGED <<finished, past>>
     \/ MarkFails(w, target[w]) /\ Goto(w, "rejected")
  /\ UNCHANGED <<target, quit, memory, close, done, ended, unflushed>>

(***************************************************************************)
(* The heartbeat, the shutdown, and what happens to a process.             *)
(***************************************************************************)
HeartBeat(w) ==
  /\ chain[w]
  /\ IF active[w] = None
     THEN chain' = [chain EXCEPT ![w] = FALSE] /\ UNCHANGED lock
     ELSE KeepFresh(w, active[w]) /\ UNCHANGED chain
  /\ UNCHANGED <<finished, failed, owner, loop, active, aborted, close, history,
                 events>>

Gone(w) ==
  /\ pc' = [pc EXCEPT ![w] = "dead"]
  /\ active' = [active EXCEPT ![w] = None]
  /\ target' = [target EXCEPT ![w] = None]
  /\ quit' = [quit EXCEPT ![w] = FALSE]
  /\ aborted' = [aborted EXCEPT ![w] = FALSE]
  /\ chain' = [chain EXCEPT ![w] = FALSE]
  /\ closing' = [closing EXCEPT ![w] = "open"]
  /\ closes' = [closes EXCEPT ![w] = None]

\* Mutant: close takes it for granted that there is an activeMigration.
HasWorkAlways(w) == TRUE
HasWork(w) == active[w] # None

\* onShutdown calls close, which has nothing to do without activeMigration.
Terminate(w) ==
  /\ Up(w) /\ closing[w] = "open"
  /\ Spend("shutdown")
  /\ closing' = [closing EXCEPT
                   ![w] = IF HasWork(w) THEN "aborting" ELSE "closed"]
  /\ aborted' = [aborted EXCEPT ![w] = @ \/ HasWork(w)]
  /\ UNCHANGED <<rows, loop, active, chain, closes, history>>

\* A close that rejects ends the process before DorisWriter is shut down.
CloseFails(w) ==
  /\ Gone(w)
  /\ unflushed' = unflushed \cup {w}

AbortReturns(w) ==
  /\ closing[w] = "aborting"
  /\ IF active[w] = None
     THEN CloseFails(w)
     ELSE /\ closing' = [closing EXCEPT ![w] = "releasing"]
          /\ closes' = [closes EXCEPT ![w] = active[w]]
          /\ UNCHANGED <<loop, memory, unflushed>>
  /\ UNCHANGED <<rows, done, ended, past, events>>

Release(w) ==
  /\ closing[w] = "releasing"
  /\ \/ /\ Mark(w, closes[w])
        /\ IF active[w] = None
           THEN CloseFails(w) /\ UNCHANGED past
           ELSE /\ closing' = [closing EXCEPT ![w] = "closed"]
                /\ closes' = [closes EXCEPT ![w] = None]
                /\ active' = [active EXCEPT ![w] = None]
                /\ past' = IF aborted[w] THEN past ELSE past \cup {"orphan"}
                /\ UNCHANGED <<loop, aborted, chain, unflushed>>
        /\ UNCHANGED <<finished, failed>>
     \/ MarkFails(w, closes[w]) /\ CloseFails(w)
  /\ UNCHANGED <<done, ended>>

\* The rest of onShutdown, then the end of the process.
Exit(w) ==
  /\ closing[w] = "closed"
  /\ Gone(w)
  /\ UNCHANGED <<rows, history, events>>

\* Also what a heartbeat does whose update is refused: nobody handles it.
Crash(w) ==
  /\ Up(w)
  /\ Spend("crash")
  /\ Gone(w)
  /\ UNCHANGED <<rows, history>>

\* 60 s without a heartbeat, of a process that has none or one that stalls.
Expire(m) ==
  /\ lock[m] = "fresh"
  /\ \/ /\ \A w \in Workers : ~Beats(w, m)
        /\ UNCHANGED <<past, events>>
     \/ /\ Spend("stall")
        /\ past' = past \cup {"stall"}
  /\ lock' = [lock EXCEPT ![m] = "old"]
  /\ UNCHANGED <<finished, failed, owner, loop, memory, close, done, ended,
                 unflushed>>

\* The mutation "retry" of the web server's router.
Retry(m) ==
  /\ Spend("retry")
  /\ finished' = finished \ {m}
  /\ failed' = failed \ {m}
  /\ past' = past \cup {"retry"}
  /\ UNCHANGED <<owner, lock, loop, memory, close, done, ended, unflushed>>

Loop(w) ==
  \/ \E m \in Migrations : Acquire(w, m)
  \/ NothingToRun(w) \/ AcquireFails(w)
  \/ Beat(w) \/ BeatFails(w)
  \/ Validate(w) \/ MarkInvalid(w)
  \/ Run(w) \/ Finish(w) \/ Fail(w)

Close(w) == AbortReturns(w) \/ Release(w) \/ Exit(w)

Next ==
  \/ \E w \in Workers : \/ Start(w) \/ Loop(w) \/ HeartBeat(w)
                       \/ Terminate(w) \/ Close(w) \/ Crash(w)
  \/ \E m \in Migrations : Expire(m) \/ Retry(m)

Spec == Init /\ [][Next]_vars

\* Replies and the ends of migrations arrive, time passes; processes need not
\* start, and nobody needs to shut them down.
FairSpec ==
  /\ Spec
  /\ \A w \in Workers : WF_vars(Loop(w)) /\ WF_vars(Close(w))
  /\ \A m \in Migrations : WF_vars(Expire(m))

(***************************************************************************)
(* Properties.                                                             *)
(***************************************************************************)

\* A process that runs a migration which nobody told to abort.
Runs(w, m) == pc[w] = "run" /\ target[w] = m /\ ~aborted[w]

\* "Only one background migration can run at a time" (README.md): as long as
\* no process stalls, none loses activeMigration to a close that aborted
\* another migration, none runs an invalid migration again, and nobody
\* retries a migration, a migration that runs is open, and runs alone.
RunsAlone ==
  past \cap {"stall", "stale", "retry", "orphan"} = {} =>
    \A w \in Workers, m \in Migrations :
      Runs(w, m) =>
        /\ First(m)
        /\ \A v \in Workers \ {w}, k \in Migrations : ~Runs(v, k)

\* finishedAt means that the migration ran to its end: an aborted one is not
\* marked, unless its run ended before close had released the row.
FinishedMeansRan == finished \subseteq done \cup ended

\* A shutdown gets past close, to the flush of DorisWriter, unless a call to
\* the database failed, the loop let go of the migration under close, or the
\* lock was taken over by somebody else.
ShutdownPassesClose ==
  unflushed # {} =>
    ended # {} \/ past \cap {"error", "stall", "retry"} # {}

\* The processes that are up do all migrations, one after the other, unless
\* one of them is shut down, dies or gives up, or a migration is retried.
AllGetDone ==
  (\E w \in Workers : Up(w)) ~>
    \/ finished \cup failed = Migrations
    \/ "retry" \in past
    \/ \E w \in Workers : pc[w] \in {"dead", "rejected"} \/ closing[w] # "open"

\* A lock is let go of or expires, unless a process whose loop gave up goes
\* on beating for it.
LocksAreFreed ==
  \A m \in Migrations :
    lock[m] = "fresh" ~>
      \/ lock[m] # "fresh"
      \/ \E w \in Workers : Beats(w, m) /\ pc[w] = "rejected"
=============================================================================
