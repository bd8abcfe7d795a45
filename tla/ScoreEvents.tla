----------------------------- MODULE ScoreEvents -----------------------------
(***************************************************************************)
(* One score: the event files that clients upload (processEventBatch.ts),  *)
(* the ingestion jobs that merge them into its row (ingestionQueue.ts and  *)
(* IngestionService.processScoreEventList), the writer that loads what     *)
(* they computed, and the deletion of the score.  Every job reads all the  *)
(* files of the score and the row there is, so a row that is lost or       *)
(* overtaken may be repaired by a later job, and a row that was deleted    *)
(* may come back.  All events carry one name and one day: they share one   *)
(* key of the table.                                                       *)
(***************************************************************************)
EXTENDS Naturals, FiniteSets, FiniteSetsExt

CONSTANTS
  Settings,   \* what may differ between deployments, and between runs (below)
  NumFiles,   \* event files, numbered by the time of their event
  Workers,    \* processes that run one ingestion job at a time
  MaxTries    \* attempts of an ingestion job

Files == 1..NumFiles
Queues == {"primary", "secondary"}

\* log: files are logged; seen: the cache of seen files is used; invalid: the
\* files whose event does not validate; faults: bound on errors, crashes and stalls.
ASSUME ScoreEventsAssumption ==
  /\ NumFiles \in Nat /\ MaxTries \in Nat \ {0}
  /\ Settings \subseteq [log : BOOLEAN, seen : BOOLEAN, invalid : SUBSET Files, faults : Nat]

VARIABLES
  flags,    \* the settings of this run
  client,   \* how far each file is with its client
  stored,   \* files in the bucket
  logged,   \* files in the log of stored files
  waiting,  \* jobs of each file in each queue
  tries,    \* attempts that the job of a file has left
  stalled,  \* files whose job was delivered again after a crash or a stall
  slow,     \* whether the bucket said recently that it is overloaded
  seen,     \* files the cache says were processed
  work,     \* what each worker does next, and what it has read
  buffer,   \* log entries and rows that a writer has not loaded
  row,      \* the row of the score
  erasure,  \* the two halves of the deletion, and the files it found
  kept,     \* history: stored files that the row is to show once they are accepted
  erased,   \* history: files that the row is never to show again
  faults

queues == <<waiting, tries, stalled>>
caches == <<slow, seen>>
promises == <<kept, erased>>
vars == <<flags, client, stored, logged, queues, caches, work, buffer, row, erasure,
          promises, faults>>

\* A row: the files it was merged from, the one whose values it shows, and
\* the time of the first.
NoScore == [has |-> {}, shows |-> 0, since |-> 0]
Idle == [pc |-> "idle", queue |-> "primary", file |-> 0, own |-> FALSE, list |-> {},
         base |-> NoScore]

Scores == [has : SUBSET Files, shows : 0..NumFiles, since : 0..NumFiles]

TypeOK ==
  /\ flags \in Settings
  /\ client \in [Files -> {"new", "stored", "accepted"}]
  /\ stored \subseteq Files /\ logged \subseteq Files
  /\ waiting \in [Queues -> [Files -> Nat]]
  /\ tries \in [Files -> 0..MaxTries] /\ stalled \subseteq Files
  /\ slow \in BOOLEAN /\ seen \subseteq Files
  /\ work \in [Workers -> [pc : {"idle", "list", "load", "mark", "read", "write"},
                           queue : Queues, file : 0..NumFiles, own : BOOLEAN,
                           list : SUBSET Files, base : Scores]]
  /\ buffer \subseteq [by : Workers, file : Files]
                      \cup [by : Workers, list : SUBSET Files, score : Scores]
  /\ row \in Scores
  /\ erasure \in [files : {"none", "find", "unlink", "unlog", "done"},
                  row : {"none", "delete", "done"}, found : SUBSET Files]
  /\ kept \subseteq Files /\ erased \subseteq Files
  /\ faults \in 0..flags.faults

Init ==
  /\ flags \in Settings
  /\ client = [f \in Files |-> "new"] /\ stored = {} /\ logged = {}
  /\ waiting = [q \in Queues |-> [f \in Files |-> 0]]
  /\ tries = [f \in Files |-> MaxTries] /\ stalled = {}
  /\ slow = FALSE /\ seen = {} /\ work = [w \in Workers |-> Idle]
  /\ buffer = {} /\ row = NoScore
  /\ erasure = [files |-> "none", row |-> "none", found |-> {}]
  /\ kept = {} /\ erased = {} /\ faults = 0

Fault == faults < flags.faults /\ faults' = faults + 1

Rows == {b \in buffer : "score" \in DOMAIN b}
\* Workers that hold the content of files, and all that is on its way to the row.
Reading == {w \in Workers : work[w].pc \in {"mark", "read", "write"}}
InFlight == (UNION {work[w].list \cup work[w].base.has : w \in Reading})
            \cup (UNION {b.score.has : b \in Rows})

(***************************************************************************)
(* processEventBatch: the file is stored, then its job is added.           *)
(***************************************************************************)
\* Nobody has a trace of the file.
Fresh(f) == f \notin flags.invalid \cup stored \cup seen \cup row.has

Upload(f) ==
  /\ client[f] = "new"
  /\ client' = [client EXCEPT ![f] = "stored"]
  /\ stored' = stored \cup {f}
  /\ kept' = IF Fresh(f) THEN kept \cup {f} ELSE kept
  /\ erased' = erased \ {f}
  /\ UNCHANGED <<flags, logged, queues, caches, work, buffer, row, erasure, faults>>

\* The client sees an error; the file may have been stored, and the bucket may
\* have answered that it is overloaded.
FailUpload(f) ==
  /\ client[f] = "new"
  /\ Fault
  /\ stored' \in {stored, stored \cup {f}}
  /\ slow' \in {slow, TRUE}
  /\ erased' = erased \ {f}
  /\ UNCHANGED <<flags, client, logged, queues, seen, work, buffer, row, erasure, kept>>

Add(f) ==
  /\ waiting' = [waiting EXCEPT !["primary"][f] = @ + 1]
  /\ tries' = [tries EXCEPT ![f] = MaxTries] /\ stalled' = stalled \ {f}

Enqueue(f) ==
  /\ client[f] = "stored"
  /\ Add(f)
  /\ client' = [client EXCEPT ![f] = "accepted"]
  /\ UNCHANGED <<flags, stored, logged, caches, work, buffer, row, erasure, promises, faults>>

\* The client sees an error and sends the event again; the job may have been added.
FailEnqueue(f) ==
  /\ client[f] = "stored"
  /\ Fault
  /\ client' = [client EXCEPT ![f] = "new"]
  /\ Add(f) \/ UNCHANGED queues
  /\ UNCHANGED <<flags, stored, logged, caches, work, buffer, row, erasure, promises>>

(***************************************************************************)
(* The processor of the ingestion queues                                   *)
(***************************************************************************)
Rests(w) == work' = [work EXCEPT ![w] = Idle]

\* A delivery of the job fails: the job waits for its next attempt, if it has
\* one and its lock was not lost.
Rejects(w) ==
  LET f == work[w].file IN
  /\ Rests(w)
  /\ IF work[w].own /\ tries[f] > 1
     THEN /\ waiting' = [waiting EXCEPT ![work[w].queue][f] = @ + 1]
          /\ tries' = [tries EXCEPT ![f] = @ - 1]
     ELSE UNCHANGED <<waiting, tries>>
  /\ UNCHANGED stalled

\* Files whose content nobody will merge any more when this attempt ends here.
GivenUp(w) ==
  (IF work[w].own /\ tries[work[w].file] <= 1 THEN {work[w].file} ELSE {})
  \cup (IF flags.seen THEN work[w].list ELSE {})

\* The file goes to the log through the writer's buffer; then the job is
\* skipped, handed to the other queue, or begun.  (A second entry of a file changes nothing.)
Take(w, q, f) ==
  /\ work[w].pc = "idle" /\ waiting[q][f] > 0
  /\ buffer' = IF flags.log /\ f \notin logged THEN buffer \cup {[by |-> w, file |-> f]}
               ELSE buffer
  /\ LET rest == [waiting EXCEPT ![q][f] = @ - 1] IN
     \/ /\ f \in seen /\ flags.seen
        /\ waiting' = rest
        /\ UNCHANGED <<tries, stalled, work>>
     \/ /\ ~(f \in seen /\ flags.seen) /\ q = "primary" /\ slow
        /\ waiting' = [rest EXCEPT !["secondary"][f] = @ + 1]
        /\ tries' = [tries EXCEPT ![f] = MaxTries] /\ stalled' = stalled \ {f}
        /\ UNCHANGED work
     \/ /\ ~(f \in seen /\ flags.seen) /\ ~(q = "primary" /\ slow)
        /\ waiting' = rest
        /\ work' = [work EXCEPT ![w] =
             [Idle EXCEPT !.pc = "list", !.queue = q, !.file = f, !.own = TRUE]]
        /\ UNCHANGED <<tries, stalled>>
  /\ UNCHANGED <<flags, client, stored, logged, caches, row, erasure, promises, faults>>

\* Mutation: the listing is skipped, as it is for observations.
ListedOwn(w) == {work[w].file} \cap stored

Listed(w) == stored

\* Without files there is nothing to do.
List(w) ==
  /\ work[w].pc = "list"
  /\ work' = [work EXCEPT ![w] = IF Listed(w) = {} THEN Idle
                                 ELSE [@ EXCEPT !.pc = "load", !.list = Listed(w)]]
  /\ UNCHANGED <<flags, client, stored, logged, queues, caches, buffer, row, erasure,
                 promises, faults>>

\* A file that was deleted meanwhile fails the job.
Download(w) ==
  /\ work[w].pc = "load"
  /\ IF work[w].list \subseteq stored
     THEN work' = [work EXCEPT ![w].pc = IF flags.seen THEN "mark" ELSE "read"] /\ UNCHANGED <<queues, kept>>
     ELSE /\ Rejects(w)
          /\ kept' = IF work[w].own /\ tries[work[w].file] <= 1
                     THEN kept \ {work[w].file} ELSE kept
  /\ UNCHANGED <<flags, client, stored, logged, caches, buffer, row, erasure, erased, faults>>

\* The files count as seen before anything is written; an error is ignored.
Mark(w) ==
  /\ work[w].pc = "mark"
  /\ work' = [work EXCEPT ![w].pc = "read"]
  /\ \/ seen' = seen \cup work[w].list /\ UNCHANGED faults
     \/ /\ Fault
        /\ \E marked \in SUBSET work[w].list : seen' = seen \cup marked
  /\ UNCHANGED <<flags, client, stored, logged, queues, slow, buffer, row, erasure, promises>>

\* The query is for a row that is not older than the first event.
Read(w) ==
  /\ work[w].pc = "read"
  /\ work' = [work EXCEPT ![w].pc = "write",
                          ![w].base = IF row.since >= Min(work[w].list) THEN row ELSE NoScore]
  /\ UNCHANGED <<flags, client, stored, logged, queues, caches, buffer, row, erasure,
                 promises, faults>>

Valid(list) == list \ flags.invalid

\* Mutation: the row that was read is merged last.
MergedBaseLast(base, list) ==
  [has |-> base.has \cup Valid(list),
   shows |-> IF base.has # {} THEN base.shows ELSE Max(Valid(list)),
   since |-> IF base.has # {} THEN base.since ELSE Min(Valid(list))]

\* The events of the files, in the order of their time, on top of the row.
Merged(base, list) ==
  [has |-> base.has \cup Valid(list),
   shows |-> IF Valid(list) = {} THEN base.shows ELSE Max(Valid(list)),
   since |-> IF base.has # {} THEN base.since ELSE Min(Valid(list))]

\* With no row and no event that validates there is nothing to merge.
Write(w) ==
  /\ work[w].pc = "write"
  /\ IF work[w].base.has = {} /\ Valid(work[w].list) = {}
     THEN Rejects(w) /\ kept' = kept \ GivenUp(w) /\ UNCHANGED buffer
     ELSE /\ buffer' = buffer \cup {[by |-> w, list |-> work[w].list,
                                     score |-> Merged(work[w].base, work[w].list)]}
          /\ Rests(w)
          /\ UNCHANGED <<queues, kept>>
  /\ UNCHANGED <<flags, client, stored, logged, caches, row, erasure, erased, faults>>

(***************************************************************************)
(* The writer loads what is buffered, in any order; the last load of a key *)
(* is the row.                                                             *)
(***************************************************************************)
Log(b) ==
  /\ b \in buffer \ Rows
  /\ buffer' = buffer \ {b} /\ logged' = logged \cup {b.file}
  /\ UNCHANGED <<flags, client, stored, queues, caches, work, row, erasure, promises, faults>>

\* A row was computed without the file, and is still to be loaded.
Threatened(b, f) ==
  \/ \E w \in Workers : work[w].list # {} /\ f \notin work[w].list
  \/ \E other \in Rows \ {b} : f \notin other.list

Load(b) ==
  /\ b \in Rows
  /\ buffer' = buffer \ {b} /\ row' = b.score
  /\ kept' = {f \in kept : f \in b.score.has => ~Threatened(b, f)}
  /\ UNCHANGED <<flags, client, stored, logged, queues, caches, work, erasure, erased, faults>>

(***************************************************************************)
(* Faults.  A second stall or crash fails a job for good.                  *)
(***************************************************************************)
Redelivered(w) ==
  LET f == work[w].file IN
  /\ IF work[w].own /\ f \notin stalled
     THEN /\ waiting' = [waiting EXCEPT ![work[w].queue][f] = @ + 1]
          /\ stalled' = stalled \cup {f}
     ELSE UNCHANGED <<waiting, stalled>>
  /\ UNCHANGED tries

\* Files whose job is not delivered again.
Failed(w) == IF work[w].own /\ work[w].file \in stalled THEN {work[w].file} ELSE {}

\* The bucket may have answered that it is overloaded.
Throw(w) ==
  /\ work[w].pc \in {"list", "load", "read", "write"}
  /\ Fault
  /\ Rejects(w)
  /\ slow' \in {slow, slow \/ work[w].pc \in {"list", "load"}}
  /\ kept' = kept \ GivenUp(w)
  /\ UNCHANGED <<flags, client, stored, logged, seen, buffer, row, erasure, erased>>

\* The process dies, and its buffer with it.
Crash(w) ==
  /\ work[w].pc # "idle" \/ \E b \in buffer : b.by = w
  /\ Fault
  /\ Rests(w) /\ Redelivered(w)
  /\ buffer' = {b \in buffer : b.by # w}
  /\ kept' = kept \ ((UNION {b.list : b \in {c \in Rows : c.by = w}})
                     \cup Failed(w)
                     \cup (IF flags.seen THEN work[w].list ELSE {}))
  /\ UNCHANGED <<flags, client, stored, logged, caches, row, erasure, erased>>

Stall(w) ==
  /\ work[w].own
  /\ Fault
  /\ Redelivered(w)
  /\ work' = [work EXCEPT ![w].own = FALSE]
  /\ kept' = kept \ Failed(w)
  /\ UNCHANGED <<flags, client, stored, logged, caches, buffer, row, erasure, erased>>

\* The writer gives up a row (its attempts are used up).
Discard(b) ==
  /\ b \in buffer
  /\ Fault
  /\ buffer' = buffer \ {b}
  /\ kept' = IF b \in Rows THEN kept \ b.list ELSE kept
  /\ UNCHANGED <<flags, client, stored, logged, queues, caches, work, row, erasure, erased>>

\* Minutes pass.
Forget ==
  /\ seen # {} \/ slow
  /\ seen' = {} /\ slow' = FALSE
  /\ UNCHANGED <<flags, client, stored, logged, queues, work, buffer, row, erasure,
                 promises, faults>>

(***************************************************************************)
(* processDorisScoreDelete: the files that the log names are deleted, and  *)
(* at the same time the row.                                               *)
(***************************************************************************)
AskDelete ==
  /\ erasure.files = "none" /\ stored # {}
  /\ erasure' = [files |-> IF flags.log THEN "find" ELSE "done", row |-> "delete", found |-> {}]
  /\ kept' = {}
  /\ erased' = IF flags.log THEN stored ELSE {}
  /\ UNCHANGED <<flags, client, stored, logged, queues, caches, work, buffer, row, faults>>

\* Entries count whether or not they are marked as deleted.
FindFiles ==
  /\ erasure.files = "find"
  /\ erasure' = [erasure EXCEPT !.files = "unlink", !.found = logged]
  /\ erased' = erased \cap logged
  /\ UNCHANGED <<flags, client, stored, logged, queues, caches, work, buffer, row, kept, faults>>

\* Mutation: the entries are marked, the files stay.
UnlinkedNone == {}

Unlinked == erasure.found

\* A file that is being merged, or that was merged since the row was deleted, comes back.
UnlinkFiles ==
  /\ erasure.files = "unlink"
  /\ stored' = stored \ Unlinked
  /\ erasure' = [erasure EXCEPT !.files = "unlog"]
  /\ kept' = kept \ erasure.found
  /\ erased' = (erased \ InFlight) \ (IF erasure.row = "done" THEN row.has ELSE {})
  /\ UNCHANGED <<flags, client, logged, queues, caches, work, buffer, row, faults>>

\* The entries stay in the log: FindFiles does not look at the mark.
SoftDelete ==
  /\ erasure.files = "unlog"
  /\ erasure' = [erasure EXCEPT !.files = "done"]
  /\ UNCHANGED <<flags, client, stored, logged, queues, caches, work, buffer, row, promises, faults>>

DeleteRow ==
  /\ erasure.row = "delete"
  /\ row' = NoScore
  /\ erasure' = [erasure EXCEPT !.row = "done"]
  /\ kept' = kept \ row.has
  /\ erased' = erased \ InFlight
  /\ UNCHANGED <<flags, client, stored, logged, queues, caches, work, buffer, faults>>

Erasing == erasure.files # "none" /\ ~(erasure.files = "done" /\ erasure.row = "done")

\* Either half fails: the job, or its retry from the dead letters, does both again.
FailErase ==
  /\ Erasing
  /\ Fault
  /\ erasure' = [files |-> IF flags.log THEN "find" ELSE "done", row |-> "delete", found |-> {}]
  /\ UNCHANGED <<flags, client, stored, logged, queues, caches, work, buffer, row, promises>>

Erase == FindFiles \/ UnlinkFiles \/ SoftDelete \/ DeleteRow \/ FailErase

Job(w) ==
  \/ \E q \in Queues, f \in Files : Take(w, q, f)
  \/ List(w) \/ Download(w) \/ Mark(w) \/ Read(w) \/ Write(w)
  \/ Throw(w) \/ Crash(w) \/ Stall(w)

Next ==
  \/ \E f \in Files : Upload(f) \/ FailUpload(f) \/ Enqueue(f) \/ FailEnqueue(f)
  \/ \E w \in Workers : Job(w)
  \/ \E b \in buffer : Log(b) \/ Load(b) \/ Discard(b)
  \/ Forget \/ AskDelete \/ Erase

Spec == Init /\ [][Next]_vars

(***************************************************************************)
(* Properties                                                              *)
(***************************************************************************)
Quiet ==
  /\ \A f \in Files : client[f] # "stored" /\ \A q \in Queues : waiting[q][f] = 0
  /\ \A w \in Workers : work[w].pc = "idle"
  /\ Rows = {} /\ ~Erasing

\* When all jobs are done and all rows loaded, an event that was accepted is
\* part of the score, and not hidden by an older one.
Reflected ==
  Quiet => \A f \in kept : client[f] = "accepted" => f \in row.has /\ row.shows >= f

\* A score that shows an event does not go back to one from before it.
NeverGoesBack ==
  [][\A f \in kept' : f \in row.has /\ row.shows >= f => f \in row'.has /\ row'.shows >= f]_vars

\* Once a score is deleted, neither its row nor its files come back.
StaysErased ==
  erasure.files = "done" /\ erasure.row = "done"
    => erased \cap (row.has \cup stored) = {}
=============================================================================
