----------------------------- MODULE OtelGrouper -----------------------------
(***************************************************************************)
(* The Redis side of the exactly-once OTel ingestion path, for one project *)
(* lane.  A web process registers every uploaded file on the lane's        *)
(* pending list (packages/shared/src/server/redis/otelPendingGroups.ts).   *)
(* Every worker process runs a grouper (worker/src/features/otelGrouper):  *)
(* one of them leads by a Redis lease and, tick after tick, recovers the   *)
(* staged groups of an interrupted tick or cuts new groups from the head   *)
(* of the list and publishes them as BullMQ jobs.                          *)
(*                                                                         *)
(* Each action is one Redis round trip, the granularity at which workers   *)
(* and failures interleave; a Lua script is one step.  A command that      *)
(* fails did or did not take effect, and the caller cannot tell.           *)
(*                                                                         *)
(* A group's identity is sha1 over its sorted file keys, hence the set of  *)
(* its files; a staging manifest holds exactly those files.  The other     *)
(* lanes of a tick appear here only as time that passes between steps.     *)
(***************************************************************************)
EXTENDS Integers, Sequences, FiniteSets, FiniteSetsExt

CONSTANTS
  Workers,      \* grouper instances; a restarted process is a new instance
  Entries,      \* what may stand on the pending list
  Poison,       \* the entries that do not decode
  Size,         \* bytes (and, alike, span rows) of a file
  TargetSize,   \* cut once the window holds this much
  MaxFiles,     \* cut at most this many list entries at once
  MaxCuts,      \* groups cut from a lane in one tick
  NoWorker,     \* value of a lock key that does not exist
  MaxFaults,    \* how often each kind of fault may happen
  Apart         \* pairs of kinds that do not happen in the same behaviour

FaultKinds == {"error", "partial", "stall", "crash"}

ASSUME GrouperAssumption ==
  /\ NoWorker \notin Workers
  /\ Poison \subseteq Entries
  /\ IsFiniteSet(Entries)
  /\ Size \in [Entries -> Nat]
  /\ TargetSize \in Nat \ {0}
  /\ MaxFiles \in Nat \ {0}
  /\ MaxCuts \in Nat \ {0}
  /\ MaxFaults \in [FaultKinds -> Nat]
  /\ Apart \subseteq SUBSET FaultKinds

Files  == Entries \ Poison
Groups == SUBSET Files

VARIABLES
  registered,  \* files whose otel-reg key exists
  acked,       \* files whose registration was confirmed to the producer
  log,         \* every RPUSH on the pending list, oldest first
  live,        \* positions of log still on the list
  aged,        \* entries older than the flush timeout
  quarantine,  \* entries moved to the quarantine list
  staging,     \* groups with a manifest in the staging hash
  jobs,        \* groups ever added to the ingestion queue
  lease,       \* LANE_DOMAIN_LEASE
  laneLock,    \* the lane's lock key
  pc,          \* what each worker does next
  held,        \* the worker believes that it holds the lease
  leftover,    \* staged groups the worker has still to recover
  group,       \* the group the worker is publishing
  cutsLeft,    \* cuts the worker may still make in this tick
  lateCuts,    \* history: cuts made while another worker held the lease
  faults       \* faults of each kind that may still happen

lists   == <<registered, acked, log, live, aged, quarantine, lateCuts>>
locks   == <<lease, laneLock, held>>
control == <<leftover, group, cutsLeft>>
vars    == <<lists, staging, jobs, locks, control, pc, faults>>

PCs == {"idle", "probe", "confirm", "stamp", "cut",
        "scan", "read", "reconcile", "add", "clear", "dead"}

TypeOK ==
  /\ registered \subseteq Files
  /\ acked \subseteq Files
  /\ log \in Seq(Entries)
  /\ live \subseteq DOMAIN log
  /\ aged \subseteq Entries
  /\ quarantine \subseteq Poison
  /\ staging \subseteq Groups
  /\ jobs \subseteq Groups
  /\ lease \in Workers \cup {NoWorker}
  /\ laneLock \in Workers \cup {NoWorker}
  /\ pc \in [Workers -> PCs]
  /\ held \in [Workers -> BOOLEAN]
  /\ leftover \in [Workers -> SUBSET Groups]
  /\ group \in [Workers -> Groups]
  /\ cutsLeft \in [Workers -> 0..MaxCuts]
  /\ lateCuts \in Nat
  /\ faults \in [FaultKinds -> Nat]

Init ==
  /\ registered = {}
  /\ acked = {}
  /\ log = <<>>
  /\ live = {}
  /\ aged = {}
  /\ quarantine = {}
  /\ staging = {}
  /\ jobs = {}
  /\ lease = NoWorker
  /\ laneLock = NoWorker
  /\ pc = [w \in Workers |-> "idle"]
  /\ held = [w \in Workers |-> FALSE]
  /\ leftover = [w \in Workers |-> {}]
  /\ group = [w \in Workers |-> {}]
  /\ cutsLeft = [w \in Workers |-> 0]
  /\ lateCuts = 0
  /\ faults = MaxFaults

Spend(kind) ==
  /\ faults[kind] > 0
  /\ \A pair \in Apart : kind \in pair =>
       \A other \in pair \ {kind} : faults[other] = MaxFaults[other]
  /\ faults' = [faults EXCEPT ![kind] = @ - 1]

Goto(w, label) == pc' = [pc EXCEPT ![w] = label]

\* The lane leaves the rotation of this tick.
EndCuts(w) == cutsLeft' = [cutsLeft EXCEPT ![w] = 0]

(***************************************************************************)
(* The pending list.                                                       *)
(***************************************************************************)
Content(positions) == {log[i] : i \in positions}
Pending == Content(live)

\* The first n entries of the list: LRANGE 0 n-1.
HeadOf(n) == {i \in live : Cardinality({j \in live : j <= i}) <= n}

TotalSize(files) == MapThenSumSet(LAMBDA f : Size[f], files)
AtTarget(positions) == TotalSize(Content(positions) \ Poison) >= TargetSize

\* The entries a cut looks at: from the head, up to MaxFiles of them, and no
\* further than the entry that reaches the target.
Window == {i \in HeadOf(MaxFiles) : ~ AtTarget({j \in live : j < i})}

Members == Content(Window) \ Poison
Undecodable == Content(Window) \cap Poison

\* Mutants of the gate: no flush timeout; poison does not trigger a cut.
RipeWithoutTimeout ==
  AtTarget(Window) \/ Cardinality(Window) >= MaxFiles \/ Undecodable # {}
RipeDespitePoison ==
  \/ AtTarget(Window)
  \/ Cardinality(Window) >= MaxFiles
  \/ Members \cap aged # {}

\* The dispatch gate inside the script.
Ripe ==
  \/ AtTarget(Window)
  \/ Cardinality(Window) >= MaxFiles
  \/ Undecodable # {}
  \/ Members \cap aged # {}

(***************************************************************************)
(* Producers.                                                              *)
(***************************************************************************)

\* registerOtelFile: SET NX, then RPUSH, in one script.  When the reply is
\* lost the client sends the command again: the file stays unacknowledged.
Register(f) ==
  /\ f \in Files \ acked
  /\ IF f \in registered
     THEN UNCHANGED <<registered, log, live>>
     ELSE /\ registered' = registered \cup {f}
          /\ log' = Append(log, f)
          /\ live' = live \cup {Len(log) + 1}
  /\ acked' \in {acked, acked \cup {f}}
  /\ UNCHANGED <<aged, quarantine, lateCuts, staging, jobs, locks, control,
                 pc, faults>>

\* An entry that no release of this code wrote, or that does not decode.
ForeignPush(e) ==
  /\ e \in Poison \ Content(DOMAIN log)
  /\ log' = Append(log, e)
  /\ live' = live \cup {Len(log) + 1}
  /\ UNCHANGED <<registered, acked, aged, quarantine, lateCuts, staging, jobs,
                 locks, control, pc, faults>>

\* An entry has waited past the flush timeout.
Age(e) ==
  /\ e \in Pending \ aged
  /\ aged' = aged \cup {e}
  /\ UNCHANGED <<registered, acked, log, live, quarantine, lateCuts, staging,
                 jobs, locks, control, pc, faults>>

(***************************************************************************)
(* Leadership.                                                             *)
(***************************************************************************)

\* acquireOrRenew: renew what the worker believes to hold, else SET NX.
Wins(w) == lease = NoWorker \/ (held[w] /\ lease = w)
AcquireOrRenew(w) ==
  /\ lease' = IF Wins(w) THEN w ELSE lease
  /\ held' = [held EXCEPT ![w] = Wins(w)]
  /\ UNCHANGED laneLock

\* The first step of a tick.
StartTick(w) ==
  /\ pc[w] = "idle"
  /\ AcquireOrRenew(w)
  /\ Goto(w, IF Wins(w) THEN "probe" ELSE "idle")
  /\ UNCHANGED <<lists, staging, jobs, control, faults>>

\* Mutant: the leader of the tick's start keeps cutting.
ConfirmNothing(w) ==
  /\ pc[w] = "confirm"
  /\ Goto(w, "stamp")
  /\ UNCHANGED <<lists, staging, jobs, locks, control, faults>>

\* Before every cut of the tick, however long the steps before it took.
Confirm(w) ==
  /\ pc[w] = "confirm"
  /\ AcquireOrRenew(w)
  /\ \/ Wins(w) /\ Goto(w, "stamp") /\ UNCHANGED cutsLeft
     \/ ~ Wins(w) /\ Goto(w, "idle") /\ EndCuts(w)
  /\ UNCHANGED <<lists, staging, jobs, leftover, group, faults>>

\* The renewal fails, or the SET NX after it: the tick is abandoned.  A lease
\* that a failed SET NX acquired is not in the held set.
LeaseError(w) ==
  /\ pc[w] \in {"idle", "confirm"}
  /\ Spend("error")
  /\ \/ UNCHANGED <<lease, held>>
     \/ /\ ~ (held[w] /\ lease = w)
        /\ held' = [held EXCEPT ![w] = FALSE]
        /\ lease' \in {lease, IF Wins(w) THEN w ELSE lease}
  /\ Goto(w, "idle")
  /\ EndCuts(w)
  /\ UNCHANGED <<lists, staging, jobs, laneLock, leftover, group>>

\* The lease of a live leader runs out while the leader is slow.
Stall ==
  /\ lease # NoWorker
  /\ Spend("stall")
  /\ lease' = NoWorker
  /\ UNCHANGED <<lists, staging, jobs, laneLock, held, control, pc>>

\* The lease of a worker that will not renew it runs out.
Abandoned == lease # NoWorker /\ (pc[lease] = "dead" \/ ~ held[lease])
Expire ==
  /\ Abandoned
  /\ lease' = NoWorker
  /\ UNCHANGED <<lists, staging, jobs, laneLock, held, control, pc, faults>>

(***************************************************************************)
(* Cutting.                                                                *)
(***************************************************************************)

\* Mutant: a tick cuts at once, staged groups or not.
ProbeNothing(w) ==
  /\ pc[w] = "probe"
  /\ Goto(w, "confirm")
  /\ cutsLeft' = [cutsLeft EXCEPT ![w] = MaxCuts]
  /\ UNCHANGED <<lists, staging, jobs, locks, leftover, group, faults>>

\* Phase 1: staged groups of the lane make the tick a recovery, and a failed
\* probe counts as staged groups.
Probe(w) ==
  /\ pc[w] = "probe"
  /\ \/ /\ staging = {}
        /\ Goto(w, "confirm")
        /\ cutsLeft' = [cutsLeft EXCEPT ![w] = MaxCuts]
        /\ UNCHANGED faults
     \/ /\ staging # {}
        /\ Goto(w, "scan")
        /\ UNCHANGED <<cutsLeft, faults>>
     \/ /\ Spend("error")
        /\ Goto(w, "scan")
        /\ UNCHANGED cutsLeft
  /\ UNCHANGED <<lists, staging, jobs, locks, leftover, group>>

\* setOtelGrouperLease: a plain SET of the lane's lock.
Stamp(w) ==
  /\ pc[w] = "stamp"
  /\ \/ laneLock' = w /\ Goto(w, "cut") /\ UNCHANGED <<cutsLeft, faults>>
     \/ /\ Spend("error")
        /\ laneLock' \in {laneLock, w}
        /\ Goto(w, "idle")
        /\ EndCuts(w)
  /\ UNCHANGED <<lists, staging, jobs, lease, held, leftover, group>>

MayCut(w) == laneLock = w /\ live # {} /\ Ripe

CountLateCut(w) ==
  lateCuts' = IF lease \in {w, NoWorker} THEN lateCuts ELSE lateCuts + 1

\* The writes of the script: undecodable entries to the quarantine list, the
\* manifest (if there is anything to group), and the LTRIM of the window.
Quarantine == quarantine' = quarantine \cup Undecodable
StagedByCut == staging \cup ({Members} \ {{}})
CutWrites ==
  /\ Quarantine
  /\ staging' = StagedByCut
  /\ live' = live \ Window

\* The script returns nil: fenced, empty, not ripe, or nothing but poison in
\* the window, which is then quarantined.  The lane leaves the rotation.
CutNothing(w) ==
  /\ pc[w] = "cut"
  /\ \/ ~ MayCut(w) /\ UNCHANGED <<live, quarantine, staging>>
     \/ MayCut(w) /\ Members = {} /\ CutWrites
  /\ Goto(w, "idle")
  /\ EndCuts(w)
  /\ UNCHANGED <<registered, acked, log, aged, jobs, locks, leftover, group,
                 lateCuts, faults>>

CutGroup(w) ==
  /\ pc[w] = "cut"
  /\ MayCut(w)
  /\ Members # {}
  /\ CutWrites
  /\ group' = [group EXCEPT ![w] = Members]
  /\ cutsLeft' = [cutsLeft EXCEPT ![w] = @ - 1]
  /\ CountLateCut(w)
  /\ Goto(w, "add")
  /\ UNCHANGED <<registered, acked, log, aged, jobs, locks, leftover, faults>>

\* The script's reply is an error although it ran to its end or never ran:
\* the worker recovers what may be staged and ends its work on the lane.
CutError(w) ==
  /\ pc[w] = "cut"
  /\ Spend("error")
  /\ \/ UNCHANGED <<quarantine, staging, live, lateCuts>>
     \/ MayCut(w) /\ CutWrites /\ CountLateCut(w)
  /\ EndCuts(w)
  /\ Goto(w, "scan")
  /\ UNCHANGED <<registered, acked, log, aged, jobs, locks, leftover, group>>

\* Mutant: LTRIM before the manifest is written.
CutPartlyTrimmed(w) ==
  /\ pc[w] = "cut"
  /\ MayCut(w)
  /\ Spend("partial")
  /\ Quarantine
  /\ live' = live \ Window
  /\ EndCuts(w)
  /\ Goto(w, "scan")
  /\ UNCHANGED <<registered, acked, log, aged, lateCuts, staging, jobs, locks,
                 leftover, group>>

\* The script fails between two of its writes and Redis keeps the first ones:
\* the quarantine pass alone, or also the manifest, but not the LTRIM.
CutPartly(w) ==
  /\ pc[w] = "cut"
  /\ MayCut(w)
  /\ Spend("partial")
  /\ Quarantine
  /\ staging' \in {staging, StagedByCut}
  /\ CountLateCut(w)
  /\ EndCuts(w)
  /\ Goto(w, "scan")
  /\ UNCHANGED <<registered, acked, log, live, aged, jobs, locks, leftover,
                 group>>

(***************************************************************************)
(* Recovery of staged groups.                                              *)
(***************************************************************************)

\* scanStagedOtelGroups; when it fails the lane is left alone until the next
\* tick.
Scan(w) ==
  /\ pc[w] = "scan"
  /\ \/ /\ leftover' = [leftover EXCEPT ![w] = staging]
        /\ Goto(w, "read")
        /\ UNCHANGED faults
     \/ Spend("error") /\ Goto(w, "idle") /\ UNCHANGED leftover
  /\ UNCHANGED <<lists, staging, jobs, locks, group, cutsLeft>>

\* readOtelStagingManifest: a manifest gone meanwhile was published by
\* another worker and is skipped; a read that fails skips the group too.
Read(w) ==
  /\ pc[w] = "read"
  /\ \/ /\ leftover[w] = {}
        /\ Goto(w, "idle")
        /\ UNCHANGED <<leftover, group, faults>>
     \/ \E g \in leftover[w] :
          /\ leftover' = [leftover EXCEPT ![w] = @ \ {g}]
          /\ \/ /\ g \in staging
                /\ group' = [group EXCEPT ![w] = g]
                /\ Goto(w, "reconcile")
                /\ UNCHANGED faults
             \/ g \notin staging /\ UNCHANGED <<pc, group, faults>>
             \/ Spend("error") /\ UNCHANGED <<pc, group>>
  /\ UNCHANGED <<lists, staging, jobs, locks, cutsLeft>>

\* reconcileOtelPending: drop the manifest's members from the head window.
MaxOf(m, n) == IF m >= n THEN m ELSE n

\* Mutant: the scan misses the last position of the cut's window.
ResidueShort(g) ==
  {i \in HeadOf(MaxOf(MaxFiles, Cardinality(g)) - 1) : log[i] \in g}

Residue(g) ==
  {i \in HeadOf(MaxOf(MaxFiles, Cardinality(g))) : log[i] \in g}

Reconcile(w) ==
  /\ pc[w] = "reconcile"
  /\ \/ /\ live' = live \ Residue(group[w])
        /\ Goto(w, "add")
        /\ UNCHANGED faults
     \/ /\ Spend("error")
        /\ live' \in {live, live \ Residue(group[w])}
        /\ Goto(w, "read")
  /\ UNCHANGED <<registered, acked, log, aged, quarantine, lateCuts, staging,
                 jobs, locks, control>>

(***************************************************************************)
(* Publishing, of a group just cut (no leftover group, cuts may be left)   *)
(* or of a recovered one (no cut is left).                                 *)
(***************************************************************************)
AfterPublish(w) ==
  IF cutsLeft[w] > 0 THEN "confirm" ELSE "read"

\* addGroupJob: jobId = groupId.  When it fails the manifest is retained.
Add(w) ==
  /\ pc[w] = "add"
  /\ \/ /\ jobs' = jobs \cup {group[w]}
        /\ Goto(w, "clear")
        /\ UNCHANGED faults
     \/ /\ Spend("error")
        /\ jobs' \in {jobs, jobs \cup {group[w]}}
        /\ Goto(w, AfterPublish(w))
  /\ UNCHANGED <<lists, staging, locks, control>>

\* clearOtelStagingManifest; its failure ends the lane's cuts of this tick.
Clear(w) ==
  /\ pc[w] = "clear"
  /\ \/ /\ staging' = staging \ {group[w]}
        /\ Goto(w, AfterPublish(w))
        /\ UNCHANGED <<cutsLeft, faults>>
     \/ /\ Spend("error")
        /\ staging' \in {staging, staging \ {group[w]}}
        /\ Goto(w, "read")
        /\ EndCuts(w)
  /\ UNCHANGED <<lists, jobs, locks, leftover, group>>

\* A crash anywhere, or a stop() whose flag is seen at the next step.
Crash(w) ==
  /\ pc[w] # "dead"
  /\ Spend("crash")
  /\ Goto(w, "dead")
  /\ UNCHANGED <<lists, staging, jobs, locks, control>>

-----------------------------------------------------------------------------
Step(w) ==
  \/ StartTick(w) \/ Confirm(w) \/ LeaseError(w)
  \/ Probe(w) \/ Stamp(w)
  \/ CutNothing(w) \/ CutGroup(w) \/ CutError(w) \/ CutPartly(w)
  \/ Scan(w) \/ Read(w) \/ Reconcile(w) \/ Add(w) \/ Clear(w)

Environment ==
  \/ \E e \in Entries : Register(e) \/ ForeignPush(e) \/ Age(e)
  \/ Stall \/ Expire
  \/ \E w \in Workers : Crash(w)

Next == Environment \/ \E w \in Workers : Step(w)

Spec == Init /\ [][Next]_vars

(***************************************************************************)
(* Fairness.  A live worker's timer fires again after every tick and each  *)
(* command returns or fails; time passes, so entries age and the lease of  *)
(* a dead leader expires.  Nothing is assumed of producers or faults.      *)
(***************************************************************************)
FairSpec ==
  /\ Spec
  /\ \A w \in Workers : WF_vars(Step(w))
  /\ \A e \in Entries : WF_vars(Age(e))
  /\ WF_vars(Expire)

-----------------------------------------------------------------------------
Decided == staging \cup jobs
Grouped == UNION Decided

(***************************************************************************)
(* No file acknowledged to its producer and no entry that ever reached the *)
(* list is lost, whatever the workers were doing when they crashed, lost   *)
(* the lease or had a command fail: it is still on the list, in a staged   *)
(* or published group, or in quarantine (CUT_GROUP_LUA: manifest before    *)
(* LTRIM; publish: queue.add before HDEL).                                 *)
(***************************************************************************)
NoEntryLost ==
  acked \cup Content(DOMAIN log) \subseteq Pending \cup Grouped \cup quarantine

(***************************************************************************)
(* A file belongs to at most one group.  A group is the unit of the load   *)
(* labels, so a file in two groups is loaded twice, and no label stops it. *)
(***************************************************************************)
OneGroupPerFile == \A g, h \in Decided : g # h => g \cap h = {}

(***************************************************************************)
(* A leader that lost its lease to another worker makes at most one cut    *)
(* before it notices: one late cut for each lease lost (the re-confirmation*)
(* before EACH cut in tickLanes).                                          *)
(***************************************************************************)
OneLateCutPerLostLease == lateCuts <= MaxFaults["stall"] - faults["stall"]

(***************************************************************************)
(* Every registered file is eventually published in a group, and every     *)
(* undecodable entry ends in quarantine, out of the way of the others.     *)
(***************************************************************************)
FilesGetPublished == \A f \in Files : f \in registered ~> f \in UNION jobs
PoisonGetsQuarantined == \A e \in Poison : e \in Pending ~> e \notin Pending

(***************************************************************************)
(* A staged manifest is eventually cleared: recovery runs every tick, not  *)
(* only when the leader changes.                                           *)
(***************************************************************************)
StagingDrains == \A g \in Groups : g \in staging ~> g \notin staging

(***************************************************************************)
(* What the grouper promises (OtelPartition): files are gathered into      *)
(* disjoint groups, each decided once and then published.                  *)
(***************************************************************************)
Partition == INSTANCE OtelPartition WITH
  Files     <- Files,
  waiting   <- registered \ Grouped,
  decided   <- Decided,
  published <- jobs
RefinesPartition == Partition!Spec
=============================================================================
