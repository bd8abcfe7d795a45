------------------------------- MODULE Prompts -------------------------------
(***************************************************************************)
(* The versions of one prompt, a second prompt that includes it, and the   *)
(* cache of resolved prompts: the mutations of the web server             *)
(* (createPrompt.ts, updatePrompts.ts, deletePrompt.ts, promptRouter.ts)   *)
(* and the reads of PromptService.  A mutation reads, plans its updates    *)
(* from what it read, runs them in one transaction, and then rotates the   *)
(* epoch that is part of every key of the project's cache.  Labels are     *)
(* written as whole arrays.  Entries of older epochs cannot be reached and *)
(* are left out.                                                           *)
(***************************************************************************)
EXTENDS Naturals

CONSTANTS
  Requests,   \* mutations in progress
  Readers,    \* reads in progress
  Labels,
  Latest,     \* the label "latest"
  Number,     \* the version number that a label spells, or 0
  MaxRows,    \* bound: versions ever created
  MaxOps,     \* bound: mutations
  MaxFails,   \* bound: mutations that end half-way
  Asked       \* bound: keys that reads ask for

Ids == 1..MaxRows   \* rows, in the order of their creation
NoRow == 0

\* How a row is asked for, by getPrompt and by a dependency; and the prompt
\* that includes this one, as a key of the cache.
ByLabel == [by : {"label"}, label : Labels]
ByVersion == [by : {"version"}, version : Ids]
Refs == ByLabel \cup ByVersion
NoRef == [by |-> "none"]
Parent == [by |-> "parent"]

ASSUME PromptsAssumption ==
  /\ MaxRows \in Nat /\ MaxOps \in Nat /\ MaxFails \in Nat
  /\ Latest \in Labels
  /\ Requests \cap Readers = {}
  /\ Number \in [Labels -> Nat]
  /\ Asked \subseteq Refs \cup {Parent}

\* getCacheKey: a label that is a number has the key of that version.
Key(k) ==
  IF k.by = "label" /\ Number[k.label] # 0
  THEN [by |-> "version", version |-> Number[k.label]]
  ELSE k

Keys == {Key(k) : k \in Asked}

VARIABLES
  created,    \* rows created so far
  live,       \* rows that exist
  version,    \* the version of each row
  labels,     \* its labels
  dep,        \* what the other prompt includes
  pc,         \* what each mutation does next
  op,         \* what it is asked for and what it read first
  plan,       \* what it is going to write
  cache,      \* what each key of the current epoch holds, and for whom it was read
  reader,     \* what each read does next, and what it read
  stale,      \* history: mutations and reads that a commit overtook
  raced,      \* history: entries written by an overtaken read
  past,       \* history: what else happened
  ops,        \* mutations that may still begin
  fails       \* mutations that may still end half-way

rows == <<created, live, version, labels, dep>>
mutations == <<pc, op, plan>>
reads == <<cache, reader, raced>>
vars == <<rows, mutations, reads, stale, past, ops, fails>>

Kinds == {"create", "include", "update", "setLabels", "deleteVersion",
          "delete", "deleteAll"}
Nothing == [kind |-> "none", row |-> NoRow, versions |-> {}, labels |-> {},
            old |-> {}, ref |-> NoRef]
\* Whole arrays to write, rows that get "latest", and rows to delete.
NoWrites == [i \in {} |-> {}]
NoPlan == [labels |-> NoWrites, push |-> {}, drop |-> {}]
Absent == [row |-> NoRow, asked |-> Parent]
Resting == [pc |-> "idle", key |-> Parent, ref |-> NoRef, row |-> NoRow]

\* findFirst, when several rows match: any of them.
Matches(ref) ==
  {i \in live : \/ ref.by = "label" /\ ref.label \in labels[i]
                \/ ref.by = "version" /\ ref.version = version[i]}
Resolves(k) == IF k = Parent THEN Matches(dep) ELSE Matches(k)

Highest(S) == {i \in S : \A j \in S : version[j] <= version[i]}

Writes == UNION {[S -> SUBSET Labels] : S \in SUBSET Ids}

TypeOK ==
  /\ created \in 0..MaxRows
  /\ live \subseteq Ids
  /\ version \in [Ids -> Nat]
  /\ labels \in [Ids -> SUBSET Labels]
  /\ dep \in Refs \cup {NoRef}
  /\ pc \in [Requests -> {"idle", "plan", "commit", "remove", "rotate"}]
  /\ op \in [Requests -> [kind : Kinds \cup {"none"}, row : Ids \cup {NoRow},
                          versions : SUBSET Nat,
                          labels : SUBSET Labels, old : SUBSET Labels, ref : Refs \cup {NoRef}]]
  /\ plan \in [Requests -> [labels : Writes, push : SUBSET Ids, drop : SUBSET Ids]]
  /\ cache \in [Keys -> [row : Ids \cup {NoRow}, asked : Asked \cup {Parent}]]
  /\ reader \in [Readers -> [pc : {"idle", "child", "key", "write"},
                             key : Asked \cup {Parent},
                             ref : Refs \cup {NoRef}, row : Ids \cup {NoRow}]]
  /\ raced \subseteq Keys
  /\ stale \subseteq Requests \cup Readers
  /\ past \subseteq {"overtaken", "half", "unrotated", "unlabelled"}
  /\ ops \in 0..MaxOps
  /\ fails \in 0..MaxFails

\* What earlier mutations left.
Init ==
  /\ created \in 0..MaxRows
  /\ live \in SUBSET (1..created)
  /\ version = [i \in Ids |-> IF i \in live THEN i ELSE 0]
  /\ labels \in [Ids -> SUBSET Labels]
  /\ \A i \in Ids, j \in Ids : i # j => labels[i] \cap labels[j] = {}
  /\ \A i \in Ids \ live : labels[i] = {}
  /\ dep \in {NoRef} \cup {ref \in Refs : Matches(ref) # {}}
  /\ pc = [r \in Requests |-> "idle"]
  /\ op = [r \in Requests |-> Nothing]
  /\ plan = [r \in Requests |-> NoPlan]
  /\ cache = [k \in Keys |-> Absent]
  /\ reader = [d \in Readers |-> Resting]
  /\ raced = {} /\ stale = {} /\ past = {}
  /\ ops = MaxOps
  /\ fails = MaxFails

(***************************************************************************)
(* A mutation reads the rows it is about.                                  *)
(***************************************************************************)
Look(r, what, drop) ==
  /\ pc[r] = "idle" /\ ops > 0
  /\ ops' = ops - 1
  /\ pc' = [pc EXCEPT ![r] = "plan"]
  /\ op' = [op EXCEPT ![r] = what]
  /\ plan' = [plan EXCEPT ![r].drop = drop]
  /\ UNCHANGED <<live, version, labels, dep, reads, stale, past, fails>>

NextVersions ==
  IF live = {} THEN {1} ELSE {version[i] + 1 : i \in Highest(live)}

\* createPrompt; a new version is labelled "latest".
LookCreate(r, L) ==
  /\ created < MaxRows
  /\ created' = created + 1
  /\ \E v \in NextVersions :
       Look(r, [Nothing EXCEPT !.kind = "create", !.row = created + 1,
                  !.versions = {v}, !.labels = L \cup {Latest}], {})

\* createPrompt of the other prompt: what it includes has to resolve.
LookInclude(r, ref) ==
  /\ dep = NoRef
  /\ Matches(ref) # {}
  /\ Look(r, [Nothing EXCEPT !.kind = "include", !.ref = ref], {})
  /\ UNCHANGED created

LookRow(r, kind, i, L, drop) ==
  /\ i \in live
  /\ Look(r, [Nothing EXCEPT !.kind = kind, !.row = i, !.labels = L,
                !.versions = {version[i]}, !.old = labels[i]], drop)
  /\ UNCHANGED created

\* updatePrompt reads its row FOR UPDATE, and keeps the lock.
Locks(s, i) ==
  op[s].kind = "update" /\ op[s].row = i /\ pc[s] \in {"plan", "commit"}

LookUpdate(r, i, L) ==
  /\ \A s \in Requests : ~Locks(s, i)
  /\ LookRow(r, "update", i, L, {})

LookSetLabels(r, i, L) == LookRow(r, "setLabels", i, L, {})
LookDeleteVersion(r, i) == LookRow(r, "deleteVersion", i, {}, {i})

\* The public API deletes all versions, the ones with a label, or one of them;
\* the router's "delete" deletes all.
LookDelete(r, S, kind) ==
  /\ S # {}
  /\ Look(r, [Nothing EXCEPT !.kind = kind,
                !.versions = {version[i] : i \in S},
                !.old = UNION {labels[i] : i \in S}], S)
  /\ UNCHANGED created

Deletable == {live} \cup {Matches(ref) : ref \in Refs}

(***************************************************************************)
(* It reads the rows its updates are about, and who depends on them.       *)
(***************************************************************************)
Goto(r, step) == pc' = [pc EXCEPT ![r] = step]

End(r) ==
  /\ Goto(r, "idle")
  /\ op' = [op EXCEPT ![r] = Nothing]
  /\ plan' = [plan EXCEPT ![r] = NoPlan]

Plan(r, kind) == pc[r] = "plan" /\ op[r].kind = kind

\* What it does not need any more.
Forget(r) == op' = [op EXCEPT ![r].old = {},
                   ![r].labels = IF op[r].kind = "create" THEN @ ELSE {},
                   ![r].versions = IF op[r].kind = "create" THEN @ ELSE {}]

Write(r, writes) ==
  /\ Goto(r, "commit")
  /\ plan' = [plan EXCEPT ![r].labels = writes]
  /\ Forget(r)

Planned == UNCHANGED <<rows, reads, stale, ops, fails>>

\* Mutant: hasEvery for hasSome.
LabelledAll(L) == {i \in live : L \subseteq labels[i]}
Labelled(L) == {i \in live : labels[i] \cap L # {}}

\* The labels L move to row i, which gets the labels N.
Move(L, i, N) ==
  [j \in Labelled(L) \cup {i} |-> IF j = i THEN N ELSE labels[j] \ L]

\* removeLabelsFromPreviousPromptVersions
PlanCreate(r) ==
  /\ Plan(r, "create")
  /\ Write(r, [j \in Labelled(op[r].labels) |-> labels[j] \ op[r].labels])
  /\ Planned /\ UNCHANGED past

PlanInclude(r) ==
  /\ Plan(r, "include")
  /\ Write(r, NoWrites)
  /\ Planned /\ UNCHANGED past

\* Labels are only added here.
PlanUpdate(r) ==
  /\ Plan(r, "update")
  /\ Write(r, Move(op[r].labels, op[r].row, op[r].labels \cup op[r].old))
  /\ Planned /\ UNCHANGED past

DependsOnLabel(L) == dep.by = "label" /\ dep.label \in L
DependsOnVersion(V) == dep.by = "version" /\ dep.version \in V

PlanSetLabels(r) ==
  /\ Plan(r, "setLabels")
  /\ IF DependsOnLabel(op[r].old \ op[r].labels)
     THEN End(r)
     ELSE Write(r, Move(op[r].labels, op[r].row, op[r].labels))
  /\ Planned /\ UNCHANGED past

\* The dependents of a version without labels are not looked for.
PlanDeleteVersion(r) ==
  /\ Plan(r, "deleteVersion")
  /\ IF op[r].old # {} /\ (DependsOnLabel(op[r].old) \/ DependsOnVersion(op[r].versions))
     THEN End(r) /\ UNCHANGED past
     ELSE /\ Goto(r, "commit")
          /\ plan' = [plan EXCEPT ![r].push =
                        IF Latest \in op[r].old THEN Highest(live \ {op[r].row})
                        ELSE {}]
          /\ past' = IF op[r].old = {} /\ DependsOnVersion(op[r].versions)
                     THEN past \cup {"unlabelled"} ELSE past
          /\ Forget(r)
  /\ Planned

\* Mutant: only dependencies on a version count.
BlocksVersions(V, D) == DependsOnVersion(V)

\* deletePrompt: what would not resolve without the rows D, of versions V.
Blocks(V, D) ==
  \/ DependsOnVersion(V)
  \/ dep.by = "label" /\ \A i \in live \ D : dep.label \notin labels[i]

\* "latest" goes to the highest version that remains, in an update of its own.
PlanDelete(r) ==
  /\ Plan(r, "delete")
  /\ LET rest == live \ plan[r].drop
     IN  IF Blocks(op[r].versions, plan[r].drop) THEN End(r)
         ELSE IF /\ Latest \in op[r].old
                 /\ \A i \in rest : Latest \notin labels[i]
                 /\ Highest(rest) # {}
         THEN Write(r, [i \in Highest(rest) |-> labels[i] \cup {Latest}])
         ELSE Goto(r, "remove") /\ Forget(r) /\ UNCHANGED plan
  /\ Planned /\ UNCHANGED past

PlanDeleteAll(r) ==
  /\ Plan(r, "deleteAll")
  /\ IF dep # NoRef THEN End(r) ELSE Goto(r, "remove") /\ Forget(r) /\ UNCHANGED plan
  /\ Planned /\ UNCHANGED past

(***************************************************************************)
(* The transaction, the deletion, and the new epoch.                       *)
(***************************************************************************)

\* Everybody else who has read something is overtaken.
Overtake(r) ==
  /\ stale' = (stale \ {r}) \cup
              {s \in Requests \ {r} : pc[s] \in {"plan", "commit", "remove"}} \cup
              {d \in Readers : reader[d].pc # "idle"}
  /\ past' = IF r \in stale THEN past \cup {"overtaken"} ELSE past

Touched(r) == DOMAIN plan[r].labels \cup plan[r].push \cup
              IF op[r].kind \in {"deleteVersion", "delete", "deleteAll"}
              THEN plan[r].drop ELSE {}

\* An update waits for the locks of the others.
Free(r) == \A s \in Requests \ {r}, i \in Touched(r) : ~Locks(s, i)

\* A row that is gone, or a version that is taken, rolls the transaction back.
Fits(r) ==
  /\ DOMAIN plan[r].labels \cup plan[r].push \subseteq live
  /\ op[r].kind = "deleteVersion" => op[r].row \in live
  /\ op[r].kind = "create" => \A i \in live : version[i] \notin op[r].versions

NewLabels(r) ==
  [i \in Ids |->
     IF op[r].kind = "create" /\ i = op[r].row THEN op[r].labels
     ELSE IF i \in DOMAIN plan[r].labels THEN plan[r].labels[i]
     ELSE IF i \in plan[r].push THEN labels[i] \cup {Latest}
     ELSE labels[i]]

NewLive(r) ==
  IF op[r].kind = "create" THEN live \cup {op[r].row}
  ELSE IF op[r].kind = "deleteVersion" THEN live \ plan[r].drop
  ELSE live

ToRotate(r) ==
  /\ Goto(r, "rotate")
  /\ op' = [op EXCEPT ![r] = Nothing]
  /\ plan' = [plan EXCEPT ![r] = NoPlan]

Commit(r) ==
  /\ pc[r] = "commit"
  /\ Free(r) /\ Fits(r)
  /\ live' = NewLive(r)
  /\ labels' = [i \in Ids |-> IF i \in live' THEN NewLabels(r)[i] ELSE {}]
  /\ IF op[r].kind = "create"
     THEN \E v \in op[r].versions : version' = [version EXCEPT ![op[r].row] = v]
     ELSE version' = [i \in Ids |-> IF i \in live' THEN version[i] ELSE 0]
  /\ dep' = IF op[r].kind = "include" THEN op[r].ref ELSE dep
  /\ Overtake(r)
  /\ IF op[r].kind = "delete"
     THEN Goto(r, "remove") /\ UNCHANGED <<op, plan>>
     ELSE ToRotate(r)
  /\ UNCHANGED <<created, reads, ops, fails>>

RollBack(r) ==
  /\ pc[r] = "commit"
  /\ ~Fits(r)
  /\ End(r)
  /\ stale' = stale \ {r}
  /\ UNCHANGED <<rows, reads, past, ops, fails>>

\* deleteMany
Remove(r) ==
  /\ pc[r] = "remove"
  /\ Free(r)
  /\ live' = live \ plan[r].drop
  /\ labels' = [i \in Ids |-> IF i \in live' THEN labels[i] ELSE {}]
  /\ version' = [i \in Ids |-> IF i \in live' THEN version[i] ELSE 0]
  /\ Overtake(r)
  /\ ToRotate(r)
  /\ UNCHANGED <<created, dep, reads, ops, fails>>

\* Mutant: an epoch per prompt.
RotatedOwn(r) == IF op[r].kind = "include" THEN {Parent} ELSE Keys \ {Parent}
Rotated(r) == Keys

\* invalidateCache: entries of the old epoch, and reads that go on to write
\* one, are lost.
Rotate(r) ==
  /\ pc[r] = "rotate"
  /\ cache' = [k \in Keys |-> IF k \in Rotated(r) THEN Absent ELSE cache[k]]
  /\ raced' = raced \ Rotated(r)
  /\ reader' = [d \in Readers |->
                  IF reader[d].pc = "write" /\ Key(reader[d].key) \in Rotated(r)
                  THEN Resting ELSE reader[d]]
  /\ stale' = stale \ ({r} \cup {d \in Readers : reader'[d].pc = "idle"})
  /\ past' = past \ {"unrotated"}
  /\ End(r)
  /\ UNCHANGED <<rows, ops, fails>>

\* A lost connection, a deadlock that PostgreSQL breaks, a process that dies,
\* or Redis that does not answer.
Fail(r) ==
  /\ pc[r] # "idle" /\ fails > 0
  /\ fails' = fails - 1 /\ UNCHANGED ops
  /\ past' = past \cup
       (IF pc[r] = "rotate" \/ (pc[r] = "remove" /\ DOMAIN plan[r].labels # {})
        THEN {"unrotated"} ELSE {}) \cup
       (IF pc[r] = "remove" /\ DOMAIN plan[r].labels # {} THEN {"half"} ELSE {})
  /\ End(r)
  /\ stale' = stale \ {r}
  /\ UNCHANGED <<rows, reads>>

(***************************************************************************)
(* PromptService.getPrompt.                                                *)
(***************************************************************************)
Reading == UNCHANGED <<rows, mutations, past, ops, fails>>

\* A miss; the row is read, or what the other prompt includes.
StartRead(d, k) ==
  /\ reader[d].pc = "idle"
  /\ cache[Key(k)] = Absent
  /\ IF k = Parent
     THEN /\ dep # NoRef
          /\ reader' = [reader EXCEPT ![d] =
                          [pc |-> "child", key |-> k, ref |-> dep, row |-> NoRow]]
     ELSE \E i \in Matches(k) :
            reader' = [reader EXCEPT ![d] =
                         [pc |-> "key", key |-> k, ref |-> NoRef, row |-> i]]
  /\ UNCHANGED <<cache, raced, stale>> /\ Reading

\* A dependency that is not found is an error.
ReadChild(d) ==
  /\ reader[d].pc = "child"
  /\ \/ \E i \in Matches(reader[d].ref) :
          /\ reader' = [reader EXCEPT ![d].pc = "key", ![d].row = i]
          /\ UNCHANGED stale
     \/ /\ Matches(reader[d].ref) = {}
        /\ reader' = [reader EXCEPT ![d] = Resting]
        /\ stale' = stale \ {d}
  /\ UNCHANGED <<cache, raced>> /\ Reading

\* getCacheKey asks for the epoch again.
GetKey(d) ==
  /\ reader[d].pc = "key"
  /\ reader' = [reader EXCEPT ![d].pc = "write"]
  /\ UNCHANGED <<cache, raced, stale>> /\ Reading

CachePrompt(d) ==
  /\ reader[d].pc = "write"
  /\ LET k == Key(reader[d].key)
     IN  /\ cache' = [cache EXCEPT ![k] = [row |-> reader[d].row, asked |-> reader[d].key]]
         /\ raced' = IF d \in stale THEN raced \cup {k} ELSE raced \ {k}
  /\ reader' = [reader EXCEPT ![d] = Resting]
  /\ stale' = stale \ {d}
  /\ Reading

\* The entry's time to live.
Expire(k) ==
  /\ cache[k] # Absent
  /\ cache' = [cache EXCEPT ![k] = Absent]
  /\ raced' = raced \ {k}
  /\ UNCHANGED <<reader, stale>> /\ Reading

Begin(r) ==
  \/ \E L \in SUBSET (Labels \ {Latest}) : LookCreate(r, L)
  \/ \E ref \in Refs : LookInclude(r, ref)
  \/ \E i \in live, L \in SUBSET Labels :
       LookUpdate(r, i, L) \/ LookSetLabels(r, i, L)
  \/ \E i \in live : LookDeleteVersion(r, i)
  \/ \E S \in Deletable : LookDelete(r, S, "delete")
  \/ LookDelete(r, live, "deleteAll")

Prepare(r) ==
  \/ PlanCreate(r) \/ PlanInclude(r) \/ PlanUpdate(r) \/ PlanSetLabels(r)
  \/ PlanDeleteVersion(r) \/ PlanDelete(r) \/ PlanDeleteAll(r)

Read(d) ==
  \/ \E k \in Asked : StartRead(d, k)
  \/ ReadChild(d) \/ GetKey(d) \/ CachePrompt(d)

Next ==
  \/ \E r \in Requests : \/ Begin(r) \/ Prepare(r) \/ Commit(r) \/ RollBack(r)
                         \/ Remove(r) \/ Rotate(r) \/ Fail(r)
  \/ \E d \in Readers : Read(d)
  \/ \E k \in Keys : Expire(k)

Spec == Init /\ [][Next]_vars

(***************************************************************************)
(* Properties.                                                             *)
(***************************************************************************)

\* "labels are unique" (createPrompt.ts): two versions share a label only
\* after a mutation was overtaken by the commit of another one, while a
\* deletion has given "latest" to its heir and not deleted yet, or after one
\* that ended there.
LabelsAreUnique ==
  past \cap {"overtaken", "half"} # {} \/
  \A i \in live, j \in live :
    i # j /\ labels[i] \cap labels[j] # {} =>
      \E r \in Requests : pc[r] = "remove" /\ {i, j} \cap plan[r].drop # {}

\* What a prompt includes resolves ("Please delete the dependent prompts
\* first"), unless a mutation was overtaken, or the version had no label and
\* deleteVersion did not look for dependents.
DependenciesResolve ==
  \/ past \cap {"overtaken", "unlabelled"} # {}
  \/ dep = NoRef
  \/ Matches(dep) # {}

\* Nothing that committed is still to be followed by a new epoch.
Rotating ==
  \E r \in Requests :
    \/ pc[r] = "rotate"
    \/ pc[r] = "remove" /\ DOMAIN plan[r].labels # {}

\* A cached prompt is what the reference it was read for resolves to, also the
\* one that includes another, unless it was written by a read that a commit
\* overtook, or a mutation that committed has not rotated the epoch.
CacheIsFresh ==
  \/ "unrotated" \in past
  \/ Rotating
  \/ \A k \in Keys \ raced :
       cache[k] # Absent => cache[k].row \in Resolves(cache[k].asked)
=============================================================================
