--------------------------- MODULE Prompts_proofs ---------------------------
(***************************************************************************)
(* Theorems about Prompts, for any number of mutations, reads, labels and  *)
(* versions.                                                               *)
(***************************************************************************)
EXTENDS Prompts, TLAPS

-----------------------------------------------------------------------------
(***************************************************************************)
(* The type invariant by groups of variables.                              *)
(***************************************************************************)
Rows == Ids \cup {NoRow}
Ops == [kind : Kinds \cup {"none"}, row : Rows, versions : SUBSET Nat,
        labels : SUBSET Labels, old : SUBSET Labels, ref : Refs \cup {NoRef}]
Plans == [labels : Writes, push : SUBSET Ids, drop : SUBSET Ids]
Steps == {"idle", "plan", "commit", "remove", "rotate"}
Readings == [pc : {"idle", "child", "key", "write"}, key : Asked \cup {Parent},
             ref : Refs \cup {NoRef}, row : Rows]

RowsOK ==
  /\ created \in 0..MaxRows
  /\ live \subseteq Ids
  /\ version \in [Ids -> Nat]
  /\ labels \in [Ids -> SUBSET Labels]
  /\ dep \in Refs \cup {NoRef}

MutationsOK ==
  /\ pc \in [Requests -> Steps]
  /\ op \in [Requests -> Ops]
  /\ plan \in [Requests -> Plans]

ReadsOK ==
  /\ cache \in [Keys -> [row : Rows, asked : Asked \cup {Parent}]]
  /\ reader \in [Readers -> Readings]
  /\ raced \subseteq Keys

HistoryOK ==
  /\ stale \subseteq Requests \cup Readers
  /\ past \subseteq {"overtaken", "half", "unrotated", "unlabelled"}
  /\ ops \in 0..MaxOps
  /\ fails \in 0..MaxFails

TypeInv == RowsOK /\ MutationsOK /\ ReadsOK /\ HistoryOK

\* A read under way is of something that is asked for.
ReadsAsked == \A d \in Readers : reader[d].pc # "idle" => reader[d].key \in Asked

LEMMA WritesType ==
  ASSUME NEW S \in SUBSET Ids, NEW f \in [S -> SUBSET Labels]
  PROVE  f \in Writes
BY DEF Writes

LEMMA NothingType == Nothing \in Ops /\ NoPlan \in Plans
<1>1. NoWrites \in [{} -> SUBSET Labels]
  BY DEF NoWrites
<1>2. NoWrites \in Writes
  BY <1>1, WritesType
<1>3. QED
  BY <1>2 DEF Nothing, NoPlan, Ops, Plans, Rows, Kinds

LEMMA MatchesType ==
  ASSUME NEW ref
  PROVE  Matches(ref) \subseteq live
BY DEF Matches

LEMMA TypeInit == Init => TypeInv /\ ReadsAsked
<1> SUFFICES ASSUME Init PROVE TypeInv /\ ReadsAsked
  OBVIOUS
<1>1. RowsOK
  <2>1. created \in 0..MaxRows /\ live \subseteq Ids
    BY PromptsAssumption DEF Init, Ids
  <2>2. version \in [Ids -> Nat]
    BY <2>1 DEF Init, Ids
  <2>3. QED
    BY <2>1, <2>2 DEF Init, RowsOK
<1>2. MutationsOK
  BY NothingType DEF Init, MutationsOK, Steps
<1>3. ReadsOK /\ ReadsAsked
  BY DEF Init, ReadsOK, ReadsAsked, Absent, Resting, Readings, Rows
<1>4. HistoryOK
  BY PromptsAssumption DEF Init, HistoryOK
<1>5. QED
  BY <1>1, <1>2, <1>3, <1>4 DEF TypeInv

\* A mutation begins.
LEMMA LookType ==
  ASSUME TypeInv, NEW r \in Requests, NEW what \in Ops, NEW drop \in SUBSET Ids,
         Look(r, what, drop), created' \in 0..MaxRows
  PROVE  TypeInv'
<1>1. RowsOK'
  BY DEF Look, TypeInv, RowsOK
<1>2. MutationsOK'
  <2>1. pc' \in [Requests -> Steps] /\ op' \in [Requests -> Ops]
    BY DEF Look, TypeInv, MutationsOK, Steps
  <2>2. plan' \in [Requests -> Plans]
    BY DEF Look, TypeInv, MutationsOK, Plans
  <2>3. QED
    BY <2>1, <2>2 DEF MutationsOK
<1>3. ReadsOK'
  BY DEF Look, TypeInv, ReadsOK, reads
<1>4. HistoryOK'
  BY PromptsAssumption DEF Look, TypeInv, HistoryOK
<1>5. QED
  BY <1>1, <1>2, <1>3, <1>4 DEF TypeInv

\* What a mutation is asked for.
LEMMA LookRowType ==
  ASSUME TypeInv, NEW r \in Requests, NEW kind \in Kinds, NEW i \in live,
         NEW L \in SUBSET Labels, NEW drop \in SUBSET Ids,
         LookRow(r, kind, i, L, drop)
  PROVE  TypeInv'
<1> DEFINE what == [Nothing EXCEPT !.kind = kind, !.row = i, !.labels = L,
                      !.versions = {version[i]}, !.old = labels[i]]
<1>1. i \in Ids /\ version[i] \in Nat /\ labels[i] \in SUBSET Labels
  BY DEF TypeInv, RowsOK
<1>2. what \in Ops
  BY <1>1 DEF Nothing, Ops, Rows
<1>3. Look(r, what, drop) /\ created' \in 0..MaxRows
  BY DEF LookRow, TypeInv, RowsOK
<1>4. QED
  BY <1>2, <1>3, LookType

LEMMA BeginType ==
  ASSUME TypeInv, NEW r \in Requests, Begin(r)
  PROVE  TypeInv'
<1>0. live \subseteq Ids /\ created \in 0..MaxRows /\ MaxRows \in Nat
  BY PromptsAssumption DEF TypeInv, RowsOK
<1>1. ASSUME NEW L \in SUBSET (Labels \ {Latest}), LookCreate(r, L) PROVE TypeInv'
  <2>1. PICK v \in NextVersions :
          Look(r, [Nothing EXCEPT !.kind = "create", !.row = created + 1,
                     !.versions = {v}, !.labels = L \cup {Latest}], {})
    BY <1>1 DEF LookCreate
  <2>2. v \in Nat
    <3>1. \A i \in Highest(live) : version[i] \in Nat
      BY <1>0 DEF Highest, TypeInv, RowsOK
    <3>2. QED
      BY <3>1 DEF NextVersions
  <2>3. created + 1 \in Ids /\ created' \in 0..MaxRows
    BY <1>0, <1>1 DEF LookCreate, Ids
  <2>4. [Nothing EXCEPT !.kind = "create", !.row = created + 1,
           !.versions = {v}, !.labels = L \cup {Latest}] \in Ops
    BY <2>2, <2>3, PromptsAssumption DEF Nothing, Ops, Rows, Kinds
  <2>5. QED
    BY <2>1, <2>3, <2>4, LookType
<1>2. ASSUME NEW ref \in Refs, LookInclude(r, ref) PROVE TypeInv'
  <2>1. [Nothing EXCEPT !.kind = "include", !.ref = ref] \in Ops
    BY DEF Nothing, Ops, Rows, Kinds
  <2>2. QED
    BY <1>0, <1>2, <2>1, LookType DEF LookInclude
<1>3. ASSUME NEW i \in live, NEW L \in SUBSET Labels,
             LookUpdate(r, i, L) \/ LookSetLabels(r, i, L)
      PROVE  TypeInv'
  BY <1>3, LookRowType DEF LookUpdate, LookSetLabels, Kinds
<1>4. ASSUME NEW i \in live, LookDeleteVersion(r, i) PROVE TypeInv'
  BY <1>0, <1>4, LookRowType DEF LookDeleteVersion, Kinds
<1>5. ASSUME NEW S \in SUBSET live, NEW kind \in {"delete", "deleteAll"},
             LookDelete(r, S, kind)
      PROVE  TypeInv'
  <2> DEFINE what == [Nothing EXCEPT !.kind = kind,
                        !.versions = {version[i] : i \in S},
                        !.old = UNION {labels[i] : i \in S}]
  <2>1. {version[i] : i \in S} \in SUBSET Nat
    BY <1>0 DEF TypeInv, RowsOK
  <2>2. UNION {labels[i] : i \in S} \in SUBSET Labels
    BY <1>0 DEF TypeInv, RowsOK
  <2>3. what \in Ops
    BY <2>1, <2>2 DEF Nothing, Ops, Rows, Kinds
  <2>4. Look(r, what, S) /\ created' \in 0..MaxRows /\ S \in SUBSET Ids
    BY <1>0, <1>5 DEF LookDelete
  <2>5. QED
    BY <2>3, <2>4, LookType
<1>6. \A S \in Deletable : S \in SUBSET live
  BY MatchesType DEF Deletable
<1>7. QED
  BY <1>1, <1>2, <1>3, <1>4, <1>5, <1>6 DEF Begin

\* A mutation ends, goes to its next step, or plans its writes.
LEMMA EndType ==
  ASSUME TypeInv, NEW r \in Requests, End(r)
  PROVE  MutationsOK'
BY NothingType DEF End, Goto, TypeInv, MutationsOK, Steps

LEMMA ForgetType ==
  ASSUME TypeInv, NEW r \in Requests, Forget(r)
  PROVE  op' \in [Requests -> Ops]
<1> DEFINE L == IF op[r].kind = "create" THEN op[r].labels ELSE {}
           V == IF op[r].kind = "create" THEN op[r].versions ELSE {}
           o == [op[r] EXCEPT !.old = {}, !.labels = L, !.versions = V]
<1>1. op \in [Requests -> Ops] /\ op[r] \in Ops
  BY DEF TypeInv, MutationsOK
<1>2. L \in SUBSET Labels /\ V \in SUBSET Nat
  BY <1>1 DEF Ops
<1>3. o \in Ops
  BY <1>1, <1>2 DEF Ops
<1>4. op' = [op EXCEPT ![r] = o]
  BY <1>1 DEF Forget, Ops
<1>5. QED
  BY <1>1, <1>3, <1>4

LEMMA GotoType ==
  ASSUME TypeInv, NEW r \in Requests, NEW step \in Steps, Goto(r, step)
  PROVE  pc' \in [Requests -> Steps]
BY DEF Goto, TypeInv, MutationsOK

LEMMA WriteType ==
  ASSUME TypeInv, NEW r \in Requests, NEW f \in Writes, Write(r, f)
  PROVE  MutationsOK'
<1>1. plan' \in [Requests -> Plans]
  BY DEF Write, TypeInv, MutationsOK, Plans
<1>2. QED
  BY <1>1, ForgetType, GotoType DEF Write, MutationsOK, Steps

LEMMA MoveType ==
  ASSUME TypeInv, NEW L \in SUBSET Labels, NEW i \in Ids, NEW N \in SUBSET Labels
  PROVE  Move(L, i, N) \in Writes
<1>1. Labelled(L) \cup {i} \in SUBSET Ids
  BY DEF Labelled, TypeInv, RowsOK
<1>2. Move(L, i, N) \in [Labelled(L) \cup {i} -> SUBSET Labels]
  BY <1>1 DEF Move, TypeInv, RowsOK
<1>3. QED
  BY <1>1, <1>2, WritesType

\* A mutation of one row names it.
RowNamed ==
  \A r \in Requests :
    /\ pc[r] # "idle"
    /\ op[r].kind \in {"create", "update", "setLabels", "deleteVersion"}
    => op[r].row \in Ids

LEMMA PrepareType ==
  ASSUME TypeInv, RowNamed, NEW r \in Requests, Prepare(r)
  PROVE  TypeInv'
<1>0. op[r] \in Ops /\ op[r].labels \in SUBSET Labels /\ op[r].old \in SUBSET Labels
  BY DEF TypeInv, MutationsOK, Ops
<1>1. RowsOK' /\ ReadsOK' /\ HistoryOK'
  <2>1. /\ UNCHANGED <<rows, reads, stale, ops, fails>>
        /\ past' \in {past, past \cup {"unlabelled"}}
    BY DEF Prepare, PlanCreate, PlanInclude, PlanUpdate, PlanSetLabels,
           PlanDeleteVersion, PlanDelete, PlanDeleteAll, Planned
  <2>2. QED
    BY <2>1 DEF TypeInv, RowsOK, ReadsOK, HistoryOK, rows, reads
<1>2. CASE PlanCreate(r)
  <2> DEFINE f == [j \in Labelled(op[r].labels) |-> labels[j] \ op[r].labels]
  <2>1. Labelled(op[r].labels) \in SUBSET Ids
    BY DEF Labelled, TypeInv, RowsOK
  <2>2. f \in [Labelled(op[r].labels) -> SUBSET Labels]
    BY <2>1 DEF TypeInv, RowsOK
  <2>3. QED
    BY <1>1, <1>2, <2>1, <2>2, WritesType, WriteType DEF PlanCreate, TypeInv
<1>3. CASE PlanInclude(r)
  <2>1. NoWrites \in Writes
    BY NothingType DEF NoPlan, Plans
  <2>2. QED
    BY <1>1, <1>3, <2>1, WriteType DEF PlanInclude, TypeInv
<1>4. CASE PlanUpdate(r)
  <2>1. op[r].row \in Ids
    BY <1>4 DEF PlanUpdate, Plan, RowNamed
  <2>2. QED
    BY <1>0, <1>1, <1>4, <2>1, MoveType, WriteType DEF PlanUpdate, TypeInv
<1>5. CASE PlanSetLabels(r)
  <2>1. op[r].row \in Ids
    BY <1>5 DEF PlanSetLabels, Plan, RowNamed
  <2>2. QED
    BY <1>0, <1>1, <1>5, <2>1, MoveType, WriteType, EndType DEF PlanSetLabels, TypeInv
<1>6. CASE PlanDeleteVersion(r)
  <2>1. CASE End(r)
    BY <1>1, <2>1, EndType DEF TypeInv
  <2>2. CASE ~End(r)
    <3>1. /\ Goto(r, "commit") /\ Forget(r)
          /\ plan' = [plan EXCEPT ![r].push =
                        IF Latest \in op[r].old THEN Highest(live \ {op[r].row})
                        ELSE {}]
      BY <1>6, <2>2 DEF PlanDeleteVersion
    <3>2. Highest(live \ {op[r].row}) \in SUBSET Ids
      BY DEF Highest, TypeInv, RowsOK
    <3>3. plan' \in [Requests -> Plans]
      BY <3>1, <3>2 DEF TypeInv, MutationsOK, Plans
    <3>4. QED
      BY <1>1, <3>1, <3>3, GotoType, ForgetType DEF TypeInv, MutationsOK, Steps
  <2>3. QED
    BY <2>1, <2>2
<1>7. CASE PlanDelete(r)
  <2> DEFINE rest == live \ plan[r].drop
             f == [i \in Highest(rest) |-> labels[i] \cup {Latest}]
  <2>1. CASE End(r)
    BY <1>1, <2>1, EndType DEF TypeInv
  <2>2. CASE Write(r, f)
    <3>1. Highest(rest) \in SUBSET Ids
      BY DEF Highest, TypeInv, RowsOK
    <3>2. f \in [Highest(rest) -> SUBSET Labels]
      BY <3>1, PromptsAssumption DEF TypeInv, RowsOK
    <3>3. QED
      BY <1>1, <2>2, <3>1, <3>2, WritesType, WriteType DEF TypeInv
  <2>3. CASE Goto(r, "remove") /\ Forget(r) /\ UNCHANGED plan
    BY <1>1, <2>3, GotoType, ForgetType DEF TypeInv, MutationsOK, Steps
  <2>4. QED
    BY <1>7, <2>1, <2>2, <2>3 DEF PlanDelete
<1>8. CASE PlanDeleteAll(r)
  BY <1>1, <1>8, EndType, GotoType, ForgetType
  DEF PlanDeleteAll, TypeInv, MutationsOK, Steps
<1>9. QED
  BY <1>2, <1>3, <1>4, <1>5, <1>6, <1>7, <1>8 DEF Prepare

LEMMA CommitType ==
  ASSUME TypeInv, RowNamed, NEW r \in Requests, Commit(r)
  PROVE  TypeInv'
<1>0. /\ op[r] \in Ops /\ plan[r] \in Plans /\ pc[r] = "commit"
      /\ op[r].labels \in SUBSET Labels /\ op[r].versions \in SUBSET Nat
      /\ op[r].kind = "create" => op[r].row \in Ids
  BY DEF TypeInv, MutationsOK, Ops, Commit, RowNamed
<1>1. live' \subseteq Ids /\ created' \in 0..MaxRows
  BY <1>0 DEF Commit, NewLive, TypeInv, RowsOK, Ids
<1>2. NewLabels(r) \in [Ids -> SUBSET Labels]
  <2>1. ASSUME NEW i \in DOMAIN plan[r].labels PROVE plan[r].labels[i] \in SUBSET Labels
    BY <1>0 DEF Plans, Writes
  <2>2. QED
    BY <1>0, <2>1, PromptsAssumption DEF NewLabels, TypeInv, RowsOK
<1>3. labels' \in [Ids -> SUBSET Labels]
  BY <1>2 DEF Commit
<1>4. version' \in [Ids -> Nat]
  <2>1. CASE op[r].kind = "create"
    BY <1>0, <2>1 DEF Commit, TypeInv, RowsOK
  <2>2. CASE op[r].kind # "create"
    BY <2>2 DEF Commit, TypeInv, RowsOK
  <2>3. QED
    BY <2>1, <2>2
<1>5. dep' \in Refs \cup {NoRef}
  BY <1>0 DEF Commit, Ops, TypeInv, RowsOK
<1>6. MutationsOK'
  <2>1. CASE op[r].kind = "delete"
    BY <2>1, GotoType DEF Commit, TypeInv, MutationsOK, Steps
  <2>2. CASE op[r].kind # "delete"
    BY <2>2, NothingType, GotoType DEF Commit, ToRotate, TypeInv, MutationsOK, Steps
  <2>3. QED
    BY <2>1, <2>2
<1>7. ReadsOK' /\ HistoryOK'
  BY DEF Commit, Overtake, TypeInv, ReadsOK, HistoryOK, reads
<1>8. QED
  BY <1>1, <1>3, <1>4, <1>5, <1>6, <1>7 DEF TypeInv, RowsOK

LEMMA RemoveType ==
  ASSUME TypeInv, NEW r \in Requests, Remove(r)
  PROVE  TypeInv'
<1>1. RowsOK'
  BY DEF Remove, TypeInv, RowsOK
<1>2. MutationsOK'
  BY NothingType, GotoType DEF Remove, ToRotate, TypeInv, MutationsOK, Steps
<1>3. ReadsOK' /\ HistoryOK'
  BY DEF Remove, Overtake, TypeInv, ReadsOK, HistoryOK, reads
<1>4. QED
  BY <1>1, <1>2, <1>3 DEF TypeInv

LEMMA RotateType ==
  ASSUME TypeInv, NEW r \in Requests, Rotate(r)
  PROVE  TypeInv'
<1>1. RowsOK' /\ MutationsOK' /\ HistoryOK'
  BY EndType DEF Rotate, TypeInv, RowsOK, HistoryOK, rows
<1>2. cache' \in [Keys -> [row : Rows, asked : Asked \cup {Parent}]]
  BY DEF Rotate, TypeInv, ReadsOK, Absent, Rows
<1>3. reader' \in [Readers -> Readings]
  BY DEF Rotate, TypeInv, ReadsOK, Resting, Readings, Rows
<1>4. QED
  BY <1>1, <1>2, <1>3 DEF Rotate, TypeInv, ReadsOK

LEMMA FailType ==
  ASSUME TypeInv, NEW r \in Requests, Fail(r) \/ RollBack(r)
  PROVE  TypeInv'
<1>1. RowsOK' /\ MutationsOK' /\ ReadsOK'
  BY EndType DEF Fail, RollBack, TypeInv, RowsOK, ReadsOK, rows, reads
<1>2. HistoryOK'
  <2>1. CASE Fail(r)
    <3>1. ops' = ops /\ fails' \in 0..MaxFails /\ stale' \subseteq stale
      BY <2>1, PromptsAssumption DEF Fail, TypeInv, HistoryOK
    <3>2. past' \subseteq past \cup {"unrotated", "half"}
      BY <2>1 DEF Fail
    <3>3. QED
      BY <3>1, <3>2 DEF TypeInv, HistoryOK
  <2>2. CASE RollBack(r)
    BY <2>2 DEF RollBack, TypeInv, HistoryOK
  <2>3. QED
    BY <2>1, <2>2
<1>3. QED
  BY <1>1, <1>2 DEF TypeInv

LEMMA ReadType ==
  ASSUME TypeInv, ReadsAsked, NEW d \in Readers, Read(d)
  PROVE  TypeInv'
<1>0. UNCHANGED <<rows, mutations, past, ops, fails>>
  BY DEF Read, StartRead, ReadChild, GetKey, CachePrompt, Reading
<1>1. RowsOK' /\ MutationsOK'
  BY <1>0 DEF TypeInv, RowsOK, MutationsOK, rows, mutations
<1>2. HistoryOK'
  BY <1>0 DEF Read, StartRead, ReadChild, GetKey, CachePrompt, TypeInv, HistoryOK
<1>3. ASSUME NEW k \in Asked, StartRead(d, k) PROVE ReadsOK'
  <2>1. dep \in Refs \cup {NoRef} /\ \A i \in Matches(k) : i \in Rows
    BY MatchesType DEF TypeInv, RowsOK, Rows
  <2>2. PICK x \in Readings : reader' = [reader EXCEPT ![d] = x]
    BY <1>3, <2>1 DEF StartRead, Readings, Rows
  <2>3. QED
    BY <1>3, <2>2 DEF StartRead, TypeInv, ReadsOK
<1>4. CASE ReadChild(d)
  <2>1. reader[d] \in Readings /\ \A i \in Matches(reader[d].ref) : i \in Rows
    BY MatchesType DEF TypeInv, RowsOK, ReadsOK, Rows
  <2>2. PICK x \in Readings : reader' = [reader EXCEPT ![d] = x]
    <3>1. Resting \in Readings
      BY DEF Resting, Readings, Rows
    <3>2. CASE reader' = [reader EXCEPT ![d] = Resting]
      BY <3>1, <3>2
    <3>3. CASE \E i \in Matches(reader[d].ref) :
                 reader' = [reader EXCEPT ![d].pc = "key", ![d].row = i]
      <4>1. PICK i \in Matches(reader[d].ref) :
                 reader' = [reader EXCEPT ![d].pc = "key", ![d].row = i]
        BY <3>3
      <4>2. [reader[d] EXCEPT !.pc = "key", !.row = i] \in Readings
        BY <2>1 DEF Readings
      <4>3. reader' = [reader EXCEPT ![d] = [reader[d] EXCEPT !.pc = "key", !.row = i]]
        BY <2>1, <4>1 DEF Readings, TypeInv, ReadsOK
      <4>4. QED
        BY <4>2, <4>3
    <3>4. QED
      BY <1>4, <3>2, <3>3 DEF ReadChild
  <2>3. QED
    BY <1>1, <1>2, <1>4, <2>2 DEF ReadChild, TypeInv, ReadsOK
<1>5. CASE GetKey(d)
  BY <1>1, <1>2, <1>5 DEF GetKey, TypeInv, ReadsOK, Readings
<1>6. CASE CachePrompt(d)
  <2>1. reader[d].key \in Asked /\ Key(reader[d].key) \in Keys
    BY <1>6 DEF CachePrompt, ReadsAsked, Keys
  <2>2. reader[d].row \in Rows
    BY DEF TypeInv, ReadsOK, Readings
  <2>3. QED
    BY <1>1, <1>2, <1>6, <2>1, <2>2 DEF CachePrompt, TypeInv, ReadsOK, Resting, Readings, Rows
<1>7. QED
  BY <1>1, <1>2, <1>3, <1>4, <1>5, <1>6 DEF Read, TypeInv

LEMMA ExpireType ==
  ASSUME TypeInv, NEW k \in Keys, Expire(k)
  PROVE  TypeInv'
BY DEF Expire, Reading, TypeInv, RowsOK, MutationsOK, ReadsOK, HistoryOK, rows,
       mutations, Absent, Rows

LEMMA NamedStep == TypeInv /\ ReadsAsked /\ RowNamed /\ [Next]_vars => ReadsAsked' /\ RowNamed'
<1> SUFFICES ASSUME TypeInv, ReadsAsked, RowNamed, [Next]_vars
             PROVE  ReadsAsked' /\ RowNamed'
  OBVIOUS
<1>0. /\ pc \in [Requests -> Steps] /\ op \in [Requests -> Ops]
      /\ reader \in [Readers -> Readings] /\ live \subseteq Ids
      /\ \A r \in Requests : op[r] \in Ops
  BY DEF TypeInv, MutationsOK, ReadsOK, RowsOK
<1>a. ASSUME NEW r \in Requests, UNCHANGED reads,
             \A s \in Requests \ {r} : pc'[s] = pc[s] /\ op'[s] = op[s],
             \/ pc'[r] = "idle"
             \/ op'[r].kind \notin {"create", "update", "setLabels", "deleteVersion"}
             \/ op'[r].row \in Ids
             \/ pc[r] # "idle" /\ op'[r].kind = op[r].kind /\ op'[r].row = op[r].row
      PROVE  ReadsAsked' /\ RowNamed'
  BY <1>a DEF ReadsAsked, RowNamed, reads
<1>b. Nothing.kind = "none" /\ \A r \in Requests : End(r) => pc'[r] = "idle"
  BY <1>0 DEF Nothing, End, Goto
<1>c. \A r \in Requests : Forget(r) => /\ op'[r].kind = op[r].kind /\ op'[r].row = op[r].row
                                       /\ \A s \in Requests \ {r} : op'[s] = op[s]
  BY <1>0 DEF Forget, Ops
<1>1. ASSUME NEW r \in Requests, Begin(r) PROVE ReadsAsked' /\ RowNamed'
  <2>0. ASSUME NEW what, NEW drop, Look(r, what, drop),
               \/ what.kind \notin {"create", "update", "setLabels", "deleteVersion"}
               \/ what.row \in Ids
        PROVE  ReadsAsked' /\ RowNamed'
    BY <1>0, <1>a, <2>0 DEF Look
  <2>1. ASSUME NEW L, LookCreate(r, L) PROVE ReadsAsked' /\ RowNamed'
    <3>1. PICK v \in NextVersions :
            Look(r, [Nothing EXCEPT !.kind = "create", !.row = created + 1,
                       !.versions = {v}, !.labels = L \cup {Latest}], {})
      BY <2>1 DEF LookCreate
    <3> DEFINE what == [Nothing EXCEPT !.kind = "create", !.row = created + 1,
                          !.versions = {v}, !.labels = L \cup {Latest}]
    <3>2. created + 1 \in Ids
      BY <2>1, PromptsAssumption DEF LookCreate, TypeInv, RowsOK, Ids
    <3>3. what.row \in Ids
      BY <3>2 DEF Nothing
    <3>4. Look(r, what, {})
      BY <3>1
    <3> HIDE DEF what
    <3>5. QED
      BY <2>0, <3>3, <3>4
  <2>2. ASSUME NEW ref, LookInclude(r, ref) PROVE ReadsAsked' /\ RowNamed'
    <3> DEFINE what == [Nothing EXCEPT !.kind = "include", !.ref = ref]
    <3>1. Look(r, what, {}) /\ what.kind = "include"
      BY <2>2 DEF LookInclude, Nothing
    <3> HIDE DEF what
    <3>2. QED
      BY <2>0, <3>1
  <2>3. ASSUME NEW kind, NEW i \in live, NEW L, NEW drop, LookRow(r, kind, i, L, drop)
        PROVE  ReadsAsked' /\ RowNamed'
    <3> DEFINE what == [Nothing EXCEPT !.kind = kind, !.row = i, !.labels = L,
                          !.versions = {version[i]}, !.old = labels[i]]
    <3>1. Look(r, what, drop) /\ what.row \in Ids
      BY <1>0, <2>3 DEF LookRow, Nothing
    <3> HIDE DEF what
    <3>2. QED
      BY <2>0, <3>1
  <2>4. ASSUME NEW S, NEW kind \in {"delete", "deleteAll"}, LookDelete(r, S, kind)
        PROVE  ReadsAsked' /\ RowNamed'
    <3> DEFINE what == [Nothing EXCEPT !.kind = kind,
                          !.versions = {version[i] : i \in S},
                          !.old = UNION {labels[i] : i \in S}]
    <3>1. Look(r, what, S) /\ what.kind = kind
      BY <2>4 DEF LookDelete, Nothing
    <3> HIDE DEF what
    <3>2. QED
      BY <2>0, <3>1
  <2>5. QED
    BY <1>1, <2>1, <2>2, <2>3, <2>4
    DEF Begin, LookUpdate, LookSetLabels, LookDeleteVersion
<1>2. ASSUME NEW r \in Requests, Prepare(r) PROVE ReadsAsked' /\ RowNamed'
  <2>1. /\ UNCHANGED reads /\ pc[r] # "idle"
        /\ \E step : Goto(r, step)
        /\ Forget(r) \/ End(r)
    BY <1>2 DEF Prepare, PlanCreate, PlanInclude, PlanUpdate, PlanSetLabels, PlanDeleteVersion,
                PlanDelete, PlanDeleteAll, Planned, Plan, Write, End
  <2>2. \A s \in Requests \ {r} : pc'[s] = pc[s] /\ op'[s] = op[s]
    BY <1>0, <1>c, <2>1 DEF Goto, End
  <2>3. QED
    BY <1>a, <1>b, <1>c, <2>1, <2>2
<1>3. ASSUME NEW r \in Requests, Commit(r) \/ Remove(r) PROVE ReadsAsked' /\ RowNamed'
  <2>1. UNCHANGED reads /\ (UNCHANGED op \/ op' = [op EXCEPT ![r] = Nothing])
    BY <1>3 DEF Commit, Remove, ToRotate
  <2>2. pc[r] # "idle" /\ \A s \in Requests \ {r} : pc'[s] = pc[s]
    BY <1>0, <1>3 DEF Commit, Remove, ToRotate, Goto
  <2>3. QED
    BY <1>0, <1>a, <1>b, <2>1, <2>2
<1>4. ASSUME NEW r \in Requests, RollBack(r) \/ Fail(r) PROVE ReadsAsked' /\ RowNamed'
  BY <1>0, <1>4, <1>a, <1>b DEF RollBack, Fail, End, Goto
<1>5. ASSUME NEW r \in Requests, Rotate(r) PROVE ReadsAsked' /\ RowNamed'
  BY <1>0, <1>5 DEF Rotate, End, Goto, ReadsAsked, RowNamed, Resting
<1>6. ASSUME NEW d \in Readers, Read(d) PROVE ReadsAsked' /\ RowNamed'
  BY <1>0, <1>6 DEF Read, StartRead, ReadChild, GetKey, CachePrompt, Reading, mutations,
                    ReadsAsked, RowNamed, Resting, Readings
<1>7. ASSUME NEW k \in Keys, Expire(k) PROVE ReadsAsked' /\ RowNamed'
  BY <1>7 DEF Expire, Reading, mutations, ReadsAsked, RowNamed
<1>8. CASE UNCHANGED vars
  BY <1>8 DEF vars, reads, mutations, ReadsAsked, RowNamed
<1>9. QED
  BY <1>1, <1>2, <1>3, <1>4, <1>5, <1>6, <1>7, <1>8 DEF Next

LEMMA TypeStep == TypeInv /\ ReadsAsked /\ RowNamed /\ [Next]_vars => TypeInv'
<1> SUFFICES ASSUME TypeInv, ReadsAsked, RowNamed, [Next]_vars PROVE TypeInv'
  OBVIOUS
<1>1. CASE UNCHANGED vars
  BY <1>1 DEF vars, rows, mutations, reads, TypeInv, RowsOK, MutationsOK, ReadsOK, HistoryOK
<1>2. QED
  BY <1>1, BeginType, PrepareType, CommitType, RemoveType, RotateType, FailType, ReadType,
     ExpireType DEF Next

\* Any number of mutations and reads keep every variable of its type.
THEOREM TypeCorrect == Spec => []TypeOK
<1>1. Init => RowNamed
  BY DEF Init, RowNamed, Nothing
<1>2. TypeInv => TypeOK
  BY DEF TypeInv, RowsOK, MutationsOK, ReadsOK, HistoryOK, TypeOK, Rows, Ops, Plans, Steps, Readings
<1>3. QED
  BY <1>1, <1>2, TypeInit, TypeStep, NamedStep, PTL DEF Spec

-----------------------------------------------------------------------------
(***************************************************************************)
(* The cache.  What a read that nobody overtook has in hand is what it was *)
(* asked for, and a deletion that commits an update first has one.         *)
(***************************************************************************)
FreshReads ==
  \A d \in Readers \ stale :
    /\ reader[d].pc = "child" => reader[d].key = Parent /\ reader[d].ref = dep
    /\ reader[d].pc \in {"key", "write"} => reader[d].row \in Resolves(reader[d].key)

DeletesWrite ==
  \A r \in Requests :
    pc[r] = "commit" /\ op[r].kind = "delete" => DOMAIN plan[r].labels # {}

FreshInv == FreshReads /\ DeletesWrite /\ CacheIsFresh

Same == UNCHANGED <<live, version, labels, dep>>

LEMMA SameResolves ==
  ASSUME Same
  PROVE  \A k : Matches(k)' = Matches(k) /\ Resolves(k)' = Resolves(k)
BY DEF Same, Matches, Resolves

\* A mutation that writes nothing and reaches no reader.
LEMMA Unmoved ==
  ASSUME TypeInv, FreshInv, Same, UNCHANGED reads,
         Readers \cap stale \subseteq stale',
         "unrotated" \in past => "unrotated" \in past',
         Rotating => Rotating' \/ "unrotated" \in past'
  PROVE  FreshReads' /\ CacheIsFresh'
<1>1. FreshReads'
  BY SameResolves DEF FreshInv, FreshReads, reads, Same
<1>2. CacheIsFresh'
  BY SameResolves DEF FreshInv, CacheIsFresh, reads, Same
<1>3. QED
  BY <1>1, <1>2

LEMMA LookFresh ==
  ASSUME TypeInv, FreshInv, NEW r \in Requests, Begin(r)
  PROVE  FreshInv'
<1>1. /\ pc[r] = "idle" /\ pc' = [pc EXCEPT ![r] = "plan"]
      /\ \E what : op' = [op EXCEPT ![r] = what]
      /\ \E drop : plan' = [plan EXCEPT ![r].drop = drop]
      /\ UNCHANGED <<live, version, labels, dep, reads, stale, past>>
  BY DEF Begin, LookCreate, LookInclude, LookUpdate, LookSetLabels, LookDeleteVersion,
         LookDelete, LookRow, Look
<1>2. \A s \in Requests : DOMAIN plan'[s].labels = DOMAIN plan[s].labels
  BY <1>1 DEF TypeInv, MutationsOK, Plans
<1>3. Rotating => Rotating'
  BY <1>1, <1>2 DEF Rotating, TypeInv, MutationsOK
<1>4. DeletesWrite'
  BY <1>1, <1>2 DEF DeletesWrite, FreshInv, TypeInv, MutationsOK
<1>5. QED
  BY <1>1, <1>3, <1>4, Unmoved DEF FreshInv, Same

LEMMA PrepareFresh ==
  ASSUME TypeInv, FreshInv, NEW r \in Requests, Prepare(r)
  PROVE  FreshInv'
<1>1. /\ UNCHANGED <<rows, reads, stale>>
      /\ past \subseteq past'
      /\ pc[r] = "plan"
      /\ \E step : Goto(r, step)
  BY DEF Prepare, PlanCreate, PlanInclude, PlanUpdate, PlanSetLabels, PlanDeleteVersion,
         PlanDelete, PlanDeleteAll, Planned, Plan, Write, End
<1>2. /\ \A s \in Requests \ {r} : plan'[s] = plan[s] /\ op'[s] = op[s] /\ pc'[s] = pc[s]
  BY DEF Prepare, PlanCreate, PlanInclude, PlanUpdate, PlanSetLabels, PlanDeleteVersion,
         PlanDelete, PlanDeleteAll, Planned, Plan, Write, End, Goto, Forget, TypeInv, MutationsOK
<1>3. Rotating => Rotating'
  BY <1>1, <1>2 DEF Rotating
<1>4. pc'[r] = "commit" /\ op'[r].kind = "delete" => DOMAIN plan'[r].labels # {}
  <2>1. op'[r].kind \in {op[r].kind, "none"}
    <3>1. Forget(r) \/ op' = op \/ op' = [op EXCEPT ![r] = Nothing]
      BY DEF Prepare, PlanCreate, PlanInclude, PlanUpdate, PlanSetLabels, PlanDeleteVersion,
             PlanDelete, PlanDeleteAll, Write, End
    <3>2. op \in [Requests -> Ops] /\ Nothing.kind = "none"
      BY DEF TypeInv, MutationsOK, Nothing
    <3>3. QED
      BY <3>1, <3>2 DEF Forget, Ops
  <2>2. op[r].kind = "delete" => PlanDelete(r)
    BY DEF Prepare, PlanCreate, PlanInclude, PlanUpdate, PlanSetLabels, PlanDeleteVersion,
           PlanDeleteAll, Plan
  <2>3. CASE PlanDelete(r)
    <3> DEFINE rest == live \ plan[r].drop
               f == [i \in Highest(rest) |-> labels[i] \cup {Latest}]
    <3>1. CASE Write(r, f) /\ Highest(rest) # {}
      <4>1. plan'[r].labels = f
        BY <3>1 DEF Write, TypeInv, MutationsOK, Plans
      <4>2. QED
        BY <3>1, <4>1
    <3>2. CASE End(r) \/ Goto(r, "remove")
      BY <3>2 DEF End, Goto, TypeInv, MutationsOK
    <3>3. QED
      BY <2>3, <3>1, <3>2 DEF PlanDelete
  <2>4. QED
    BY <2>1, <2>2, <2>3
<1>5. QED
  BY <1>1, <1>2, <1>3, <1>4, Unmoved DEF FreshInv, DeletesWrite, Same, rows

\* A transaction or a deletion overtakes the reads under way, and is to be
\* followed by a new epoch.
LEMMA CommitFresh ==
  ASSUME TypeInv, FreshInv, NEW r \in Requests, Commit(r) \/ Remove(r)
  PROVE  FreshInv'
<1>0. pc \in [Requests -> Steps] /\ op \in [Requests -> Ops] /\ plan \in [Requests -> Plans]
  BY DEF TypeInv, MutationsOK
<1>1. FreshReads'
  <2>1. UNCHANGED reads /\ Overtake(r)
    BY DEF Commit, Remove
  <2>2. \A d \in Readers : reader[d].pc # "idle" => d \in stale'
    BY <2>1 DEF Overtake
  <2>3. QED
    BY <2>1, <2>2 DEF FreshReads, reads
<1>2. \/ pc'[r] = "rotate" /\ op'[r] = Nothing /\ \A s \in Requests \ {r} :
           pc'[s] = pc[s] /\ op'[s] = op[s] /\ plan'[s] = plan[s]
      \/ pc[r] = "commit" /\ op[r].kind = "delete" /\ pc' = [pc EXCEPT ![r] = "remove"]
           /\ UNCHANGED <<op, plan>>
  BY <1>0 DEF Commit, Remove, ToRotate, Goto
<1>3. Rotating'
  BY <1>0, <1>2 DEF Rotating, FreshInv, DeletesWrite
<1>4. DeletesWrite'
  BY <1>0, <1>2 DEF FreshInv, DeletesWrite
<1>5. QED
  BY <1>1, <1>3, <1>4 DEF FreshInv, CacheIsFresh

LEMMA FailFresh ==
  ASSUME TypeInv, FreshInv, NEW r \in Requests, Fail(r) \/ RollBack(r)
  PROVE  FreshInv'
<1>0. pc \in [Requests -> Steps] /\ op \in [Requests -> Ops] /\ plan \in [Requests -> Plans]
  BY DEF TypeInv, MutationsOK
<1>1. /\ pc'[r] = "idle" /\ UNCHANGED <<rows, reads>> /\ stale' = stale \ {r}
      /\ past \subseteq past'
      /\ \A s \in Requests \ {r} : pc'[s] = pc[s] /\ op'[s] = op[s] /\ plan'[s] = plan[s]
  BY <1>0 DEF Fail, RollBack, End, Goto
<1>2. Rotating => Rotating' \/ "unrotated" \in past'
  BY <1>1 DEF Rotating, Fail, RollBack
<1>3. DeletesWrite'
  BY <1>1 DEF FreshInv, DeletesWrite
<1>4. QED
  BY <1>1, <1>2, <1>3, Unmoved, PromptsAssumption DEF FreshInv, Same, rows

LEMMA RotateFresh ==
  ASSUME TypeInv, FreshInv, NEW r \in Requests, Rotate(r)
  PROVE  FreshInv'
<1>0. /\ pc \in [Requests -> Steps] /\ op \in [Requests -> Ops] /\ plan \in [Requests -> Plans]
      /\ reader \in [Readers -> Readings]
  BY DEF TypeInv, MutationsOK, ReadsOK
<1>1. \A k \in Keys : cache'[k] = Absent
  BY DEF Rotate, Rotated
<1>2. CacheIsFresh'
  BY <1>1 DEF CacheIsFresh
<1>3. Same
  BY DEF Rotate, Same, rows
<1>4. FreshReads'
  <2>1. ASSUME NEW d \in Readers, d \notin stale'
        PROVE  reader'[d].pc = "idle" \/ (d \notin stale /\ reader'[d] = reader[d])
    BY <1>0, <2>1, PromptsAssumption DEF Rotate, Resting
  <2>2. QED
    BY <1>3, <2>1, SameResolves DEF FreshInv, FreshReads, Same
<1>5. DeletesWrite'
  BY <1>0 DEF Rotate, End, Goto, FreshInv, DeletesWrite, Nothing
<1>6. QED
  BY <1>2, <1>4, <1>5 DEF FreshInv

LEMMA ReadFresh ==
  ASSUME TypeInv, ReadsAsked, FreshInv, NEW d \in Readers, Read(d)
  PROVE  FreshInv'
<1>0. reader \in [Readers -> Readings] /\ cache \in [Keys -> [row : Rows, asked : Asked \cup {Parent}]]
  BY DEF TypeInv, ReadsOK
<1>1. UNCHANGED <<rows, mutations, past>>
  BY DEF Read, StartRead, ReadChild, GetKey, CachePrompt, Reading
<1>2. Same /\ (Rotating' <=> Rotating) /\ DeletesWrite'
  BY <1>1 DEF Same, rows, mutations, Rotating, FreshInv, DeletesWrite
<1>a. \A k : Matches(k)' = Matches(k) /\ Resolves(k)' = Resolves(k)
  BY <1>2, SameResolves
<1>b. \A b \in Readers \ {d} : reader'[b] = reader[b] /\ (b \in stale' <=> b \in stale)
  BY <1>0 DEF Read, StartRead, ReadChild, GetKey, CachePrompt
<1>c. ASSUME reader'[d].pc = "idle" \/ d \in stale' \/
             /\ reader'[d].pc = "child" => reader'[d].key = Parent /\ reader'[d].ref = dep
             /\ reader'[d].pc \in {"key", "write"} => reader'[d].row \in Resolves(reader'[d].key)
      PROVE  FreshReads'
  BY <1>2, <1>a, <1>b, <1>c DEF FreshInv, FreshReads, Same
<1>d. ASSUME UNCHANGED <<cache, raced>> PROVE CacheIsFresh'
  BY <1>1, <1>2, <1>a, <1>d DEF FreshInv, CacheIsFresh
<1>3. ASSUME NEW k \in Asked, StartRead(d, k) PROVE FreshInv'
  <2>1. FreshReads'
    BY <1>0, <1>3, <1>c DEF StartRead, Resolves
  <2>2. QED
    BY <1>2, <1>3, <1>d, <2>1 DEF StartRead, FreshInv
<1>4. CASE ReadChild(d)
  <2>1. FreshReads'
    BY <1>0, <1>4, <1>c DEF ReadChild, Resolves, FreshInv, FreshReads, Resting, Readings
  <2>2. QED
    BY <1>2, <1>4, <1>d, <2>1 DEF ReadChild, FreshInv
<1>5. CASE GetKey(d)
  <2>1. FreshReads'
    BY <1>0, <1>5, <1>c DEF GetKey, FreshInv, FreshReads, Readings
  <2>2. QED
    BY <1>2, <1>5, <1>d, <2>1 DEF GetKey, FreshInv
<1>6. CASE CachePrompt(d)
  <2> DEFINE key == reader[d].key
  <2>1. FreshReads'
    BY <1>0, <1>6, <1>c DEF CachePrompt, Resting
  <2>2. key \in Asked /\ Key(key) \in Keys
    BY <1>6 DEF CachePrompt, ReadsAsked, Keys
  <2>3. /\ cache' = [cache EXCEPT ![Key(key)] = [row |-> reader[d].row, asked |-> key]]
        /\ raced' = IF d \in stale THEN raced \cup {Key(key)} ELSE raced \ {Key(key)}
    BY <1>6 DEF CachePrompt
  <2>4. d \notin stale => reader[d].row \in Resolves(key)
    BY <1>6 DEF CachePrompt, FreshInv, FreshReads
  <2>5. CacheIsFresh'
    <3> SUFFICES ASSUME "unrotated" \notin past, ~Rotating, NEW q \in Keys \ raced',
                        cache'[q] # Absent
                 PROVE  cache'[q].row \in Resolves(cache'[q].asked)
      BY <1>1, <1>2, <1>a DEF CacheIsFresh
    <3>1. CASE q = Key(key)
      BY <1>0, <2>2, <2>3, <2>4, <3>1
    <3>2. CASE q # Key(key)
      BY <1>0, <2>2, <2>3, <3>2 DEF FreshInv, CacheIsFresh
    <3>3. QED
      BY <3>1, <3>2
  <2>6. QED
    BY <1>2, <2>1, <2>5 DEF FreshInv
<1>7. QED
  BY <1>3, <1>4, <1>5, <1>6 DEF Read

LEMMA ExpireFresh ==
  ASSUME TypeInv, FreshInv, NEW k \in Keys, Expire(k)
  PROVE  FreshInv'
<1>1. Same /\ UNCHANGED <<mutations, past, reader, stale>>
  BY DEF Expire, Reading, rows, Same
<1>2. FreshReads' /\ DeletesWrite' /\ (Rotating' <=> Rotating)
  BY <1>1, SameResolves DEF FreshInv, FreshReads, DeletesWrite, Rotating, mutations, Same
<1>3. \A q \in Keys : cache'[q] = Absent \/ (q # k /\ cache'[q] = cache[q])
  BY DEF Expire, TypeInv, ReadsOK
<1>4. CacheIsFresh'
  BY <1>1, <1>2, <1>3, SameResolves DEF FreshInv, CacheIsFresh, Expire
<1>5. QED
  BY <1>2, <1>4 DEF FreshInv

LEMMA FreshStep == TypeInv /\ ReadsAsked /\ FreshInv /\ [Next]_vars => FreshInv'
<1> SUFFICES ASSUME TypeInv, ReadsAsked, FreshInv, [Next]_vars PROVE FreshInv'
  OBVIOUS
<1>1. CASE UNCHANGED vars
  BY <1>1, SameResolves DEF vars, rows, mutations, reads, Same, FreshInv, FreshReads,
     DeletesWrite, CacheIsFresh, Rotating
<1>2. QED
  BY <1>1, LookFresh, PrepareFresh, CommitFresh, RotateFresh, FailFresh, ReadFresh,
     ExpireFresh DEF Next

LEMMA FreshInit == Init => RowNamed /\ FreshInv
BY DEF Init, RowNamed, FreshInv, FreshReads, DeletesWrite, CacheIsFresh, Resting, Absent

\* Any number of mutations and reads: an entry that no commit raced, of an
\* epoch that no commit left behind, is what the database resolves to.
THEOREM CacheFresh == Spec => []CacheIsFresh
<1>1. FreshInv => CacheIsFresh
  BY DEF FreshInv
<1>2. QED
  BY <1>1, FreshInit, FreshStep, TypeInit, TypeStep, NamedStep, PTL DEF Spec

-----------------------------------------------------------------------------
(***************************************************************************)
(* The dependency.  A mutation that nobody overtook has read, as it plans, *)
(* what is still so.  What it knows: as it commits, that what the other    *)
(* prompt includes (or is about to include) still resolves after its       *)
(* writes; and as it removes rows, that it resolves without them.          *)
(***************************************************************************)
Hit(ref, S, L) ==
  \E i \in S : \/ ref.by = "label" /\ ref.label \in L[i]
               \/ ref.by = "version" /\ ref.version = version[i]

Included(r) == IF op[r].kind = "include" THEN op[r].ref ELSE dep

Rest(r) ==
  IF op[r].kind \in {"deleteVersion", "delete", "deleteAll"}
  THEN live \ plan[r].drop ELSE live

Kept(r) ==
  \/ Included(r) = NoRef
  \/ Hit(Included(r), Rest(r), NewLabels(r))
  \/ op[r].kind = "create" /\ dep.by = "label" /\ dep.label \in op[r].labels

HasRead(r) ==
  /\ op[r].kind \in {"update", "setLabels", "deleteVersion"} =>
       /\ op[r].row \in live
       /\ op[r].old = labels[op[r].row]
       /\ op[r].versions = {version[op[r].row]}
  /\ op[r].kind = "deleteVersion" => plan[r].drop = {op[r].row}
  /\ op[r].kind = "delete" =>
       op[r].versions = {version[i] : i \in plan[r].drop}
  /\ op[r].kind = "include" => Hit(op[r].ref, live, labels)

Reads(r) ==
  /\ pc[r] \in {"plan", "commit"} /\ op[r].kind = "create" => op[r].row \notin live
  /\ pc[r] = "plan" => HasRead(r)

Knows(r) ==
  /\ pc[r] = "commit" => Kept(r)
  /\ pc[r] = "remove" => dep = NoRef \/ Hit(dep, live \ plan[r].drop, labels)

Clean == past \cap {"overtaken", "unlabelled"} = {}
DepHolds == dep = NoRef \/ Hit(dep, live, labels)

CreatedInv ==
  /\ live \subseteq 1..created
  /\ \A r \in Requests : op[r].kind = "create" => op[r].row \in 1..created

BlankInv ==
  \A r \in Requests : pc[r] \in {"idle", "plan", "rotate"} => DOMAIN plan[r].labels = {}

DepInv ==
  /\ CreatedInv /\ BlankInv
  /\ \A r \in Requests \ stale : Reads(r)
  /\ Clean => DepHolds /\ \A r \in Requests \ stale : Knows(r)

LEMMA RefHas ==
  ASSUME TypeInv
  PROVE  dep # NoRef => dep.by \in {"label", "version"}
BY DEF TypeInv, RowsOK, Refs, ByLabel, ByVersion, NoRef

LEMMA SameKnows ==
  ASSUME Same, NEW r, op'[r] = op[r], plan'[r] = plan[r], pc'[r] = pc[r]
  PROVE  (Reads(r) => Reads(r)') /\ (Knows(r) => Knows(r)')
<1>1. NewLabels(r)' = NewLabels(r)
  BY DEF NewLabels, Same
<1>2. /\ HasRead(r)' = HasRead(r)
      /\ Kept(r)' = Kept(r)
      /\ Hit(dep, live \ plan[r].drop, labels)' = Hit(dep, live \ plan[r].drop, labels)
  BY <1>1 DEF Same, HasRead, Kept, Hit, Included, Rest
<1>3. QED
  BY <1>2 DEF Reads, Knows, Same

\* A mutation that touches no row of the database.
LEMMA OthersKnow ==
  ASSUME TypeInv, DepInv, Same, NEW r \in Requests,
         \A s \in Requests \ {r} : op'[s] = op[s] /\ plan'[s] = plan[s] /\ pc'[s] = pc[s],
         \A s \in Requests \ {r} : s \in stale => s \in stale',
         past \cap {"overtaken", "unlabelled"} \subseteq past'
  PROVE  /\ \A s \in Requests \ (stale' \cup {r}) : Reads(s)'
         /\ Clean' => DepHolds' /\ \A s \in Requests \ (stale' \cup {r}) : Knows(s)'
<1>0. \A s \in Requests \ (stale' \cup {r}) : Reads(s)'
  BY SameKnows DEF DepInv
<1> SUFFICES ASSUME Clean'
             PROVE  DepHolds' /\ \A s \in Requests \ (stale' \cup {r}) : Knows(s)'
  BY <1>0
<1>1. Clean
  BY DEF Clean
<1>2. DepHolds'
  BY <1>1 DEF DepInv, DepHolds, Hit, Same
<1>3. QED
  BY <1>1, <1>2, SameKnows DEF DepInv

LEMMA LookKeeps ==
  ASSUME TypeInv, DepInv, NEW r \in Requests, NEW what, NEW drop,
         Look(r, what, drop),
         \/ what.kind = "create" /\ what.row = created + 1 /\ created' = created + 1
         \/ what.kind # "create" /\ created' = created,
         what.kind \in {"update", "setLabels", "deleteVersion"} =>
           /\ what.row \in live
           /\ what.old = labels[what.row]
           /\ what.versions = {version[what.row]},
         what.kind = "deleteVersion" => drop = {what.row},
         what.kind = "delete" => what.versions = {version[i] : i \in drop},
         what.kind = "include" => Hit(what.ref, live, labels)
  PROVE  DepInv'
<1>0. /\ pc \in [Requests -> Steps] /\ op \in [Requests -> Ops] /\ plan \in [Requests -> Plans]
      /\ created \in Nat
  BY PromptsAssumption DEF TypeInv, MutationsOK, RowsOK
<1>1. /\ pc[r] = "idle" /\ pc'[r] = "plan" /\ op'[r] = what
      /\ plan'[r].drop = drop /\ plan'[r].labels = plan[r].labels
      /\ Same /\ UNCHANGED <<stale, past>>
  BY <1>0 DEF Look, Same, Plans
<1>2. \A s \in Requests \ {r} : op'[s] = op[s] /\ plan'[s] = plan[s] /\ pc'[s] = pc[s]
  BY <1>0 DEF Look
<1>3. CreatedInv'
  BY <1>0, <1>1, <1>2 DEF DepInv, CreatedInv, Same
<1>4. BlankInv'
  BY <1>1, <1>2 DEF DepInv, BlankInv
<1>5. Reads(r)' /\ Knows(r)'
  <2>1. what.kind = "create" => what.row \notin live'
    BY <1>0, <1>1 DEF DepInv, CreatedInv, Same
  <2>2. HasRead(r)'
    BY <1>1 DEF HasRead, Same, Hit
  <2>3. QED
    BY <1>1, <2>1, <2>2 DEF Reads, Knows
<1>6. QED
  BY <1>1, <1>2, <1>3, <1>4, <1>5, OthersKnow DEF DepInv

LEMMA BeginKeeps ==
  ASSUME TypeInv, DepInv, NEW r \in Requests, Begin(r)
  PROVE  DepInv'
<1>0. live \subseteq Ids /\ Nothing.kind = "none"
  BY DEF TypeInv, RowsOK, Nothing
<1>1. ASSUME NEW L, LookCreate(r, L) PROVE DepInv'
  <2>1. PICK v \in NextVersions :
          Look(r, [Nothing EXCEPT !.kind = "create", !.row = created + 1,
                     !.versions = {v}, !.labels = L \cup {Latest}], {})
    BY <1>1 DEF LookCreate
  <2> DEFINE what == [Nothing EXCEPT !.kind = "create", !.row = created + 1,
                        !.versions = {v}, !.labels = L \cup {Latest}]
  <2>2. /\ what.kind = "create" /\ what.row = created + 1 /\ created' = created + 1
        /\ Look(r, what, {})
    BY <1>1, <2>1 DEF LookCreate, Nothing
  <2> HIDE DEF what
  <2>3. QED
    BY <2>2, LookKeeps
<1>2. ASSUME NEW ref \in Refs, LookInclude(r, ref) PROVE DepInv'
  <2> DEFINE what == [Nothing EXCEPT !.kind = "include", !.ref = ref]
  <2>1. /\ what.kind = "include" /\ what.ref = ref /\ created' = created
        /\ Look(r, what, {})
    BY <1>2 DEF LookInclude, Nothing
  <2>2. Hit(ref, live, labels)
    <3>1. Matches(ref) # {}
      BY <1>2 DEF LookInclude
    <3>2. QED
      BY <3>1 DEF Matches, Hit
  <2> HIDE DEF what
  <2>3. QED
    BY <2>1, <2>2, LookKeeps
<1>3. ASSUME NEW i \in live, NEW L, NEW drop, NEW kind,
             LookRow(r, kind, i, L, drop),
             \/ kind \in {"update", "setLabels"}
             \/ kind = "deleteVersion" /\ drop = {i}
      PROVE  DepInv'
  <2> DEFINE what == [Nothing EXCEPT !.kind = kind, !.row = i, !.labels = L,
                        !.versions = {version[i]}, !.old = labels[i]]
  <2>1. /\ what.kind = kind /\ what.row = i /\ what.old = labels[i]
        /\ what.versions = {version[i]} /\ created' = created
        /\ Look(r, what, drop)
    BY <1>3 DEF LookRow, Nothing
  <2> HIDE DEF what
  <2>2. QED
    BY <1>3, <2>1, LookKeeps
<1>4. ASSUME NEW S, NEW kind \in {"delete", "deleteAll"}, LookDelete(r, S, kind)
      PROVE  DepInv'
  <2> DEFINE what == [Nothing EXCEPT !.kind = kind,
                        !.versions = {version[i] : i \in S},
                        !.old = UNION {labels[i] : i \in S}]
  <2>1. /\ what.kind = kind /\ what.versions = {version[i] : i \in S}
        /\ created' = created /\ Look(r, what, S)
    BY <1>4 DEF LookDelete, Nothing
  <2> HIDE DEF what
  <2>2. QED
    BY <2>1, LookKeeps
<1>5. QED
  BY <1>1, <1>2, <1>3, <1>4
  DEF Begin, LookUpdate, LookSetLabels, LookDeleteVersion

LEMMA ForgetKeeps ==
  ASSUME TypeInv, NEW r \in Requests, Forget(r)
  PROVE  /\ op'[r].kind = op[r].kind /\ op'[r].row = op[r].row /\ op'[r].ref = op[r].ref
         /\ op[r].kind = "create" => op'[r].labels = op[r].labels
         /\ \A s \in Requests \ {r} : op'[s] = op[s]
BY DEF Forget, TypeInv, MutationsOK, Ops

\* What a mutation has planned: its writes, and the version whose label moves.
LEMMA WriteKeeps ==
  ASSUME TypeInv, NEW r \in Requests, NEW f, Write(r, f)
  PROVE  /\ plan'[r].labels = f /\ plan'[r].drop = plan[r].drop /\ pc'[r] = "commit"
         /\ \A s \in Requests \ {r} : plan'[s] = plan[s] /\ pc'[s] = pc[s]
BY DEF Write, Goto, TypeInv, MutationsOK, Plans

\* The row that what is included resolves to stays, and keeps its label.
LEMMA RowKept ==
  ASSUME TypeInv, NEW r \in Requests, Same, NEW i \in live, i \in Rest(r)',
         op'[r].kind = "create" => i # op'[r].row,
         \/ Included(r)'.by = "version" /\ Included(r)'.version = version[i]
         \/ /\ Included(r)'.by = "label" /\ Included(r)'.label \in labels[i]
            /\ i \in DOMAIN plan'[r].labels =>
                 Included(r)'.label \in plan'[r].labels[i]
  PROVE  Kept(r)'
<1>1. i \in Ids /\ version' = version /\ labels' = labels
  BY DEF TypeInv, RowsOK, Same
<1>2. CASE Included(r)'.by = "version" /\ Included(r)'.version = version[i]
  BY <1>1, <1>2 DEF Kept, Hit
<1>3. ASSUME Included(r)'.by = "label", Included(r)'.label \in labels[i],
             i \in DOMAIN plan'[r].labels =>
               Included(r)'.label \in plan'[r].labels[i]
      PROVE  Kept(r)'
  <2>1. Included(r)'.label \in NewLabels(r)'[i]
    BY <1>1, <1>3 DEF NewLabels
  <2>2. QED
    BY <1>3, <2>1 DEF Kept, Hit
<1>4. QED
  BY <1>2, <1>3

LEMMA PlansKeep ==
  ASSUME TypeInv, DepInv, NEW r \in Requests, Prepare(r), Same,
         UNCHANGED stale, Clean', r \notin stale, pc'[r] = "commit"
  PROVE  Kept(r)'
<1>0. /\ Clean /\ HasRead(r) /\ DOMAIN plan[r].labels = {} /\ pc[r] = "plan" /\ DepHolds
      /\ op[r].kind = "create" => op[r].row \notin live
  <2>1. pc[r] = "plan" /\ past \subseteq past'
    BY DEF Prepare, PlanCreate, PlanInclude, PlanUpdate, PlanSetLabels, PlanDeleteVersion,
           PlanDelete, PlanDeleteAll, Plan, Planned
  <2>2. QED
    BY <2>1 DEF DepInv, Clean, Reads, BlankInv
<1>1. /\ op \in [Requests -> Ops] /\ plan \in [Requests -> Plans] /\ op[r] \in Ops
      /\ live \subseteq Ids /\ labels \in [Ids -> SUBSET Labels]
      /\ live' = live /\ labels' = labels /\ version' = version /\ dep' = dep
  BY DEF TypeInv, MutationsOK, RowsOK, Same
<1>2. ~ End(r)
  BY <1>1 DEF End, Goto, TypeInv, MutationsOK
<1>3. ASSUME dep = NoRef, op'[r].kind # "include" PROVE Kept(r)'
  BY <1>1, <1>3 DEF Kept, Included
<1>4. ASSUME dep # NoRef
      PROVE  \E i \in live : \/ dep.by = "label" /\ dep.label \in labels[i]
                             \/ dep.by = "version" /\ dep.version = version[i]
  BY <1>0, <1>4 DEF DepHolds, Hit
<1>5. ASSUME PlanCreate(r) PROVE Kept(r)'
  <2> DEFINE L == op[r].labels
             f == [j \in Labelled(L) |-> labels[j] \ L]
  <2>1. /\ op[r].kind = "create" /\ op'[r].kind = "create" /\ op'[r].row \notin live
        /\ op'[r].labels = L /\ plan'[r].labels = f
    BY <1>0, <1>5, ForgetKeeps, WriteKeeps DEF PlanCreate, Plan, Write
  <2>2. CASE dep = NoRef
    BY <1>3, <2>1, <2>2
  <2>3. CASE dep.by = "label" /\ dep.label \in L
    BY <1>1, <2>1, <2>3 DEF Kept
  <2>4. CASE dep # NoRef /\ ~ (dep.by = "label" /\ dep.label \in L)
    <3>1. Included(r)' = dep /\ Rest(r)' = live
      BY <1>1, <2>1 DEF Included, Rest
    <3>2. PICK i \in live : \/ dep.by = "label" /\ dep.label \in labels[i]
                            \/ dep.by = "version" /\ dep.version = version[i]
      BY <1>4, <2>4
    <3>3. i \in DOMAIN f /\ dep.by = "label" => dep.label \in f[i]
      BY <2>4, <3>2 DEF NoRef
    <3>4. QED
      BY <2>1, <3>1, <3>2, <3>3, RowKept
  <2>5. QED
    BY <2>2, <2>3, <2>4
<1>6. ASSUME PlanInclude(r) PROVE Kept(r)'
  <2>1. /\ op[r].kind = "include" /\ op'[r].kind = "include" /\ op'[r].ref = op[r].ref
        /\ plan'[r].labels = NoWrites
    BY <1>6, ForgetKeeps, WriteKeeps DEF PlanInclude, Plan, Write
  <2>2. Included(r)' = op[r].ref /\ Rest(r)' = live
    BY <1>1, <2>1 DEF Included, Rest
  <2>3. PICK i \in live : \/ op[r].ref.by = "label" /\ op[r].ref.label \in labels[i]
                          \/ op[r].ref.by = "version" /\ op[r].ref.version = version[i]
    BY <1>0, <2>1 DEF HasRead, Hit
  <2>4. DOMAIN NoWrites = {}
    BY DEF NoWrites
  <2>5. QED
    BY <2>1, <2>2, <2>3, <2>4, RowKept
<1>7. ASSUME NEW L \in SUBSET Labels, NEW N, L \subseteq N,
             op[r].kind \in {"update", "setLabels"},
             Write(r, Move(L, op[r].row, N)),
             dep.by = "label" /\ dep.label \in labels[op[r].row] =>
               dep.label \in N
      PROVE  Kept(r)'
  <2> DEFINE k == op[r].row
             f == Move(L, k, N)
  <2>1. /\ op'[r].kind = op[r].kind /\ plan'[r].labels = f /\ k \in live
    BY <1>0, <1>7, ForgetKeeps, WriteKeeps DEF Write, HasRead
  <2>2. CASE dep = NoRef
    BY <1>3, <1>7, <2>1, <2>2
  <2>3. /\ Included(r)' = dep /\ Rest(r)' = live
    BY <1>1, <1>7, <2>1 DEF Included, Rest
  <2>4. DOMAIN f = Labelled(L) \cup {k} /\ f[k] = N
        /\ \A j \in Labelled(L) \ {k} : f[j] = labels[j] \ L
    BY DEF Move
  <2>5. CASE dep.by = "label" /\ dep.label \in L
    <3>1. dep.label \in NewLabels(r)'[k]
      BY <1>1, <1>7, <2>1, <2>4, <2>5 DEF NewLabels
    <3>2. QED
      BY <2>1, <2>3, <2>5, <3>1 DEF Kept, Hit
  <2>6. CASE dep # NoRef /\ ~ (dep.by = "label" /\ dep.label \in L)
    <3>1. PICK i \in live : \/ dep.by = "label" /\ dep.label \in labels[i]
                            \/ dep.by = "version" /\ dep.version = version[i]
      BY <1>4, <2>6
    <3>2. i \in DOMAIN f /\ dep.by = "label" => dep.label \in f[i]
      BY <1>7, <2>4, <2>6, <3>1 DEF NoRef
    <3>3. QED
      BY <1>7, <2>1, <2>3, <3>1, <3>2, RowKept
  <2>7. QED
    BY <2>2, <2>5, <2>6
<1>8. ASSUME PlanUpdate(r) PROVE Kept(r)'
  <2>1. /\ op[r].kind = "update" /\ op[r].old = labels[op[r].row]
        /\ Write(r, Move(op[r].labels, op[r].row, op[r].labels \cup op[r].old))
        /\ op[r].labels \in SUBSET Labels
    BY <1>0, <1>1, <1>8 DEF PlanUpdate, Plan, HasRead, Ops
  <2>2. QED
    BY <1>7, <2>1
<1>9. ASSUME PlanSetLabels(r) PROVE Kept(r)'
  <2>1. /\ op[r].kind = "setLabels" /\ op[r].old = labels[op[r].row]
        /\ ~ DependsOnLabel(op[r].old \ op[r].labels)
        /\ Write(r, Move(op[r].labels, op[r].row, op[r].labels))
        /\ op[r].labels \in SUBSET Labels
    BY <1>0, <1>1, <1>2, <1>9 DEF PlanSetLabels, Plan, HasRead, Ops
  <2>2. QED
    BY <1>7, <2>1 DEF DependsOnLabel
<1>10. ASSUME PlanDeleteVersion(r) PROVE Kept(r)'
  <2> DEFINE k == op[r].row
  <2>1. /\ op[r].kind = "deleteVersion" /\ plan[r].drop = {k}
        /\ op[r].old = labels[k] /\ op[r].versions = {version[k]}
        /\ op[r].old # {} => ~ DependsOnLabel(labels[k]) /\ ~ DependsOnVersion({version[k]})
        /\ op[r].old = {} => ~ DependsOnVersion({version[k]})
    BY <1>0, <1>2, <1>10 DEF PlanDeleteVersion, Plan, HasRead, Clean
  <2>2. /\ op'[r].kind = "deleteVersion" /\ plan'[r].labels = plan[r].labels
        /\ plan'[r].drop = {k}
    BY <1>1, <1>2, <1>10, <2>1, ForgetKeeps DEF PlanDeleteVersion, Plans
  <2>3. /\ Included(r)' = dep /\ Rest(r)' = live \ {k}
    BY <1>1, <2>2 DEF Included, Rest
  <2>4. CASE dep = NoRef
    BY <1>3, <2>2, <2>4
  <2>5. CASE dep # NoRef
    <3>1. PICK i \in live : \/ dep.by = "label" /\ dep.label \in labels[i]
                            \/ dep.by = "version" /\ dep.version = version[i]
      BY <1>4, <2>5
    <3>2. i # k
      BY <2>1, <3>1 DEF DependsOnLabel, DependsOnVersion
    <3>3. QED
      BY <1>0, <2>2, <2>3, <3>1, <3>2, RowKept
  <2>6. QED
    BY <2>4, <2>5
<1>11. ASSUME PlanDelete(r) PROVE Kept(r)'
  <2> DEFINE D == plan[r].drop
             rest == live \ D
             f == [i \in Highest(rest) |-> labels[i] \cup {Latest}]
  <2>1. /\ op[r].kind = "delete" /\ op[r].versions = {version[i] : i \in D}
        /\ ~ Blocks(op[r].versions, D)
    BY <1>0, <1>2, <1>11 DEF PlanDelete, Plan, HasRead
  <2>2. Write(r, f)
    <3>1. ~ Goto(r, "remove")
      BY <1>1 DEF Goto, TypeInv, MutationsOK
    <3>2. QED
      BY <1>2, <1>11, <3>1 DEF PlanDelete
  <2>3. /\ op'[r].kind = "delete" /\ plan'[r].labels = f /\ plan'[r].drop = D
    BY <2>1, <2>2, ForgetKeeps, WriteKeeps DEF Write
  <2>4. /\ Included(r)' = dep /\ Rest(r)' = rest
    BY <1>1, <2>3 DEF Included, Rest
  <2>5. CASE dep = NoRef
    BY <1>3, <2>3, <2>5
  <2>6. CASE dep # NoRef
    <3>1. PICK i \in rest : \/ dep.by = "label" /\ dep.label \in labels[i]
                            \/ dep.by = "version" /\ dep.version = version[i]
      BY <1>4, <2>1, <2>6 DEF Blocks, DependsOnVersion
    <3>2. i \in DOMAIN f => labels[i] \subseteq f[i]
      OBVIOUS
    <3>3. QED
      BY <2>3, <2>4, <3>1, <3>2, RowKept
  <2>7. QED
    BY <2>5, <2>6
<1>12. ~ PlanDeleteAll(r)
  BY <1>1, <1>2 DEF PlanDeleteAll, Goto, TypeInv, MutationsOK
<1>13. QED
  BY <1>5, <1>6, <1>8, <1>9, <1>10, <1>11, <1>12 DEF Prepare

LEMMA PrepareKeeps ==
  ASSUME TypeInv, DepInv, NEW r \in Requests, Prepare(r)
  PROVE  DepInv'
<1>0. /\ op \in [Requests -> Ops] /\ plan \in [Requests -> Plans] /\ pc \in [Requests -> Steps]
      /\ Nothing.kind = "none" /\ DOMAIN NoPlan.labels = {}
  BY DEF TypeInv, MutationsOK, Nothing, NoPlan, NoWrites
<1>1. /\ Same /\ UNCHANGED <<created, stale>> /\ past \subseteq past' /\ pc[r] = "plan"
  BY DEF Prepare, PlanCreate, PlanInclude, PlanUpdate, PlanSetLabels, PlanDeleteVersion,
         PlanDelete, PlanDeleteAll, Planned, Plan, rows, Same
<1>2. \/ End(r)
      \/ pc'[r] = "commit" /\ Forget(r)
      \/ pc'[r] = "remove" /\ Forget(r) /\ UNCHANGED plan
  BY <1>0 DEF Prepare, PlanCreate, PlanInclude, PlanUpdate, PlanSetLabels,
     PlanDeleteVersion, PlanDelete, PlanDeleteAll, Write, Goto
<1>3. \A s \in Requests \ {r} : op'[s] = op[s] /\ plan'[s] = plan[s] /\ pc'[s] = pc[s]
  BY <1>0 DEF Prepare, PlanCreate, PlanInclude, PlanUpdate, PlanSetLabels,
     PlanDeleteVersion, PlanDelete, PlanDeleteAll, Write, Goto, End, Forget
<1>4. /\ op'[r].kind = op[r].kind /\ op'[r].row = op[r].row
      \/ op'[r].kind = "none"
  BY <1>0, <1>2, ForgetKeeps DEF End
<1>5. CreatedInv'
  BY <1>1, <1>3, <1>4 DEF DepInv, CreatedInv, Same
<1>6. BlankInv'
  BY <1>0, <1>2, <1>3 DEF DepInv, BlankInv, End, Goto
<1>a. ASSUME r \notin stale' PROVE Reads(r)'
  <2>1. pc[r] = "plan" /\ (op[r].kind = "create" => op[r].row \notin live)
    BY <1>1, <1>a DEF DepInv, Reads
  <2>2. pc'[r] # "plan"
    BY <1>0, <1>2 DEF End, Goto
  <2>3. QED
    BY <1>1, <1>4, <2>1, <2>2 DEF Reads, Same
<1>7. ASSUME Clean', r \notin stale' PROVE Knows(r)'
  <2>1. Clean /\ HasRead(r) /\ DepHolds
    BY <1>1, <1>7 DEF DepInv, Reads, Clean
  <2>2. CASE End(r)
    BY <1>0, <2>2 DEF End, Goto, Knows
  <2>3. CASE pc'[r] = "commit" /\ Forget(r)
    <3>1. Kept(r)'
      BY <1>1, <1>7, <2>3, PlansKeep
    <3>2. QED
      BY <1>1, <2>1, <2>3, <3>1, ForgetKeeps DEF Knows, Same
  <2>4. CASE pc'[r] = "remove" /\ UNCHANGED plan
    <3>1. PlanDelete(r) \/ PlanDeleteAll(r)
      BY <1>0, <2>4 DEF Prepare, PlanCreate, PlanInclude, PlanUpdate, PlanSetLabels,
         PlanDeleteVersion, Write, Goto, End
    <3>2. dep = NoRef \/ Hit(dep, live \ plan[r].drop, labels)
      <4>1. CASE PlanDelete(r)
        <5>1. /\ ~ Blocks(op[r].versions, plan[r].drop)
              /\ op[r].versions = {version[i] : i \in plan[r].drop}
          BY <1>0, <2>1, <2>4, <4>1 DEF PlanDelete, Plan, HasRead, End, Goto
        <5>2. QED
          BY <2>1, <5>1 DEF DepHolds, Hit, Blocks, DependsOnVersion
      <4>2. CASE PlanDeleteAll(r)
        BY <1>0, <2>4, <4>2 DEF PlanDeleteAll, End, Goto
      <4>3. QED
        BY <3>1, <4>1, <4>2
    <3>3. QED
      BY <1>1, <2>4, <3>2 DEF Knows, Same, Hit
  <2>5. QED
    BY <1>2, <2>2, <2>3, <2>4
<1>8. QED
  BY <1>1, <1>3, <1>a, <1>5, <1>6, <1>7, OthersKnow DEF DepInv

\* A transaction that commits, or a deletion.
LEMMA CommitKeeps ==
  ASSUME TypeInv, DepInv, NEW r \in Requests, Commit(r)
  PROVE  DepInv'
<1>0. /\ op \in [Requests -> Ops] /\ plan \in [Requests -> Plans] /\ pc \in [Requests -> Steps]
      /\ live \subseteq Ids /\ labels \in [Ids -> SUBSET Labels] /\ version \in [Ids -> Nat]
      /\ Nothing.kind = "none" /\ DOMAIN NoPlan.labels = {} /\ created \in Nat
  BY DEF TypeInv, MutationsOK, RowsOK, Nothing, NoPlan, NoWrites
<1>1. /\ pc[r] = "commit" /\ created' = created /\ Overtake(r)
      /\ live' = NewLive(r)
      /\ \A s \in Requests \ {r} : op'[s] = op[s] /\ plan'[s] = plan[s] /\ pc'[s] = pc[s]
  BY <1>0 DEF Commit, ToRotate, Goto
<1>2. \/ op[r].kind = "delete" /\ pc'[r] = "remove" /\ UNCHANGED <<op, plan>>
      \/ op[r].kind # "delete" /\ pc'[r] = "rotate" /\ op'[r] = Nothing /\ plan'[r] = NoPlan
  BY <1>0 DEF Commit, ToRotate, Goto
<1>3. CreatedInv'
  BY <1>0, <1>1, <1>2 DEF DepInv, CreatedInv, NewLive
<1>4. BlankInv'
  BY <1>0, <1>1, <1>2 DEF DepInv, BlankInv
<1>a. \A s \in Requests \ stale' : Reads(s)'
  <2>1. \A s \in Requests \ stale' : pc'[s] \notin {"plan", "commit"}
    BY <1>0, <1>1, <1>2 DEF Overtake
  <2>2. QED
    BY <2>1 DEF Reads
<1>5. ASSUME Clean' PROVE DepHolds' /\ \A s \in Requests \ stale' : Knows(s)'
  <2>1. r \notin stale /\ Clean
    BY <1>1, <1>5 DEF Overtake, Clean
  <2>2. /\ Kept(r)
        /\ op[r].kind = "create" => op[r].row \notin live
    BY <1>1, <2>1 DEF DepInv, Reads, Knows
  <2>3. dep' = Included(r)
    BY DEF Commit, Included
  <2>4. /\ Rest(r) \subseteq live' \cap live
        /\ op[r].kind = "delete" => Rest(r) = live' \ plan[r].drop
        /\ op[r].kind = "create" => op[r].row \in live'
    BY <1>1, <2>2 DEF Rest, NewLive
  <2>5. \A i \in live' : i \in Ids => labels'[i] = NewLabels(r)[i]
    BY DEF Commit
  <2>6. \A i \in Rest(r) : version'[i] = version[i]
    BY <1>0, <2>2, <2>4 DEF Commit
  <2>7. ASSUME dep' # NoRef
        PROVE  \E i \in live' :
                 /\ i \in Rest(r) \/ op[r].kind = "create"
                 /\ \/ dep'.by = "label" /\ dep'.label \in labels'[i]
                    \/ dep'.by = "version" /\ dep'.version = version'[i]
    <3>1. CASE Hit(Included(r), Rest(r), NewLabels(r))
      <4>1. PICK i \in Rest(r) :
              \/ dep'.by = "label" /\ dep'.label \in NewLabels(r)[i]
              \/ dep'.by = "version" /\ dep'.version = version[i]
        BY <2>3, <3>1 DEF Hit
      <4>2. i \in live' /\ i \in Ids
        BY <1>0, <2>4
      <4>3. QED
        BY <2>5, <2>6, <4>1, <4>2
    <3>2. CASE /\ op[r].kind = "create" /\ dep.by = "label"
               /\ dep.label \in op[r].labels
      <4>1. op[r].row \in live' /\ op[r].row \in Ids
        BY <1>0, <2>4, <3>2, PromptsAssumption
        DEF DepInv, CreatedInv, Ids, TypeInv, RowsOK
      <4>2. labels'[op[r].row] = op[r].labels
        BY <2>5, <3>2, <4>1 DEF NewLabels
      <4>3. dep' = dep
        BY <2>3, <3>2 DEF Included
      <4>4. QED
        BY <3>2, <4>1, <4>2, <4>3
    <3>3. QED
      BY <2>2, <2>3, <2>7, <3>1, <3>2 DEF Kept
  <2>8. DepHolds'
    BY <2>7 DEF DepHolds, Hit
  <2>9. ASSUME NEW t \in Requests \ stale' PROVE Knows(t)'
    <3>1. CASE t # r
      BY <1>0, <1>1, <3>1 DEF Overtake, Knows, Steps
    <3>2. CASE t = r /\ pc'[r] = "rotate"
      BY <3>2 DEF Knows
    <3>3. CASE t = r /\ op[r].kind = "delete" /\ pc'[r] = "remove" /\ UNCHANGED plan
      BY <2>4, <2>7, <3>3 DEF Knows, Hit
    <3>4. QED
      BY <1>2, <3>1, <3>2, <3>3
  <2>10. QED
    BY <2>8, <2>9
<1>6. QED
  BY <1>3, <1>4, <1>a, <1>5 DEF DepInv

LEMMA RemoveKeeps ==
  ASSUME TypeInv, DepInv, NEW r \in Requests, Remove(r)
  PROVE  DepInv'
<1>0. /\ op \in [Requests -> Ops] /\ plan \in [Requests -> Plans] /\ pc \in [Requests -> Steps]
      /\ live \subseteq Ids /\ Nothing.kind = "none" /\ DOMAIN NoPlan.labels = {}
  BY DEF TypeInv, MutationsOK, RowsOK, Nothing, NoPlan, NoWrites
<1>1. /\ pc[r] = "remove" /\ UNCHANGED <<created, dep>> /\ Overtake(r)
      /\ live' = live \ plan[r].drop
      /\ pc'[r] = "rotate" /\ op'[r] = Nothing /\ plan'[r] = NoPlan
      /\ \A s \in Requests \ {r} : op'[s] = op[s] /\ plan'[s] = plan[s] /\ pc'[s] = pc[s]
  BY <1>0 DEF Remove, ToRotate, Goto
<1>2. CreatedInv' /\ BlankInv'
  BY <1>0, <1>1 DEF DepInv, CreatedInv, BlankInv
<1>3. ASSUME Clean' PROVE DepHolds'
  <2>1. r \notin stale /\ Clean
    BY <1>1, <1>3 DEF Overtake, Clean
  <2>2. dep = NoRef \/ Hit(dep, live', labels)
    BY <1>1, <2>1 DEF DepInv, Knows
  <2>3. \A i \in live' : labels'[i] = labels[i] /\ version'[i] = version[i]
    BY <1>0, <1>1 DEF Remove
  <2>4. QED
    BY <1>1, <2>2, <2>3 DEF DepHolds, Hit
<1>4. \A s \in Requests \ stale' : Reads(s)' /\ Knows(s)'
  <2>1. \A s \in Requests \ stale' : pc'[s] \in {"idle", "rotate"}
    BY <1>0, <1>1 DEF Overtake, Steps
  <2>2. QED
    BY <2>1 DEF Reads, Knows
<1>5. QED
  BY <1>2, <1>3, <1>4 DEF DepInv

\* A mutation that ends, and what is not a mutation.
LEMMA EndKeeps ==
  ASSUME TypeInv, DepInv, NEW r \in Requests, Rotate(r) \/ Fail(r) \/ RollBack(r)
  PROVE  DepInv'
<1>0. /\ op \in [Requests -> Ops] /\ plan \in [Requests -> Plans] /\ pc \in [Requests -> Steps]
      /\ Nothing.kind = "none" /\ DOMAIN NoPlan.labels = {}
  BY DEF TypeInv, MutationsOK, Nothing, NoPlan, NoWrites
<1>1. Same /\ UNCHANGED created /\ End(r)
  BY DEF Rotate, Fail, RollBack, rows, Same
<1>2. /\ pc'[r] = "idle" /\ op'[r] = Nothing /\ plan'[r] = NoPlan
      /\ \A s \in Requests \ {r} : op'[s] = op[s] /\ plan'[s] = plan[s] /\ pc'[s] = pc[s]
  BY <1>0, <1>1 DEF End, Goto
<1>3. /\ \A s \in Requests \ {r} : s \in stale => s \in stale'
      /\ past \cap {"overtaken", "unlabelled"} \subseteq past'
  BY PromptsAssumption DEF Rotate, Fail, RollBack
<1>4. CreatedInv' /\ BlankInv' /\ Reads(r)' /\ Knows(r)'
  BY <1>0, <1>1, <1>2 DEF DepInv, CreatedInv, BlankInv, Reads, Knows, Same
<1>5. QED
  BY <1>1, <1>2, <1>3, <1>4, OthersKnow DEF DepInv

LEMMA NoMutationKeeps ==
  ASSUME TypeInv, DepInv, UNCHANGED <<rows, mutations, past>>,
         \A s \in Requests : s \in stale => s \in stale'
  PROVE  DepInv'
<1>1. Same /\ UNCHANGED <<created, op, plan, pc>>
  BY DEF rows, mutations, Same
<1>2. CreatedInv' /\ BlankInv' /\ Clean' = Clean
  BY <1>1 DEF DepInv, CreatedInv, BlankInv, Same, Clean
<1>3. DepHolds' = DepHolds
  BY <1>1 DEF DepHolds, Hit, Same
<1>4. QED
  BY <1>1, <1>2, <1>3, SameKnows DEF DepInv

LEMMA DepInit == Init => RowNamed /\ DepInv
<1> SUFFICES ASSUME Init PROVE RowNamed /\ DepInv
  OBVIOUS
<1>1. RowNamed /\ CreatedInv /\ BlankInv
  BY DEF Init, RowNamed, CreatedInv, BlankInv, Nothing, NoPlan, NoWrites
<1>2. DepHolds
  BY DEF Init, DepHolds, Hit, Matches
<1>3. \A r \in Requests : Reads(r) /\ Knows(r)
  BY DEF Init, Reads, Knows
<1>4. QED
  BY <1>1, <1>2, <1>3 DEF DepInv

LEMMA DepStep == TypeInv /\ DepInv /\ [Next]_vars => DepInv'
<1> SUFFICES ASSUME TypeInv, DepInv, [Next]_vars PROVE DepInv'
  OBVIOUS
<1>1. ASSUME NEW d \in Readers, Read(d) PROVE DepInv'
  <2>1. /\ UNCHANGED <<rows, mutations, past>>
        /\ \A s \in Requests : s \in stale => s \in stale'
    BY <1>1, PromptsAssumption
    DEF Read, StartRead, ReadChild, GetKey, CachePrompt, Reading
  <2>2. QED
    BY <2>1, NoMutationKeeps
<1>2. CASE (\E k \in Keys : Expire(k)) \/ UNCHANGED vars
  BY <1>2, NoMutationKeeps DEF Expire, Reading, vars
<1>3. QED
  BY <1>1, <1>2, BeginKeeps, PrepareKeeps, CommitKeeps, RemoveKeeps, EndKeeps DEF Next

(***************************************************************************)
(* However mutations interleave: unless one commits what another one has   *)
(* overtaken, or deletes a dependency without labels, what the other       *)
(* prompt includes resolves, whichever mutations fail half-way.            *)
(***************************************************************************)
THEOREM DependentsAreSafe == Spec => []DependenciesResolve
<1>1. TypeInv /\ DepInv => DependenciesResolve
  BY DEF DepInv, Clean, DepHolds, Hit, Matches, DependenciesResolve
<1>2. QED
  BY <1>1, TypeInit, TypeStep, NamedStep, DepInit, DepStep, PTL DEF Spec
-----------------------------------------------------------------------------
(***************************************************************************)
(* The labels.  Only "latest" is ever shared: between versions that a      *)
(* deletion is about to delete, and the heir that it gave "latest" to,     *)
(* which is then the highest of the versions that are not to be deleted.   *)
(***************************************************************************)
Unraced == past \cap {"overtaken", "half"} = {}

\* Deletions that gave "latest" away and have not deleted yet.
Giving == {r \in Requests : pc[r] = "remove" /\ DOMAIN plan[r].labels # {}}
Dropping == {i \in Ids : \E r \in Giving : i \in plan[r].drop}

Distinct(S, L) == \A i, j \in S : i # j => L[i] \cap L[j] \subseteq {Latest}
Heirs(S, L, D) ==
  \A i \in S \ D, j \in S :
    i # j /\ Latest \in L[i] /\ Latest \in L[j] => i \in Highest(S \ D)

\* What a mutation knows as it commits: the labels that it is about to leave.
NewDropping(r) == Dropping \cup IF op[r].kind = "delete" THEN plan[r].drop ELSE {}
Safe(r) ==
  /\ Distinct(NewLive(r), NewLabels(r))
  /\ Heirs(NewLive(r), NewLabels(r), NewDropping(r))
  /\ op[r].kind = "create" => \A i \in live : Latest \notin NewLabels(r)[i]

VersionsDiffer == \A i, j \in live : version[i] = version[j] => i = j

UniqueInv ==
  /\ Distinct(live, labels)
  /\ Heirs(live, labels, Dropping)
  /\ VersionsDiffer

PushInv == \A r \in Requests : pc[r] \in {"idle", "plan", "rotate"} => plan[r].push = {}
NewestInv == \A r \in Requests : op[r].kind = "create" => Latest \in op[r].labels

LabelInv ==
  /\ PushInv /\ NewestInv
  /\ Unraced => /\ UniqueInv
                /\ \A r \in Requests \ stale : pc[r] = "commit" => Safe(r)

LEMMA DroppingKept ==
  ASSUME NEW r \in Requests,
         \A s \in Requests \ {r} : plan'[s] = plan[s] /\ pc'[s] = pc[s],
         r \notin Giving, r \notin Giving'
  PROVE  Dropping' = Dropping
BY DEF Dropping, Giving

\* A mutation that touches no row of the database.
LEMMA OthersSafe ==
  ASSUME LabelInv, Same, NEW r \in Requests,
         \A s \in Requests \ {r} : op'[s] = op[s] /\ plan'[s] = plan[s] /\ pc'[s] = pc[s],
         \A s \in Requests \ {r} : s \in stale => s \in stale',
         past \cap {"overtaken", "half"} \subseteq past',
         Unraced' => Dropping' = Dropping
  PROVE  Unraced' => /\ UniqueInv'
                     /\ \A s \in Requests \ (stale' \cup {r}) : pc'[s] = "commit" => Safe(s)'
<1> SUFFICES ASSUME Unraced'
             PROVE  /\ UniqueInv'
                    /\ \A s \in Requests \ (stale' \cup {r}) : pc'[s] = "commit" => Safe(s)'
  OBVIOUS
<1>1. Unraced /\ Dropping' = Dropping /\ live' = live /\ labels' = labels /\ version' = version
  BY DEF Unraced, Same
<1>2. UniqueInv'
  BY <1>1 DEF LabelInv, UniqueInv, Distinct, Heirs, VersionsDiffer, Highest
<1>3. ASSUME NEW s \in Requests \ (stale' \cup {r}), pc'[s] = "commit" PROVE Safe(s)'
  <2>1. Safe(s)
    BY <1>1, <1>3 DEF LabelInv
  <2>2. NewLive(s)' = NewLive(s) /\ NewLabels(s)' = NewLabels(s) /\ NewDropping(s)' = NewDropping(s)
        /\ op'[s] = op[s]
    BY <1>1 DEF NewLive, NewLabels, NewDropping
  <2>3. QED
    BY <1>1, <2>1, <2>2 DEF Safe, Distinct, Heirs, Highest
<1>4. QED
  BY <1>2, <1>3

\* A creation labels its version "latest".
LEMMA BeginLooks ==
  ASSUME NEW r \in Requests, Begin(r)
  PROVE  \E what, drop : /\ Look(r, what, drop)
                         /\ what.kind = "create" => Latest \in what.labels
<1>0. Nothing.kind = "none"
  BY DEF Nothing
<1>1. ASSUME NEW L, LookCreate(r, L)
      PROVE  \E what, drop : Look(r, what, drop) /\ Latest \in what.labels
  <2>1. PICK v \in NextVersions :
          Look(r, [Nothing EXCEPT !.kind = "create", !.row = created + 1,
                     !.versions = {v}, !.labels = L \cup {Latest}], {})
    BY <1>1 DEF LookCreate
  <2> DEFINE what == [Nothing EXCEPT !.kind = "create", !.row = created + 1,
                        !.versions = {v}, !.labels = L \cup {Latest}]
  <2>2. Latest \in what.labels /\ Look(r, what, {})
    BY <2>1 DEF Nothing
  <2> HIDE DEF what
  <2>3. QED
    BY <2>2
<1>2. ASSUME NEW ref, LookInclude(r, ref)
      PROVE  \E what, drop : Look(r, what, drop) /\ what.kind # "create"
  <2> DEFINE what == [Nothing EXCEPT !.kind = "include", !.ref = ref]
  <2>1. what.kind # "create" /\ Look(r, what, {})
    BY <1>2 DEF LookInclude, Nothing
  <2> HIDE DEF what
  <2>2. QED
    BY <2>1
<1>3. ASSUME NEW i, NEW L, NEW drop, NEW kind \in {"update", "setLabels", "deleteVersion"},
             LookRow(r, kind, i, L, drop)
      PROVE  \E what, d : Look(r, what, d) /\ what.kind # "create"
  <2> DEFINE what == [Nothing EXCEPT !.kind = kind, !.row = i, !.labels = L,
                        !.versions = {version[i]}, !.old = labels[i]]
  <2>1. what.kind # "create" /\ Look(r, what, drop)
    BY <1>3 DEF LookRow, Nothing
  <2> HIDE DEF what
  <2>2. QED
    BY <2>1
<1>4. ASSUME NEW S, NEW kind \in {"delete", "deleteAll"}, LookDelete(r, S, kind)
      PROVE  \E what, drop : Look(r, what, drop) /\ what.kind # "create"
  <2> DEFINE what == [Nothing EXCEPT !.kind = kind,
                        !.versions = {version[i] : i \in S},
                        !.old = UNION {labels[i] : i \in S}]
  <2>1. what.kind # "create" /\ Look(r, what, S)
    BY <1>4 DEF LookDelete, Nothing
  <2> HIDE DEF what
  <2>2. QED
    BY <2>1
<1>5. QED
  BY <1>1, <1>2, <1>3, <1>4
  DEF Begin, LookUpdate, LookSetLabels, LookDeleteVersion

LEMMA BeginSafe ==
  ASSUME TypeInv, LabelInv, NEW r \in Requests, Begin(r)
  PROVE  LabelInv'
<1>0. /\ pc \in [Requests -> Steps] /\ op \in [Requests -> Ops] /\ plan \in [Requests -> Plans]
  BY DEF TypeInv, MutationsOK
<1>1. PICK what, drop : /\ Look(r, what, drop)
                        /\ what.kind = "create" => Latest \in what.labels
  BY BeginLooks
<1>2. /\ pc[r] = "idle" /\ pc'[r] = "plan" /\ op'[r] = what /\ plan'[r].push = plan[r].push
      /\ Same /\ UNCHANGED <<stale, past>>
      /\ \A s \in Requests \ {r} : op'[s] = op[s] /\ plan'[s] = plan[s] /\ pc'[s] = pc[s]
  BY <1>0, <1>1 DEF Look, Same, Plans
<1>3. PushInv' /\ NewestInv'
  BY <1>1, <1>2 DEF LabelInv, PushInv, NewestInv
<1>4. Dropping' = Dropping
  BY <1>2, DroppingKept DEF Giving
<1>5. QED
  BY <1>2, <1>3, <1>4, OthersSafe DEF LabelInv
\* The labels L move to a version, and are taken from all others.
LEMMA MoveSafe ==
  ASSUME Distinct(live, labels), NEW D, Heirs(live, labels, D),
         NEW L, NEW k, NEW K, NEW f,
         f[k] \subseteq L \cup K,
         \A j \in live \ {k} : f[j] \subseteq labels[j] /\ f[j] \cap L = {},
         \/ k \in live /\ K \subseteq labels[k]
         \/ K = {} /\ Latest \in L
  PROVE  Distinct(live \cup {k}, f) /\ Heirs(live \cup {k}, f, D)
<1> DEFINE S == live \cup {k}
<1>1. ASSUME NEW i \in S, NEW j \in S, i # j
      PROVE  f[i] \cap f[j] \subseteq {Latest}
  <2>1. CASE i # k /\ j # k
    BY <1>1, <2>1 DEF Distinct
  <2>2. ASSUME NEW x \in live \ {k} PROVE f[k] \cap f[x] \subseteq {Latest}
    <3>1. f[k] \cap f[x] \subseteq K \cap labels[x]
      BY <2>2
    <3>2. K = {} \/ (k \in live /\ labels[k] \cap labels[x] \subseteq {Latest} /\ K \subseteq labels[k])
      BY <2>2 DEF Distinct
    <3>3. QED
      BY <3>1, <3>2
  <2>3. QED
    BY <1>1, <2>1, <2>2
<1>2. ASSUME NEW i \in S \ D, NEW j \in S, i # j, Latest \in f[i], Latest \in f[j]
      PROVE  i \in Highest(S \ D)
  <2>1. Latest \notin L /\ k \in live /\ K \subseteq labels[k]
    BY <1>2
  <2>2. S = live /\ Latest \in labels[i] /\ Latest \in labels[j]
    BY <1>2, <2>1
  <2>3. QED
    BY <1>2, <2>2 DEF Heirs
<1>3. QED
  BY <1>1, <1>2 DEF Distinct, Heirs

\* What a mutation plans is safe, when the labels are.
LEMMA PlansSafe ==
  ASSUME TypeInv, DepInv, LabelInv, NEW r \in Requests, Prepare(r), Same, Dropping' = Dropping,
         Unraced, r \notin stale, pc'[r] = "commit"
  PROVE  Safe(r)'
<1>0. /\ HasRead(r) /\ DOMAIN plan[r].labels = {} /\ plan[r].push = {} /\ pc[r] = "plan"
      /\ op[r].kind = "create" => op[r].row \notin live /\ Latest \in op[r].labels
                                  /\ op[r].row \in Ids
      /\ Distinct(live, labels) /\ Heirs(live, labels, Dropping)
  <2>1. pc[r] = "plan"
    BY DEF Prepare, PlanCreate, PlanInclude, PlanUpdate, PlanSetLabels, PlanDeleteVersion,
           PlanDelete, PlanDeleteAll, Plan
  <2>2. op[r].kind = "create" => op[r].row \in Ids
    BY PromptsAssumption DEF DepInv, CreatedInv, TypeInv, RowsOK, Ids
  <2>3. QED
    BY <2>1, <2>2 DEF DepInv, Reads, BlankInv, LabelInv, UniqueInv, PushInv, NewestInv
<1>1. /\ op \in [Requests -> Ops] /\ plan \in [Requests -> Plans] /\ op[r] \in Ops
      /\ live \subseteq Ids /\ labels \in [Ids -> SUBSET Labels]
      /\ live' = live /\ labels' = labels /\ version' = version /\ Dropping' = Dropping
  BY DEF TypeInv, MutationsOK, RowsOK, Same
<1>2. ~ End(r)
  BY <1>1 DEF End, Goto, TypeInv, MutationsOK
<1>3. \A S : Highest(S)' = Highest(S)
  BY <1>1 DEF Highest
<1>a. ASSUME NEW S, NEW f, S = NewLive(r)', \A i \in S : NewLabels(r)'[i] = f[i],
             Distinct(S, f), Heirs(S, f, NewDropping(r)'),
             op'[r].kind = "create" => \A i \in live : Latest \notin NewLabels(r)'[i]
      PROVE  Safe(r)'
  BY <1>1, <1>3, <1>a DEF Safe, Distinct, Heirs
<1>4. ASSUME NEW g, Write(r, g)
      PROVE  /\ plan'[r].labels = g /\ plan'[r].push = {} /\ plan'[r].drop = plan[r].drop
             /\ op'[r].kind = op[r].kind /\ op'[r].row = op[r].row
             /\ op[r].kind = "create" => op'[r].labels = op[r].labels
  BY <1>0, <1>1, <1>4, ForgetKeeps DEF Write, Plans
<1>5. ASSUME PlanCreate(r) PROVE Safe(r)'
  <2> DEFINE L == op[r].labels
             k == op[r].row
             g == [j \in Labelled(L) |-> labels[j] \ L]
             f == NewLabels(r)'
  <2>1. /\ op[r].kind = "create" /\ op'[r].kind = "create" /\ op'[r].row = k
        /\ op'[r].labels = L /\ plan'[r].labels = g /\ plan'[r].push = {}
        /\ k \notin live /\ k \in Ids /\ Latest \in L
    BY <1>0, <1>4, <1>5 DEF PlanCreate, Plan
  <2>2. NewLive(r)' = live \cup {k} /\ NewDropping(r)' = Dropping
    BY <1>1, <2>1 DEF NewLive, NewDropping
  <2>3. f[k] \subseteq L
    BY <2>1 DEF NewLabels
  <2>4. \A j \in live \ {k} : f[j] \subseteq labels[j] /\ f[j] \cap L = {}
    BY <1>1, <2>1 DEF NewLabels, Labelled
  <2>5. \A i \in live : Latest \notin f[i]
    BY <2>1, <2>4
  <2> HIDE DEF f, L, k
  <2>6. Distinct(live \cup {k}, f) /\ Heirs(live \cup {k}, f, Dropping)
    BY <1>0, <2>1, <2>3, <2>4, MoveSafe
  <2>7. QED
    BY <1>a, <2>2, <2>5, <2>6 DEF f
<1>6. ASSUME PlanInclude(r) PROVE Safe(r)'
  <2>1. /\ op[r].kind = "include" /\ op'[r].kind = "include" /\ plan'[r].push = {}
        /\ plan'[r].labels = NoWrites
    BY <1>4, <1>6 DEF PlanInclude, Plan
  <2>2. DOMAIN NoWrites = {}
    BY DEF NoWrites
  <2>3. NewLive(r)' = live /\ NewDropping(r)' = Dropping
    BY <1>1, <2>1 DEF NewLive, NewDropping
  <2>4. \A i \in live : NewLabels(r)'[i] = labels[i]
    BY <1>1, <2>1, <2>2 DEF NewLabels
  <2>5. QED
    BY <1>0, <1>a, <2>1, <2>3, <2>4
<1>7. ASSUME NEW L, NEW K, K \subseteq labels[op[r].row],
             op[r].kind \in {"update", "setLabels"},
             Write(r, Move(L, op[r].row, L \cup K))
      PROVE  Safe(r)'
  <2> DEFINE k == op[r].row
             g == Move(L, k, L \cup K)
             f == NewLabels(r)'
  <2>1. /\ op'[r].kind = op[r].kind /\ plan'[r].labels = g /\ plan'[r].push = {} /\ k \in live
    BY <1>0, <1>4, <1>7 DEF HasRead
  <2>2. NewLive(r)' = live \cup {k} /\ NewDropping(r)' = Dropping
    BY <1>1, <1>7, <2>1 DEF NewLive, NewDropping
  <2>3. DOMAIN g = Labelled(L) \cup {k} /\ g[k] = L \cup K
        /\ \A j \in Labelled(L) \ {k} : g[j] = labels[j] \ L
    BY DEF Move
  <2> HIDE DEF g
  <2>4. f[k] = L \cup K
    BY <1>1, <1>7, <2>1, <2>3 DEF NewLabels
  <2>5. \A j \in live \ {k} : f[j] \subseteq labels[j] /\ f[j] \cap L = {}
    BY <1>1, <1>7, <2>1, <2>3 DEF NewLabels, Labelled
  <2>6. Distinct(live \cup {k}, f) /\ Heirs(live \cup {k}, f, Dropping)
    <3> HIDE DEF f
    <3>1. f[k] \subseteq L \cup K /\ K \subseteq labels[k]
      BY <1>7, <2>4
    <3> HIDE DEF k
    <3>2. QED
      BY <1>0, <2>1, <2>5, <3>1, MoveSafe
  <2>7. QED
    BY <1>7, <1>a, <2>1, <2>2, <2>6
<1>8. ASSUME PlanUpdate(r) PROVE Safe(r)'
  <2>1. /\ op[r].kind = "update" /\ op[r].old = labels[op[r].row]
        /\ Write(r, Move(op[r].labels, op[r].row, op[r].labels \cup op[r].old))
    BY <1>0, <1>8 DEF PlanUpdate, Plan, HasRead
  <2>2. QED
    BY <1>7, <2>1
<1>9. ASSUME PlanSetLabels(r) PROVE Safe(r)'
  <2>1. /\ op[r].kind = "setLabels"
        /\ Write(r, Move(op[r].labels, op[r].row, op[r].labels))
    BY <1>2, <1>9 DEF PlanSetLabels, Plan
  <2> DEFINE L == op[r].labels
             K == {}
  <2>2. K \subseteq labels[op[r].row] /\ L = L \cup K
    OBVIOUS
  <2>3. Write(r, Move(L, op[r].row, L \cup K)) /\ op[r].kind \in {"update", "setLabels"}
    BY <2>1, <2>2
  <2> HIDE DEF K, L
  <2>4. QED
    BY <1>7, <2>2, <2>3
<1>10. ASSUME PlanDeleteVersion(r) PROVE Safe(r)'
  <2> DEFINE k == op[r].row
             S == live \ {k}
             f == NewLabels(r)'
             push == IF Latest \in labels[k] THEN Highest(S) ELSE {}
  <2>1. /\ op[r].kind = "deleteVersion" /\ plan[r].drop = {k} /\ k \in live
        /\ op[r].old = labels[k]
    BY <1>0, <1>10 DEF PlanDeleteVersion, Plan, HasRead
  <2>2. /\ op'[r].kind = "deleteVersion" /\ plan'[r].labels = plan[r].labels
        /\ plan'[r].drop = {k} /\ plan'[r].push = push
    <3>1. /\ Forget(r)
          /\ Latest \in op[r].old <=> Latest \in labels[k]
          /\ plan' = [plan EXCEPT ![r].push =
                        IF Latest \in op[r].old THEN Highest(S) ELSE {}]
      BY <1>2, <1>10, <2>1 DEF PlanDeleteVersion
    <3>2. op'[r].kind = "deleteVersion"
      BY <2>1, <3>1, ForgetKeeps
    <3>3. plan'[r] = [plan[r] EXCEPT !.push = push]
      BY <1>1, <2>1, <3>1
    <3> HIDE DEF push
    <3>4. QED
      BY <1>1, <2>1, <3>2, <3>3 DEF Plans
  <2>3. NewLive(r)' = S /\ NewDropping(r)' = Dropping
    BY <1>1, <2>2 DEF NewLive, NewDropping
  <2>4. \A i \in S : f[i] = labels[i] \/ (i \in push /\ f[i] = labels[i] \cup {Latest})
    BY <1>0, <1>1, <2>2 DEF NewLabels
  <2> HIDE DEF f
  <2>5. Distinct(S, f)
    BY <1>0, <2>4 DEF Distinct
  <2>6. ASSUME NEW i \in S \ Dropping, NEW j \in S, i # j, Latest \in f[i], Latest \in f[j]
        PROVE  i \in Highest(S \ Dropping)
    <3>1. CASE i \in push
      BY <2>6, <3>1 DEF Highest
    <3>2. CASE i \notin push
      <4>1. Latest \in labels[i] /\ (Latest \in labels[k] \/ Latest \in labels[j])
        BY <2>4, <2>6, <3>2
      <4>2. i \in Highest(live \ Dropping)
        BY <1>0, <2>1, <2>6, <4>1 DEF Heirs
      <4>3. QED
        BY <2>6, <4>2 DEF Highest
    <3>3. QED
      BY <3>1, <3>2
  <2>7. QED
    <3>1. Heirs(S, f, Dropping)
      BY <2>6 DEF Heirs
    <3>2. QED
      BY <1>a, <2>2, <2>3, <2>5, <3>1 DEF f
<1>11. ASSUME PlanDelete(r) PROVE Safe(r)'
  <2> DEFINE D == plan[r].drop
             rest == live \ D
             g == [i \in Highest(rest) |-> labels[i] \cup {Latest}]
             f == NewLabels(r)'
  <2>1. op[r].kind = "delete"
    BY <1>11 DEF PlanDelete, Plan
  <2>2. Write(r, g) /\ \A i \in rest : Latest \notin labels[i]
    <3>1. ~ Goto(r, "remove")
      BY <1>1 DEF Goto, TypeInv, MutationsOK
    <3>2. QED
      BY <1>2, <1>11, <3>1 DEF PlanDelete
  <2>3. /\ op'[r].kind = "delete" /\ plan'[r].labels = g /\ plan'[r].push = {} /\ plan'[r].drop = D
    BY <1>4, <2>1, <2>2
  <2>4. NewLive(r)' = live /\ NewDropping(r)' = Dropping \cup D
    BY <1>1, <2>3 DEF NewLive, NewDropping
  <2>5. \A i \in live : f[i] = labels[i]
                        \/ (i \in Highest(rest) /\ f[i] = labels[i] \cup {Latest})
    BY <1>1, <2>3 DEF NewLabels
  <2> HIDE DEF f
  <2>6. Distinct(live, f)
    BY <1>0, <2>5 DEF Distinct
  <2>7. Heirs(live, f, Dropping \cup D)
    <3> SUFFICES ASSUME NEW i \in live \ (Dropping \cup D), Latest \in f[i]
                 PROVE  i \in Highest(live \ (Dropping \cup D))
      BY DEF Heirs
    <3>1. i \in Highest(rest)
      BY <2>2, <2>5
    <3>2. QED
      BY <3>1 DEF Highest
  <2>8. QED
    BY <1>a, <2>3, <2>4, <2>6, <2>7 DEF f
<1>12. ~ PlanDeleteAll(r)
  BY <1>1, <1>2 DEF PlanDeleteAll, Goto, TypeInv, MutationsOK
<1>13. QED
  BY <1>5, <1>6, <1>8, <1>9, <1>10, <1>11, <1>12 DEF Prepare

LEMMA PrepareSafe ==
  ASSUME TypeInv, DepInv, LabelInv, NEW r \in Requests, Prepare(r)
  PROVE  LabelInv'
<1>0. /\ op \in [Requests -> Ops] /\ plan \in [Requests -> Plans] /\ pc \in [Requests -> Steps]
      /\ Nothing.kind = "none" /\ NoPlan.push = {}
  BY DEF TypeInv, MutationsOK, Nothing, NoPlan
<1>1. /\ Same /\ UNCHANGED stale /\ past \subseteq past' /\ pc[r] = "plan"
      /\ past' \cap {"overtaken", "half"} = past \cap {"overtaken", "half"}
  BY DEF Prepare, PlanCreate, PlanInclude, PlanUpdate, PlanSetLabels, PlanDeleteVersion,
         PlanDelete, PlanDeleteAll, Planned, Plan, rows, Same
<1>2. \/ End(r)
      \/ pc'[r] = "commit" /\ Forget(r)
      \/ pc'[r] = "remove" /\ Forget(r) /\ UNCHANGED plan
  BY <1>0 DEF Prepare, PlanCreate, PlanInclude, PlanUpdate, PlanSetLabels,
     PlanDeleteVersion, PlanDelete, PlanDeleteAll, Write, Goto
<1>3. \A s \in Requests \ {r} : op'[s] = op[s] /\ plan'[s] = plan[s] /\ pc'[s] = pc[s]
  BY <1>0 DEF Prepare, PlanCreate, PlanInclude, PlanUpdate, PlanSetLabels,
     PlanDeleteVersion, PlanDelete, PlanDeleteAll, Write, Goto, End, Forget
<1>4. PushInv'
  <2>1. End(r) => plan'[r].push = {}
    BY <1>0 DEF End
  <2>2. QED
    BY <1>0, <1>2, <1>3, <2>1 DEF LabelInv, PushInv, End, Goto
<1>5. NewestInv'
  <2>1. End(r) => op'[r].kind # "create"
    BY <1>0 DEF End
  <2>2. Forget(r) => /\ op'[r].kind = op[r].kind
                     /\ op[r].kind = "create" => op'[r].labels = op[r].labels
    BY ForgetKeeps
  <2>3. QED
    BY <1>2, <1>3, <2>1, <2>2 DEF LabelInv, NewestInv
<1>6. Dropping' = Dropping
  <2>1. r \notin Giving
    BY <1>1 DEF Giving
  <2>2. r \notin Giving'
    BY <1>0, <1>1, <1>2 DEF Giving, DepInv, BlankInv, End, Goto
  <2>3. QED
    BY <1>3, <2>1, <2>2, DroppingKept
<1>7. ASSUME Unraced', r \notin stale', pc'[r] = "commit" PROVE Safe(r)'
  BY <1>1, <1>6, <1>7, PlansSafe DEF Unraced
<1>8. QED
  BY <1>1, <1>3, <1>4, <1>5, <1>6, <1>7, OthersSafe DEF LabelInv
\* Its commit leaves what it knew; nobody else is sure of anything any more.
LEMMA CommitSafe ==
  ASSUME TypeInv, FreshInv, DepInv, LabelInv, NEW r \in Requests, Commit(r)
  PROVE  LabelInv'
<1>0. /\ op \in [Requests -> Ops] /\ plan \in [Requests -> Plans] /\ pc \in [Requests -> Steps]
      /\ live \subseteq Ids /\ labels \in [Ids -> SUBSET Labels] /\ version \in [Ids -> Nat]
      /\ Nothing.kind = "none" /\ NoPlan.push = {}
  BY DEF TypeInv, MutationsOK, RowsOK, Nothing, NoPlan
<1>1. /\ pc[r] = "commit" /\ Overtake(r) /\ live' = NewLive(r)
      /\ \A s \in Requests \ {r} : op'[s] = op[s] /\ plan'[s] = plan[s] /\ pc'[s] = pc[s]
  BY <1>0 DEF Commit, ToRotate, Goto
<1>2. \/ op[r].kind = "delete" /\ pc'[r] = "remove" /\ UNCHANGED <<op, plan>>
      \/ op[r].kind # "delete" /\ pc'[r] = "rotate" /\ op'[r] = Nothing /\ plan'[r] = NoPlan
  BY <1>0 DEF Commit, ToRotate, Goto
<1>3. PushInv' /\ NewestInv'
  BY <1>0, <1>1, <1>2 DEF LabelInv, PushInv, NewestInv
<1>4. \A s \in Requests \ stale' : pc'[s] # "commit"
  BY <1>0, <1>1, <1>2 DEF Overtake
<1>5. Dropping' = NewDropping(r)
  <2>1. r \notin Giving /\ \A s \in Requests \ {r} : s \in Giving' <=> s \in Giving
    BY <1>1 DEF Giving
  <2>2. CASE op[r].kind = "delete"
    <3>1. r \in Giving'
      BY <1>1, <1>2, <2>2 DEF Giving, FreshInv, DeletesWrite
    <3>2. UNCHANGED plan
      BY <1>2, <2>2
    <3>3. plan[r].drop \subseteq Ids
      BY <1>0 DEF Plans
    <3>4. \A i \in Ids : i \in Dropping' <=> i \in Dropping \/ i \in plan[r].drop
      BY <2>1, <3>1, <3>2 DEF Dropping, Giving
    <3>5. Dropping \subseteq Ids /\ Dropping' \subseteq Ids
      BY DEF Dropping
    <3>6. QED
      BY <2>2, <3>3, <3>4, <3>5 DEF NewDropping
  <2>3. CASE op[r].kind # "delete"
    <3>1. r \notin Giving'
      BY <1>2, <2>3 DEF Giving
    <3>2. QED
      BY <1>1, <2>1, <2>3, <3>1, DroppingKept DEF NewDropping
  <2>4. QED
    BY <2>2, <2>3
<1>6. ASSUME Unraced' PROVE UniqueInv'
  <2>1. r \notin stale /\ Unraced
    BY <1>1, <1>6 DEF Overtake, Unraced
  <2>2. Safe(r) /\ UniqueInv /\ (op[r].kind = "create" => op[r].row \notin live)
    BY <1>1, <2>1 DEF LabelInv, DepInv, Reads
  <2>3. live' \subseteq Ids /\ \A i \in live' : labels'[i] = NewLabels(r)[i]
    <3>1. op[r].kind = "create" => op[r].row \in Ids
      BY PromptsAssumption DEF DepInv, CreatedInv, TypeInv, RowsOK, Ids
    <3>2. live' \subseteq Ids
      BY <1>0, <1>1, <3>1 DEF NewLive
    <3>3. QED
      BY <3>2 DEF Commit
  <2>4. Distinct(live', labels')
    BY <1>1, <2>2, <2>3 DEF Safe, Distinct
  <2>5. CASE op[r].kind = "create"
    <3>1. live' = live \cup {op[r].row} /\ \A i \in live : Latest \notin labels'[i]
      BY <1>1, <2>2, <2>3, <2>5 DEF NewLive, Safe
    <3>2. \A i, j \in live' : i # j => ~ (Latest \in labels'[i] /\ Latest \in labels'[j])
      BY <3>1
    <3>4. PICK v \in op[r].versions : version' = [version EXCEPT ![op[r].row] = v]
      BY <2>5 DEF Commit
    <3>5. \A i \in live : version'[i] = version[i] /\ version[i] # v
      BY <1>0, <2>2, <2>5, <3>4 DEF Commit, Fits
    <3>6. op[r].row \in live' => version'[op[r].row] = v
      BY <1>0, <2>3, <3>4
    <3>7. VersionsDiffer'
      BY <2>2, <3>1, <3>5, <3>6 DEF UniqueInv, VersionsDiffer
    <3>8. QED
      BY <2>4, <3>2, <3>7 DEF UniqueInv, Heirs
  <2>6. CASE op[r].kind # "create"
    <3>1. live' \subseteq live
      BY <1>1, <2>6 DEF NewLive
    <3>2. \A i \in live' : version'[i] = version[i]
      BY <2>3, <2>6 DEF Commit
    <3>3. VersionsDiffer'
      BY <2>2, <3>1, <3>2 DEF UniqueInv, VersionsDiffer
    <3>4. ASSUME NEW i \in live' \ Dropping', NEW j \in live', i # j,
                 Latest \in labels'[i], Latest \in labels'[j]
          PROVE  \A k \in live' \ Dropping' : version'[k] <= version'[i]
      <4>1. i \in Highest(live' \ Dropping')
        BY <1>1, <1>5, <2>2, <2>3, <3>4 DEF Safe, Heirs
      <4>2. QED
        BY <3>2, <3>4, <4>1 DEF Highest
    <3>5. QED
      BY <2>4, <3>3, <3>4 DEF UniqueInv, Heirs, Highest
  <2>7. QED
    BY <2>5, <2>6
<1>7. QED
  BY <1>3, <1>4, <1>6 DEF LabelInv

LEMMA RemoveSafe ==
  ASSUME TypeInv, LabelInv, NEW r \in Requests, Remove(r)
  PROVE  LabelInv'
<1>0. /\ op \in [Requests -> Ops] /\ plan \in [Requests -> Plans] /\ pc \in [Requests -> Steps]
      /\ live \subseteq Ids /\ labels \in [Ids -> SUBSET Labels] /\ version \in [Ids -> Nat]
      /\ Nothing.kind = "none" /\ NoPlan.push = {}
  BY DEF TypeInv, MutationsOK, RowsOK, Nothing, NoPlan
<1>1. /\ pc[r] = "remove" /\ Overtake(r) /\ live' = live \ plan[r].drop
      /\ pc'[r] = "rotate" /\ op'[r] = Nothing /\ plan'[r] = NoPlan
      /\ \A s \in Requests \ {r} : op'[s] = op[s] /\ plan'[s] = plan[s] /\ pc'[s] = pc[s]
  BY <1>0 DEF Remove, ToRotate, Goto
<1>2. PushInv' /\ NewestInv'
  BY <1>0, <1>1 DEF LabelInv, PushInv, NewestInv
<1>3. \A s \in Requests \ stale' : pc'[s] # "commit"
  BY <1>0, <1>1 DEF Overtake
<1>4. \A i \in live' : labels'[i] = labels[i] /\ version'[i] = version[i]
  BY <1>0, <1>1 DEF Remove
<1>5. Dropping \subseteq Dropping' \cup plan[r].drop
  BY <1>1 DEF Dropping, Giving
<1>6. ASSUME Unraced' PROVE UniqueInv'
  <2>1. UniqueInv
    BY <1>1, <1>6 DEF Overtake, Unraced, LabelInv
  <2>2. Distinct(live', labels') /\ VersionsDiffer'
    BY <1>1, <1>4, <2>1 DEF UniqueInv, Distinct, VersionsDiffer
  <2>3. ASSUME NEW i \in live' \ Dropping', NEW j \in live', i # j,
               Latest \in labels'[i], Latest \in labels'[j]
        PROVE  \A k \in live' \ Dropping' : version'[k] <= version'[i]
    <3>1. live' \ Dropping' \subseteq live \ Dropping
      BY <1>1, <1>5
    <3>2. i \in Highest(live \ Dropping)
      BY <1>1, <1>4, <2>1, <2>3, <3>1 DEF UniqueInv, Heirs
    <3>3. QED
      BY <1>4, <2>3, <3>1, <3>2 DEF Highest
  <2>4. QED
    BY <2>2, <2>3 DEF UniqueInv, Heirs, Highest
<1>7. QED
  BY <1>2, <1>3, <1>6 DEF LabelInv

\* A deletion that ends between its two writes is remembered.
LEMMA EndSafe ==
  ASSUME TypeInv, LabelInv, NEW r \in Requests, Rotate(r) \/ Fail(r) \/ RollBack(r)
  PROVE  LabelInv'
<1>0. /\ op \in [Requests -> Ops] /\ plan \in [Requests -> Plans] /\ pc \in [Requests -> Steps]
      /\ Nothing.kind = "none" /\ NoPlan.push = {}
  BY DEF TypeInv, MutationsOK, Nothing, NoPlan
<1>1. Same /\ End(r)
  BY DEF Rotate, Fail, RollBack, rows, Same
<1>2. /\ pc'[r] = "idle" /\ op'[r] = Nothing /\ plan'[r] = NoPlan
      /\ \A s \in Requests \ {r} : op'[s] = op[s] /\ plan'[s] = plan[s] /\ pc'[s] = pc[s]
  BY <1>0, <1>1 DEF End, Goto
<1>3. /\ \A s \in Requests \ {r} : s \in stale => s \in stale'
      /\ past \cap {"overtaken", "half"} \subseteq past'
  BY PromptsAssumption DEF Rotate, Fail, RollBack
<1>4. PushInv' /\ NewestInv'
  BY <1>0, <1>2 DEF LabelInv, PushInv, NewestInv
<1>5. Unraced' => Dropping' = Dropping
  <2>1. ASSUME Unraced' PROVE r \notin Giving
    BY <2>1 DEF Rotate, Fail, RollBack, Giving, Unraced
  <2>2. r \notin Giving'
    BY <1>2 DEF Giving
  <2>3. QED
    BY <1>2, <2>1, <2>2, DroppingKept
<1>6. QED
  BY <1>1, <1>2, <1>3, <1>4, <1>5, OthersSafe DEF LabelInv

LEMMA NoMutationSafe ==
  ASSUME LabelInv, UNCHANGED <<rows, mutations, past>>,
         \A s \in Requests : s \in stale => s \in stale'
  PROVE  LabelInv'
<1>1. Same /\ UNCHANGED <<op, plan, pc, past>>
  BY DEF rows, mutations, Same
<1>2. PushInv' /\ NewestInv'
  BY <1>1 DEF LabelInv, PushInv, NewestInv
<1>3. Dropping' = Dropping
  BY <1>1 DEF Dropping, Giving
<1>5. ASSUME Unraced' PROVE UniqueInv'
  <2>1. UniqueInv
    BY <1>1, <1>5 DEF LabelInv, Unraced
  <2>2. QED
    BY <1>1, <1>3, <2>1 DEF Same, UniqueInv, Distinct, Heirs, VersionsDiffer, Highest
<1>6. ASSUME Unraced', NEW s \in Requests \ stale', pc'[s] = "commit" PROVE Safe(s)'
  <2>1. Safe(s)
    BY <1>1, <1>6 DEF LabelInv, Unraced
  <2>2. NewLive(s)' = NewLive(s) /\ NewLabels(s)' = NewLabels(s) /\ NewDropping(s)' = NewDropping(s)
        /\ op'[s] = op[s] /\ live' = live /\ version' = version
    BY <1>1, <1>3 DEF Same, NewLive, NewLabels, NewDropping
  <2>3. QED
    BY <2>1, <2>2 DEF Safe, Distinct, Heirs, Highest
<1>7. QED
  BY <1>2, <1>5, <1>6 DEF LabelInv

LEMMA LabelInit == Init => LabelInv
<1> SUFFICES ASSUME Init PROVE LabelInv
  OBVIOUS
<1>1. PushInv /\ NewestInv
  BY DEF Init, PushInv, NewestInv, Nothing, NoPlan
<1>2. live \subseteq Ids
  BY PromptsAssumption DEF Init, Ids
<1>3. \A i, j \in live : i # j => labels[i] \cap labels[j] = {}
  BY <1>2 DEF Init
<1>4. Distinct(live, labels) /\ Heirs(live, labels, Dropping)
  BY <1>3 DEF Distinct, Heirs
<1>5. VersionsDiffer
  BY <1>2 DEF Init, VersionsDiffer
<1>6. \A r \in Requests : pc[r] # "commit"
  BY DEF Init
<1>7. QED
  BY <1>1, <1>4, <1>5, <1>6 DEF LabelInv, UniqueInv

LEMMA LabelStep == TypeInv /\ FreshInv /\ DepInv /\ LabelInv /\ [Next]_vars => LabelInv'
<1> SUFFICES ASSUME TypeInv, FreshInv, DepInv, LabelInv, [Next]_vars PROVE LabelInv'
  OBVIOUS
<1>1. ASSUME NEW d \in Readers, Read(d) PROVE LabelInv'
  <2>1. /\ UNCHANGED <<rows, mutations, past>>
        /\ \A s \in Requests : s \in stale => s \in stale'
    BY <1>1, PromptsAssumption
    DEF Read, StartRead, ReadChild, GetKey, CachePrompt, Reading
  <2>2. QED
    BY <2>1, NoMutationSafe
<1>2. CASE (\E k \in Keys : Expire(k)) \/ UNCHANGED vars
  BY <1>2, NoMutationSafe DEF Expire, Reading, vars
<1>3. QED
  BY <1>1, <1>2, BeginSafe, PrepareSafe, CommitSafe, RemoveSafe, EndSafe DEF Next

(***************************************************************************)
(* However mutations interleave: unless one commits what another one has   *)
(* overtaken, or a deletion ends between its two writes, two versions      *)
(* share a label only while one of them is about to be deleted.            *)
(***************************************************************************)
THEOREM LabelsUnique == Spec => []LabelsAreUnique
<1>1. TypeInv /\ LabelInv => LabelsAreUnique
  <2> SUFFICES ASSUME TypeInv, LabelInv, Unraced, NEW i \in live, NEW j \in live,
                      i # j, labels[i] \cap labels[j] # {}
               PROVE  \E r \in Requests : pc[r] = "remove" /\ {i, j} \cap plan[r].drop # {}
    BY DEF LabelsAreUnique, Unraced
  <2>1. UniqueInv /\ i \in Ids /\ j \in Ids /\ version[i] \in Nat /\ version[j] \in Nat
    BY DEF LabelInv, TypeInv, RowsOK
  <2>2. Latest \in labels[i] /\ Latest \in labels[j]
    BY <2>1 DEF UniqueInv, Distinct
  <2>3. CASE i \in Dropping \/ j \in Dropping
    BY <2>3 DEF Dropping, Giving
  <2>4. CASE i \notin Dropping /\ j \notin Dropping
    <3>1. i \in Highest(live \ Dropping) /\ j \in Highest(live \ Dropping)
      BY <2>1, <2>2, <2>4 DEF UniqueInv, Heirs
    <3>2. version[i] = version[j]
      BY <2>1, <2>4, <3>1 DEF Highest
    <3>3. QED
      BY <2>1, <3>2 DEF UniqueInv, VersionsDiffer
  <2>5. QED
    BY <2>3, <2>4
<1>2. QED
  BY <1>1, TypeInit, TypeStep, NamedStep, FreshInit, FreshStep, DepInit, DepStep,
     LabelInit, LabelStep, PTL DEF Spec
=============================================================================
