-------------------------- MODULE OtelGrouper_proofs --------------------------
(***************************************************************************)
(* Theorems about OtelGrouper, for any number of workers, entries and      *)
(* faults of every kind.                                                   *)
(***************************************************************************)
EXTENDS OtelGrouper, TLAPS, FiniteSetTheorems

-----------------------------------------------------------------------------
(***************************************************************************)
(* The head of the list consists of live positions.                        *)
(***************************************************************************)
LEMMA WindowIsLive == Window \subseteq live
BY DEF Window, HeadOf

LEMMA ResidueIsLive == \A g : Residue(g) \subseteq live
BY DEF Residue, HeadOf

(***************************************************************************)
(* A cut groups files that stand on the list.                              *)
(***************************************************************************)
LEMMA MembersPending ==
  ASSUME TypeOK
  PROVE  /\ Members \in Groups
         /\ Members \subseteq Pending
         /\ Undecodable \subseteq Poison
         /\ Content(Window) = Members \cup Undecodable
<1>1. \A i \in live : log[i] \in Entries
  BY DEF TypeOK
<1>2. QED
  BY <1>1, WindowIsLive
  DEF Members, Undecodable, Content, Pending, Groups, Files

(***************************************************************************)
(* An RPUSH keeps every earlier position of the log.                       *)
(***************************************************************************)
LEMMA PushOnLog ==
  ASSUME TypeOK, NEW e \in Entries, log' = Append(log, e)
  PROVE  /\ log' \in Seq(Entries)
         /\ DOMAIN log' = DOMAIN log \cup {Len(log) + 1}
         /\ Len(log) + 1 \notin DOMAIN log
         /\ log'[Len(log) + 1] = e
         /\ \A i \in DOMAIN log : log'[i] = log[i]
BY DEF TypeOK

(***************************************************************************)
(* The type invariant is inductive once it is known that a worker about to *)
(* cut has a cut left, so that the count never drops below zero.           *)
(***************************************************************************)
CutsOpen == \A w \in Workers :
  pc[w] \in {"confirm", "stamp", "cut"} => cutsLeft[w] > 0

TypeInv == TypeOK /\ CutsOpen

LEMMA TypeInvariant == Spec => []TypeInv
<1>1. Init => TypeInv
  BY GrouperAssumption DEF Init, TypeInv, TypeOK, CutsOpen, Files, Groups, PCs
<1>2. TypeInv /\ [Next]_vars => TypeInv'
  <2> SUFFICES ASSUME TypeInv, [Next]_vars
               PROVE  TypeInv'
    OBVIOUS
  <2> USE GrouperAssumption DEF TypeInv, TypeOK, CutsOpen
  <2>1. CASE \E e \in Entries : Register(e) \/ ForeignPush(e)
    <3> PICK e \in Entries : Register(e) \/ ForeignPush(e)
      BY <2>1
    <3>1. UNCHANGED <<aged, quarantine, staging, jobs, lease, laneLock, held,
                      leftover, group, cutsLeft, lateCuts, pc, faults>>
      BY DEF Register, ForeignPush, locks, control
    <3>2. registered' \subseteq Files /\ acked' \subseteq Files
      BY DEF Register, ForeignPush
    <3>3. CASE UNCHANGED <<log, live>>
      BY <3>1, <3>2, <3>3
    <3>4. CASE log' = Append(log, e) /\ live' = live \cup {Len(log) + 1}
      <4>1. log' \in Seq(Entries) /\ live' \subseteq DOMAIN log'
        BY <3>4, PushOnLog
      <4>2. QED
        BY <3>1, <3>2, <4>1
    <3>5. QED
      BY <3>3, <3>4 DEF Register, ForeignPush
  <2>2. CASE \E e \in Entries : Age(e)
    BY <2>2 DEF Age, locks, control
  <2>3. CASE Stall \/ Expire
    <3>1. UNCHANGED <<lists, staging, jobs, laneLock, held, control, pc>> /\ lease' = NoWorker
      BY <2>3 DEF Stall, Expire
    <3>2. faults' \in [FaultKinds -> Nat]
      BY <2>3 DEF Stall, Expire, Spend, FaultKinds
    <3>3. QED
      BY <3>1, <3>2 DEF lists, control
  <2>4. ASSUME NEW w \in Workers, Crash(w)
        PROVE  TypeInv'
    <3>1. UNCHANGED <<registered, acked, log, live, aged, quarantine,
                      lateCuts, staging, jobs, lease, laneLock, held,
                      leftover, group, cutsLeft>>
      BY <2>4 DEF Crash, lists, locks, control
    <3>2. pc' \in [Workers -> PCs]
      BY <2>4 DEF Crash, Goto, PCs
    <3>3. faults' \in [FaultKinds -> Nat]
      BY <2>4 DEF Crash, Spend, FaultKinds
    <3>4. CutsOpen'
      BY <2>4 DEF Crash, Goto, PCs, control
    <3>5. QED
      BY <3>1, <3>2, <3>3, <3>4
  <2>5. ASSUME NEW w \in Workers, StartTick(w)
        PROVE  TypeInv'
    <3>1. UNCHANGED <<registered, acked, log, live, aged, quarantine,
                      lateCuts, staging, jobs, laneLock, leftover, group,
                      cutsLeft, faults>>
      BY <2>5 DEF StartTick, lists, locks, control, AcquireOrRenew
    <3>2. lease' \in Workers \cup {NoWorker}
      BY <2>5 DEF StartTick, AcquireOrRenew, Wins
    <3>3. held' \in [Workers -> BOOLEAN]
      BY <2>5 DEF StartTick, AcquireOrRenew, Wins
    <3>4. pc' \in [Workers -> PCs]
      BY <2>5 DEF StartTick, Goto, PCs
    <3>5. CutsOpen'
      BY <2>5 DEF StartTick, Goto, PCs, control
    <3>6. QED
      BY <3>1, <3>2, <3>3, <3>4, <3>5
  <2>6. ASSUME NEW w \in Workers, Confirm(w)
        PROVE  TypeInv'
    <3>1. UNCHANGED <<registered, acked, log, live, aged, quarantine,
                      lateCuts, staging, jobs, laneLock, leftover, group,
                      faults>>
      BY <2>6 DEF Confirm, lists, locks, control, AcquireOrRenew
    <3>2. lease' \in Workers \cup {NoWorker}
      BY <2>6 DEF Confirm, AcquireOrRenew, Wins
    <3>3. held' \in [Workers -> BOOLEAN]
      BY <2>6 DEF Confirm, AcquireOrRenew, Wins
    <3>4. pc' \in [Workers -> PCs]
      BY <2>6 DEF Confirm, Goto, PCs
    <3>5. cutsLeft' \in [Workers -> 0..MaxCuts]
      BY <2>6 DEF Confirm, EndCuts
    <3>6. CutsOpen'
      BY <2>6 DEF Confirm, Goto, PCs, EndCuts
    <3>7. QED
      BY <3>1, <3>2, <3>3, <3>4, <3>5, <3>6
  <2>7. ASSUME NEW w \in Workers, LeaseError(w)
        PROVE  TypeInv'
    <3>1. UNCHANGED <<registered, acked, log, live, aged, quarantine,
                      lateCuts, staging, jobs, laneLock, leftover, group>>
      BY <2>7 DEF LeaseError, lists, locks, control, AcquireOrRenew
    <3>2. lease' \in Workers \cup {NoWorker}
      BY <2>7 DEF LeaseError, Wins
    <3>3. held' \in [Workers -> BOOLEAN]
      BY <2>7 DEF LeaseError
    <3>4. pc' \in [Workers -> PCs]
      BY <2>7 DEF LeaseError, Goto, PCs
    <3>5. cutsLeft' \in [Workers -> 0..MaxCuts]
      BY <2>7 DEF LeaseError, EndCuts
    <3>6. faults' \in [FaultKinds -> Nat]
      BY <2>7 DEF LeaseError, Spend, FaultKinds
    <3>7. CutsOpen'
      BY <2>7 DEF LeaseError, Goto, PCs, EndCuts
    <3>8. QED
      BY <3>1, <3>2, <3>3, <3>4, <3>5, <3>6, <3>7
  <2>8. ASSUME NEW w \in Workers, Probe(w)
        PROVE  TypeInv'
    <3>1. UNCHANGED <<registered, acked, log, live, aged, quarantine,
                      lateCuts, staging, jobs, lease, laneLock, held,
                      leftover, group>>
      BY <2>8 DEF Probe, lists, locks, control
    <3>2. pc' \in [Workers -> PCs]
      BY <2>8 DEF Probe, Goto, PCs
    <3>3. cutsLeft' \in [Workers -> 0..MaxCuts]
      BY <2>8 DEF Probe, EndCuts
    <3>4. faults' \in [FaultKinds -> Nat]
      BY <2>8 DEF Probe, Spend, FaultKinds
    <3>5. CutsOpen'
      BY <2>8 DEF Probe, Goto, PCs, EndCuts
    <3>6. QED
      BY <3>1, <3>2, <3>3, <3>4, <3>5
  <2>9. ASSUME NEW w \in Workers, Stamp(w)
        PROVE  TypeInv'
    <3>1. UNCHANGED <<registered, acked, log, live, aged, quarantine,
                      lateCuts, staging, jobs, lease, held, leftover, group>>
      BY <2>9 DEF Stamp, lists, locks, control
    <3>2. laneLock' \in Workers \cup {NoWorker}
      BY <2>9 DEF Stamp
    <3>3. pc' \in [Workers -> PCs]
      BY <2>9 DEF Stamp, Goto, PCs
    <3>4. cutsLeft' \in [Workers -> 0..MaxCuts]
      <4>1. EndCuts(w) \/ UNCHANGED cutsLeft
        BY <2>9 DEF Stamp
      <4>2. CASE EndCuts(w)
        BY <4>2 DEF EndCuts
      <4>3. CASE UNCHANGED cutsLeft
        BY <4>3
      <4>4. QED
        BY <4>1, <4>2, <4>3
    <3>5. faults' \in [FaultKinds -> Nat]
      BY <2>9 DEF Stamp, Spend, FaultKinds
    <3>6. CutsOpen'
      BY <2>9 DEF Stamp, Goto, PCs, EndCuts
    <3>7. QED
      BY <3>1, <3>2, <3>3, <3>4, <3>5, <3>6
  <2>10. ASSUME NEW w \in Workers, CutNothing(w)
         PROVE  TypeInv'
    <3>1. UNCHANGED <<registered, acked, log, aged, lateCuts, jobs, lease,
                      laneLock, held, leftover, group, faults>>
      BY <2>10 DEF CutNothing, lists, locks, control
    <3>2. live' \subseteq DOMAIN log
      BY <2>10 DEF CutNothing, CutWrites
    <3>3. quarantine' \subseteq Poison
      BY <2>10, MembersPending DEF CutNothing, CutWrites, Quarantine
    <3>4. staging' \subseteq Groups
      BY <2>10, MembersPending DEF CutNothing, CutWrites, StagedByCut
    <3>5. pc' \in [Workers -> PCs]
      BY <2>10 DEF CutNothing, Goto, PCs
    <3>6. cutsLeft' \in [Workers -> 0..MaxCuts]
      BY <2>10 DEF CutNothing, EndCuts
    <3>7. CutsOpen'
      BY <2>10 DEF CutNothing, Goto, PCs, EndCuts
    <3>8. QED
      BY <3>1, <3>2, <3>3, <3>4, <3>5, <3>6, <3>7
  <2>11. ASSUME NEW w \in Workers, CutGroup(w)
         PROVE  TypeInv'
    <3>1. UNCHANGED <<registered, acked, log, aged, jobs, lease, laneLock,
                      held, leftover, faults>>
      BY <2>11 DEF CutGroup, lists, locks, control
    <3>2. live' \subseteq DOMAIN log
      BY <2>11 DEF CutGroup, CutWrites
    <3>3. quarantine' \subseteq Poison
      BY <2>11, MembersPending DEF CutGroup, CutWrites, Quarantine
    <3>4. staging' \subseteq Groups
      BY <2>11, MembersPending DEF CutGroup, CutWrites, StagedByCut
    <3>5. group' \in [Workers -> Groups]
      BY <2>11, MembersPending DEF CutGroup
    <3>6. cutsLeft' \in [Workers -> 0..MaxCuts]
      BY <2>11 DEF CutGroup
    <3>7. lateCuts' \in Nat
      BY <2>11 DEF CutGroup, CountLateCut
    <3>8. pc' \in [Workers -> PCs]
      BY <2>11 DEF CutGroup, Goto, PCs
    <3>9. CutsOpen'
      BY <2>11 DEF CutGroup, Goto, PCs, EndCuts
    <3>10. QED
      BY <3>1, <3>2, <3>3, <3>4, <3>5, <3>6, <3>7, <3>8, <3>9
  <2>12. ASSUME NEW w \in Workers, CutError(w)
         PROVE  TypeInv'
    <3>1. UNCHANGED <<registered, acked, log, aged, jobs, lease, laneLock,
                      held, leftover, group>>
      BY <2>12 DEF CutError, lists, locks, control
    <3>2. live' \subseteq DOMAIN log
      BY <2>12 DEF CutError, CutWrites
    <3>3. quarantine' \subseteq Poison
      BY <2>12, MembersPending DEF CutError, CutWrites, Quarantine
    <3>4. staging' \subseteq Groups
      BY <2>12, MembersPending DEF CutError, CutWrites, StagedByCut
    <3>5. cutsLeft' \in [Workers -> 0..MaxCuts]
      BY <2>12 DEF CutError, EndCuts
    <3>6. lateCuts' \in Nat
      BY <2>12 DEF CutError, CountLateCut
    <3>7. pc' \in [Workers -> PCs]
      BY <2>12 DEF CutError, Goto, PCs
    <3>8. faults' \in [FaultKinds -> Nat]
      BY <2>12 DEF CutError, Spend, FaultKinds
    <3>9. CutsOpen'
      BY <2>12 DEF CutError, Goto, PCs, EndCuts
    <3>10. QED
      BY <3>1, <3>2, <3>3, <3>4, <3>5, <3>6, <3>7, <3>8, <3>9
  <2>13. ASSUME NEW w \in Workers, CutPartly(w)
         PROVE  TypeInv'
    <3>1. UNCHANGED <<registered, acked, log, live, aged, jobs, lease,
                      laneLock, held, leftover, group>>
      BY <2>13 DEF CutPartly, lists, locks, control
    <3>2. quarantine' \subseteq Poison
      BY <2>13, MembersPending DEF CutPartly, Quarantine
    <3>3. staging' \subseteq Groups
      BY <2>13, MembersPending DEF CutPartly, StagedByCut
    <3>4. cutsLeft' \in [Workers -> 0..MaxCuts]
      BY <2>13 DEF CutPartly, EndCuts
    <3>5. lateCuts' \in Nat
      BY <2>13 DEF CutPartly, CountLateCut
    <3>6. pc' \in [Workers -> PCs]
      BY <2>13 DEF CutPartly, Goto, PCs
    <3>7. faults' \in [FaultKinds -> Nat]
      BY <2>13 DEF CutPartly, Spend, FaultKinds
    <3>8. CutsOpen'
      BY <2>13 DEF CutPartly, Goto, PCs, EndCuts
    <3>9. QED
      BY <3>1, <3>2, <3>3, <3>4, <3>5, <3>6, <3>7, <3>8
  <2>14. ASSUME NEW w \in Workers, Scan(w)
         PROVE  TypeInv'
    <3>1. UNCHANGED <<registered, acked, log, live, aged, quarantine,
                      lateCuts, staging, jobs, lease, laneLock, held, group,
                      cutsLeft>>
      BY <2>14 DEF Scan, lists, locks, control
    <3>2. leftover' \in [Workers -> SUBSET Groups]
      BY <2>14 DEF Scan
    <3>3. pc' \in [Workers -> PCs]
      BY <2>14 DEF Scan, Goto, PCs
    <3>4. faults' \in [FaultKinds -> Nat]
      BY <2>14 DEF Scan, Spend, FaultKinds
    <3>5. CutsOpen'
      BY <2>14 DEF Scan, Goto, PCs, control
    <3>6. QED
      BY <3>1, <3>2, <3>3, <3>4, <3>5
  <2>15. ASSUME NEW w \in Workers, Read(w)
         PROVE  TypeInv'
    <3>1. UNCHANGED <<registered, acked, log, live, aged, quarantine,
                      lateCuts, staging, jobs, lease, laneLock, held, cutsLeft>>
      BY <2>15 DEF Read, lists, locks, control
    <3>2. leftover' \in [Workers -> SUBSET Groups]
      <4>1. \/ UNCHANGED leftover
            \/ \E g \in leftover[w] :
                 leftover' = [leftover EXCEPT ![w] = @ \ {g}]
        BY <2>15 DEF Read
      <4>2. CASE UNCHANGED leftover
        BY <4>2
      <4>3. ASSUME NEW g \in leftover[w],
                   leftover' = [leftover EXCEPT ![w] = @ \ {g}]
            PROVE  leftover' \in [Workers -> SUBSET Groups]
        BY <4>3
      <4>4. QED
        BY <4>1, <4>2, <4>3
    <3>3. group' \in [Workers -> Groups]
      BY <2>15 DEF Read
    <3>4. pc' \in [Workers -> PCs]
      BY <2>15 DEF Read, Goto, PCs
    <3>5. faults' \in [FaultKinds -> Nat]
      BY <2>15 DEF Read, Spend, FaultKinds
    <3>6. CutsOpen'
      BY <2>15 DEF Read, Goto, PCs, control
    <3>7. QED
      BY <3>1, <3>2, <3>3, <3>4, <3>5, <3>6
  <2>16. ASSUME NEW w \in Workers, Reconcile(w)
         PROVE  TypeInv'
    <3>1. UNCHANGED <<registered, acked, log, aged, quarantine, lateCuts,
                      staging, jobs, lease, laneLock, held, leftover, group,
                      cutsLeft>>
      BY <2>16 DEF Reconcile, lists, locks, control
    <3>2. live' \subseteq DOMAIN log
      BY <2>16 DEF Reconcile, CutWrites
    <3>3. pc' \in [Workers -> PCs]
      BY <2>16 DEF Reconcile, Goto, PCs
    <3>4. faults' \in [FaultKinds -> Nat]
      BY <2>16 DEF Reconcile, Spend, FaultKinds
    <3>5. CutsOpen'
      BY <2>16 DEF Reconcile, Goto, PCs, control
    <3>6. QED
      BY <3>1, <3>2, <3>3, <3>4, <3>5
  <2>17. ASSUME NEW w \in Workers, Add(w)
         PROVE  TypeInv'
    <3>1. UNCHANGED <<registered, acked, log, live, aged, quarantine,
                      lateCuts, staging, lease, laneLock, held, leftover,
                      group, cutsLeft>>
      BY <2>17 DEF Add, lists, locks, control
    <3>2. jobs' \subseteq Groups
      BY <2>17 DEF Add
    <3>3. pc' \in [Workers -> PCs]
      BY <2>17 DEF Add, Goto, PCs, AfterPublish
    <3>4. faults' \in [FaultKinds -> Nat]
      BY <2>17 DEF Add, Spend, FaultKinds
    <3>5. CutsOpen'
      BY <2>17 DEF Add, Goto, PCs, control, AfterPublish
    <3>6. QED
      BY <3>1, <3>2, <3>3, <3>4, <3>5
  <2>18. ASSUME NEW w \in Workers, Clear(w)
         PROVE  TypeInv'
    <3>1. UNCHANGED <<registered, acked, log, live, aged, quarantine,
                      lateCuts, jobs, lease, laneLock, held, leftover, group>>
      BY <2>18 DEF Clear, lists, locks, control
    <3>2. staging' \subseteq Groups
      BY <2>18 DEF Clear, CutWrites, StagedByCut
    <3>3. pc' \in [Workers -> PCs]
      BY <2>18 DEF Clear, Goto, PCs, AfterPublish
    <3>4. cutsLeft' \in [Workers -> 0..MaxCuts]
      <4>1. EndCuts(w) \/ UNCHANGED cutsLeft
        BY <2>18 DEF Clear
      <4>2. CASE EndCuts(w)
        BY <4>2 DEF EndCuts
      <4>3. CASE UNCHANGED cutsLeft
        BY <4>3
      <4>4. QED
        BY <4>1, <4>2, <4>3
    <3>5. faults' \in [FaultKinds -> Nat]
      BY <2>18 DEF Clear, Spend, FaultKinds
    <3>6. CutsOpen'
      BY <2>18 DEF Clear, Goto, PCs, EndCuts, AfterPublish
    <3>7. QED
      BY <3>1, <3>2, <3>3, <3>4, <3>5, <3>6
  <2>19. CASE UNCHANGED vars
    BY <2>19 DEF vars, lists, locks, control
  <2>20. QED
    BY <2>1, <2>2, <2>3, <2>4, <2>5, <2>6, <2>7, <2>8, <2>9, <2>10, <2>11,
       <2>12, <2>13, <2>14, <2>15, <2>16, <2>17, <2>18, <2>19
    DEF Next, Environment, Step
<1>3. QED
  BY <1>1, <1>2, PTL DEF Spec

(***************************************************************************)
(* Every variable keeps its type, in every state of the grouper.           *)
(***************************************************************************)
THEOREM TypeCorrect == Spec => []TypeOK
BY TypeInvariant, PTL DEF TypeInv

-----------------------------------------------------------------------------
(***************************************************************************)
(* Nothing is lost.  The inductive invariant adds what a worker that works *)
(* on a group knows: while it removes the group's files from the list the  *)
(* group is staged or published, and while it removes the manifest the     *)
(* group is published.  No assumption on the faults is needed: a worker    *)
(* that lost its lease long ago keeps these guarantees.                    *)
(***************************************************************************)
Pushed == Content(DOMAIN log)

InHand == \A w \in Workers :
  /\ pc[w] \in {"reconcile", "add"} => group[w] \in Decided
  /\ pc[w] = "clear" => group[w] \in jobs

LossInv == NoEntryLost /\ InHand /\ registered \subseteq Pushed

(***************************************************************************)
(* A step that keeps the list and only adds to the groups loses nothing.   *)
(***************************************************************************)
LEMMA KeepsList ==
  ASSUME NoEntryLost, UNCHANGED <<acked, log, live, quarantine>>,
         Grouped \subseteq Grouped'
  PROVE  NoEntryLost'
BY DEF NoEntryLost, Content, Pending

(***************************************************************************)
(* Neither does a step that takes positions off the list whose entries are *)
(* in a group or in quarantine.                                            *)
(***************************************************************************)
LEMMA TakesOffList ==
  ASSUME NoEntryLost, UNCHANGED <<acked, log>>, NEW P, live' = live \ P,
         Content(P) \subseteq Grouped' \cup quarantine',
         Grouped \subseteq Grouped', quarantine \subseteq quarantine'
  PROVE  NoEntryLost'
<1>1. Pending \subseteq Pending' \cup Content(P)
  BY DEF Pending, Content
<1>2. (Content(DOMAIN log))' = Content(DOMAIN log)
  BY DEF Content
<1>3. QED
  BY <1>1, <1>2 DEF NoEntryLost

(***************************************************************************)
(* The complete writes of a cut put the window into a group or quarantine. *)
(***************************************************************************)
LEMMA CutKeepsAll ==
  ASSUME TypeOK, NoEntryLost, CutWrites, UNCHANGED <<acked, log, jobs>>
  PROVE  NoEntryLost'
<1>1. Grouped' = Grouped \cup Members
  BY DEF CutWrites, StagedByCut, Grouped, Decided
<1>2. Content(Window) \subseteq Grouped' \cup quarantine'
  BY <1>1, MembersPending DEF CutWrites, Quarantine
<1>3. live' = live \ Window /\ quarantine \subseteq quarantine'
  BY DEF CutWrites, Quarantine
<1>4. QED
  BY <1>1, <1>2, <1>3, TakesOffList

LEMMA LossInvStep == TypeOK /\ LossInv /\ [Next]_vars => LossInv'
<1> SUFFICES ASSUME TypeOK, LossInv, [Next]_vars
             PROVE  LossInv'
  OBVIOUS
<1>1. CASE \E e \in Entries : Register(e) \/ ForeignPush(e)
  <2> PICK e \in Entries : Register(e) \/ ForeignPush(e)
    BY <1>1
  <2>1. InHand' /\ Grouped' = Grouped /\ quarantine' = quarantine
    BY DEF LossInv, InHand, Register, ForeignPush, Decided, Grouped, control
  <2>2. CASE UNCHANGED <<registered, log, live>>
    <3>1. acked' \subseteq acked \cup registered
      BY <2>2, GrouperAssumption DEF Register, ForeignPush, Files, TypeOK
    <3>2. QED
      BY <2>1, <2>2, <3>1 DEF LossInv, NoEntryLost, Pushed, Content, Pending
  <2>3. CASE log' = Append(log, e) /\ live' = live \cup {Len(log) + 1}
    <3>1. acked' \subseteq acked \cup {e} /\ registered' \subseteq registered \cup {e}
      BY <2>3 DEF Register, ForeignPush
    <3>2. Pushed' = Pushed \cup {e}
      BY <2>3, PushOnLog DEF Pushed, Content
    <3>3. Pending' = Pending \cup {e}
      BY <2>3, PushOnLog DEF Pending, Content, TypeOK
    <3>4. QED
      BY <2>1, <3>1, <3>2, <3>3 DEF LossInv, NoEntryLost, Pushed
  <2>4. QED
    BY <2>2, <2>3 DEF Register, ForeignPush
<1>2. CASE \/ \E e \in Entries : Age(e)
           \/ Stall \/ Expire
           \/ UNCHANGED vars
  <2>1. UNCHANGED <<registered, acked, log, live, quarantine, staging, jobs,
                    group, pc>>
    BY <1>2 DEF Age, Stall, Expire, vars, lists, control
  <2>2. QED
    BY <2>1 DEF LossInv, NoEntryLost, InHand, Pushed, Content, Pending,
                Grouped, Decided
<1>3. ASSUME NEW w \in Workers,
             \/ Crash(w) \/ StartTick(w) \/ Confirm(w) \/ LeaseError(w)
             \/ Probe(w) \/ Stamp(w) \/ Scan(w) \/ Read(w)
      PROVE  LossInv'
  <2>1. UNCHANGED <<registered, acked, log, live, quarantine, staging, jobs>>
    BY <1>3 DEF Crash, StartTick, Confirm, LeaseError, Probe, Stamp, Scan,
                Read, lists
  <2>2. InHand'
    <3>1. \A v \in Workers \ {w} : pc'[v] = pc[v] /\ group'[v] = group[v]
      BY <1>3 DEF Crash, StartTick, Confirm, LeaseError, Probe, Stamp, Scan,
                  Read, Goto, control, TypeOK
    <3>2. /\ pc'[w] \in {"reconcile", "add"} => group'[w] \in Decided
          /\ pc'[w] # "clear"
      BY <1>3 DEF Crash, StartTick, Confirm, LeaseError, Probe, Stamp, Scan,
                  Read, Goto, control, TypeOK, Decided
    <3>3. QED
      BY <2>1, <3>1, <3>2 DEF LossInv, InHand, Decided
  <2>3. QED
    BY <2>1, <2>2 DEF LossInv, NoEntryLost, Pushed, Content, Pending, Grouped,
                      Decided
<1>4. ASSUME NEW w \in Workers, CutNothing(w) \/ CutGroup(w) \/ CutError(w)
      PROVE  LossInv'
  <2>1. UNCHANGED <<registered, acked, log, jobs>>
    BY <1>4 DEF CutNothing, CutGroup, CutError
  <2>2. CutWrites \/ UNCHANGED <<live, quarantine, staging>>
    BY <1>4 DEF CutNothing, CutGroup, CutError
  <2>3. NoEntryLost'
    <3>1. CASE CutWrites
      BY <2>1, <3>1, CutKeepsAll DEF LossInv
    <3>2. CASE UNCHANGED <<live, quarantine, staging>>
      BY <2>1, <3>2, KeepsList DEF LossInv, Grouped, Decided
    <3>3. QED
      BY <2>2, <3>1, <3>2
  <2>4. InHand'
    <3>1. staging \subseteq staging'
      BY <2>2 DEF CutWrites, StagedByCut
    <3>2. \A v \in Workers \ {w} : pc'[v] = pc[v] /\ group'[v] = group[v]
      BY <1>4 DEF CutNothing, CutGroup, CutError, Goto, TypeOK
    <3>3. /\ pc'[w] \in {"reconcile", "add"} => group'[w] \in staging'
          /\ pc'[w] # "clear"
      BY <1>4 DEF CutNothing, CutGroup, CutError, CutWrites, StagedByCut, Goto,
                  TypeOK
    <3>4. QED
      BY <2>1, <3>1, <3>2, <3>3 DEF LossInv, InHand, Decided
  <2>5. QED
    BY <2>1, <2>3, <2>4 DEF LossInv, Pushed, Content
<1>5. ASSUME NEW w \in Workers, CutPartly(w)
      PROVE  LossInv'
  <2>1. UNCHANGED <<registered, acked, log, live, jobs, group>>
    BY <1>5 DEF CutPartly
  <2>2. staging \subseteq staging' /\ quarantine \subseteq quarantine'
    BY <1>5 DEF CutPartly, StagedByCut, Quarantine
  <2>3. InHand'
    BY <1>5, <2>1, <2>2 DEF LossInv, InHand, Decided, CutPartly, Goto, TypeOK
  <2>4. QED
    BY <2>1, <2>2, <2>3 DEF LossInv, NoEntryLost, Pushed, Content, Pending,
                            Grouped, Decided
<1>6. ASSUME NEW w \in Workers, Reconcile(w)
      PROVE  LossInv'
  <2>1. UNCHANGED <<registered, acked, log, quarantine, staging, jobs, group>>
    BY <1>6 DEF Reconcile, control
  <2>2. live' = live \/ live' = live \ Residue(group[w])
    BY <1>6 DEF Reconcile
  <2>3. group[w] \in Decided
    BY <1>6 DEF LossInv, InHand, Reconcile
  <2>4. Content(Residue(group[w])) \subseteq Grouped
    BY <2>3 DEF Content, Residue, Grouped
  <2>5. NoEntryLost'
    <3>1. CASE live' = live
      BY <2>1, <3>1, KeepsList DEF LossInv, Grouped, Decided
    <3>2. CASE live' = live \ Residue(group[w])
      BY <2>1, <2>4, <3>2, TakesOffList DEF LossInv, Grouped, Decided
    <3>3. QED
      BY <2>2, <3>1, <3>2
  <2>6. InHand'
    BY <1>6, <2>1, <2>3 DEF LossInv, InHand, Decided, Reconcile, Goto, TypeOK
  <2>7. QED
    BY <2>1, <2>5, <2>6 DEF LossInv, Pushed, Content
<1>7. ASSUME NEW w \in Workers, Add(w)
      PROVE  LossInv'
  <2>1. UNCHANGED <<registered, acked, log, live, quarantine, staging, group>>
    BY <1>7 DEF Add, lists, control
  <2>2. jobs \subseteq jobs' /\ (pc'[w] = "clear" => group[w] \in jobs')
    BY <1>7 DEF Add, AfterPublish, Goto, TypeOK
  <2>3. /\ pc'[w] \notin {"reconcile", "add"}
        /\ \A v \in Workers \ {w} : pc'[v] = pc[v]
    BY <1>7 DEF Add, AfterPublish, Goto, TypeOK
  <2>4. InHand'
    BY <2>1, <2>2, <2>3 DEF LossInv, InHand, Decided
  <2>5. QED
    BY <2>1, <2>2, <2>4 DEF LossInv, NoEntryLost, Pushed, Content, Pending,
                            Grouped, Decided
<1>8. ASSUME NEW w \in Workers, Clear(w)
      PROVE  LossInv'
  <2>1. UNCHANGED <<registered, acked, log, live, quarantine, jobs, group>>
    BY <1>8 DEF Clear, lists
  <2>2. Decided' = Decided
    <3>1. group[w] \in jobs
      BY <1>8 DEF LossInv, InHand, Clear
    <3>2. staging' = staging \/ staging' = staging \ {group[w]}
      BY <1>8 DEF Clear
    <3>3. QED
      BY <2>1, <3>1, <3>2 DEF Decided
  <2>3. /\ pc'[w] \notin {"reconcile", "add", "clear"}
        /\ \A v \in Workers \ {w} : pc'[v] = pc[v]
    BY <1>8 DEF Clear, AfterPublish, Goto, TypeOK
  <2>4. InHand'
    BY <2>1, <2>2, <2>3 DEF LossInv, InHand
  <2>5. QED
    BY <2>1, <2>2, <2>4 DEF LossInv, NoEntryLost, Pushed, Content, Pending,
                            Grouped
<1>9. QED
  BY <1>1, <1>2, <1>3, <1>4, <1>5, <1>6, <1>7, <1>8
  DEF Next, Environment, Step

LEMMA LossInvariant == Spec => []LossInv
<1>1. Init => LossInv
  BY DEF Init, LossInv, NoEntryLost, InHand, Pushed, Content
<1>2. QED
  BY <1>1, LossInvStep, TypeCorrect, PTL DEF Spec

(***************************************************************************)
(* No entry that reached the pending list and no file acknowledged to its  *)
(* producer is ever lost, for any number of workers and faults.            *)
(***************************************************************************)
THEOREM NothingIsLost == Spec => []NoEntryLost
BY LossInvariant, PTL DEF LossInv

-----------------------------------------------------------------------------
(***************************************************************************)
(* One group per file, as long as no script stops half-way.  The list      *)
(* holds every entry once (SET NX) and no entry of a decided group: only a *)
(* cut that does not reach its LTRIM leaves a member behind.  Leases do    *)
(* not matter: the script is atomic, whoever runs it.                      *)
(***************************************************************************)
UniqueInv ==
  /\ faults["partial"] = 0
  /\ \A i, j \in DOMAIN log : log[i] = log[j] => i = j
  /\ Pushed \cap Files = registered
  /\ Grouped \subseteq registered
  /\ Pending \cap Grouped = {}
  /\ {} \notin Decided
  /\ OneGroupPerFile

(***************************************************************************)
(* A complete cut adds at most one group, of registered, ungrouped files,  *)
(* and takes them off the list.                                            *)
(***************************************************************************)
LEMMA CutDecides ==
  ASSUME TypeOK, UniqueInv, CutWrites, UNCHANGED <<registered, log, jobs>>
  PROVE  /\ Decided' = Decided \cup ({Members} \ {{}})
         /\ Grouped' = Grouped \cup Members
         /\ Members \subseteq registered \ Grouped
         /\ Pending' \cap Grouped' = {}
<1>1. Decided' = Decided \cup ({Members} \ {{}})
  BY DEF CutWrites, StagedByCut, Decided
<1>2. Grouped' = Grouped \cup Members
  BY <1>1 DEF Grouped
<1>3. Members \subseteq registered \ Grouped
  <2>1. Pending \subseteq Pushed
    BY DEF TypeOK, Pending, Pushed, Content
  <2>2. QED
    BY <2>1, MembersPending DEF UniqueInv, Groups
<1>4. Pending' = Content(live \ Window)
  BY DEF CutWrites, Pending, Content
<1>5. Content(live \ Window) \cap Members = {}
  <2>1. Members \subseteq Content(Window)
    BY DEF Members
  <2>2. Content(live \ Window) \cap Content(Window) = {}
    BY WindowIsLive DEF UniqueInv, TypeOK, Content
  <2>3. QED
    BY <2>1, <2>2
<1>6. Content(live \ Window) \subseteq Pending
  BY DEF Content, Pending
<1>7. QED
  BY <1>1, <1>2, <1>3, <1>4, <1>5, <1>6 DEF UniqueInv

LEMMA UniqueInvStep ==
  TypeOK /\ LossInv /\ UniqueInv /\ [Next]_vars => UniqueInv'
<1> SUFFICES ASSUME TypeOK, LossInv, UniqueInv, [Next]_vars
             PROVE  UniqueInv'
  OBVIOUS
<1>1. CASE \E e \in Entries : Register(e) \/ ForeignPush(e)
  <2> PICK e \in Entries : Register(e) \/ ForeignPush(e)
    BY <1>1
  <2>1. Decided' = Decided /\ Grouped' = Grouped /\ faults' = faults
    BY DEF Register, ForeignPush, Decided, Grouped
  <2>2. CASE UNCHANGED <<registered, log, live>>
    BY <2>1, <2>2 DEF UniqueInv, OneGroupPerFile, Pushed, Content, Pending
  <2>3. CASE /\ log' = Append(log, e) /\ live' = live \cup {Len(log) + 1}
             /\ \/ e \in Files \ registered /\ registered' = registered \cup {e}
                \/ e \in Poison \ Pushed /\ registered' = registered
    <3>1. e \notin Pushed
      BY <2>3 DEF UniqueInv
    <3>2. e \notin Grouped
      BY <2>3, GrouperAssumption DEF UniqueInv, TypeOK, Files
    <3>3. Pushed' = Pushed \cup {e} /\ Pending' = Pending \cup {e}
      BY <2>3, PushOnLog DEF Pushed, Pending, Content, TypeOK
    <3>4. \A i, j \in DOMAIN log' : log'[i] = log'[j] => i = j
      <4>1. \A i \in DOMAIN log : log'[i] # e
        BY <2>3, <3>1, PushOnLog DEF Pushed, Content
      <4>2. QED
        BY <2>3, <4>1, PushOnLog DEF UniqueInv
    <3>5. Pushed' \cap Files = registered'
      BY <2>3, <3>3 DEF UniqueInv, Files
    <3>6. QED
      BY <2>1, <2>3, <3>2, <3>3, <3>4, <3>5 DEF UniqueInv, OneGroupPerFile
  <2>4. QED
    BY <2>2, <2>3 DEF Register, ForeignPush, Pushed
<1>2. CASE \/ \E e \in Entries : Age(e)
           \/ Expire
           \/ UNCHANGED vars
  <2>1. UNCHANGED <<registered, log, live, staging, jobs, faults>>
    BY <1>2 DEF Age, Expire, vars, lists
  <2>2. QED
    BY <2>1 DEF UniqueInv, OneGroupPerFile, Pushed, Content, Pending, Grouped,
                Decided
<1>3. ASSUME Stall \/ \E w \in Workers :
               \/ Crash(w) \/ StartTick(w) \/ Confirm(w) \/ LeaseError(w)
               \/ Probe(w) \/ Stamp(w) \/ Scan(w) \/ Read(w)
      PROVE  UniqueInv'
  <2>1. UNCHANGED <<registered, log, live, staging, jobs>>
    BY <1>3 DEF Stall, Crash, StartTick, Confirm, LeaseError, Probe, Stamp,
                Scan, Read, lists
  <2>2. faults' = faults \/ \E kind \in FaultKinds \ {"partial"} : Spend(kind)
    BY <1>3 DEF Stall, Crash, StartTick, Confirm, LeaseError, Probe, Stamp,
                Scan, Read, FaultKinds
  <2>3. faults'["partial"] = 0
    BY <2>2 DEF UniqueInv, Spend, TypeOK, FaultKinds
  <2>4. QED
    BY <2>1, <2>3 DEF UniqueInv, OneGroupPerFile, Pushed, Content, Pending,
                      Grouped, Decided
<1>4. ASSUME NEW w \in Workers, CutNothing(w) \/ CutGroup(w) \/ CutError(w)
      PROVE  UniqueInv'
  <2>1. UNCHANGED <<registered, log, jobs>> /\ faults'["partial"] = 0
    BY <1>4 DEF CutNothing, CutGroup, CutError, Spend, UniqueInv, TypeOK,
                FaultKinds
  <2>2. CASE CutWrites
    <3>1. OneGroupPerFile'
      BY <2>1, <2>2, CutDecides DEF UniqueInv, OneGroupPerFile, Grouped
    <3>2. QED
      BY <2>1, <2>2, <3>1, CutDecides DEF UniqueInv, Pushed, Content
  <2>3. CASE UNCHANGED <<live, staging>>
    BY <2>1, <2>3 DEF UniqueInv, OneGroupPerFile, Pushed, Content, Pending,
                      Grouped, Decided
  <2>4. QED
    BY <1>4, <2>2, <2>3 DEF CutNothing, CutGroup, CutError
<1>5. ASSUME NEW w \in Workers, CutPartly(w)
      PROVE  UniqueInv'
  BY <1>5 DEF CutPartly, Spend, UniqueInv
<1>6. ASSUME NEW w \in Workers, Reconcile(w) \/ Add(w) \/ Clear(w)
      PROVE  UniqueInv'
  <2>1. UNCHANGED <<registered, log>> /\ faults'["partial"] = 0
    BY <1>6 DEF Reconcile, Add, Clear, lists, Spend, UniqueInv, TypeOK,
                FaultKinds
  <2>2. Decided' = Decided
    <3>1. CASE Reconcile(w)
      BY <3>1 DEF Reconcile, Decided
    <3>2. CASE Add(w)
      <4>1. group[w] \in Decided
        BY <3>2 DEF LossInv, InHand, Add
      <4>2. QED
        BY <3>2, <4>1 DEF Add, Decided
    <3>3. CASE Clear(w)
      <4>1. group[w] \in jobs
        BY <3>3 DEF LossInv, InHand, Clear
      <4>2. QED
        BY <3>3, <4>1 DEF Clear, Decided
    <3>4. QED
      BY <1>6, <3>1, <3>2, <3>3
  <2>3. live' \subseteq live
    BY <1>6 DEF Reconcile, Add, Clear, lists
  <2>4. QED
    BY <2>1, <2>2, <2>3 DEF UniqueInv, OneGroupPerFile, Pushed, Content,
                            Pending, Grouped
<1>7. QED
  BY <1>1, <1>2, <1>3, <1>4, <1>5, <1>6 DEF Next, Environment, Step

LEMMA UniqueInvariant ==
  ASSUME MaxFaults["partial"] = 0
  PROVE  Spec => []UniqueInv
<1>1. Init => UniqueInv
  BY DEF Init, UniqueInv, OneGroupPerFile, Pushed, Pending, Content, Grouped,
         Decided
<1>2. QED
  BY <1>1, UniqueInvStep, TypeCorrect, LossInvariant, PTL DEF Spec

(***************************************************************************)
(* While scripts run to their end, no file is ever in two groups: no crash,*)
(* lost lease, failed or repeated command and no race between two leaders  *)
(* can bring a file under two load labels.                                 *)
(***************************************************************************)
THEOREM FilesInOneGroup ==
  ASSUME MaxFaults["partial"] = 0
  PROVE  Spec => []OneGroupPerFile
BY UniqueInvariant, PTL DEF UniqueInv

-----------------------------------------------------------------------------
(***************************************************************************)
(* The grouper implements OtelPartition under the same condition: a        *)
(* registration admits a file, a complete cut decides a group, queue.add   *)
(* publishes it, and every other step is invisible.                        *)
(***************************************************************************)
LEMMA PartitionStep ==
  TypeOK /\ LossInv /\ UniqueInv /\ [Next]_vars
    => [Partition!Next]_(Partition!vars)
<1> SUFFICES ASSUME TypeOK, LossInv, UniqueInv, [Next]_vars
             PROVE  [Partition!Next]_(Partition!vars)
  OBVIOUS
<1>1. CASE \E e \in Entries : Register(e) \/ ForeignPush(e)
  <2> PICK e \in Entries : Register(e) \/ ForeignPush(e)
    BY <1>1
  <2>1. UNCHANGED <<staging, jobs>> /\ Decided' = Decided /\ Grouped' = Grouped
    BY DEF Register, ForeignPush, Decided, Grouped
  <2>2. CASE registered' = registered
    BY <2>1, <2>2 DEF Partition!vars
  <2>3. CASE e \in Files \ registered /\ registered' = registered \cup {e}
    <3>1. e \notin Grouped
      BY <2>3 DEF UniqueInv
    <3>2. Partition!Admit(e)
      BY <2>1, <2>3, <3>1 DEF Partition!Admit, Grouped
    <3>3. QED
      BY <2>3, <3>2 DEF Partition!Next
  <2>4. QED
    BY <2>2, <2>3 DEF Register, ForeignPush
<1>2. ASSUME \/ \E e \in Entries : Age(e)
             \/ Stall \/ Expire
             \/ \E w \in Workers :
                  \/ Crash(w) \/ StartTick(w) \/ Confirm(w) \/ LeaseError(w)
                  \/ Probe(w) \/ Stamp(w) \/ Scan(w) \/ Read(w) \/ Reconcile(w)
             \/ UNCHANGED vars
      PROVE  [Partition!Next]_(Partition!vars)
  <2>1. UNCHANGED <<registered, staging, jobs>>
    BY <1>2 DEF Age, Stall, Expire, Crash, StartTick, Confirm, LeaseError,
                Probe, Stamp, Scan, Read, Reconcile, vars, lists
  <2>2. QED
    BY <2>1 DEF Partition!vars, Grouped, Decided
<1>3. ASSUME NEW w \in Workers, CutNothing(w) \/ CutGroup(w) \/ CutError(w)
      PROVE  [Partition!Next]_(Partition!vars)
  <2>1. UNCHANGED <<registered, log, jobs>>
    BY <1>3 DEF CutNothing, CutGroup, CutError
  <2>2. CASE CutWrites /\ Members # {}
    <3>1. Partition!Decide(Members)
      BY <2>1, <2>2, CutDecides DEF Partition!Decide
    <3>2. Members \in SUBSET Files
      BY MembersPending DEF Groups
    <3>3. QED
      BY <3>1, <3>2 DEF Partition!Next
  <2>3. CASE UNCHANGED <<live, staging>> \/ (CutWrites /\ Members = {})
    <3>1. Decided' = Decided
      BY <2>1, <2>3, CutDecides DEF Decided
    <3>2. QED
      BY <2>1, <3>1 DEF Partition!vars, Grouped
  <2>4. QED
    BY <1>3, <2>2, <2>3 DEF CutNothing, CutGroup, CutError
<1>4. ASSUME NEW w \in Workers, CutPartly(w)
      PROVE  [Partition!Next]_(Partition!vars)
  BY <1>4 DEF CutPartly, Spend, UniqueInv
<1>5. ASSUME NEW w \in Workers, Add(w)
      PROVE  [Partition!Next]_(Partition!vars)
  <2>1. group[w] \in Decided
    BY <1>5 DEF LossInv, InHand, Add
  <2>2. UNCHANGED <<registered, staging>>
    BY <1>5 DEF Add, lists
  <2>3. Decided' = Decided /\ Grouped' = Grouped
    BY <1>5, <2>1, <2>2 DEF Add, Decided, Grouped
  <2>4. CASE jobs' = jobs
    BY <2>2, <2>3, <2>4 DEF Partition!vars
  <2>5. CASE jobs' = jobs \cup {group[w]} /\ group[w] \notin jobs
    <3>1. Partition!Publish(group[w])
      BY <2>1, <2>2, <2>3, <2>5 DEF Partition!Publish
    <3>2. QED
      BY <2>1, <3>1 DEF Partition!Next
  <2>6. jobs' = jobs \/ jobs' = jobs \cup {group[w]}
    BY <1>5 DEF Add
  <2>7. QED
    BY <2>4, <2>5, <2>6
<1>6. ASSUME NEW w \in Workers, Clear(w)
      PROVE  [Partition!Next]_(Partition!vars)
  <2>1. group[w] \in jobs
    BY <1>6 DEF LossInv, InHand, Clear
  <2>2. UNCHANGED <<registered, jobs>> /\ Decided' = Decided
    BY <1>6, <2>1 DEF Clear, Decided, lists
  <2>3. QED
    BY <2>2 DEF Partition!vars, Grouped
<1>7. QED
  BY <1>1, <1>2, <1>3, <1>4, <1>5, <1>6 DEF Next, Environment, Step

(***************************************************************************)
(* The grouper is an implementation of OtelPartition.                      *)
(***************************************************************************)
THEOREM ImplementsPartition ==
  ASSUME MaxFaults["partial"] = 0
  PROVE  Spec => RefinesPartition
<1>1. Init => Partition!Init
  BY DEF Init, Partition!Init, Grouped, Decided
<1>2. QED
  BY <1>1, PartitionStep, TypeCorrect, LossInvariant, UniqueInvariant, PTL
  DEF Spec, RefinesPartition, Partition!Spec
-----------------------------------------------------------------------------
(***************************************************************************)
(* Late cuts.  Owing: the workers that confirmed their lease, have lost it *)
(* and have not cut yet.  Each of them may still cut late, once; a lease   *)
(* lost adds one, and confirming again adds none.                          *)
(***************************************************************************)
Confirmed(w) == pc[w] \in {"stamp", "cut"}

Owing == {w \in Workers : Confirmed(w) /\ lease # w}

Lost == MaxFaults["stall"] - faults["stall"]

LEMMA LostType ==
  ASSUME TypeOK
  PROVE  Lost \in Int
BY GrouperAssumption DEF TypeOK, Lost, FaultKinds

\* A step never gives a lease back that was lost.
LEMMA LateFrame ==
  ASSUME TypeOK, [Next]_vars
  PROVE  /\ Lost \in Int /\ Lost' \in Int
         /\ Lost' >= Lost
         /\ Stall => Lost' = Lost + 1
<1>1. faults \in [FaultKinds -> Nat] /\ "stall" \in FaultKinds
  BY DEF TypeOK, FaultKinds
<1>2. ASSUME NEW kind \in FaultKinds, Spend(kind)
      PROVE  /\ Lost' \in Int /\ Lost' >= Lost
             /\ kind = "stall" => Lost' = Lost + 1
  <2>1. /\ faults["stall"] \in Nat /\ MaxFaults["stall"] \in Nat
        /\ faults[kind] \in Nat /\ faults[kind] > 0
    BY <1>1, <1>2, GrouperAssumption DEF Spend
  <2>2. faults'["stall"] = IF kind = "stall" THEN faults["stall"] - 1
                                             ELSE faults["stall"]
    BY <1>1, <1>2 DEF Spend
  <2>3. QED
    BY <2>1, <2>2 DEF Lost
<1>3. UNCHANGED faults => Lost' = Lost
  BY DEF Lost
<1>4. UNCHANGED faults \/ \E kind \in FaultKinds : Spend(kind)
  BY DEF Next, Environment, Step, vars, FaultKinds, Register, ForeignPush, Age,
    Stall, Expire, Crash, StartTick, Confirm, LeaseError, Probe, Stamp,
    CutNothing, CutGroup, CutError, CutPartly, Scan, Read, Reconcile, Add, Clear
<1>5. Stall => Lost' = Lost + 1
  BY <1>1, <1>2 DEF Stall
<1>6. QED
  BY <1>2, <1>3, <1>4, <1>5, LostType

LateInv ==
  /\ IsFiniteSet(Owing)
  /\ lateCuts + Cardinality(Owing) <= Lost
  /\ \A w \in Workers : Confirmed(w) => held[w]

\* Nobody comes to owe a cut, and none is made late.
LEMMA NoneOwes ==
  ASSUME TypeOK, LateInv, [Next]_vars,
         Owing' \subseteq Owing, UNCHANGED lateCuts
  PROVE  IsFiniteSet(Owing') /\ lateCuts' + Cardinality(Owing') <= Lost'
<1>1. /\ IsFiniteSet(Owing') /\ Cardinality(Owing') <= Cardinality(Owing)
      /\ Cardinality(Owing) \in Nat /\ Cardinality(Owing') \in Nat
  BY FS_Subset, FS_CardinalityType DEF LateInv
<1>2. QED
  BY <1>1, LateFrame DEF LateInv, TypeOK

\* A worker that owes a cut makes it.
LEMMA OneIsPaid ==
  ASSUME TypeOK, LateInv, [Next]_vars, NEW w \in Workers,
         Owing' \subseteq Owing \ {w}, w \in Owing, lateCuts' = lateCuts + 1
  PROVE  IsFiniteSet(Owing') /\ lateCuts' + Cardinality(Owing') <= Lost'
<1>1. /\ IsFiniteSet(Owing \ {w})
      /\ Cardinality(Owing \ {w}) = Cardinality(Owing) - 1
      /\ Cardinality(Owing) \in Nat
  BY FS_RemoveElement, FS_CardinalityType DEF LateInv
<1>2. /\ IsFiniteSet(Owing') /\ Cardinality(Owing') \in Nat
      /\ Cardinality(Owing') <= Cardinality(Owing) - 1
  BY <1>1, FS_Subset, FS_CardinalityType
<1>3. QED
  BY <1>1, <1>2, LateFrame DEF LateInv, TypeOK

\* A lease is lost: its worker may owe a cut.
LEMMA OneOwes ==
  ASSUME TypeOK, LateInv, [Next]_vars, Stall,
         Owing' \subseteq Owing \cup {lease}, UNCHANGED lateCuts
  PROVE  IsFiniteSet(Owing') /\ lateCuts' + Cardinality(Owing') <= Lost'
<1>1. /\ IsFiniteSet(Owing \cup {lease})
      /\ Cardinality(Owing \cup {lease}) <= Cardinality(Owing) + 1
      /\ Cardinality(Owing) \in Nat
  <2>1. IsFiniteSet(Owing) /\ Cardinality(Owing) \in Nat
    BY FS_CardinalityType DEF LateInv
  <2>2. /\ IsFiniteSet(Owing \cup {lease})
        /\ Cardinality(Owing \cup {lease}) =
             IF lease \in Owing THEN Cardinality(Owing) ELSE Cardinality(Owing) + 1
    BY <2>1, FS_AddElement
  <2>3. QED
    BY <2>1, <2>2
<1>2. /\ IsFiniteSet(Owing') /\ Cardinality(Owing') \in Nat
      /\ Cardinality(Owing') <= Cardinality(Owing) + 1
  <2>1. Cardinality(Owing \cup {lease}) \in Nat
    BY <1>1, FS_CardinalityType
  <2>2. QED
    BY <1>1, <2>1, FS_Subset, FS_CardinalityType
<1>3. QED
  BY <1>1, <1>2, LateFrame DEF LateInv, TypeOK

LEMMA LateInvStep ==
  ASSUME TypeOK, LateInv, [Next]_vars
  PROVE  LateInv'
<1> USE DEF TypeOK
<1>1. (\A w \in Workers : Confirmed(w) => held[w])'
  <2>1. CASE UNCHANGED <<pc, held>>
    BY <2>1 DEF LateInv, Confirmed
  <2>2. ASSUME NEW v \in Workers, NEW label \in PCs, Goto(v, label),
               \A w \in Workers \ {v} : held'[w] = held[w],
               label \in {"stamp", "cut"} => held'[v]
        PROVE  (\A w \in Workers : Confirmed(w) => held[w])'
    BY <2>2 DEF Goto, LateInv, Confirmed
  <2>3. ASSUME NEW v \in Workers, StartTick(v) PROVE \E label \in PCs :
          /\ Goto(v, label) /\ \A w \in Workers \ {v} : held'[w] = held[w]
          /\ label \in {"stamp", "cut"} => held'[v]
    BY <2>3 DEF StartTick, AcquireOrRenew, PCs
  <2>4. ASSUME NEW v \in Workers, Confirm(v) PROVE \E label \in PCs :
          /\ Goto(v, label) /\ \A w \in Workers \ {v} : held'[w] = held[w]
          /\ label \in {"stamp", "cut"} => held'[v]
    BY <2>4 DEF Confirm, AcquireOrRenew, PCs
  <2>5. ASSUME NEW v \in Workers, LeaseError(v) PROVE \E label \in PCs :
          /\ Goto(v, label) /\ \A w \in Workers \ {v} : held'[w] = held[w]
          /\ label \in {"stamp", "cut"} => held'[v]
    BY <2>5 DEF LeaseError, PCs
  <2>6. ASSUME NEW v \in Workers, Stamp(v) PROVE \E label \in PCs :
          /\ Goto(v, label) /\ UNCHANGED held
          /\ label \in {"stamp", "cut"} => held[v]
    BY <2>6 DEF Stamp, PCs, LateInv, Confirmed
  <2>7. ASSUME NEW v \in Workers, Probe(v) \/ CutNothing(v) \/ CutGroup(v)
                 \/ CutError(v) \/ CutPartly(v) \/ Scan(v) \/ Reconcile(v)
                 \/ Add(v) \/ Clear(v) \/ Crash(v)
        PROVE  /\ UNCHANGED held
               /\ \E label \in PCs \ {"stamp", "cut"} : Goto(v, label)
    BY <2>7 DEF Probe, CutNothing, CutGroup, CutError, CutPartly, Scan,
      Reconcile, Add, Clear, Crash, PCs, locks, AfterPublish
  <2>8. ASSUME NEW v \in Workers, Read(v)
        PROVE  /\ UNCHANGED held
               /\ UNCHANGED pc \/ \E label \in PCs \ {"stamp", "cut"} : Goto(v, label)
    BY <2>8 DEF Read, PCs, locks
  <2>9. QED
    BY <2>1, <2>2, <2>3, <2>4, <2>5, <2>6, <2>7, <2>8
    DEF Next, Environment, Step, Register, ForeignPush, Age, Stall, Expire,
        vars, locks
<1>2. IsFiniteSet(Owing') /\ lateCuts' + Cardinality(Owing') <= Lost'
  <2>1. CASE UNCHANGED <<pc, lease, lateCuts>>
    BY <2>1, NoneOwes DEF Owing, Confirmed
  <2>2. ASSUME NEW v \in Workers, NEW label \in PCs \ {"stamp", "cut"},
               Goto(v, label), lease' \in {lease} \/ lease \in {v, NoWorker},
               lease' \in {lease, v}
        PROVE  Owing' \subseteq Owing \ {v}
    BY <2>2, GrouperAssumption DEF Goto, Owing, Confirmed
  <2>3. ASSUME NEW v \in Workers, StartTick(v) \/ LeaseError(v)
        PROVE  Owing' \subseteq Owing /\ UNCHANGED lateCuts
    <3>1. UNCHANGED lateCuts
      BY <2>3 DEF StartTick, LeaseError, lists
    <3>2. /\ lease' \in {lease} \/ lease \in {v, NoWorker}
          /\ lease' \in {lease, v}
      BY <2>3 DEF StartTick, LeaseError, AcquireOrRenew, Wins
    <3>3. \E label \in PCs \ {"stamp", "cut"} : Goto(v, label)
      BY <2>3 DEF StartTick, LeaseError, PCs
    <3>4. QED
      BY <2>2, <3>1, <3>2, <3>3
  <2>4. ASSUME NEW v \in Workers, Confirm(v)
        PROVE  Owing' \subseteq Owing /\ UNCHANGED lateCuts
    <3>1. CASE Wins(v)
      BY <2>4, <3>1, GrouperAssumption
      DEF Confirm, AcquireOrRenew, Wins, Goto, Owing, Confirmed, lists
    <3>2. CASE ~ Wins(v)
      BY <2>4, <3>2 DEF Confirm, AcquireOrRenew, Goto, Owing, Confirmed, lists
    <3>3. QED
      BY <3>1, <3>2
  <2>5. ASSUME NEW v \in Workers, Stamp(v)
        PROVE  Owing' \subseteq Owing /\ UNCHANGED lateCuts
    BY <2>5 DEF Stamp, Goto, Owing, Confirmed, lists
  <2>6. ASSUME NEW v \in Workers, Probe(v) \/ CutNothing(v) \/ Scan(v)
                 \/ Reconcile(v) \/ Add(v) \/ Clear(v) \/ Crash(v)
        PROVE  Owing' \subseteq Owing /\ UNCHANGED lateCuts
    <3>1. UNCHANGED <<lease, lateCuts>>
      BY <2>6 DEF Probe, CutNothing, Scan, Reconcile, Add, Clear, Crash, lists,
        locks
    <3>2. \E label \in PCs \ {"stamp", "cut"} : Goto(v, label)
      BY <2>6 DEF Probe, CutNothing, Scan, Reconcile, Add, Clear, Crash, PCs,
        AfterPublish
    <3>3. QED
      BY <2>2, <3>1, <3>2
  <2>7. ASSUME NEW v \in Workers, Read(v)
        PROVE  Owing' \subseteq Owing /\ UNCHANGED lateCuts
    <3>1. UNCHANGED <<lease, lateCuts>>
      BY <2>7 DEF Read, lists, locks
    <3>2. UNCHANGED pc \/ \E label \in PCs \ {"stamp", "cut"} : Goto(v, label)
      BY <2>7 DEF Read, PCs
    <3>3. QED
      BY <2>2, <3>1, <3>2 DEF Owing, Confirmed
  <2>8. ASSUME NEW v \in Workers, CutGroup(v) \/ CutError(v) \/ CutPartly(v)
        PROVE  /\ Owing' \subseteq Owing \ {v}
               /\ UNCHANGED lateCuts \/ (v \in Owing /\ lateCuts' = lateCuts + 1)
    <3>1. UNCHANGED lease /\ pc[v] = "cut"
      BY <2>8 DEF CutGroup, CutError, CutPartly, locks
    <3>2. \E label \in PCs \ {"stamp", "cut"} : Goto(v, label)
      BY <2>8 DEF CutGroup, CutError, CutPartly, PCs
    <3>3. UNCHANGED lateCuts \/ CountLateCut(v)
      BY <2>8 DEF CutGroup, CutError, CutPartly
    <3>4. QED
      BY <2>2, <3>1, <3>2, <3>3 DEF CountLateCut, Owing, Confirmed
  <2>9. CASE Stall
    <3>1. Owing' \subseteq Owing \cup {lease} /\ UNCHANGED lateCuts
      BY <2>9 DEF Stall, Owing, Confirmed, lists
    <3>2. QED
      BY <2>9, <3>1, OneOwes
  <2>10. CASE Expire
    <3>1. ~ (lease \in Workers /\ Confirmed(lease))
      BY <2>10 DEF Expire, Abandoned, LateInv, Confirmed
    <3>2. Owing' \subseteq Owing /\ UNCHANGED lateCuts
      BY <2>10, <3>1 DEF Expire, Owing, Confirmed, lists
    <3>3. QED
      BY <3>2, NoneOwes
  <2>11. QED
    BY <2>1, <2>3, <2>4, <2>5, <2>6, <2>7, <2>8, <2>9, <2>10, NoneOwes,
       OneIsPaid
    DEF Next, Environment, Step, Register, ForeignPush, Age, vars, lists, locks
<1>3. QED
  BY <1>1, <1>2 DEF LateInv

(***************************************************************************)
(* However many workers take each other for dead, and whatever else fails, *)
(* a lease that ran out under its worker costs at most one late cut.       *)
(***************************************************************************)
THEOREM LateCutsAreBounded == Spec => []OneLateCutPerLostLease
<1>1. Init => LateInv
  <2> SUFFICES ASSUME Init PROVE LateInv
    OBVIOUS
  <2>1. Owing = {} /\ lateCuts = 0 /\ Lost = 0
    BY GrouperAssumption DEF Init, Owing, Confirmed, Lost, FaultKinds
  <2>2. \A w \in Workers : ~ Confirmed(w)
    BY DEF Init, Confirmed
  <2>3. QED
    BY <2>1, <2>2, FS_EmptySet DEF LateInv
<1>2. TypeOK /\ LateInv /\ [Next]_vars => LateInv'
  BY LateInvStep
<1>3. TypeOK /\ LateInv => OneLateCutPerLostLease
  BY LostType, FS_CardinalityType DEF LateInv, Lost, OneLateCutPerLostLease, TypeOK
<1>4. QED
  BY <1>1, <1>2, <1>3, TypeCorrect, PTL DEF Spec
=============================================================================
