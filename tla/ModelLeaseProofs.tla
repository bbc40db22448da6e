-------------------------- MODULE ModelLeaseProofs --------------------------
(***************************************************************************)
(* Proofs about ModelLease: its types, the count of holders and what rests *)
(* on it, that nobody stops ALLaM under a user, and that the count does    *)
(* what the set of users in SharedModel does.                              *)
(***************************************************************************)
EXTENDS ModelLease, FiniteSetTheorems, TLAPS

-----------------------------------------------------------------------------
(* Types.                                                                  *)

\* The types hold at the start.
LEMMA TypeInit == Init => TypeOK
<1>. SUFFICES ASSUME Init PROVE TypeOK
  OBVIOUS
<1>1. LeaseOK
  BY DEF Init, LeaseOK
<1>2. ServerOK
  BY DEF Init, ServerOK
<1>3. AppOK
  BY DEF Init, AppOK
<1>4. PcOK
  BY DEF Init, PcOK, HeldAt
<1>. QED
  BY <1>1, <1>2, <1>3, <1>4 DEF TypeOK

\* Every step keeps the types of the lease.
LEMMA LeaseStep ==
  ASSUME TypeOK, NEW u \in Threads, Step(u)
  PROVE  LeaseOK'
<1> USE LeaseAssumption DEF TypeOK, LeaseOK, lease
<1>1. CASE AlreadyLoaded(u)
  BY <1>1 DEF AlreadyLoaded
<1>2. CASE BeginLoad(u)
  BY <1>2 DEF BeginLoad
<1>3. CASE Started(u)
  BY <1>3 DEF Started
<1>4. CASE LoadFails(u)
  BY <1>4 DEF LoadFails
<1>5. CASE TakeSlot(u)
  BY <1>5 DEF TakeSlot
<1>6. CASE SlotBusy(u)
  BY <1>6 DEF SlotBusy
<1>7. CASE PostEnds(u)
  BY <1>7 DEF PostEnds
<1>8. CASE HoldBatch(u)
  <2>1. holders' \in Nat
    BY <1>8 DEF HoldBatch, hold_batch
  <2>2. stop_pending' \in BOOLEAN
    BY <1>8 DEF HoldBatch, hold_batch
  <2>3. batch' \in BOOLEAN
    BY <1>8 DEF HoldBatch, hold_batch
  <2>. QED
    BY <2>1, <2>2, <2>3
<1>9. CASE CallBegins(u)
  BY <1>9 DEF CallBegins
<1>10. CASE CallEnds(u)
  <2>1. holders' \in Nat
    BY <1>10 DEF CallEnds, release
  <2>2. stop_pending' \in BOOLEAN
    BY <1>10 DEF CallEnds, release
  <2>3. batch' \in BOOLEAN
    BY <1>10 DEF CallEnds, release
  <2>. QED
    BY <2>1, <2>2, <2>3
<1>11. CASE Release(u)
  <2>1. holders' \in Nat
    BY <1>11 DEF Release, provider_release, release, stop_when_idle
  <2>2. stop_pending' \in BOOLEAN
    BY <1>11 DEF Release, provider_release, release, stop_when_idle
  <2>3. batch' \in BOOLEAN
    BY <1>11 DEF Release, provider_release, release, stop_when_idle
  <2>. QED
    BY <2>1, <2>2, <2>3
<1>12. CASE NextPage(u)
  BY <1>12 DEF NextPage
<1>13. CASE ProofreadEnds(u)
  <2>1. holders' \in Nat
    BY <1>13 DEF ProofreadEnds, release
  <2>2. stop_pending' \in BOOLEAN
    BY <1>13 DEF ProofreadEnds, release
  <2>3. batch' \in BOOLEAN
    BY <1>13 DEF ProofreadEnds, release
  <2>. QED
    BY <2>1, <2>2, <2>3
<1>14. CASE InsightsEnd(u)
  BY <1>14 DEF InsightsEnd
<1>15. CASE DoneWith(u)
  BY <1>15 DEF DoneWith
<1>. QED
  BY <1>1, <1>2, <1>3, <1>4, <1>5, <1>6, <1>7, <1>8,
     <1>9, <1>10, <1>11, <1>12, <1>13, <1>14, <1>15 DEF Step

\* Every step keeps the types of the server.
LEMMA ServerStep ==
  ASSUME TypeOK, NEW u \in Threads, Step(u)
  PROVE  ServerOK'
<1> USE LeaseAssumption DEF TypeOK, ServerOK, process, locks
<1>1. CASE AlreadyLoaded(u)
  BY <1>1 DEF AlreadyLoaded
<1>2. CASE BeginLoad(u)
  BY <1>2 DEF BeginLoad, Loads
<1>3. CASE Started(u)
  BY <1>3 DEF Started
<1>4. CASE LoadFails(u)
  BY <1>4 DEF LoadFails
<1>5. CASE TakeSlot(u)
  BY <1>5 DEF TakeSlot
<1>6. CASE SlotBusy(u)
  BY <1>6 DEF SlotBusy
<1>7. CASE PostEnds(u)
  BY <1>7 DEF PostEnds
<1>8. CASE HoldBatch(u)
  BY <1>8 DEF HoldBatch
<1>9. CASE CallBegins(u)
  BY <1>9 DEF CallBegins
<1>10. CASE CallEnds(u)
  BY <1>10 DEF CallEnds, release, stop
<1>11. CASE Release(u)
  BY <1>11 DEF Release, provider_release, release, stop_when_idle, stop
<1>12. CASE NextPage(u)
  BY <1>12 DEF NextPage
<1>13. CASE ProofreadEnds(u)
  BY <1>13 DEF ProofreadEnds, release, stop
<1>14. CASE InsightsEnd(u)
  BY <1>14 DEF InsightsEnd
<1>15. CASE DoneWith(u)
  BY <1>15 DEF DoneWith
<1>. QED
  BY <1>1, <1>2, <1>3, <1>4, <1>5, <1>6, <1>7, <1>8,
     <1>9, <1>10, <1>11, <1>12, <1>13, <1>14, <1>15 DEF Step

\* Every step keeps the types of the app's state.
LEMMA AppStep ==
  ASSUME TypeOK, NEW u \in Threads, Step(u)
  PROVE  AppOK'
<1> USE LeaseAssumption DEF TypeOK, AppOK
<1>1. CASE AlreadyLoaded(u)
  BY <1>1 DEF AlreadyLoaded
<1>2. CASE BeginLoad(u)
  BY <1>2 DEF BeginLoad
<1>3. CASE Started(u)
  BY <1>3 DEF Started
<1>4. CASE LoadFails(u)
  BY <1>4 DEF LoadFails
<1>5. CASE TakeSlot(u)
  BY <1>5 DEF TakeSlot
<1>6. CASE SlotBusy(u)
  BY <1>6 DEF SlotBusy
<1>7. CASE PostEnds(u)
  BY <1>7 DEF PostEnds
<1>8. CASE HoldBatch(u)
  BY <1>8 DEF HoldBatch
<1>9. CASE CallBegins(u)
  BY <1>9 DEF CallBegins
<1>10. CASE CallEnds(u)
  BY <1>10 DEF CallEnds
<1>11. CASE Release(u)
  BY <1>11 DEF Release
<1>12. CASE NextPage(u)
  BY <1>12 DEF NextPage
<1>13. CASE ProofreadEnds(u)
  BY <1>13 DEF ProofreadEnds
<1>14. CASE InsightsEnd(u)
  BY <1>14 DEF InsightsEnd
<1>15. CASE DoneWith(u)
  BY <1>15 DEF DoneWith, Noted
<1>. QED
  BY <1>1, <1>2, <1>3, <1>4, <1>5, <1>6, <1>7, <1>8,
     <1>9, <1>10, <1>11, <1>12, <1>13, <1>14, <1>15 DEF Step

\* Every step keeps the threads at known labels.
LEMMA PcStep ==
  ASSUME TypeOK, NEW u \in Threads, Step(u)
  PROVE  PcOK'
<1> USE LeaseAssumption DEF TypeOK, PcOK, Go, At, HeldAt
<1>1. CASE AlreadyLoaded(u)
  BY <1>1 DEF AlreadyLoaded, Loaded
<1>2. CASE BeginLoad(u)
  BY <1>2 DEF BeginLoad
<1>3. CASE Started(u)
  BY <1>3 DEF Started, Loaded
<1>4. CASE LoadFails(u)
  BY <1>4 DEF LoadFails, Failed
<1>5. CASE TakeSlot(u)
  BY <1>5 DEF TakeSlot
<1>6. CASE SlotBusy(u)
  BY <1>6 DEF SlotBusy, Failed
<1>7. CASE PostEnds(u)
  BY <1>7 DEF PostEnds, Failed
<1>8. CASE HoldBatch(u)
  BY <1>8 DEF HoldBatch
<1>9. CASE CallBegins(u)
  BY <1>9 DEF CallBegins
<1>10. CASE CallEnds(u)
  BY <1>10 DEF CallEnds
<1>11. CASE Release(u)
  BY <1>11 DEF Release
<1>12. CASE NextPage(u)
  BY <1>12 DEF NextPage
<1>13. CASE ProofreadEnds(u)
  BY <1>13 DEF ProofreadEnds
<1>14. CASE InsightsEnd(u)
  BY <1>14 DEF InsightsEnd
<1>15. CASE DoneWith(u)
  BY <1>15 DEF DoneWith
<1>. QED
  BY <1>1, <1>2, <1>3, <1>4, <1>5, <1>6, <1>7, <1>8,
     <1>9, <1>10, <1>11, <1>12, <1>13, <1>14, <1>15 DEF Step

\* Every step keeps the types.
LEMMA TypeNext ==
  ASSUME TypeOK, [Next]_vars
  PROVE  TypeOK'
<1> USE LeaseAssumption DEF TypeOK, Threads
<1>1. ASSUME NEW u \in Threads, Step(u) PROVE TypeOK'
  BY <1>1, LeaseStep, ServerStep, AppStep, PcStep
<1>2. ASSUME NEW r \in Requests, Begins(r) PROVE TypeOK'
  <2>1. LeaseOK'
    BY <1>2 DEF LeaseOK, lease, Begins, ProofreadBegins, InsightsBegin, SwitchAway, SwitchBack
  <2>2. ServerOK'
    BY <1>2 DEF ServerOK, process, locks, Begins, ProofreadBegins, InsightsBegin, SwitchAway, SwitchBack
  <2>3. AppOK'
    BY <1>2 DEF AppOK, Begins, ProofreadBegins, InsightsBegin, SwitchAway, SwitchBack
  <2>4. PcOK'
    BY <1>2 DEF PcOK, Go, At, HeldAt, Begins, ProofreadBegins, InsightsBegin, SwitchAway, SwitchBack
  <2>. QED
    BY <2>1, <2>2, <2>3, <2>4
<1>3. CASE ItemBegins \/ WorkerStep
  <2>1. LeaseOK'
    BY <1>3 DEF LeaseOK, lease, ItemBegins, WorkerStep, ItemGoesOn, ItemEnds, IdlePass, WorkerEnds
  <2>2. ServerOK'
    BY <1>3 DEF ServerOK, process, locks, ItemBegins, WorkerStep, ItemGoesOn, ItemEnds, IdlePass, WorkerEnds
  <2>3. AppOK'
    BY <1>3 DEF AppOK, ItemBegins, WorkerStep, ItemGoesOn, ItemEnds, IdlePass, WorkerEnds
  <2>4. PcOK'
    BY <1>3 DEF PcOK, Go, At, HeldAt, ItemBegins, WorkerStep, ItemGoesOn, ItemEnds, IdlePass, WorkerEnds
  <2>. QED
    BY <2>1, <2>2, <2>3, <2>4
<1>4. CASE SlowStarts \/ ServerDies
  <2>1. LeaseOK'
    BY <1>4 DEF LeaseOK, lease, SlowStarts, ServerDies
  <2>2. ServerOK'
    <3>1. CASE SlowStarts
      BY <3>1 DEF ServerOK, locks, SlowStarts
    <3>2. CASE ServerDies
      <4>1. crashes' \in Nat
        BY <3>2 DEF ServerOK, ServerDies
      <4>2. server' = "none" /\ own' = FALSE /\ UNCHANGED <<status, loader, slot>>
        BY <3>2 DEF locks, ServerDies
      <4>. QED
        BY <4>1, <4>2, Zenon DEF ServerOK
    <3>. QED
      BY <1>4, <3>1, <3>2
  <2>3. AppOK'
    BY <1>4 DEF AppOK, SlowStarts, ServerDies
  <2>4. PcOK'
    BY <1>4 DEF PcOK, Go, At, HeldAt, SlowStarts, ServerDies
  <2>. QED
    BY <2>1, <2>2, <2>3, <2>4
<1>5. CASE Boot \/ Shutdown
  <2>1. LeaseOK'
    BY <1>5 DEF LeaseOK, lease, Boot, Shutdown
  <2>2. ServerOK'
    BY <1>5 DEF ServerOK, process, locks, Boot, Shutdown
  <2>3. AppOK'
    BY <1>5 DEF AppOK, Boot, Shutdown
  <2>4. PcOK'
    BY <1>5 DEF PcOK, Go, At, HeldAt, Boot, Shutdown
  <2>. QED
    BY <2>1, <2>2, <2>3, <2>4
<1>6. CASE StopModels
  <2>1. LeaseOK'
    BY <1>6 DEF LeaseOK, lease, StopModels, stop
  <2>2. ServerOK'
    BY <1>6 DEF ServerOK, process, locks, StopModels, stop
  <2>3. AppOK'
    BY <1>6 DEF AppOK, StopModels, stop
  <2>4. PcOK'
    BY <1>6 DEF PcOK, Go, At, HeldAt, StopModels, stop
  <2>. QED
    BY <2>1, <2>2, <2>3, <2>4
<1>7. CASE Exit \/ Kill
  <2>1. LeaseOK'
    <3>1. holders' = 0 /\ ~stop_pending' /\ ~batch'
      BY <1>7 DEF Exit, Kill, Gone
    <3>. QED
      BY <1>7, <3>1 DEF LeaseOK, Exit, Kill, Gone
  <2>2. ServerOK'
    BY <1>7 DEF ServerOK, process, locks, Exit, Kill, Gone
  <2>3. AppOK'
    BY <1>7 DEF AppOK, Exit, Kill, Gone
  <2>4. PcOK'
    BY <1>7 DEF PcOK, Go, At, HeldAt, Exit, Kill, Gone
  <2>. QED
    BY <2>1, <2>2, <2>3, <2>4
<1>8. CASE UNCHANGED vars
  <2>1. LeaseOK'
    BY <1>8 DEF LeaseOK, lease, vars
  <2>2. ServerOK'
    BY <1>8 DEF ServerOK, process, locks, vars
  <2>3. AppOK'
    BY <1>8 DEF AppOK, vars
  <2>4. PcOK'
    BY <1>8 DEF PcOK, Go, At, HeldAt, vars
  <2>. QED
    BY <2>1, <2>2, <2>3, <2>4
<1>. QED
  BY <1>1, <1>2, <1>3, <1>4, <1>5, <1>6, <1>7, <1>8 DEF Next

\* Every variable stays in its type, for any threads and faults.
THEOREM TypeCorrect == Spec => []TypeOK
<1>1. Init => TypeOK
  BY TypeInit
<1>2. TypeOK /\ [Next]_vars => TypeOK'
  BY TypeNext
<1>. QED
  BY <1>1, <1>2, PTL DEF Spec

-----------------------------------------------------------------------------
(* The count of holders.                                                   *)

\* The set of holders is finite.
LEMMA HoldersFinite ==
  ASSUME NEW S, S \subseteq Proofreads \cup Callers
  PROVE  IsFiniteSet(S) /\ Cardinality(S) \in Nat
<1>1. IsFiniteSet({Worker})
  BY FS_Singleton
<1>2. IsFiniteSet(Insights \cup {Worker})
  BY <1>1, LeaseAssumption, FS_Union
<1>3. IsFiniteSet(Proofreads \cup (Insights \cup {Worker}))
  BY <1>2, LeaseAssumption, FS_Union
<1>4. S \subseteq Proofreads \cup (Insights \cup {Worker})
  BY DEF Callers
<1>5. IsFiniteSet(S)
  BY <1>3, <1>4, FS_Subset
<1>. QED
  BY <1>5, FS_CardinalityType

\* A thread that stays inside, or outside, its hold changes no holder.
LEMMA SameHolders ==
  ASSUME PcOK, NEW u \in Threads, NEW to, Go(u, to), pc[u] \in HeldAt <=> to \in HeldAt
  PROVE  HoldersNow' = HoldersNow
<1>1. \A v \in Proofreads \cup Callers : v \in Threads
  BY DEF Threads, Callers, Requests
<1>2. \A v \in Threads : pc'[v] = IF v = u THEN to ELSE pc[v]
  BY DEF Go, PcOK
<1>3. \A v \in Proofreads \cup Callers : pc'[v] \in HeldAt <=> pc[v] \in HeldAt
  BY <1>1, <1>2
<1>. QED
  BY <1>3 DEF HoldersNow

\* One that acquires the lease is one holder more ...
LEMMA MoreHolders ==
  ASSUME PcOK, NEW u \in Proofreads \cup Callers, NEW to, Go(u, to),
         pc[u] \notin HeldAt, to \in HeldAt
  PROVE  /\ HoldersNow' = HoldersNow \cup {u} /\ u \notin HoldersNow
         /\ Cardinality(HoldersNow)' = Cardinality(HoldersNow) + 1
<1>1. \A v \in Proofreads \cup Callers : v \in Threads
  BY DEF Threads, Callers, Requests
<1>2. \A v \in Threads : pc'[v] = IF v = u THEN to ELSE pc[v]
  BY DEF Go, PcOK
<1>3. HoldersNow' = HoldersNow \cup {u} /\ u \notin HoldersNow
  BY <1>1, <1>2 DEF HoldersNow
<1>4. HoldersNow \subseteq Proofreads \cup Callers
  BY DEF HoldersNow
<1>. QED
  BY <1>3, <1>4, HoldersFinite, FS_AddElement

\* ... and one that lets it go one less.
LEMMA FewerHolders ==
  ASSUME PcOK, NEW u \in Proofreads \cup Callers, NEW to, Go(u, to),
         pc[u] \in HeldAt, to \notin HeldAt
  PROVE  /\ HoldersNow' = HoldersNow \ {u} /\ u \in HoldersNow
         /\ Cardinality(HoldersNow)' = Cardinality(HoldersNow) - 1
         /\ Cardinality(HoldersNow) > 0
<1>1. \A v \in Proofreads \cup Callers : v \in Threads
  BY DEF Threads, Callers, Requests
<1>2. \A v \in Threads : pc'[v] = IF v = u THEN to ELSE pc[v]
  BY DEF Go, PcOK
<1>3. HoldersNow' = HoldersNow \ {u} /\ u \in HoldersNow
  BY <1>1, <1>2 DEF HoldersNow
<1>4. HoldersNow \subseteq Proofreads \cup Callers
  BY DEF HoldersNow
<1>5. IsFiniteSet(HoldersNow) /\ Cardinality(HoldersNow) \in Nat
  BY <1>4, HoldersFinite
<1>6. Cardinality(HoldersNow \ {u}) = Cardinality(HoldersNow) - 1
  BY <1>3, <1>5, FS_RemoveElement
<1>7. Cardinality(HoldersNow) # 0
  BY <1>3, <1>5, FS_EmptySet
<1>. QED
  BY <1>3, <1>5, <1>6, <1>7

\* A thread's step keeps the count equal to the size of the set.
LEMMA CountStep ==
  ASSUME TypeOK, HoldersAreCounted, KindOK, LoaderLoads, NEW u \in Threads, Step(u)
  PROVE  HoldersAreCounted'
<1> USE DEF TypeOK
<1>0. /\ PcOK /\ LeaseOK
      /\ Cardinality(HoldersNow) \in Nat
  BY HoldersFinite DEF HoldersNow
<1>a. SUFFICES ASSUME HoldersNow' # HoldersNow \/ ~UNCHANGED <<holders, batch>>
               PROVE  HoldersAreCounted'
  BY DEF HoldersAreCounted
<1>b. ASSUME NEW to, Go(u, to), pc[u] \in HeldAt <=> to \in HeldAt, UNCHANGED <<holders, batch>>
      PROVE  FALSE
  BY <1>a, <1>b, <1>0, SameHolders
<1>1. CASE AlreadyLoaded(u)
  BY <1>1, <1>b DEF AlreadyLoaded, Loads, Loaded, At, HeldAt, lease
<1>2. CASE BeginLoad(u)
  <2>1. UNCHANGED <<pc, holders, batch>>
    BY <1>2 DEF BeginLoad, lease
  <2>. QED
    BY <2>1, <1>a DEF HoldersNow
<1>3. CASE Started(u)
  BY <1>3, <1>b, LeaseAssumption DEF Started, LoaderLoads, Loaded, At, HeldAt, lease
<1>4. CASE LoadFails(u)
  BY <1>4, <1>b, LeaseAssumption DEF LoadFails, LoaderLoads, Failed, At, HeldAt, lease
<1>5. CASE TakeSlot(u)
  BY <1>5, <1>b DEF TakeSlot, At, HeldAt, lease
<1>6. CASE SlotBusy(u)
  BY <1>6, <1>b DEF SlotBusy, Failed, At, HeldAt, lease
<1>7. CASE PostEnds(u)
  BY <1>7, <1>b DEF PostEnds, Failed, At, HeldAt, lease
<1>8. CASE HoldBatch(u)
  <2>1. HoldersNow' = HoldersNow
    BY <1>8, <1>0, SameHolders DEF HoldBatch, At, HeldAt
  <2>2. /\ batch' = TRUE
        /\ holders' = holders + IF batch THEN 0 ELSE 1
    BY <1>8, <1>0 DEF HoldBatch, hold_batch, LeaseOK
  <2>. QED
    BY <1>0, <2>1, <2>2 DEF HoldersAreCounted, LeaseOK
<1>9. CASE CallBegins(u)
  <2>1. Cardinality(HoldersNow)' = Cardinality(HoldersNow) + 1
    BY <1>9, <1>0, MoreHolders DEF CallBegins, At, HeldAt
  <2>. QED
    BY <1>9, <1>0, <2>1 DEF CallBegins, HoldersAreCounted, LeaseOK
<1>10. CASE CallEnds(u)
  <2>1. /\ Cardinality(HoldersNow)' = Cardinality(HoldersNow) - 1
        /\ Cardinality(HoldersNow) > 0
    BY <1>10, <1>0, FewerHolders DEF CallEnds, At, HeldAt, Threads
  <2>2. holders' = IF holders > 0 THEN holders - 1 ELSE 0
    BY <1>10 DEF CallEnds, release
  <2>3. batch' = batch
    BY <1>10 DEF CallEnds
  <2>. QED
    BY <1>0, <2>1, <2>2, <2>3 DEF HoldersAreCounted, LeaseOK
<1>11. CASE Release(u)
  <2>1. HoldersNow' = HoldersNow
    BY <1>11, <1>0, SameHolders DEF Release, At, HeldAt
  <2>2. /\ batch' = FALSE
        /\ holders' = IF batch THEN IF holders > 0 THEN holders - 1 ELSE 0 ELSE holders
    BY <1>11 DEF Release, provider_release, release, stop_when_idle
  <2>. QED
    BY <1>0, <2>1, <2>2 DEF HoldersAreCounted, LeaseOK
<1>12. CASE NextPage(u)
  BY <1>12, <1>b DEF NextPage, At, HeldAt, lease
<1>13. CASE ProofreadEnds(u)
  <2>0. u \in Proofreads
    BY <1>13 DEF ProofreadEnds, KindOK, At
  <2>1. /\ Cardinality(HoldersNow)' = Cardinality(HoldersNow) - 1
        /\ Cardinality(HoldersNow) > 0
    BY <1>13, <1>0, <2>0, FewerHolders DEF ProofreadEnds, At, HeldAt, Threads
  <2>2. holders' = IF holders > 0 THEN holders - 1 ELSE 0
    BY <1>13 DEF ProofreadEnds, release
  <2>3. batch' = batch
    BY <1>13 DEF ProofreadEnds
  <2>. QED
    BY <1>0, <2>1, <2>2, <2>3 DEF HoldersAreCounted, LeaseOK
<1>14. CASE InsightsEnd(u)
  BY <1>14, <1>b DEF InsightsEnd, HeldAt, lease
<1>15. CASE DoneWith(u)
  BY <1>15, <1>b DEF DoneWith, At, HeldAt, lease
<1>. QED
  BY <1>1, <1>2, <1>3, <1>4, <1>5, <1>6, <1>7, <1>8,
     <1>9, <1>10, <1>11, <1>12, <1>13, <1>14, <1>15 DEF Step

\* Every step keeps the count equal to the size of the set.
LEMMA CountNext ==
  ASSUME TypeOK, HoldersAreCounted, KindOK, LoaderLoads, DownIsOff, [Next]_vars
  PROVE  HoldersAreCounted'
<1> USE DEF TypeOK
<1>0. /\ PcOK /\ LeaseOK
      /\ Cardinality(HoldersNow) \in Nat
      /\ Worker \in Threads /\ Requests \subseteq Threads
  BY HoldersFinite DEF HoldersNow, Threads
<1>a. ASSUME HoldersNow' = HoldersNow, UNCHANGED <<holders, batch>>
      PROVE  HoldersAreCounted'
  BY <1>a DEF HoldersAreCounted
<1>b. ASSUME NEW u \in Threads, NEW to, Go(u, to), pc[u] \in HeldAt <=> to \in HeldAt,
             UNCHANGED <<holders, batch>>
      PROVE  HoldersAreCounted'
  BY <1>a, <1>b, <1>0, SameHolders
<1>c. ASSUME UNCHANGED <<pc, holders, batch>> PROVE HoldersAreCounted'
  BY <1>a, <1>c DEF HoldersNow
<1>1. ASSUME NEW u \in Threads, Step(u) PROVE HoldersAreCounted'
  BY <1>1, CountStep
<1>2. ASSUME NEW r \in Requests, Begins(r) PROVE HoldersAreCounted'
  <2>1. CASE ProofreadBegins(r)
    <3>1. Cardinality(HoldersNow)' = Cardinality(HoldersNow) + 1
      BY <2>1, <1>0, MoreHolders DEF ProofreadBegins, At, HeldAt
    <3>. QED
      BY <2>1, <1>0, <3>1 DEF ProofreadBegins, HoldersAreCounted, LeaseOK
  <2>2. CASE InsightsBegin(r)
    BY <2>2, <1>b, <1>0 DEF InsightsBegin, At, HeldAt, lease
  <2>3. CASE SwitchAway(r)
    BY <2>3, <1>b, <1>0 DEF SwitchAway, At, HeldAt, lease
  <2>4. CASE SwitchBack(r)
    BY <2>4, <1>c DEF SwitchBack, lease
  <2>. QED
    BY <1>2, <2>1, <2>2, <2>3, <2>4 DEF Begins
<1>3. CASE ItemBegins \/ WorkerStep
  BY <1>3, <1>b, <1>0 DEF ItemBegins, WorkerStep, ItemGoesOn, ItemEnds, IdlePass, WorkerEnds,
                          At, HeldAt, lease
<1>4. CASE SlowStarts \/ ServerDies \/ Shutdown \/ StopModels
  BY <1>4, <1>c DEF SlowStarts, ServerDies, Shutdown, StopModels, lease
<1>5. CASE Boot
  <2>1. PICK to \in {"idle", "off"} : Go(Worker, to)
    BY <1>5 DEF Boot
  <2>2. pc[Worker] \notin HeldAt
    BY <1>5, <1>0 DEF DownIsOff, Boot, HeldAt
  <2>. QED
    BY <1>5, <2>1, <2>2, <1>b, <1>0 DEF Boot, lease, HeldAt
<1>6. CASE Exit \/ Kill
  <2>1. holders' = 0 /\ batch' = FALSE
    BY <1>6 DEF Exit, Kill, Gone
  <2>2. HoldersNow' = {}
    BY <1>6 DEF Exit, Kill, Gone, HoldersNow, HeldAt, Threads, Callers, Requests
  <2>3. Cardinality({}) = 0
    BY FS_EmptySet
  <2>. QED
    BY <2>1, <2>2, <2>3 DEF HoldersAreCounted
<1>7. CASE UNCHANGED vars
  BY <1>7, <1>c DEF vars, lease
<1>. QED
  BY <1>1, <1>2, <1>3, <1>4, <1>5, <1>6, <1>7 DEF Next

-----------------------------------------------------------------------------
(* The rest of the inductive invariant.                                    *)

\* The invariant holds at the start.
LEMMA IInvInit == Init => IInv
<1>. SUFFICES ASSUME Init PROVE IInv
  OBVIOUS
<1>1. HoldersAreCounted
  <2>1. HoldersNow = {}
    BY DEF Init, HoldersNow, HeldAt, Threads, Callers, Requests
  <2>2. Cardinality({}) = 0
    BY FS_EmptySet
  <2>. QED
    BY <2>1, <2>2 DEF Init, HoldersAreCounted
<1>2. PendingHasHolder /\ BatchIsRemembered
  BY DEF Init, PendingHasHolder, BatchIsRemembered
<1>3. KindOK /\ WorkerNotes /\ LoaderLoads /\ DownIsOff
  BY DEF Init, KindOK, WorkerNotes, LoaderLoads, DownIsOff, Threads
<1>. QED
  BY <1>1, <1>2, <1>3 DEF IInv

\* Where a thread that moved is, and that the others stayed.
LEMMA Moved ==
  ASSUME PcOK, NEW u \in Threads, NEW to, Go(u, to)
  PROVE  \A v \in Threads : pc'[v] = IF v = u THEN to ELSE pc[v]
BY DEF Go, PcOK

\* A thread takes a step of a call only inside one.
LEMMA StepIsInCall ==
  ASSUME LoaderLoads, NEW u \in Threads, Step(u)
  PROVE  pc[u] \notin {"off", "idle"}
BY LeaseAssumption DEF Step, LoaderLoads, AlreadyLoaded, BeginLoad, Started, LoadFails, TakeSlot,
   SlotBusy, PostEnds, HoldBatch, CallBegins, CallEnds, Release, NextPage, ProofreadEnds,
   InsightsEnd, DoneWith, Loads, At

\* Every step keeps a holder under a pending stop.
LEMMA PendingNext ==
  ASSUME TypeOK, PendingHasHolder, [Next]_vars
  PROVE  PendingHasHolder'
<1> USE DEF TypeOK, LeaseOK
<1>a. ASSUME UNCHANGED lease PROVE PendingHasHolder'
  BY <1>a DEF PendingHasHolder, lease
<1>b. ASSUME UNCHANGED stop_pending, holders' \in {holders, holders + 1} PROVE PendingHasHolder'
  <2>1. holders > 0 => holders' > 0
    BY <1>b
  <2>. QED
    BY <1>b, <2>1, Zenon DEF PendingHasHolder
<1>c. ASSUME NEW asked \in BOOLEAN, release(asked) PROVE PendingHasHolder'
  <2>1. holders' # 0 => holders' > 0
    BY <1>c DEF release
  <2>2. holders' = 0 => ~stop_pending'
    BY <1>c, Zenon DEF release
  <2>. QED
    BY <2>1, <2>2, Zenon DEF PendingHasHolder
<1>d. ASSUME stop_when_idle PROVE PendingHasHolder'
  BY <1>d DEF PendingHasHolder, stop_when_idle
<1>1. ASSUME NEW u \in Threads, Step(u) PROVE PendingHasHolder'
  <2>1. CASE AlreadyLoaded(u) \/ BeginLoad(u) \/ Started(u) \/ LoadFails(u) \/ TakeSlot(u)
             \/ SlotBusy(u) \/ PostEnds(u) \/ NextPage(u) \/ InsightsEnd(u) \/ DoneWith(u)
    BY <2>1, <1>a DEF AlreadyLoaded, BeginLoad, Started, LoadFails, TakeSlot, SlotBusy,
                      PostEnds, NextPage, InsightsEnd, DoneWith
  <2>2. CASE HoldBatch(u) \/ CallBegins(u)
    BY <2>2, <1>b DEF HoldBatch, hold_batch, CallBegins
  <2>3. CASE CallEnds(u) \/ ProofreadEnds(u)
    BY <2>3, <1>c DEF CallEnds, ProofreadEnds
  <2>4. CASE Release(u)
    BY <2>4, <1>c, <1>d DEF Release, provider_release
  <2>. QED
    BY <1>1, <2>1, <2>2, <2>3, <2>4 DEF Step
<1>2. ASSUME NEW r \in Requests, Begins(r) PROVE PendingHasHolder'
  BY <1>2, <1>a, <1>b DEF Begins, ProofreadBegins, InsightsBegin, SwitchAway, SwitchBack
<1>3. CASE ItemBegins \/ WorkerStep \/ SlowStarts \/ ServerDies \/ Boot \/ Shutdown \/ StopModels
  BY <1>3, <1>a DEF ItemBegins, WorkerStep, ItemGoesOn, ItemEnds, IdlePass, WorkerEnds,
                    SlowStarts, ServerDies, Boot, Shutdown, StopModels
<1>4. CASE Exit \/ Kill
  BY <1>4 DEF Exit, Kill, Gone, PendingHasHolder
<1>5. CASE UNCHANGED vars
  BY <1>5, <1>a DEF vars
<1>. QED
  BY <1>1, <1>2, <1>3, <1>4, <1>5 DEF Next

\* Every step keeps each label with the kind of thread it belongs to.
LEMMA KindNext ==
  ASSUME TypeOK, KindOK, LoaderLoads, [Next]_vars
  PROVE  KindOK'
<1> USE DEF TypeOK
<1>a. ASSUME NEW u \in Threads, NEW to, Go(u, to),
             to \in {"proof", "page", "leave"} => u \in Proofreads
      PROVE  KindOK'
  BY <1>a, Moved DEF KindOK
<1>b. ASSUME UNCHANGED pc PROVE KindOK'
  BY <1>b DEF KindOK
<1>1. ASSUME NEW u \in Threads, Step(u) PROVE KindOK'
  <2>1. CASE AlreadyLoaded(u) \/ Started(u)
    BY <2>1, <1>a DEF AlreadyLoaded, Started, Loaded, KindOK, At
  <2>2. CASE LoadFails(u) \/ SlotBusy(u) \/ PostEnds(u)
    BY <2>2, <1>a DEF LoadFails, SlotBusy, PostEnds, Failed, KindOK, At
  <2>3. CASE BeginLoad(u)
    BY <2>3, <1>b DEF BeginLoad
  <2>4. CASE TakeSlot(u) \/ NextPage(u) \/ ProofreadEnds(u)
    BY <2>4, <1>a DEF TakeSlot, NextPage, ProofreadEnds, KindOK, At
  <2>5. CASE HoldBatch(u) \/ CallBegins(u) \/ CallEnds(u) \/ Release(u) \/ InsightsEnd(u) \/ DoneWith(u)
    BY <2>5, <1>a DEF HoldBatch, CallBegins, CallEnds, Release, InsightsEnd, DoneWith
  <2>. QED
    BY <1>1, <2>1, <2>2, <2>3, <2>4, <2>5 DEF Step
<1>2. ASSUME NEW r \in Requests, Begins(r) PROVE KindOK'
  BY <1>2, <1>a, <1>b DEF Begins, ProofreadBegins, InsightsBegin, SwitchAway, SwitchBack, Threads
<1>3. CASE ItemBegins \/ WorkerStep \/ Boot
  BY <1>3, <1>a DEF ItemBegins, WorkerStep, ItemGoesOn, ItemEnds, IdlePass, WorkerEnds, Boot, Threads
<1>4. CASE SlowStarts \/ ServerDies \/ Shutdown \/ StopModels \/ UNCHANGED vars
  BY <1>4, <1>b DEF SlowStarts, ServerDies, Shutdown, StopModels, vars
<1>5. CASE Exit \/ Kill
  BY <1>5 DEF Exit, Kill, Gone, KindOK
<1>. QED
  BY <1>1, <1>2, <1>3, <1>4, <1>5 DEF Next

\* Every step keeps what the worker notes of its use.
LEMMA NotesNext ==
  ASSUME TypeOK, WorkerNotes, LoaderLoads, [Next]_vars
  PROVE  WorkerNotes'
<1> USE DEF TypeOK
<1>0. PcOK /\ Worker \in Threads /\ Worker \notin Requests /\ Requests \subseteq Threads
  BY LeaseAssumption DEF Threads
<1>a. ASSUME used => used', pc'[Worker] \in {pc[Worker], "idle", "off", "release"}
      PROVE  WorkerNotes'
  BY <1>a DEF WorkerNotes
<1>b. ASSUME NEW u \in Threads, NEW to, Go(u, to), used => used',
             u = Worker /\ to \notin {"idle", "off", "release"}
               => pc[u] \notin {"idle", "off", "release"}
      PROVE  WorkerNotes'
  BY <1>b, <1>0, Moved DEF WorkerNotes
<1>1. ASSUME NEW u \in Threads, Step(u) PROVE WorkerNotes'
  <2>0. pc[u] \notin {"off", "idle"}
    BY <1>1, StepIsInCall
  <2>1. CASE AlreadyLoaded(u) \/ Started(u)
    BY <2>0, <2>1, <1>b, LeaseAssumption DEF AlreadyLoaded, Started, Loads, LoaderLoads, At
  <2>2. CASE LoadFails(u)
    BY <2>0, <2>2, <1>b, LeaseAssumption DEF LoadFails, LoaderLoads, At
  <2>3. CASE BeginLoad(u)
    BY <2>3, <1>a DEF BeginLoad
  <2>4. CASE TakeSlot(u) \/ SlotBusy(u) \/ PostEnds(u) \/ NextPage(u)
    BY <2>4, <1>b DEF TakeSlot, SlotBusy, PostEnds, NextPage, At
  <2>5. CASE HoldBatch(u) \/ CallBegins(u)
    BY <2>5, <1>b DEF HoldBatch, CallBegins, At
  <2>6. CASE CallEnds(u)
    BY <2>6, <1>b DEF CallEnds, At
  <2>7. CASE ProofreadEnds(u)
    BY <2>7, <1>b DEF ProofreadEnds, At
  <2>8. CASE InsightsEnd(u)
    BY <2>8, <1>b DEF InsightsEnd, At
  <2>9. CASE Release(u)
    BY <2>9, <1>b DEF Release, At
  <2>10. CASE DoneWith(u)
    BY <2>10, <1>b DEF DoneWith, Noted
  <2>. QED
    BY <1>1, <2>1, <2>2, <2>3, <2>4, <2>5, <2>6, <2>7, <2>8, <2>9, <2>10 DEF Step
<1>2. ASSUME NEW r \in Requests, Begins(r) PROVE WorkerNotes'
  BY <1>2, <1>0, <1>a, <1>b DEF Begins, ProofreadBegins, InsightsBegin, SwitchAway, SwitchBack
<1>3. CASE ItemBegins
  BY <1>3 DEF ItemBegins, WorkerNotes
<1>4. CASE ItemGoesOn \/ ItemEnds \/ WorkerEnds
  BY <1>4, <1>b, <1>0 DEF ItemGoesOn, ItemEnds, WorkerEnds, At
<1>5. CASE IdlePass
  <2>1. pc'[Worker] = "release"
    BY <1>5, <1>0, Moved DEF IdlePass
  <2>. QED
    BY <2>1 DEF WorkerNotes
<1>6. CASE Boot
  <2>1. pc'[Worker] \in {"idle", "off"}
    BY <1>6, <1>0, Moved DEF Boot
  <2>. QED
    BY <2>1 DEF WorkerNotes
<1>7. CASE SlowStarts \/ ServerDies \/ Shutdown \/ StopModels \/ UNCHANGED vars
  BY <1>7, <1>a DEF SlowStarts, ServerDies, Shutdown, StopModels, vars
<1>8. CASE Exit \/ Kill
  BY <1>8, <1>0 DEF Exit, Kill, Gone, WorkerNotes
<1>. QED
  BY <1>1, <1>2, <1>3, <1>4, <1>5, <1>6, <1>7, <1>8 DEF Next, WorkerStep

\* Every step keeps the load lock with the thread that loads.
LEMMA LoaderNext ==
  ASSUME TypeOK, LoaderLoads, DownIsOff, [Next]_vars
  PROVE  LoaderLoads'
<1> USE DEF TypeOK
<1>0. /\ PcOK /\ Worker \in Threads /\ Requests \subseteq Threads
      /\ loader # None => loader \in Threads
  BY DEF Threads, ServerOK
<1>a. ASSUME UNCHANGED <<loader, pc>> PROVE LoaderLoads'
  BY <1>a DEF LoaderLoads
<1>b. ASSUME NEW u \in Threads, NEW to, Go(u, to), UNCHANGED loader,
             pc[u] \in {"preload", "proof", "load"} => loader # u
      PROVE  LoaderLoads'
  BY <1>b, <1>0, Moved DEF LoaderLoads
<1>c. ASSUME loader' = None PROVE LoaderLoads'
  BY <1>c DEF LoaderLoads
<1>1. ASSUME NEW u \in Threads, Step(u) PROVE LoaderLoads'
  <2>1. CASE AlreadyLoaded(u)
    BY <2>1, <1>b DEF AlreadyLoaded, Loads, locks
  <2>2. CASE BeginLoad(u)
    BY <2>2 DEF BeginLoad, Loads, LoaderLoads
  <2>3. CASE Started(u) \/ LoadFails(u)
    BY <2>3, <1>c DEF Started, LoadFails
  <2>4. CASE TakeSlot(u) \/ SlotBusy(u) \/ PostEnds(u) \/ NextPage(u)
    BY <2>4, <1>b DEF TakeSlot, SlotBusy, PostEnds, NextPage, At, locks
  <2>5. CASE HoldBatch(u) \/ CallBegins(u) \/ CallEnds(u)
    BY <2>5, <1>b DEF HoldBatch, CallBegins, CallEnds, At, locks
  <2>6. CASE ProofreadEnds(u) \/ InsightsEnd(u) \/ Release(u)
    BY <2>6, <1>b DEF ProofreadEnds, InsightsEnd, Release, At, locks
  <2>7. CASE DoneWith(u)
    BY <2>7, <1>b DEF DoneWith, At, locks
  <2>. QED
    BY <1>1, <2>1, <2>2, <2>3, <2>4, <2>5, <2>6, <2>7 DEF Step
<1>2. ASSUME NEW r \in Requests, Begins(r) PROVE LoaderLoads'
  BY <1>2, <1>0, <1>a, <1>b DEF Begins, ProofreadBegins, InsightsBegin, SwitchAway, SwitchBack, At, locks
<1>3. CASE ItemBegins \/ WorkerStep
  BY <1>3, <1>0, <1>b DEF ItemBegins, WorkerStep, ItemGoesOn, ItemEnds, IdlePass, WorkerEnds, At, locks
<1>4. CASE SlowStarts \/ ServerDies \/ Shutdown \/ StopModels \/ UNCHANGED vars
  BY <1>4, <1>a DEF SlowStarts, ServerDies, Shutdown, StopModels, vars, locks
<1>5. CASE Boot
  BY <1>5, <1>0, <1>b DEF Boot, DownIsOff, locks
<1>6. CASE Exit \/ Kill
  BY <1>6, <1>c DEF Exit, Kill, Gone
<1>. QED
  BY <1>1, <1>2, <1>3, <1>4, <1>5, <1>6 DEF Next

\* Every step keeps a batch known to somebody who will end it.
LEMMA RememberedNext ==
  ASSUME TypeOK, BatchIsRemembered, KindOK, WorkerNotes, LoaderLoads, DownIsOff, [Next]_vars
  PROVE  BatchIsRemembered'
<1> USE DEF TypeOK
<1>0. /\ PcOK /\ Worker \in Threads /\ Requests \subseteq Threads
      /\ Callers \subseteq Threads /\ Worker \in Callers
      /\ Callers \cap (Proofreads \cup Switchers) = {}
  BY LeaseAssumption DEF Threads, Callers, Requests
<1>a. ASSUME ~batch' \/ used' PROVE BatchIsRemembered'
  BY <1>a DEF BatchIsRemembered
<1>b. ASSUME NEW u \in Callers, pc'[u] \notin {"idle", "off"} PROVE BatchIsRemembered'
  BY <1>b DEF BatchIsRemembered
<1>c. ASSUME UNCHANGED <<batch, used>>,
             \A v \in Callers : pc[v] \notin {"idle", "off"} => pc'[v] \notin {"idle", "off"}
      PROVE  BatchIsRemembered'
  BY <1>c DEF BatchIsRemembered
<1>d. ASSUME NEW u \in Threads, NEW to, Go(u, to), UNCHANGED <<batch, used>>,
             u \notin Callers \/ to \notin {"idle", "off"}
      PROVE  BatchIsRemembered'
  BY <1>d, <1>c, <1>0, Moved
<1>1. ASSUME NEW u \in Threads, Step(u) PROVE BatchIsRemembered'
  <2>1. CASE AlreadyLoaded(u) \/ Started(u)
    BY <2>1, <1>d DEF AlreadyLoaded, Started, Loaded
  <2>2. CASE LoadFails(u) \/ SlotBusy(u)
    BY <2>2, <1>d DEF LoadFails, SlotBusy, Failed
  <2>3. CASE BeginLoad(u)
    BY <2>3, <1>c DEF BeginLoad
  <2>4. CASE TakeSlot(u) \/ PostEnds(u) \/ NextPage(u)
    BY <2>4, <1>d DEF TakeSlot, PostEnds, NextPage, Failed
  <2>5. CASE HoldBatch(u)
    <3>1. u \in Callers /\ pc'[u] \in {"preload", "load"}
      BY <2>5, <1>0, Moved DEF HoldBatch
    <3>. QED
      BY <3>1, <1>b
  <2>6. CASE CallBegins(u)
    BY <2>6, <1>d DEF CallBegins
  <2>7. CASE CallEnds(u)
    BY <2>7, <1>d DEF CallEnds
  <2>8. CASE Release(u)
    BY <2>8, <1>a DEF Release, provider_release
  <2>9. CASE ProofreadEnds(u)
    BY <2>9, <1>d, <1>0 DEF ProofreadEnds, KindOK, At
  <2>10. CASE InsightsEnd(u)
    BY <2>10, <1>d DEF InsightsEnd
  <2>11. CASE DoneWith(u)
    BY <2>11, <1>a, <1>d DEF DoneWith, Noted
  <2>. QED
    BY <1>1, <2>1, <2>2, <2>3, <2>4, <2>5, <2>6, <2>7, <2>8, <2>9, <2>10, <2>11 DEF Step
<1>2. ASSUME NEW r \in Requests, Begins(r) PROVE BatchIsRemembered'
  BY <1>2, <1>0, <1>c, <1>d DEF Begins, ProofreadBegins, InsightsBegin, SwitchAway, SwitchBack, lease
<1>3. CASE ItemBegins \/ ItemGoesOn
  BY <1>3, <1>0, <1>a, <1>d DEF ItemBegins, ItemGoesOn
<1>4. CASE ItemEnds
  BY <1>4, <1>a DEF ItemEnds, WorkerNotes
<1>5. CASE IdlePass
  <2>1. pc'[Worker] = "release"
    BY <1>5, <1>0, Moved DEF IdlePass
  <2>. QED
    BY <2>1, <1>0, <1>b
<1>6. CASE WorkerEnds \/ Boot
  <2>1. PICK to \in {"idle", "off"} : Go(Worker, to)
    BY <1>6 DEF WorkerEnds, Boot
  <2>2. UNCHANGED <<batch, used>>
    BY <1>6 DEF WorkerEnds, Boot
  <2>3. CASE WorkerEnds
    BY <2>1, <2>2, <2>3, <1>0, <1>c, Moved DEF WorkerEnds, At
  <2>4. CASE Boot
    BY <2>2, <2>4, <1>a DEF Boot, DownIsOff
  <2>. QED
    BY <1>6, <2>3, <2>4
<1>7. CASE SlowStarts \/ ServerDies \/ Shutdown \/ StopModels \/ UNCHANGED vars
  BY <1>7, <1>c DEF SlowStarts, ServerDies, Shutdown, StopModels, vars
<1>8. CASE Exit \/ Kill
  BY <1>8, <1>a DEF Exit, Kill, Gone
<1>. QED
  BY <1>1, <1>2, <1>3, <1>4, <1>5, <1>6, <1>7, <1>8 DEF Next, WorkerStep

\* Every step keeps a stopped app without batch and threads at work.
LEMMA DownNext ==
  ASSUME TypeOK, LoaderLoads, DownIsOff, [Next]_vars
  PROVE  DownIsOff'
<1> USE DEF TypeOK
<1>0. Worker \in Threads /\ Requests \subseteq Threads /\ Worker \notin Requests
  BY LeaseAssumption DEF Threads
<1>a. ASSUME app # "down", UNCHANGED app PROVE DownIsOff'
  BY <1>a DEF DownIsOff
<1>1. ASSUME NEW u \in Threads, Step(u) PROVE DownIsOff'
  <2>1. UNCHANGED app
    BY <1>1 DEF Step, AlreadyLoaded, BeginLoad, Started, LoadFails, TakeSlot, SlotBusy, PostEnds,
                HoldBatch, CallBegins, CallEnds, Release, NextPage, ProofreadEnds, InsightsEnd, DoneWith
  <2>2. app # "down"
    BY <1>1, StepIsInCall DEF DownIsOff
  <2>. QED
    BY <2>1, <2>2, <1>a
<1>2. ASSUME NEW r \in Requests, Begins(r) PROVE DownIsOff'
  BY <1>2, <1>a DEF Begins, ProofreadBegins, InsightsBegin, SwitchAway, SwitchBack
<1>3. CASE ItemBegins \/ WorkerStep
  BY <1>3, <1>0, <1>a DEF ItemBegins, WorkerStep, ItemGoesOn, ItemEnds, IdlePass, WorkerEnds, At, DownIsOff
<1>4. CASE SlowStarts \/ ServerDies \/ UNCHANGED vars
  BY <1>4 DEF SlowStarts, ServerDies, vars, DownIsOff
<1>5. CASE Boot \/ Shutdown \/ StopModels
  BY <1>5 DEF Boot, Shutdown, StopModels, DownIsOff
<1>6. CASE Exit \/ Kill
  BY <1>6 DEF Exit, Kill, Gone, DownIsOff
<1>. QED
  BY <1>1, <1>2, <1>3, <1>4, <1>5, <1>6 DEF Next

\* The invariant that carries the count, for any threads and faults: a stop
\* asked for has a holder to wait for, and a batch's hold is known to a pass
\* that will let it go.
THEOREM Inductive == Spec => []IInv
<1>1. Init => IInv
  BY IInvInit
<1>2. TypeOK /\ IInv /\ [Next]_vars => IInv'
  <2>. SUFFICES ASSUME TypeOK, IInv, [Next]_vars PROVE IInv'
    OBVIOUS
  <2>1. HoldersAreCounted'
    BY CountNext DEF IInv
  <2>2. PendingHasHolder' /\ KindOK'
    BY PendingNext, KindNext DEF IInv
  <2>3. BatchIsRemembered' /\ WorkerNotes'
    BY RememberedNext, NotesNext DEF IInv
  <2>4. LoaderLoads' /\ DownIsOff'
    BY LoaderNext, DownNext DEF IInv
  <2>. QED
    BY <2>1, <2>2, <2>3, <2>4 DEF IInv
<1>. QED
  BY <1>1, <1>2, TypeCorrect, PTL DEF Spec

\* The lease counts the threads between their acquire and their release and
\* the batch's hold, whatever fails in between.
THEOREM HoldersCorrect == Spec => []HoldersAreCounted
BY Inductive, PTL DEF IInv

\* No batch's hold on the lease is ever forgotten.
THEOREM BatchKnown == Spec => []BatchIsRemembered
BY Inductive, PTL DEF IInv

-----------------------------------------------------------------------------
(* Nobody stops ALLaM under a user.                                        *)

\* No holder is counted only when there is none.
LEMMA ZeroIsNobody ==
  ASSUME NEW S, S \subseteq Proofreads \cup Callers, NEW b,
         0 = Cardinality(S) + IF b THEN 1 ELSE 0
  PROVE  S = {} /\ ~b
<1>1. IsFiniteSet(S) /\ Cardinality(S) \in Nat
  BY HoldersFinite
<1>2. Cardinality(S) = 0 /\ ~b
  BY <1>1
<1>. QED
  BY <1>1, <1>2, FS_EmptySet

\* The lease stops the server only with its last hold.
LEMMA ReleaseStops ==
  ASSUME NEW asked, release(asked), server' # server
  PROVE  holders' = 0
BY DEF release, process

\* No step of a serving app stops the server under a holder.
LEMMA NeverUnderStep ==
  ASSUME TypeOK, IInv, IInv', [Next]_vars,
         app = "up", server = "ready", server' = "none", crashes' = crashes
  PROVE  HoldersNow' = {} /\ ~batch'
<1>0. SUFFICES holders' = 0
  <2>1. HoldersNow' \subseteq Proofreads \cup Callers
    BY DEF HoldersNow
  <2>. QED
    BY <2>1, ZeroIsNobody DEF IInv, HoldersAreCounted
<1>1. ASSUME NEW u \in Threads, Step(u) PROVE holders' = 0
  <2>1. CASE AlreadyLoaded(u) \/ Started(u) \/ TakeSlot(u) \/ SlotBusy(u) \/ PostEnds(u)
             \/ HoldBatch(u) \/ CallBegins(u) \/ NextPage(u) \/ InsightsEnd(u) \/ DoneWith(u)
    BY <2>1 DEF AlreadyLoaded, Started, TakeSlot, SlotBusy, PostEnds, HoldBatch, CallBegins,
                NextPage, InsightsEnd, DoneWith, process
  <2>2. CASE BeginLoad(u) \/ LoadFails(u)
    BY <2>2 DEF BeginLoad, LoadFails
  <2>3. CASE CallEnds(u) \/ ProofreadEnds(u)
    BY <2>3, ReleaseStops DEF CallEnds, ProofreadEnds
  <2>4. CASE Release(u)
    BY <2>4, ReleaseStops DEF Release, provider_release, stop_when_idle, process
  <2>. QED
    BY <1>1, <2>1, <2>2, <2>3, <2>4 DEF Step
<1>2. ASSUME NEW r \in Requests, Begins(r) PROVE holders' = 0
  BY <1>2 DEF Begins, ProofreadBegins, InsightsBegin, SwitchAway, SwitchBack, process
<1>3. CASE ItemBegins \/ WorkerStep \/ SlowStarts \/ Boot \/ Shutdown \/ StopModels
  BY <1>3 DEF ItemBegins, WorkerStep, ItemGoesOn, ItemEnds, IdlePass, WorkerEnds, SlowStarts,
              Boot, Shutdown, StopModels, process
<1>4. CASE ServerDies
  BY <1>4 DEF ServerDies, TypeOK, ServerOK
<1>5. CASE Exit \/ Kill
  BY <1>5 DEF Exit, Kill, Gone
<1>6. CASE UNCHANGED vars
  BY <1>6 DEF vars, process
<1>. QED
  BY <1>1, <1>2, <1>3, <1>4, <1>5, <1>6 DEF Next

\* While the app is up nobody stops the model under a request, or between two
\* requests of a batch.
THEOREM NeverUnder == Spec => StoppedOnlyWhenFree
<1>1. TypeOK /\ IInv /\ IInv' /\ [Next]_vars
        => [app = "up" /\ server = "ready" /\ server' = "none" /\ crashes' = crashes
              => HoldersNow' = {} /\ ~batch']_vars
  BY NeverUnderStep
<1>. QED
  BY <1>1, TypeCorrect, Inductive, PTL DEF Spec, StoppedOnlyWhenFree

-----------------------------------------------------------------------------
(* The count does what the set of users in SharedModel does.               *)

Stutters == UNCHANGED <<UsersNow, server = "ready", app = "up", crashes>>
Same     == UNCHANGED <<server = "ready", app = "up", crashes>>

\* The initial states map to initial states of SharedModel.
LEMMA SharedInit == Init => Shared!Init
<1>. SUFFICES ASSUME Init PROVE Shared!Init
  OBVIOUS
<1>1. UsersNow = {}
  BY DEF Init, UsersNow, HoldersNow, HeldAt, Threads, Callers, Requests
<1>. QED
  BY <1>1 DEF Init, Shared!Init

\* A step that changes no mapped variable is a stutter of SharedModel.
LEMMA StutterIs == Stutters => UNCHANGED Shared!vars
BY DEF Stutters, Shared!vars

\* The batch's own hold is none of the threads'.
LEMMA BatchIsNoThread == Batch \notin HoldersNow
BY LeaseAssumption DEF HoldersNow, Threads, Callers, Requests

\* One user more, or one less, is one of SharedModel's steps.
LEMMA Joins ==
  ASSUME NEW u \in Threads \cup {Batch}, u \notin UsersNow, UsersNow' = UsersNow \cup {u}, Same
  PROVE  Shared!Next
BY DEF Same, Shared!Next, Shared!Join

\* A user who leaves, the last one perhaps with the server, is a step of SharedModel.
LEMMA Leaves ==
  ASSUME NEW u \in Threads \cup {Batch}, u \in UsersNow, UsersNow' = UsersNow \ {u},
         UNCHANGED <<app = "up", crashes>>,
         (server' = "ready") # (server = "ready") => UsersNow' = {} /\ server' # "ready"
  PROVE  Shared!Next
BY DEF Shared!Next, Shared!Leave

\* What stop leaves of the server.
LEMMA Stopped ==
  ASSUME stop
  PROVE  server' = server \/ server' # "ready"
BY DEF stop, process

\* Letting go: the server changes only with the last hold, and then goes.
LEMMA ReleaseLoads ==
  ASSUME NEW asked, release(asked), HoldersAreCounted',
         (server' = "ready") # (server = "ready")
  PROVE  UsersNow' = {} /\ server' # "ready"
<1>1. holders' = 0 /\ stop
  BY DEF release, process
<1>2. HoldersNow' \subseteq Proofreads \cup Callers
  BY DEF HoldersNow
<1>3. HoldersNow' = {} /\ ~batch'
  BY <1>1, <1>2, ZeroIsNobody DEF HoldersAreCounted
<1>. QED
  BY <1>1, <1>3, Stopped DEF UsersNow

\* A thread's step maps to a step of SharedModel or a stutter.
LEMMA RefineStep ==
  ASSUME TypeOK, IInv, HoldersAreCounted', NEW u \in Threads, Step(u)
  PROVE  Shared!Next \/ UNCHANGED Shared!vars
<1>0. PcOK /\ Batch \notin HoldersNow /\ Batch \notin HoldersNow'
  BY BatchIsNoThread, LeaseAssumption DEF TypeOK, HoldersNow, Threads, Callers, Requests
<1>a. ASSUME NEW to, Go(u, to), pc[u] \in HeldAt <=> to \in HeldAt, UNCHANGED batch
      PROVE  UsersNow' = UsersNow
  BY <1>a, <1>0, SameHolders DEF UsersNow
<1>b. SUFFICES ASSUME ~Stutters PROVE Shared!Next
  BY StutterIs
<1>1. CASE AlreadyLoaded(u)
  <2>1. UsersNow' = UsersNow
    BY <1>1, <1>a DEF AlreadyLoaded, Loads, Loaded, At, HeldAt
  <2>. QED
    BY <1>1, <1>b, <2>1 DEF AlreadyLoaded, Stutters, process
<1>2. CASE BeginLoad(u)
  <2>1. UsersNow' = UsersNow
    BY <1>2 DEF BeginLoad, UsersNow, HoldersNow
  <2>. QED
    BY <1>2, <1>b, <2>1 DEF BeginLoad, Stutters
<1>3. CASE Started(u)
  <2>1. UsersNow' = UsersNow
    BY <1>3, <1>a, LeaseAssumption DEF Started, IInv, LoaderLoads, Loaded, At, HeldAt
  <2>2. server' = "ready" /\ UNCHANGED <<app, crashes>>
    BY <1>3 DEF Started
  <2>. QED
    BY <1>b, <2>1, <2>2 DEF Stutters, Shared!Next, Shared!Load
<1>4. CASE LoadFails(u)
  <2>1. UsersNow' = UsersNow
    BY <1>4, <1>a, LeaseAssumption DEF LoadFails, IInv, LoaderLoads, Failed, At, HeldAt
  <2>. QED
    BY <1>4, <1>b, <2>1 DEF LoadFails, Stutters
<1>5. CASE TakeSlot(u) \/ SlotBusy(u) \/ PostEnds(u) \/ NextPage(u) \/ InsightsEnd(u) \/ DoneWith(u)
  <2>1. CASE TakeSlot(u)
    BY <2>1, <1>a, <1>b DEF TakeSlot, At, HeldAt, Stutters, process
  <2>2. CASE SlotBusy(u)
    BY <2>2, <1>a, <1>b DEF SlotBusy, Failed, At, HeldAt, Stutters, process
  <2>3. CASE PostEnds(u)
    BY <2>3, <1>a, <1>b DEF PostEnds, Failed, At, HeldAt, Stutters, process
  <2>4. CASE NextPage(u)
    BY <2>4, <1>a, <1>b DEF NextPage, At, HeldAt, Stutters, process
  <2>5. CASE InsightsEnd(u)
    BY <2>5, <1>a, <1>b DEF InsightsEnd, HeldAt, Stutters, process
  <2>6. CASE DoneWith(u)
    BY <2>6, <1>a, <1>b DEF DoneWith, At, HeldAt, Stutters, process
  <2>. QED
    BY <1>5, <2>1, <2>2, <2>3, <2>4, <2>5, <2>6
<1>6. CASE HoldBatch(u)
  <2>1. HoldersNow' = HoldersNow
    BY <1>6, <1>0, SameHolders DEF HoldBatch, At, HeldAt
  <2>2. batch' = TRUE /\ UNCHANGED <<server, app, crashes>>
    BY <1>6 DEF HoldBatch, hold_batch, process, TypeOK, LeaseOK
  <2>3. UsersNow' = UsersNow \cup {Batch}
    BY <2>1, <2>2 DEF UsersNow
  <2>4. CASE batch
    BY <2>1, <2>2, <2>4, <1>b DEF Stutters, UsersNow
  <2>5. CASE ~batch
    <3>1. Batch \notin UsersNow
      BY <2>5, <1>0 DEF UsersNow
    <3>. QED
      BY <2>2, <2>3, <3>1, Joins DEF Same
  <2>. QED
    BY <2>4, <2>5
<1>7. CASE CallBegins(u)
  <2>1. HoldersNow' = HoldersNow \cup {u} /\ u \notin HoldersNow
    BY <1>7, <1>0, MoreHolders DEF CallBegins, At, HeldAt
  <2>2. UNCHANGED <<batch, server, app, crashes>>
    BY <1>7 DEF CallBegins, process
  <2>3. UsersNow' = UsersNow \cup {u} /\ u \notin UsersNow
    BY <2>1, <2>2, LeaseAssumption DEF UsersNow
  <2>. QED
    BY <2>2, <2>3, Joins DEF Same
<1>8. CASE CallEnds(u) \/ ProofreadEnds(u)
  <2>0. u \in Proofreads \cup Callers /\ pc[u] \in HeldAt
    BY <1>8 DEF CallEnds, ProofreadEnds, IInv, KindOK, At, HeldAt
  <2>1. HoldersNow' = HoldersNow \ {u} /\ u \in HoldersNow
    BY <1>8, <1>0, <2>0, FewerHolders DEF CallEnds, ProofreadEnds, At, HeldAt
  <2>2. PICK asked : release(asked)
    BY <1>8 DEF CallEnds, ProofreadEnds
  <2>3. UNCHANGED <<batch, app, crashes>>
    BY <1>8 DEF CallEnds, ProofreadEnds
  <2>4. UsersNow' = UsersNow \ {u} /\ u \in UsersNow
    BY <2>1, <2>3, LeaseAssumption DEF UsersNow
  <2>. QED
    BY <2>2, <2>3, <2>4, ReleaseLoads, Leaves
<1>9. CASE Release(u)
  <2>1. HoldersNow' = HoldersNow
    BY <1>9, <1>0, SameHolders DEF Release, At, HeldAt
  <2>2. ~batch' /\ UNCHANGED <<app, crashes>>
    BY <1>9 DEF Release, provider_release
  <2>3. CASE batch
    <3>1. UsersNow' = UsersNow \ {Batch} /\ Batch \in UsersNow
      BY <2>1, <2>2, <2>3, <1>0 DEF UsersNow
    <3>2. release(TRUE)
      BY <1>9, <2>3 DEF Release, provider_release
    <3>. QED
      BY <2>2, <3>1, <3>2, ReleaseLoads, Leaves
  <2>4. CASE ~batch
    <3>1. UsersNow' = UsersNow
      BY <2>1, <2>2, <2>4 DEF UsersNow
    <3>2. stop_when_idle
      BY <1>9, <2>4 DEF Release, provider_release
    <3>3. (server' = "ready") # (server = "ready")
      BY <1>b, <2>2, <3>1 DEF Stutters
    <3>4. holders' = 0 /\ server' # "ready"
      BY <3>2, <3>3, Stopped DEF stop_when_idle, process
    <3>5. HoldersNow' \subseteq Proofreads \cup Callers
      BY DEF HoldersNow
    <3>6. HoldersNow' = {}
      BY <3>4, <3>5, ZeroIsNobody DEF HoldersAreCounted
    <3>7. UsersNow = {}
      BY <3>1, <3>6, <2>2 DEF UsersNow
    <3>. QED
      BY <2>2, <3>1, <3>4, <3>7 DEF Shared!Next, Shared!Unload
  <2>. QED
    BY <2>3, <2>4
<1>. QED
  BY <1>1, <1>2, <1>3, <1>4, <1>5, <1>6, <1>7, <1>8, <1>9 DEF Step

\* Every step maps to a step of SharedModel or a stutter.
LEMMA RefineNext ==
  ASSUME TypeOK, IInv, HoldersAreCounted', [Next]_vars
  PROVE  Shared!Next \/ UNCHANGED Shared!vars
<1>0. /\ PcOK /\ Worker \in Threads /\ Requests \subseteq Threads
      /\ Batch \notin HoldersNow
  BY BatchIsNoThread DEF TypeOK, Threads
<1>a. ASSUME NEW u \in Threads, NEW to, Go(u, to), pc[u] \in HeldAt <=> to \in HeldAt, UNCHANGED batch
      PROVE  UsersNow' = UsersNow
  BY <1>a, <1>0, SameHolders DEF UsersNow
<1>b. ASSUME UNCHANGED <<pc, batch>> PROVE UsersNow' = UsersNow
  BY <1>b DEF UsersNow, HoldersNow
<1>1. ASSUME NEW u \in Threads, Step(u) PROVE Shared!Next \/ UNCHANGED Shared!vars
  BY <1>1, RefineStep DEF IInv
<1>2. ASSUME NEW r \in Requests, Begins(r) PROVE Shared!Next \/ UNCHANGED Shared!vars
  <2>1. CASE ProofreadBegins(r)
    <3>1. HoldersNow' = HoldersNow \cup {r} /\ r \notin HoldersNow
      BY <2>1, <1>0, MoreHolders DEF ProofreadBegins, At, HeldAt
    <3>2. UNCHANGED <<batch, server, app, crashes>>
      BY <2>1 DEF ProofreadBegins, process
    <3>3. UsersNow' = UsersNow \cup {r} /\ r \notin UsersNow
      BY <3>1, <3>2, <1>0, LeaseAssumption DEF UsersNow
    <3>. QED
      BY <3>2, <3>3, <1>0, Joins DEF Same
  <2>2. CASE InsightsBegin(r)
    BY <2>2, <1>a, <1>0, StutterIs DEF InsightsBegin, At, HeldAt, process, Stutters
  <2>3. CASE SwitchAway(r)
    BY <2>3, <1>a, <1>0, StutterIs DEF SwitchAway, At, HeldAt, process, Stutters
  <2>4. CASE SwitchBack(r)
    BY <2>4, <1>b, StutterIs DEF SwitchBack, process, Stutters
  <2>. QED
    BY <1>2, <2>1, <2>2, <2>3, <2>4 DEF Begins
<1>3. CASE ItemBegins \/ WorkerStep
  <2>1. UsersNow' = UsersNow
    BY <1>3, <1>a, <1>0 DEF ItemBegins, WorkerStep, ItemGoesOn, ItemEnds, IdlePass, WorkerEnds,
                            At, HeldAt
  <2>2. UNCHANGED <<server, app, crashes>>
    BY <1>3 DEF ItemBegins, WorkerStep, ItemGoesOn, ItemEnds, IdlePass, WorkerEnds, process
  <2>. QED
    BY <2>1, <2>2, StutterIs DEF Stutters
<1>4. CASE SlowStarts
  <2>1. UsersNow' = UsersNow
    BY <1>4, <1>b DEF SlowStarts
  <2>. QED
    BY <1>4, <2>1 DEF SlowStarts, Shared!Next, Shared!Load
<1>5. CASE ServerDies
  <2>1. UsersNow' = UsersNow
    BY <1>5, <1>b DEF ServerDies
  <2>. QED
    BY <1>5, <2>1 DEF ServerDies, Shared!Next, Shared!Crash
<1>6. CASE Boot
  <2>1. UsersNow = {}
    BY <1>6 DEF Boot, IInv, DownIsOff, UsersNow, HoldersNow, HeldAt, Threads, Callers, Requests
  <2>2. UsersNow' = {}
    BY <1>6, <1>a, <1>0, <2>1 DEF Boot, IInv, DownIsOff, HeldAt
  <2>. QED
    BY <1>6, <2>2 DEF Boot, process, Shared!Next, Shared!Start
<1>7. CASE Shutdown
  <2>1. UsersNow' = UsersNow
    BY <1>7, <1>b DEF Shutdown
  <2>. QED
    BY <1>7, <2>1 DEF Shutdown, process, Shared!Next, Shared!Finish
<1>8. CASE StopModels
  <2>1. UsersNow' = UsersNow
    BY <1>8, <1>b DEF StopModels
  <2>2. server' = server \/ server' # "ready"
    BY <1>8, Stopped DEF StopModels
  <2>3. app = "stopping" /\ app' = "stopped" /\ UNCHANGED crashes
    BY <1>8 DEF StopModels
  <2>4. CASE (server' = "ready") = (server = "ready")
    BY <2>1, <2>3, <2>4, StutterIs DEF Stutters
  <2>5. CASE (server' = "ready") # (server = "ready")
    BY <2>1, <2>2, <2>3, <2>5 DEF Shared!Next, Shared!Unload
  <2>. QED
    BY <2>4, <2>5
<1>9. CASE Exit \/ Kill
  <2>1. UsersNow' = {}
    BY <1>9 DEF Exit, Kill, Gone, UsersNow, HoldersNow, HeldAt, Threads, Callers, Requests
  <2>2. app' = "down" /\ UNCHANGED <<crashes, server = "ready">>
    BY <1>9 DEF Exit, Kill, Gone
  <2>. QED
    BY <2>1, <2>2 DEF Shared!Next, Shared!Finish
<1>10. CASE UNCHANGED vars
  BY <1>10, <1>b, StutterIs DEF vars, process, Stutters
<1>. QED
  BY <1>1, <1>2, <1>3, <1>4, <1>5, <1>6, <1>7, <1>8, <1>9, <1>10 DEF Next

\* Every behaviour of the app is one SharedModel allows: a count of holders
\* keeps the model under each of its users as a set of them would.
THEOREM Refinement == Spec => SharedSpec
<1>1. Init => Shared!Init
  BY SharedInit
<1>2. TypeOK /\ IInv /\ IInv' /\ [Next]_vars => Shared!Next \/ UNCHANGED Shared!vars
  BY RefineNext DEF IInv
<1>3. TypeOK /\ IInv /\ IInv' /\ [Next]_vars => [Shared!Next]_(Shared!vars)
  BY <1>2
<1>. QED
  BY <1>1, <1>3, TypeCorrect, Inductive, PTL DEF Spec, SharedSpec, Shared!Spec
=============================================================================
