--------------------------- MODULE ComplaintProofs ---------------------------
(* Proofs about a complaint's original file and its review: ComplaintFiles  *)
(* for every number of complaints, processes and threads and every set of   *)
(* calls that fail, ComplaintReview for every field, value and analysis.    *)
EXTENDS ComplaintFiles, ComplaintReview, TLAPS

USE DEF Ids, Agents, Live, OnDisk, Spend, FaultOf, At, Done, LetGo,
        IsNew, NextId, TakeOver, Orphans, LeftBehind,
        rows, memory, threads, sweeper

\* The first state is well typed.
LEMMA InitType == Init => TypeOK
  BY FilesAssumption DEF Init, TypeOK, RowsOK, ProcsOK, ThreadsOK, SweepOK, BudgetOK

\* Every step keeps the types.
LEMMA NextType == TypeOK /\ [Next]_vars => TypeOK'
<1> SUFFICES ASSUME TypeOK, [Next]_vars PROVE TypeOK'
  OBVIOUS
<1> USE DEF TypeOK
<1>1. ASSUME NEW t \in Threads, NEW p \in Procs, NEW c \in Contents, Upload(t, p, c) PROVE TypeOK'
  <2>1. ThreadsOK'
    BY <1>1 DEF Upload, ThreadsOK, RowsOK
  <2>2. RowsOK' /\ ProcsOK' /\ SweepOK' /\ BudgetOK'
    BY <1>1 DEF Upload, RowsOK, ProcsOK, SweepOK, BudgetOK
  <2>3. QED
    BY <2>1, <2>2
<1>2. ASSUME NEW t \in Threads, Duplicate(t) PROVE TypeOK'
  <2>1. ThreadsOK'
    BY <1>2 DEF Duplicate, ThreadsOK, RowsOK
  <2>2. RowsOK' /\ ProcsOK' /\ SweepOK' /\ BudgetOK'
    BY <1>2 DEF Duplicate, RowsOK, ProcsOK, SweepOK, BudgetOK
  <2>3. QED
    BY <2>1, <2>2
<1>3. ASSUME NEW t \in Threads, Insert(t) PROVE TypeOK'
  <2>1. ProcsOK'
    BY <1>3 DEF Insert, ProcsOK, ThreadsOK
  <2>2. ThreadsOK'
    <3>1. seq + 1 \in Ids
      BY <1>3, FilesAssumption DEF Insert, RowsOK
    <3>2. QED
      BY <1>3, <3>1 DEF Insert, ThreadsOK
  <2>3. RowsOK' /\ SweepOK' /\ BudgetOK'
    BY <1>3 DEF Insert, RowsOK, SweepOK, BudgetOK
  <2>4. QED
    BY <2>1, <2>2, <2>3
<1>4. ASSUME NEW t \in Threads, InsertRefused(t) PROVE TypeOK'
  <2>1. ProcsOK'
    BY <1>4 DEF InsertRefused, ProcsOK, ThreadsOK
  <2>2. ThreadsOK'
    BY <1>4 DEF InsertRefused, ThreadsOK, RowsOK
  <2>3. BudgetOK'
    BY <1>4 DEF InsertRefused, BudgetOK, ThreadsOK
  <2>4. RowsOK' /\ SweepOK'
    BY <1>4 DEF InsertRefused, RowsOK, SweepOK
  <2>5. QED
    BY <2>1, <2>2, <2>3, <2>4
<1>5. ASSUME NEW t \in Threads, Place(t) PROVE TypeOK'
  <2>1. RowsOK'
    BY <1>5 DEF Place, RowsOK, ThreadsOK
  <2>2. ThreadsOK'
    BY <1>5 DEF Place, ThreadsOK, RowsOK
  <2>3. ProcsOK' /\ SweepOK' /\ BudgetOK'
    BY <1>5 DEF Place, ProcsOK, SweepOK, BudgetOK
  <2>4. QED
    BY <2>1, <2>2, <2>3
<1>6. ASSUME NEW t \in Threads, Commit(t) PROVE TypeOK'
  <2>1. RowsOK'
    BY <1>6 DEF Commit, RowsOK, ThreadsOK
  <2>2. ProcsOK'
    BY <1>6 DEF Commit, ProcsOK, ThreadsOK
  <2>3. ThreadsOK'
    BY <1>6 DEF Commit, ThreadsOK, RowsOK
  <2>4. BudgetOK'
    BY <1>6 DEF Commit, BudgetOK, ThreadsOK
  <2>5. SweepOK'
    BY <1>6 DEF Commit, SweepOK
  <2>6. QED
    BY <2>1, <2>2, <2>3, <2>4, <2>5
<1>7. ASSUME NEW t \in Threads, CommitRefused(t) PROVE TypeOK'
  <2>1. ProcsOK'
    BY <1>7 DEF CommitRefused, ProcsOK, ThreadsOK
  <2>2. ThreadsOK'
    BY <1>7 DEF CommitRefused, ThreadsOK, RowsOK
  <2>3. BudgetOK'
    BY <1>7 DEF CommitRefused, BudgetOK, ThreadsOK
  <2>4. RowsOK' /\ SweepOK'
    BY <1>7 DEF CommitRefused, RowsOK, SweepOK
  <2>5. QED
    BY <2>1, <2>2, <2>3, <2>4
<1>8. ASSUME NEW t \in Threads, Cleanup(t) PROVE TypeOK'
  <2>1. RowsOK'
    BY <1>8 DEF Cleanup, RowsOK, ThreadsOK
  <2>2. ThreadsOK'
    BY <1>8 DEF Cleanup, ThreadsOK, RowsOK
  <2>3. BudgetOK'
    BY <1>8 DEF Cleanup, BudgetOK, ThreadsOK
  <2>4. ProcsOK' /\ SweepOK'
    BY <1>8 DEF Cleanup, ProcsOK, SweepOK
  <2>5. QED
    BY <2>1, <2>2, <2>3, <2>4
<1>9. ASSUME NEW t \in Threads, NEW p \in Procs, NEW i \in Ids, DeleteRow(t, p, i) PROVE TypeOK'
  <2>1. RowsOK'
    BY <1>9 DEF DeleteRow, RowsOK, ThreadsOK
  <2>2. ProcsOK'
    BY <1>9 DEF DeleteRow, ProcsOK, ThreadsOK
  <2>3. ThreadsOK'
    BY <1>9 DEF DeleteRow, ThreadsOK, RowsOK
  <2>4. BudgetOK'
    BY <1>9 DEF DeleteRow, BudgetOK, ThreadsOK
  <2>5. SweepOK'
    BY <1>9 DEF DeleteRow, SweepOK
  <2>6. QED
    BY <2>1, <2>2, <2>3, <2>4, <2>5
<1>10. ASSUME NEW t \in Threads, DeleteFile(t) PROVE TypeOK'
  <2>1. RowsOK'
    BY <1>10 DEF DeleteFile, RowsOK, ThreadsOK
  <2>2. ProcsOK'
    BY <1>10 DEF DeleteFile, ProcsOK, ThreadsOK
  <2>3. ThreadsOK'
    BY <1>10 DEF DeleteFile, ThreadsOK, RowsOK
  <2>4. BudgetOK'
    BY <1>10 DEF DeleteFile, BudgetOK, ThreadsOK
  <2>5. SweepOK'
    BY <1>10 DEF DeleteFile, SweepOK
  <2>6. QED
    BY <2>1, <2>2, <2>3, <2>4, <2>5
<1>11. ASSUME NEW p \in Procs, Boot(p) PROVE TypeOK'
  <2>1. ProcsOK'
    BY <1>11 DEF Boot, ProcsOK, ThreadsOK
  <2>2. RowsOK' /\ ThreadsOK' /\ SweepOK' /\ BudgetOK'
    BY <1>11 DEF Boot, RowsOK, ThreadsOK, SweepOK, BudgetOK
  <2>3. QED
    BY <2>1, <2>2
<1>12. ASSUME NEW p \in Procs, Crash(p) PROVE TypeOK'
  <2>1. ProcsOK'
    BY <1>12 DEF Crash, ProcsOK, ThreadsOK
  <2>2. ThreadsOK'
    BY <1>12 DEF Crash, ThreadsOK, RowsOK
  <2>3. SweepOK'
    BY <1>12 DEF Crash, SweepOK, RowsOK, ThreadsOK
  <2>4. BudgetOK'
    BY <1>12 DEF Crash, BudgetOK, ThreadsOK
  <2>5. RowsOK'
    BY <1>12 DEF Crash, RowsOK
  <2>6. QED
    BY <2>1, <2>2, <2>3, <2>4, <2>5
<1>13. ASSUME NEW p \in Procs, SweepIds(p) PROVE TypeOK'
  <2>1. ProcsOK'
    BY <1>13 DEF SweepIds, ProcsOK, ThreadsOK
  <2>2. SweepOK'
    BY <1>13 DEF SweepIds, SweepOK, RowsOK, ThreadsOK
  <2>3. RowsOK' /\ ThreadsOK' /\ BudgetOK'
    BY <1>13 DEF SweepIds, RowsOK, ThreadsOK, BudgetOK
  <2>4. QED
    BY <2>1, <2>2, <2>3
<1>14. ASSUME NEW p \in Procs, SweepHighest(p) PROVE TypeOK'
  <2>1. SweepOK'
    BY <1>14 DEF SweepHighest, SweepOK, RowsOK, ThreadsOK
  <2>2. RowsOK' /\ ProcsOK' /\ ThreadsOK' /\ BudgetOK'
    BY <1>14 DEF SweepHighest, RowsOK, ProcsOK, ThreadsOK, BudgetOK
  <2>3. QED
    BY <2>1, <2>2
<1>15. ASSUME NEW p \in Procs, NEW i \in Ids, SweepRemove(p, i) PROVE TypeOK'
  <2>1. RowsOK'
    BY <1>15 DEF SweepRemove, RowsOK, ThreadsOK
  <2>2. SweepOK'
    BY <1>15 DEF SweepRemove, SweepOK, RowsOK, ThreadsOK
  <2>3. BudgetOK'
    BY <1>15 DEF SweepRemove, BudgetOK, ThreadsOK
  <2>4. ProcsOK' /\ ThreadsOK'
    BY <1>15 DEF SweepRemove, ProcsOK, ThreadsOK
  <2>5. QED
    BY <2>1, <2>2, <2>3, <2>4
<1>16. ASSUME NEW p \in Procs, SweepEnd(p) PROVE TypeOK'
  <2>1. ProcsOK'
    BY <1>16 DEF SweepEnd, ProcsOK, SweepOK
  <2>2. SweepOK'
    BY <1>16 DEF SweepEnd, SweepOK, RowsOK, ThreadsOK
  <2>3. RowsOK' /\ ThreadsOK' /\ BudgetOK'
    BY <1>16 DEF SweepEnd, RowsOK, ThreadsOK, BudgetOK
  <2>4. QED
    BY <2>1, <2>2, <2>3
<1>17. CASE UNCHANGED vars
  BY <1>17 DEF vars, RowsOK, ProcsOK, ThreadsOK, SweepOK, BudgetOK
<1>18. QED
  BY <1>1, <1>2, <1>3, <1>4, <1>5, <1>6, <1>7, <1>8, <1>9, <1>10, <1>11,
     <1>12, <1>13, <1>14, <1>15, <1>16, <1>17
     DEF Next, ThreadStep, SweepStep

\* Every reachable state is well typed.
THEOREM TypeCorrect == Spec => []TypeOK
  BY InitType, NextType, PTL DEF Spec

-----------------------------------------------------------------------------
\* Every step keeps what makes the rows unique.
LEMMA NextRows == TypeOK /\ RowsInv /\ [Next]_vars => RowsInv'
<1> SUFFICES ASSUME TypeOK, RowsInv, [Next]_vars PROVE RowsInv'
  OBVIOUS
<1> USE DEF TypeOK, RowsInv
<1>1. ASSUME NEW t \in Threads, NEW p \in Procs, NEW c \in Contents, Upload(t, p, c) PROVE RowsInv'
  <2>1. InsertsAlone'
    BY <1>1 DEF Upload, InsertsAlone, RowsOK, ThreadsOK
  <2>2. OneRowPerContent' /\ Numbered'
    BY <1>1 DEF Upload, OneRowPerContent, Numbered
  <2>3. QED
    BY <2>1, <2>2
<1>2. ASSUME NEW t \in Threads, Duplicate(t) PROVE RowsInv'
  <2>1. InsertsAlone'
    BY <1>2 DEF Duplicate, InsertsAlone, RowsOK, ThreadsOK
  <2>2. OneRowPerContent' /\ Numbered'
    BY <1>2 DEF Duplicate, OneRowPerContent, Numbered
  <2>3. QED
    BY <2>1, <2>2
<1>3. ASSUME NEW t \in Threads, Insert(t) PROVE RowsInv'
  <2>1. InsertsAlone'
    <3>1. \A s \in Threads : pc[s] \notin {"place", "commit"}
      BY <1>3, FilesAssumption DEF Insert, InsertsAlone
    <3>2. QED
      BY <1>3, <3>1 DEF Insert, InsertsAlone, RowsOK, ThreadsOK
  <2>2. OneRowPerContent' /\ Numbered'
    BY <1>3 DEF Insert, OneRowPerContent, Numbered
  <2>3. QED
    BY <2>1, <2>2
<1>4. ASSUME NEW t \in Threads, InsertRefused(t) PROVE RowsInv'
  <2>1. InsertsAlone'
    BY <1>4 DEF InsertRefused, InsertsAlone, RowsOK, ThreadsOK
  <2>2. OneRowPerContent' /\ Numbered'
    BY <1>4 DEF InsertRefused, OneRowPerContent, Numbered
  <2>3. QED
    BY <2>1, <2>2
<1>5. ASSUME NEW t \in Threads, Place(t) PROVE RowsInv'
  <2>1. InsertsAlone'
    BY <1>5 DEF Place, InsertsAlone, RowsOK, ThreadsOK
  <2>2. OneRowPerContent' /\ Numbered'
    BY <1>5 DEF Place, OneRowPerContent, Numbered
  <2>3. QED
    BY <2>1, <2>2
<1>6. ASSUME NEW t \in Threads, Commit(t) PROVE RowsInv'
  <2>1. OneRowPerContent'
    BY <1>6 DEF Commit, OneRowPerContent, InsertsAlone, RowsOK, ThreadsOK
  <2>2. InsertsAlone'
    BY <1>6 DEF Commit, InsertsAlone, RowsOK, ThreadsOK
  <2>3. Numbered'
    BY <1>6 DEF Commit, Numbered, InsertsAlone, RowsOK, ThreadsOK
  <2>4. QED
    BY <2>1, <2>2, <2>3
<1>7. ASSUME NEW t \in Threads, CommitRefused(t) PROVE RowsInv'
  <2>1. InsertsAlone'
    BY <1>7 DEF CommitRefused, InsertsAlone, RowsOK, ThreadsOK
  <2>2. OneRowPerContent' /\ Numbered'
    BY <1>7 DEF CommitRefused, OneRowPerContent, Numbered
  <2>3. QED
    BY <2>1, <2>2
<1>8. ASSUME NEW t \in Threads, Cleanup(t) PROVE RowsInv'
  <2>1. InsertsAlone'
    BY <1>8 DEF Cleanup, InsertsAlone, RowsOK, ThreadsOK
  <2>2. OneRowPerContent' /\ Numbered'
    BY <1>8 DEF Cleanup, OneRowPerContent, Numbered
  <2>3. QED
    BY <2>1, <2>2
<1>9. ASSUME NEW t \in Threads, NEW p \in Procs, NEW i \in Ids, DeleteRow(t, p, i) PROVE RowsInv'
  <2>1. OneRowPerContent'
    BY <1>9 DEF DeleteRow, OneRowPerContent, InsertsAlone, RowsOK, ThreadsOK
  <2>2. InsertsAlone'
    BY <1>9 DEF DeleteRow, InsertsAlone, RowsOK, ThreadsOK
  <2>3. Numbered'
    BY <1>9 DEF DeleteRow, Numbered, InsertsAlone, RowsOK, ThreadsOK
  <2>4. QED
    BY <2>1, <2>2, <2>3
<1>10. ASSUME NEW t \in Threads, DeleteFile(t) PROVE RowsInv'
  <2>1. InsertsAlone'
    BY <1>10 DEF DeleteFile, InsertsAlone, RowsOK, ThreadsOK
  <2>2. OneRowPerContent' /\ Numbered'
    BY <1>10 DEF DeleteFile, OneRowPerContent, Numbered
  <2>3. QED
    BY <2>1, <2>2
<1>11. ASSUME NEW p \in Procs, Boot(p) PROVE RowsInv'
  BY <1>11 DEF Boot, OneRowPerContent, InsertsAlone, Numbered
<1>12. ASSUME NEW p \in Procs, Crash(p) PROVE RowsInv'
  <2>1. InsertsAlone'
    BY <1>12 DEF Crash, InsertsAlone, RowsOK, ThreadsOK
  <2>2. OneRowPerContent' /\ Numbered'
    BY <1>12 DEF Crash, OneRowPerContent, Numbered
  <2>3. QED
    BY <2>1, <2>2
<1>13. ASSUME NEW p \in Procs, SweepIds(p) PROVE RowsInv'
  BY <1>13 DEF SweepIds, OneRowPerContent, InsertsAlone, Numbered
<1>14. ASSUME NEW p \in Procs, SweepHighest(p) PROVE RowsInv'
  BY <1>14 DEF SweepHighest, OneRowPerContent, InsertsAlone, Numbered
<1>15. ASSUME NEW p \in Procs, NEW i \in Ids, SweepRemove(p, i) PROVE RowsInv'
  BY <1>15 DEF SweepRemove, OneRowPerContent, InsertsAlone, Numbered
<1>16. ASSUME NEW p \in Procs, SweepEnd(p) PROVE RowsInv'
  BY <1>16 DEF SweepEnd, OneRowPerContent, InsertsAlone, Numbered
<1>17. CASE UNCHANGED vars
  BY <1>17 DEF vars, OneRowPerContent, InsertsAlone, Numbered
<1>18. QED
  BY <1>1, <1>2, <1>3, <1>4, <1>5, <1>6, <1>7, <1>8, <1>9, <1>10, <1>11,
     <1>12, <1>13, <1>14, <1>15, <1>16, <1>17
     DEF Next, ThreadStep, SweepStep

\* RowsInv holds in every reachable state: nothing is inserted yet.
THEOREM RowsCorrect == Spec => []RowsInv
<1>1. Init => RowsInv
  BY DEF Init, RowsInv, OneRowPerContent, InsertsAlone, Numbered
<1>2. QED
  BY <1>1, InitType, NextType, NextRows, PTL DEF Spec

\* The same bytes are one complaint, whoever uploads them and whatever fails.
THEOREM OneRow == Spec => []OneRowPerContent
<1>1. RowsInv => OneRowPerContent
  BY DEF RowsInv
<1>2. QED
  BY <1>1, RowsCorrect, PTL

\* Only an INSERT writes a file, and its id is above every committed one.
THEOREM PathsAreStable == Spec => NeverRewritten
<1>1. TypeOK /\ RowsInv /\ [Next]_vars
        => [\A i \in Ids : i <= seq => file'[i] \in {file[i], None}]_vars
  <2> SUFFICES ASSUME TypeOK, RowsInv, Next, NEW i \in Ids, i <= seq
               PROVE  file'[i] \in {file[i], None}
    BY DEF vars
  <2> USE DEF TypeOK, RowsOK, ThreadsOK
  <2>1. ASSUME NEW t \in Threads, Place(t) PROVE file'[i] = file[i]
    <3>1. id[t] = seq + 1
      BY <2>1 DEF Place, RowsInv, InsertsAlone
    <3>2. QED
      BY <2>1, <3>1 DEF Place
  <2>2. ASSUME NEW t \in Threads, Cleanup(t) \/ DeleteFile(t)
        PROVE  file'[i] \in {file[i], None}
    BY <2>2 DEF Cleanup, DeleteFile
  <2>3. ASSUME NEW p \in Procs, NEW j \in Ids, SweepRemove(p, j)
        PROVE  file'[i] \in {file[i], None}
    BY <2>3 DEF SweepRemove
  <2>4. ASSUME NEW t \in Threads, NEW p \in Procs, \E c \in Contents : Upload(t, p, c)
        PROVE  file' = file
    BY <2>4 DEF Upload
  <2>5. ASSUME NEW t \in Threads, Duplicate(t) \/ Insert(t) \/ InsertRefused(t)
        PROVE  file' = file
    BY <2>5 DEF Duplicate, Insert, InsertRefused
  <2>6. ASSUME NEW t \in Threads, Commit(t) \/ CommitRefused(t)
        PROVE  file' = file
    BY <2>6 DEF Commit, CommitRefused
  <2>7. ASSUME NEW t \in Threads, NEW p \in Procs, NEW j \in Ids, DeleteRow(t, p, j)
        PROVE  file' = file
    BY <2>7 DEF DeleteRow
  <2>8. ASSUME NEW p \in Procs, Boot(p) \/ Crash(p) PROVE file' = file
    BY <2>8 DEF Boot, Crash
  <2>9. ASSUME NEW p \in Procs, SweepIds(p) \/ SweepHighest(p) \/ SweepEnd(p)
        PROVE  file' = file
    BY <2>9 DEF SweepIds, SweepHighest, SweepEnd
  <2>10. QED
    BY <2>1, <2>2, <2>3, <2>4, <2>5, <2>6, <2>7, <2>8, <2>9
       DEF Next, ThreadStep, SweepStep
<1>2. QED
  BY <1>1, TypeCorrect, RowsCorrect, PTL DEF Spec, NeverRewritten

-----------------------------------------------------------------------------
(* The store locks, and the file of a complaint that exists.               *)

\* A store lock has one holder: a thread past its INSERT or DELETE, or a sweep.
LEMMA NextLocks == TypeOK /\ LocksHeld /\ [Next]_vars => LocksHeld'
<1> SUFFICES ASSUME TypeOK, LocksHeld, [Next]_vars PROVE LocksHeld'
  OBVIOUS
<1> USE DEF TypeOK, ProcsOK, ThreadsOK, SweepOK, LocksHeld
<1>0. Procs \cap Threads = {} /\ None \notin Procs \cup Threads
  BY FilesAssumption
<1>1. ASSUME NEW t \in Threads, NEW p \in Procs, NEW c \in Contents, Upload(t, p, c)
      PROVE  LocksHeld'
  BY <1>1 DEF Upload
<1>2. ASSUME NEW t \in Threads, Duplicate(t) PROVE LocksHeld'
  BY <1>2 DEF Duplicate
<1>3. ASSUME NEW t \in Threads, Insert(t) PROVE LocksHeld'
  BY <1>0, <1>3 DEF Insert
<1>4. ASSUME NEW t \in Threads, InsertRefused(t) PROVE LocksHeld'
  BY <1>0, <1>4 DEF InsertRefused
<1>5. ASSUME NEW t \in Threads, Place(t) PROVE LocksHeld'
  BY <1>5 DEF Place
<1>6. ASSUME NEW t \in Threads, Commit(t) PROVE LocksHeld'
  BY <1>0, <1>6 DEF Commit
<1>7. ASSUME NEW t \in Threads, CommitRefused(t) PROVE LocksHeld'
  BY <1>0, <1>7 DEF CommitRefused
<1>8. ASSUME NEW t \in Threads, Cleanup(t) PROVE LocksHeld'
  BY <1>8 DEF Cleanup
<1>9. ASSUME NEW t \in Threads, NEW p \in Procs, NEW i \in Ids, DeleteRow(t, p, i) PROVE LocksHeld'
  BY <1>0, <1>9 DEF DeleteRow
<1>10. ASSUME NEW t \in Threads, DeleteFile(t) PROVE LocksHeld'
  BY <1>0, <1>10 DEF DeleteFile
<1>11. ASSUME NEW p \in Procs, Boot(p) PROVE LocksHeld'
  BY <1>0, <1>11 DEF Boot
<1>12. ASSUME NEW p \in Procs, Crash(p) PROVE LocksHeld'
  <2>1. \A t \in Threads : pc'[t] # "idle" =>
          proc[t] # p /\ proc'[t] = proc[t] /\ pc'[t] = pc[t]
    BY <1>12 DEF Crash
  <2>2. \A q \in Procs : sweep'[q] # "idle" => q # p /\ sweep'[q] = sweep[q]
    BY <1>12 DEF Crash
  <2>3. \A q \in Procs : q # p => up'[q] = up[q] /\ lock'[q] = lock[q]
    BY <1>12 DEF Crash
  <2>4. \A q \in Procs : owner' = q => q # p /\ owner = q
    BY <1>0, <1>12 DEF Crash
  <2>5. QED
    BY <2>1, <2>2, <2>3, <2>4
<1>13. ASSUME NEW p \in Procs, SweepIds(p) PROVE LocksHeld'
  BY <1>0, <1>13 DEF SweepIds
<1>14. ASSUME NEW p \in Procs, SweepHighest(p) PROVE LocksHeld'
  BY <1>14 DEF SweepHighest
<1>15. ASSUME NEW p \in Procs, NEW i \in Ids, SweepRemove(p, i) PROVE LocksHeld'
  BY <1>15 DEF SweepRemove
<1>16. ASSUME NEW p \in Procs, SweepEnd(p) PROVE LocksHeld'
  BY <1>0, <1>16 DEF SweepEnd
<1>17. CASE UNCHANGED vars
  BY <1>17 DEF vars
<1>18. QED
  BY <1>1, <1>2, <1>3, <1>4, <1>5, <1>6, <1>7, <1>8, <1>9, <1>10, <1>11, <1>12, <1>13,
     <1>14, <1>15, <1>16, <1>17 DEF Next, ThreadStep, SweepStep

\* Store locks are held by whom the code says.
THEOREM LocksCorrect == Spec => []LocksHeld
<1>1. Init => LocksHeld
  BY FilesAssumption DEF Init, LocksHeld
<1>2. QED
  BY <1>1, TypeCorrect, NextLocks, PTL DEF Spec

\* With one app, a thread past its INSERT or DELETE and a sweep exclude each
\* other, and so do two such threads.
LEMMA OneAtWork ==
  ASSUME TypeOK, LocksHeld, OneApp,
         NEW t \in Threads, pc[t] \in {"place", "commit", "unlink"}
  PROVE  /\ \A p \in Procs : sweep[p] = "idle"
         /\ \A u \in Threads \ {t} : pc[u] \notin {"place", "commit", "unlink"}
<1> USE DEF TypeOK, ThreadsOK, LocksHeld, OneApp
<1>1. proc[t] \in Procs /\ up[proc[t]] /\ lock[proc[t]] = t
  OBVIOUS
<1>2. ASSUME NEW p \in Procs, sweep[p] # "idle" PROVE FALSE
  BY <1>1, <1>2, FilesAssumption
<1>3. ASSUME NEW u \in Threads \ {t}, pc[u] \in {"place", "commit", "unlink"} PROVE FALSE
  BY <1>1, <1>3
<1>4. QED
  BY <1>2, <1>3

\* While nothing disturbs it, no step takes a file from a complaint.
LEMMA NextFiles ==
  TypeOK /\ RowsInv /\ LocksHeld /\ Undisturbed /\ Undisturbed' /\ FilesKept /\ [Next]_vars
    => FilesKept'
<1> SUFFICES ASSUME TypeOK, RowsInv, LocksHeld, Undisturbed, Undisturbed', FilesKept, [Next]_vars
             PROVE  FilesKept'
  OBVIOUS
<1> USE DEF TypeOK, RowsOK, ThreadsOK, SweepOK, FilesKept
<1>1. ASSUME NEW t \in Threads, NEW p \in Procs, NEW c \in Contents, Upload(t, p, c)
      PROVE  FilesKept'
  BY <1>1 DEF Upload
<1>2. ASSUME NEW t \in Threads, Duplicate(t) PROVE FilesKept'
  BY <1>2 DEF Duplicate
<1>3. ASSUME NEW t \in Threads, Insert(t) PROVE FilesKept'
  BY <1>3 DEF Insert
<1>4. ASSUME NEW t \in Threads, InsertRefused(t) PROVE FilesKept'
  BY <1>4 DEF InsertRefused
<1>5. ASSUME NEW t \in Threads, Place(t) PROVE FilesKept'
  <2>1. \A u \in Threads \ {t} : pc[u] \notin {"place", "commit", "unlink"}
    BY <1>5, OneAtWork DEF Place, Undisturbed
  <2>2. id[t] = seq + 1 /\ id[t] \in Ids /\ id[t] \notin Live
    BY <1>5 DEF Place, RowsInv, InsertsAlone, Numbered
  <2>3. QED
    BY <1>5, <2>1, <2>2 DEF Place
<1>6. ASSUME NEW t \in Threads, Commit(t) PROVE FilesKept'
  <2>1. \A p \in Procs : sweep[p] = "idle"
    BY <1>6, OneAtWork DEF Commit, Undisturbed
  <2>2. row[id[t]] # "deleted" /\ id[t] \in Ids
    BY <1>6 DEF Commit, RowsInv, InsertsAlone, Numbered
  <2>3. \A i \in Ids : row'[i] = "live" => file'[i] = content'[i]
    BY <1>6, <2>2 DEF Commit
  <2>4. \A u \in Threads \ {t} : pc[u] \notin {"place", "commit", "unlink"}
    BY <1>6, OneAtWork DEF Commit, Undisturbed
  <2>5. QED
    BY <1>6, <2>1, <2>3, <2>4 DEF Commit
<1>7. ASSUME NEW t \in Threads, CommitRefused(t) PROVE FilesKept'
  BY <1>7 DEF CommitRefused, Undisturbed
<1>8. ASSUME NEW t \in Threads, Cleanup(t) PROVE FilesKept'
  BY <1>8 DEF Cleanup, Undisturbed
<1>9. ASSUME NEW t \in Threads, NEW p \in Procs, NEW i \in Ids, DeleteRow(t, p, i) PROVE FilesKept'
  BY <1>9 DEF DeleteRow
<1>10. ASSUME NEW t \in Threads, DeleteFile(t) PROVE FilesKept'
  <2>1. \A u \in Threads \ {t} : pc[u] \notin {"place", "commit", "unlink"}
    BY <1>10, OneAtWork DEF DeleteFile, Undisturbed
  <2>2. id[t] \notin Live
    BY <1>10 DEF DeleteFile
  <2>3. QED
    BY <1>10, <2>1, <2>2 DEF DeleteFile
<1>11. ASSUME NEW p \in Procs, Boot(p) PROVE FilesKept'
  BY <1>11 DEF Boot
<1>12. ASSUME NEW p \in Procs, Crash(p) PROVE FilesKept'
  BY <1>12 DEF Crash
<1>13. ASSUME NEW p \in Procs, SweepIds(p) PROVE FilesKept'
  BY <1>13 DEF SweepIds
<1>14. ASSUME NEW p \in Procs, SweepHighest(p) PROVE FilesKept'
  BY <1>14 DEF SweepHighest
<1>15. ASSUME NEW p \in Procs, NEW i \in Ids, SweepRemove(p, i) PROVE FilesKept'
  <2>1. \A u \in Threads : pc[u] \notin {"place", "commit", "unlink"}
    BY <1>15, OneAtWork DEF SweepRemove, Undisturbed
  <2>2. i \notin Live
    BY <1>15 DEF SweepRemove
  <2>3. \A j \in Live : file'[j] = file[j]
    BY <1>15, <2>2 DEF SweepRemove
  <2>4. \A q \in Procs : todo'[q] \subseteq todo[q]
    BY <1>15 DEF SweepRemove
  <2>5. UNCHANGED <<rows, threads, sweep, seen>>
    BY <1>15 DEF SweepRemove
  <2>6. QED
    BY <2>1, <2>3, <2>4, <2>5
<1>16. ASSUME NEW p \in Procs, SweepEnd(p) PROVE FilesKept'
  BY <1>16 DEF SweepEnd
<1>17. CASE UNCHANGED vars
  BY <1>17 DEF vars
<1>18. QED
  BY <1>1, <1>2, <1>3, <1>4, <1>5, <1>6, <1>7, <1>8, <1>9, <1>10, <1>11, <1>12, <1>13,
     <1>14, <1>15, <1>16, <1>17 DEF Next, ThreadStep, SweepStep

\* Where one app runs at a time and no COMMIT fails, every complaint that
\* exists has its file, whole, whatever else fails and whenever the app dies.
THEOREM FilesStay == Spec => LiveHasFile
<1>1. Init => FilesKept
  BY DEF Init, FilesKept
<1>2. FilesKept => \A i \in Live : file[i] = content[i]
  BY DEF FilesKept
<1>3. QED
  BY <1>1, <1>2, TypeCorrect, RowsCorrect, LocksCorrect, NextFiles, PTL DEF Spec, LiveHasFile

-----------------------------------------------------------------------------
(* The review of one complaint.                                              *)

USE DEF fields, flags, class, jobs, history

\* A correction given replaces the value, one not given keeps it.
LEMMA OrType == ASSUME NEW S, NEW v \in S \cup {NotGiven}, NEW x \in S PROVE Or(v, x) \in S
  BY DEF Or, Given

\* Reviewing nothing is a request the store takes.
LEMMA NoChangesType == NoChanges \in Request
  BY DEF NoChanges, Request

\* What do_feedback makes of a request is a request.
LEMMA CleanType ==
  ASSUME ClassOK, NEW q \in Request
  PROVE  [category |-> q.category, subcategory |-> CleanSubcategory(q),
          priority |-> q.priority, region |-> CleanRegion(q),
          governorate |-> CleanGovernorate(q)] \in Request
<1>1. CleanSubcategory(q) \in Subcategories \cup {NotGiven}
  BY DEF CleanSubcategory, Request, Subcategories
<1>2. CleanRegion(q) \in (Regions \ {NoValue}) \cup {NotGiven}
  BY ReviewAssumption DEF CleanRegion, Request, Regions
<1>3. CleanGovernorate(q) \in (Governorates \ {NoValue}) \cup {NotGiven}
  BY ReviewAssumption DEF CleanGovernorate, Request, Governorates
<1>4. QED
  BY <1>1, <1>2, <1>3 DEF Request

\* The first state is well typed.
LEMMA ReviewInitType == ReviewInit => ReviewTypeOK
<1> SUFFICES ASSUME ReviewInit PROVE ReviewTypeOK
  OBVIOUS
<1>1. FieldsOK
  BY DEF ReviewInit, FieldsOK
<1>2. FlagsOK
  BY ReviewAssumption DEF ReviewInit, FlagsOK, Reasons
<1>3. ClassOK
  BY DEF ReviewInit, ClassOK, Subcategories, Regions, Governorates
<1>4. JobsOK
  BY NoChangesType DEF ReviewInit, JobsOK
<1>5. QED
  BY <1>1, <1>2, <1>3, <1>4 DEF ReviewTypeOK

\* Every step keeps the types.
LEMMA ReviewNextType == ReviewTypeOK /\ [ReviewNext]_reviewVars => ReviewTypeOK'
<1> SUFFICES ASSUME ReviewTypeOK, [ReviewNext]_reviewVars PROVE ReviewTypeOK'
  OBVIOUS
<1> USE DEF ReviewTypeOK
<1>1. CASE Requeue
  BY <1>1 DEF Requeue, FieldsOK, FlagsOK, ClassOK, JobsOK
<1>2. ASSUME NEW a \in Analyses, SaveAnalysis(a) PROVE ReviewTypeOK'
  <2>1. a \in Analysis
    BY ReviewAssumption
  <2>2. FieldsOK'
    BY <1>2, <2>1 DEF SaveAnalysis, FieldsOK, Analysis, PendingIn
  <2>3. FlagsOK'
    BY <1>2, <2>1 DEF SaveAnalysis, FlagsOK, Analysis, NeedsReview, Unseen
  <2>4. ClassOK'
    BY <1>2, <2>1 DEF SaveAnalysis, ClassOK, Analysis
  <2>5. JobsOK'
    BY <1>2 DEF SaveAnalysis, JobsOK
  <2>6. QED
    BY <2>2, <2>3, <2>4, <2>5
<1>3. ASSUME NEW k \in Keys, NEW act \in {"accept", "change"},
             NEW v \in Values \cup {NoValue}, ReviewField(k, act, v)
      PROVE  ReviewTypeOK'
  <2>1. FieldsOK'
    BY <1>3 DEF ReviewField, FieldsOK, PendingIn
  <2>2. FlagsOK'
    BY <1>3 DEF ReviewField, FlagsOK, NeedsReview, StillAgain
  <2>3. ClassOK' /\ JobsOK'
    BY <1>3 DEF ReviewField, ClassOK, JobsOK
  <2>4. QED
    BY <2>1, <2>2, <2>3
<1>4. ASSUME NEW r \in Reviewers, NEW q \in Requests, Decide(r, q) PROVE ReviewTypeOK'
  <2>1. q \in Request
    BY ReviewAssumption
  <2>2. JobsOK'
    <3>1. clean' \in [Reviewers -> Request]
      BY <1>4, <2>1, CleanType DEF Decide, JobsOK
    <3>2. cleanDue' \in [Reviewers -> Priorities \cup {NotGiven}]
      BY <1>4, <2>1 DEF Decide, JobsOK, Request
    <3>3. verdict' \in [Reviewers -> {"none", "decided"}]
      BY <1>4 DEF Decide, JobsOK
    <3>4. QED
      BY <3>1, <3>2, <3>3 DEF JobsOK
  <2>3. FieldsOK' /\ FlagsOK' /\ ClassOK'
    BY <1>4 DEF Decide, FieldsOK, FlagsOK, ClassOK
  <2>4. QED
    BY <2>2, <2>3
<1>5. ASSUME NEW r \in Reviewers, add_feedback(r) PROVE ReviewTypeOK'
  <2>1. clean[r] \in Request /\ cleanDue[r] \in Priorities \cup {NotGiven}
    BY DEF JobsOK
  <2>2. ClassOK'
    BY <1>5, <2>1 DEF add_feedback, ClassOK, Request, Or, Given
  <2>3. FlagsOK'
    BY <1>5 DEF add_feedback, FlagsOK, NeedsReview
  <2>4. JobsOK'
    BY <1>5, NoChangesType DEF add_feedback, JobsOK
  <2>5. FieldsOK'
    BY <1>5 DEF add_feedback, FieldsOK
  <2>6. QED
    BY <2>2, <2>3, <2>4, <2>5
<1>6. CASE UNCHANGED reviewVars
  BY <1>6 DEF reviewVars, FieldsOK, FlagsOK, ClassOK, JobsOK
<1>7. QED
  BY <1>1, <1>2, <1>3, <1>4, <1>5, <1>6 DEF ReviewNext

\* Every reachable state is well typed.
THEOREM ReviewTypeCorrect == ReviewSpec => []ReviewTypeOK
  BY ReviewInitType, ReviewNextType, PTL DEF ReviewSpec

-----------------------------------------------------------------------------
\* The flag is right after every step.
LEMMA NextFlag == ReviewTypeOK /\ FlagIsRight /\ [ReviewNext]_reviewVars => FlagIsRight'
<1> SUFFICES ASSUME ReviewTypeOK, FlagIsRight, [ReviewNext]_reviewVars PROVE FlagIsRight'
  OBVIOUS
<1> USE DEF ReviewTypeOK
<1>1. CASE Requeue
  BY <1>1 DEF Requeue, FlagIsRight, PendingIn
<1>2. ASSUME NEW a \in Analyses, SaveAnalysis(a) PROVE FlagIsRight'
  BY <1>2 DEF SaveAnalysis, FlagIsRight, NeedsReview, PendingIn, FlagsOK
<1>3. ASSUME NEW k \in Keys, NEW act \in {"accept", "change"},
             NEW v \in Values \cup {NoValue}, ReviewField(k, act, v)
      PROVE  FlagIsRight'
  BY <1>3 DEF ReviewField, FlagIsRight, NeedsReview, PendingIn, FlagsOK
<1>4. ASSUME NEW r \in Reviewers, NEW q \in Requests, Decide(r, q) PROVE FlagIsRight'
  BY <1>4 DEF Decide, FlagIsRight, PendingIn
<1>5. ASSUME NEW r \in Reviewers, add_feedback(r) PROVE FlagIsRight'
  BY <1>5 DEF add_feedback, FlagIsRight, NeedsReview, PendingIn
<1>6. CASE UNCHANGED reviewVars
  BY <1>6 DEF reviewVars, FlagIsRight, PendingIn
<1>7. QED
  BY <1>1, <1>2, <1>3, <1>4, <1>5, <1>6 DEF ReviewNext

\* The pending count and needs_review agree with the fields, the reviews and
\* the reasons in every reachable state.
THEOREM FlagCorrect == ReviewSpec => []FlagIsRight
<1>1. ReviewInit => FlagIsRight
  BY DEF ReviewInit, FlagIsRight, PendingIn
<1>2. QED
  BY <1>1, ReviewInitType, ReviewNextType, NextFlag, PTL DEF ReviewSpec

-----------------------------------------------------------------------------
\* A verdict under way whose complaint has not changed would leave the
\* classification consistent: what ConsistentUnlessSpoiled needs to be kept.
FreshVerdicts ==
    \A r \in Reviewers \ stale : verdict[r] = "decided" =>
        /\ Or(clean[r].subcategory, subcategory) \in {NoValue, Or(clean[r].category, category)}
        /\ Or(clean[r].governorate, governorate) = "named" => Or(clean[r].region, region) = "home"
        /\ Or(cleanDue[r], due) = Or(clean[r].priority, priority)

CInv == ~spoiled => Consistent /\ FreshVerdicts

\* A complaint that is done, judged or being judged has been analysed, so a
\* re-analysis finds its deadline and governorate set.
Analysed ==
    stage = "done" \/ reviewed \/ (\E r \in Reviewers : verdict[r] = "decided")
        => due # NoValue /\ governorate # NoValue

\* Every step keeps Analysed.
LEMMA NextAnalysed == ReviewTypeOK /\ Analysed /\ [ReviewNext]_reviewVars => Analysed'
<1> SUFFICES ASSUME ReviewTypeOK, Analysed, [ReviewNext]_reviewVars PROVE Analysed'
  OBVIOUS
<1> USE DEF ReviewTypeOK
<1>1. CASE Requeue
  BY <1>1 DEF Requeue, Analysed
<1>2. ASSUME NEW a \in Analyses, SaveAnalysis(a) PROVE Analysed'
  <2>1. a.priority # NoValue /\ a.governorate # NoValue
    BY ReviewAssumption DEF Analysis
  <2>2. QED
    BY <1>2, <2>1 DEF SaveAnalysis, Analysed
<1>3. ASSUME NEW k \in Keys, NEW act \in {"accept", "change"},
             NEW v \in Values \cup {NoValue}, ReviewField(k, act, v)
      PROVE  Analysed'
  BY <1>3 DEF ReviewField, Analysed
<1>4. ASSUME NEW r \in Reviewers, NEW q \in Requests, Decide(r, q) PROVE Analysed'
  BY <1>4 DEF Decide, Analysed
<1>5. ASSUME NEW r \in Reviewers, add_feedback(r) PROVE Analysed'
  <2>1. due # NoValue /\ governorate # NoValue
    BY <1>5 DEF add_feedback, Analysed
  <2>2. clean[r].governorate # NoValue /\ cleanDue[r] # NoValue
    BY ReviewAssumption DEF JobsOK, Request
  <2>3. QED
    BY <1>5, <2>1, <2>2 DEF add_feedback, Analysed, Or
<1>6. CASE UNCHANGED reviewVars
  BY <1>6 DEF reviewVars, Analysed
<1>7. QED
  BY <1>1, <1>2, <1>3, <1>4, <1>5, <1>6 DEF ReviewNext

\* do_feedback's checks do what they are for, on the complaint they read.
LEMMA Coupled ==
  ASSUME ClassOK, Consistent, NEW q \in Request, ~Rejected(q)
  PROVE  /\ Or(CleanSubcategory(q), subcategory) \in {NoValue, Or(q.category, category)}
         /\ Or(CleanGovernorate(q), governorate) = "named" => Or(CleanRegion(q), region) = "home"
<1>1. Or(CleanSubcategory(q), subcategory) \in {NoValue, Or(q.category, category)}
  BY ReviewAssumption
     DEF CleanSubcategory, NewCategory, Rejected, Or, Given, Consistent, Request, ClassOK
<1>2. Or(CleanGovernorate(q), governorate) = "named" => Or(CleanRegion(q), region) = "home"
  <2>1. CASE Elsewhere(q)
    BY <2>1, ReviewAssumption
       DEF CleanGovernorate, Rejected, Or, Given, Consistent, Request, ClassOK, Governorates
  <2>2. CASE ~Elsewhere(q)
    BY <2>2, ReviewAssumption
       DEF CleanGovernorate, CleanRegion, Elsewhere, Or, Given, Consistent, Request, ClassOK,
           Governorates, Regions
  <2>3. QED
    BY <2>1, <2>2
<1>3. QED
  BY <1>1, <1>2

\* Every step keeps the classification consistent until a stale verdict.
LEMMA NextConsistent == ReviewTypeOK /\ Analysed /\ CInv /\ [ReviewNext]_reviewVars => CInv'
<1> SUFFICES ASSUME ReviewTypeOK, Analysed, CInv, [ReviewNext]_reviewVars PROVE CInv'
  OBVIOUS
<1> USE DEF ReviewTypeOK, CInv
<1>1. CASE Requeue
  BY <1>1 DEF Requeue, Consistent, FreshVerdicts
<1>2. ASSUME NEW a \in Analyses, SaveAnalysis(a) PROVE CInv'
  <2>1. a \in Analysis /\ a.subcategory \in {NoValue, a.category}
        /\ (a.governorate = "named" => a.region = "home")
    BY ReviewAssumption
  <2>2. FreshVerdicts'
    BY <1>2 DEF SaveAnalysis, FreshVerdicts, JobsOK
  <2>3. ASSUME ~spoiled PROVE Consistent'
    BY <1>2, <2>1, <2>3 DEF SaveAnalysis, Consistent, Analysed
  <2>4. QED
    BY <1>2, <2>2, <2>3 DEF SaveAnalysis
<1>3. ASSUME NEW k \in Keys, NEW act \in {"accept", "change"},
             NEW v \in Values \cup {NoValue}, ReviewField(k, act, v)
      PROVE  CInv'
  BY <1>3 DEF ReviewField, Consistent, FreshVerdicts
<1>4. ASSUME NEW r \in Reviewers, NEW q \in Requests, Decide(r, q) PROVE CInv'
  <2> SUFFICES ASSUME ~spoiled PROVE Consistent' /\ FreshVerdicts'
    BY <1>4 DEF Decide
  <2>1. q \in Request /\ ~Rejected(q)
    BY <1>4, ReviewAssumption DEF Decide
  <2>2. Consistent'
    BY <1>4 DEF Decide, Consistent
  <2>3. UNCHANGED class /\ stale' = stale \ {r}
    BY <1>4 DEF Decide
  <2>4. /\ clean'[r].category = q.category /\ clean'[r].subcategory = CleanSubcategory(q)
        /\ clean'[r].priority = q.priority /\ clean'[r].region = CleanRegion(q)
        /\ clean'[r].governorate = CleanGovernorate(q)
    BY <1>4 DEF Decide, JobsOK
  <2>5. Or(cleanDue'[r], due) = Or(q.priority, priority)
    BY <1>4, <2>1 DEF Decide, JobsOK, Or, Given, Consistent
  <2>6. \A s \in Reviewers \ {r} :
            clean'[s] = clean[s] /\ cleanDue'[s] = cleanDue[s] /\ verdict'[s] = verdict[s]
    BY <1>4 DEF Decide, JobsOK
  <2>7. /\ Or(CleanSubcategory(q), subcategory) \in {NoValue, Or(q.category, category)}
        /\ Or(CleanGovernorate(q), governorate) = "named" => Or(CleanRegion(q), region) = "home"
    BY <2>1, Coupled
  <2>8. ASSUME NEW s \in Reviewers \ stale', verdict'[s] = "decided"
        PROVE  /\ Or(clean'[s].subcategory, subcategory')
                    \in {NoValue, Or(clean'[s].category, category')}
               /\ Or(clean'[s].governorate, governorate') = "named"
                    => Or(clean'[s].region, region') = "home"
               /\ Or(cleanDue'[s], due') = Or(clean'[s].priority, priority')
    <3>1. CASE s = r
      BY <3>1, <2>3, <2>4, <2>5, <2>7
    <3>2. CASE s # r
      BY <3>2, <2>3, <2>6, <2>8 DEF FreshVerdicts
    <3>3. QED
      BY <3>1, <3>2
  <2>9. QED
    BY <2>2, <2>8 DEF FreshVerdicts
<1>5. ASSUME NEW r \in Reviewers, add_feedback(r) PROVE CInv'
  <2>1. FreshVerdicts'
    BY <1>5 DEF add_feedback, FreshVerdicts, JobsOK
  <2>2. ASSUME ~spoiled' PROVE Consistent'
    <3>1. ~spoiled /\ r \notin stale /\ verdict[r] = "decided"
      BY <1>5, <2>2 DEF add_feedback
    <3>2. QED
      BY <1>5, <3>1 DEF add_feedback, Consistent, FreshVerdicts
  <2>3. QED
    BY <2>1, <2>2
<1>6. CASE UNCHANGED reviewVars
  BY <1>6 DEF reviewVars, Consistent, FreshVerdicts
<1>7. QED
  BY <1>1, <1>2, <1>3, <1>4, <1>5, <1>6 DEF ReviewNext

\* Without a stale verdict, corrections and re-analyses in any order leave
\* the subcategory in its category, the governorate in the entity's region
\* and the deadline the priority's.
THEOREM ConsistentCorrect == ReviewSpec => []ConsistentUnlessSpoiled
<1>1. ReviewInit => CInv /\ Analysed
  BY ReviewAssumption DEF ReviewInit, CInv, Consistent, FreshVerdicts, Analysed
<1>2. CInv => ConsistentUnlessSpoiled
  BY DEF CInv, ConsistentUnlessSpoiled
<1>3. QED
  BY <1>1, <1>2, ReviewInitType, ReviewNextType, NextAnalysed, NextConsistent, PTL DEF ReviewSpec

-----------------------------------------------------------------------------
(* What a re-analysis and a settled field leave of what people decided.    *)

\* A re-analysis of a complaint a person judged leaves the judgement alone: by
\* Analysed it finds no column to fill.
THEOREM VerdictsOutlive == ReviewSpec => VerdictsOutliveAnalyses
<1>1. ReviewTypeOK /\ Analysed /\ [ReviewNext]_reviewVars
        => [stage = "queued" /\ stage' = "done" => HumanValuesStay /\ AcceptsGoStale]_reviewVars
  <2> SUFFICES ASSUME ReviewTypeOK, Analysed, ReviewNext, stage = "queued", stage' = "done"
               PROVE  HumanValuesStay /\ AcceptsGoStale
    BY DEF reviewVars
  <2> USE DEF ReviewTypeOK, FieldsOK
  <2>1. PICK a \in Analyses : SaveAnalysis(a)
    BY DEF ReviewNext, Requeue, ReviewField, Decide, add_feedback
  <2>2. reviewed => UNCHANGED class
    BY <2>1 DEF SaveAnalysis, Analysed
  <2>3. ASSUME NEW k \in Keys, action[k] = "change"
        PROVE  action'[k] = "change" /\ reviewValue'[k] = reviewValue[k]
    BY <2>1, <2>3 DEF SaveAnalysis, Carried
  <2>4. ASSUME NEW k \in Keys, action'[k] = "accept"
        PROVE  value'[k] = reviewValue'[k]
    BY <2>1, <2>4 DEF SaveAnalysis, Carried
  <2>5. QED
    BY <2>2, <2>3, <2>4 DEF HumanValuesStay, AcceptsGoStale
<1>2. ReviewInit => Analysed
  BY DEF ReviewInit, Analysed
<1>3. QED
  BY <1>1, <1>2, ReviewTypeCorrect, NextAnalysed, PTL DEF ReviewSpec, VerdictsOutliveAnalyses

\* A complaint sent back for a reason nobody has judged stays in review however
\* many of its fields are settled.
THEOREM SettlingKeeps == ReviewSpec => SettlingKeepsUnseen
<1>1. ReviewTypeOK /\ [ReviewNext]_reviewVars
        => [needs /\ reviewed /\ (reasons \cap Again) \ judged # {} /\ action' # action
              /\ UNCHANGED <<stage, runs>> => needs']_reviewVars
  <2> SUFFICES ASSUME ReviewTypeOK, ReviewNext, needs, reviewed, (reasons \cap Again) \ judged # {},
                      action' # action, UNCHANGED <<stage, runs>>
               PROVE  needs'
    BY DEF reviewVars
  <2>1. PICK k \in Keys, act \in {"accept", "change"}, v \in Values \cup {NoValue} :
          ReviewField(k, act, v)
    BY DEF ReviewNext, Requeue, SaveAnalysis, Decide, add_feedback
  <2>2. StillAgain
    BY DEF StillAgain
  <2>3. QED
    BY <2>1, <2>2 DEF ReviewField, NeedsReview
<1>2. QED
  BY <1>1, ReviewTypeCorrect, PTL DEF ReviewSpec, SettlingKeepsUnseen
=============================================================================
