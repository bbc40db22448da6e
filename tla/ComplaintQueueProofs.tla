------------------------ MODULE ComplaintQueueProofs ------------------------
(* Proofs about ComplaintQueue for every number of complaints, processes   *)
(* and API threads, every bound and every set of refused calls.            *)
EXTENDS ComplaintQueue, TLAPS

USE DEF PROCESSING, STAGES, NoRow, Texts, Ops, Busy, LockFree, GaveUp, NeedsOcr, ClaimStage, ReadNothing,
        Exists, Holds, Queued, Goto, Drop, Answer, Spend, worker, req, database, memory, history

\* Every reachable state is well typed (TypeOK of ComplaintQueue).
LEMMA InitType == Init => TypeOK
  BY QueueAssumption DEF Init, TypeOK, RowsOK, ProcessesOK, WorkerOK, CallsOK, BudgetOK

\* A worker past its claim has a complaint in hand.
LEMMA HasItem ==
  ASSUME WorkerOK, NEW p \in Procs, pc[p] \in Busy
  PROVE  item[p] \in Ids
  BY DEF WorkerOK

\* An API thread past its look has a complaint and a process.
LEMMA Asked ==
  ASSUME CallsOK, NEW r \in Reqs, call[r] # "idle"
  PROVE  callId[r] \in Ids /\ callProc[r] \in Procs
  BY DEF CallsOK

\* What an outcome written for a complaint leaves of the types.
LEMMA OutcomeType ==
  ASSUME RowsOK, ProcessesOK, NEW p \in Procs, NEW id \in Ids, NEW s \in STAGES, Outcome(p, id, s)
  PROVE  /\ stage' \in [Ids -> STAGES \cup NoRow]
         /\ interruptions' \in [Ids -> Nat]
         /\ since' \in [Ids -> Nat]
         /\ claimed' \in [Procs -> SUBSET Ids]
<1>1. stage' \in [Ids -> STAGES \cup NoRow]
  BY DEF Outcome, RowsOK
<1>2. interruptions' \in [Ids -> Nat]
  BY DEF Outcome, RowsOK
<1>3. since' \in [Ids -> Nat]
  BY DEF Outcome, RowsOK
<1>4. claimed' \in [Procs -> SUBSET Ids]
  BY DEF Outcome, ProcessesOK
<1>5. QED
  BY <1>1, <1>2, <1>3, <1>4

\* Every step keeps the types.
LEMMA NextType == TypeOK /\ [Next]_vars => TypeOK'
<1> SUFFICES ASSUME TypeOK, [Next]_vars PROVE TypeOK'
  OBVIOUS
<1> USE DEF TypeOK
<1>1. ASSUME NEW p \in Procs, Boot(p) PROVE TypeOK'
  <2>1. ProcessesOK'
    BY <1>1 DEF Boot, ProcessesOK
  <2>2. BudgetOK'
    BY <1>1 DEF Boot, BudgetOK
  <2>3. RowsOK' /\ WorkerOK' /\ CallsOK'
    BY <1>1 DEF Boot, RowsOK, WorkerOK, CallsOK
  <2>4. QED
    BY <2>1, <2>2, <2>3
<1>2. ASSUME NEW p \in Procs, reset_interrupted(p) PROVE TypeOK'
  <2>1. RowsOK'
    BY <1>2 DEF reset_interrupted, RowsOK
  <2>2. ProcessesOK'
    BY <1>2 DEF reset_interrupted, ProcessesOK
  <2>3. WorkerOK'
    BY <1>2 DEF reset_interrupted, WorkerOK
  <2>4. BudgetOK'
    BY <1>2 DEF reset_interrupted, BudgetOK
  <2>5. CallsOK'
    BY <1>2 DEF reset_interrupted, CallsOK
  <2>6. QED
    BY <2>1, <2>2, <2>3, <2>4, <2>5
<1>3. ASSUME NEW p \in Procs, Stop(p) PROVE TypeOK'
  <2>1. ProcessesOK'
    BY <1>3 DEF Stop, ProcessesOK
  <2>2. BudgetOK'
    BY <1>3 DEF Stop, BudgetOK
  <2>3. RowsOK' /\ WorkerOK' /\ CallsOK'
    BY <1>3 DEF Stop, RowsOK, WorkerOK, CallsOK
  <2>4. QED
    BY <2>1, <2>2, <2>3
<1>4. ASSUME NEW p \in Procs, Exit(p) PROVE TypeOK'
  <2>1. ProcessesOK'
    BY <1>4 DEF Exit, ProcessesOK
  <2>2. WorkerOK'
    BY <1>4 DEF Exit, WorkerOK
  <2>3. CallsOK'
    BY <1>4 DEF Exit, CallsOK
  <2>4. BudgetOK'
    BY <1>4 DEF Exit, BudgetOK
  <2>5. RowsOK'
    BY <1>4 DEF Exit, RowsOK
  <2>6. QED
    BY <2>1, <2>2, <2>3, <2>4, <2>5
<1>5. ASSUME NEW p \in Procs, BeginPass(p) PROVE TypeOK'
  <2>1. WorkerOK'
    BY <1>5 DEF BeginPass, WorkerOK
  <2>2. RowsOK' /\ ProcessesOK' /\ CallsOK' /\ BudgetOK'
    BY <1>5 DEF BeginPass, RowsOK, ProcessesOK, CallsOK, BudgetOK
  <2>3. QED
    BY <2>1, <2>2
<1>6. ASSUME NEW p \in Procs, NEW id \in Ids, SettleDeferred(p, id) PROVE TypeOK'
  <2>1. RowsOK'
    BY <1>6, OutcomeType DEF SettleDeferred, fail_if_stuck, fail, RowsOK
  <2>2. ProcessesOK'
    BY <1>6, OutcomeType DEF SettleDeferred, fail_if_stuck, fail, ProcessesOK
  <2>3. WorkerOK' /\ CallsOK' /\ BudgetOK'
    BY <1>6 DEF SettleDeferred, WorkerOK, CallsOK, BudgetOK
  <2>4. QED
    BY <2>1, <2>2, <2>3
<1>7. ASSUME NEW p \in Procs, DeferredRefused(p) PROVE TypeOK'
  <2>1. WorkerOK'
    BY <1>7 DEF DeferredRefused, WorkerOK
  <2>2. BudgetOK'
    BY <1>7 DEF DeferredRefused, BudgetOK
  <2>3. RowsOK' /\ ProcessesOK' /\ CallsOK'
    BY <1>7 DEF DeferredRefused, RowsOK, ProcessesOK, CallsOK
  <2>4. QED
    BY <2>1, <2>2, <2>3
<1>8. ASSUME NEW p \in Procs, claim_next(p) PROVE TypeOK'
  <2>1. RowsOK'
    BY <1>8 DEF claim_next, ReadyToClaim, RowsOK
  <2>2. ProcessesOK'
    BY <1>8 DEF claim_next, ReadyToClaim, ProcessesOK
  <2>3. WorkerOK'
    BY <1>8 DEF claim_next, ReadyToClaim, WorkerOK, RowsOK
  <2>4. BudgetOK'
    BY <1>8 DEF claim_next, ReadyToClaim, BudgetOK
  <2>5. CallsOK'
    BY <1>8 DEF claim_next, CallsOK
  <2>6. QED
    BY <2>1, <2>2, <2>3, <2>4, <2>5
<1>9. ASSUME NEW p \in Procs, QueueEmpty(p) PROVE TypeOK'
  <2>1. WorkerOK'
    BY <1>9 DEF QueueEmpty, ReadyToClaim, WorkerOK
  <2>2. RowsOK' /\ ProcessesOK' /\ CallsOK' /\ BudgetOK'
    BY <1>9 DEF QueueEmpty, RowsOK, ProcessesOK, CallsOK, BudgetOK
  <2>3. QED
    BY <2>1, <2>2
<1>10. ASSUME NEW p \in Procs, ExtractFails(p) PROVE TypeOK'
  <2>1. item[p] \in Ids
    BY <1>10, HasItem DEF ExtractFails
  <2>2. WorkerOK'
    BY <1>10, <2>1 DEF ExtractFails, WorkerOK
  <2>3. RowsOK' /\ ProcessesOK' /\ CallsOK' /\ BudgetOK'
    BY <1>10 DEF ExtractFails, RowsOK, ProcessesOK, CallsOK, BudgetOK
  <2>4. QED
    BY <2>2, <2>3
<1>11. ASSUME NEW p \in Procs, NEW t \in {"blank", "some"}, Extracted(p, t) PROVE TypeOK'
  <2>1. item[p] \in Ids
    BY <1>11, HasItem DEF Extracted
  <2>2. RowsOK'
    BY <1>11, <2>1 DEF Extracted, save_text, RowsOK
  <2>3. WorkerOK'
    BY <1>11, <2>1 DEF Extracted, save_text, WorkerOK
  <2>4. ProcessesOK' /\ CallsOK' /\ BudgetOK'
    BY <1>11 DEF Extracted, ProcessesOK, CallsOK, BudgetOK
  <2>5. QED
    BY <2>2, <2>3, <2>4
<1>12. ASSUME NEW p \in Procs, TextInHand(p) PROVE TypeOK'
  <2>1. item[p] \in Ids
    BY <1>12, HasItem DEF TextInHand
  <2>2. WorkerOK'
    BY <1>12, <2>1 DEF TextInHand, WorkerOK
  <2>3. RowsOK' /\ ProcessesOK' /\ CallsOK' /\ BudgetOK'
    BY <1>12 DEF TextInHand, RowsOK, ProcessesOK, CallsOK, BudgetOK
  <2>4. QED
    BY <2>2, <2>3
<1>13. ASSUME NEW p \in Procs, EmptyAnalysis(p) PROVE TypeOK'
  <2>1. item[p] \in Ids
    BY <1>13, HasItem DEF EmptyAnalysis
  <2>2. WorkerOK'
    BY <1>13, <2>1 DEF EmptyAnalysis, WorkerOK
  <2>3. RowsOK' /\ ProcessesOK' /\ CallsOK' /\ BudgetOK'
    BY <1>13 DEF EmptyAnalysis, RowsOK, ProcessesOK, CallsOK, BudgetOK
  <2>4. QED
    BY <2>2, <2>3
<1>14. ASSUME NEW p \in Procs, Structuring(p) PROVE TypeOK'
  <2>1. item[p] \in Ids
    BY <1>14, HasItem DEF Structuring
  <2>2. RowsOK'
    BY <1>14, <2>1 DEF Structuring, set_stage, RowsOK
  <2>3. WorkerOK'
    BY <1>14, <2>1 DEF Structuring, set_stage, WorkerOK
  <2>4. ProcessesOK' /\ CallsOK' /\ BudgetOK'
    BY <1>14 DEF Structuring, ProcessesOK, CallsOK, BudgetOK
  <2>5. QED
    BY <2>2, <2>3, <2>4
<1>15. ASSUME NEW p \in Procs, Classifying(p) PROVE TypeOK'
  <2>1. item[p] \in Ids
    BY <1>15, HasItem DEF Classifying
  <2>2. RowsOK'
    BY <1>15, <2>1 DEF Classifying, set_stage, RowsOK
  <2>3. WorkerOK'
    BY <1>15, <2>1 DEF Classifying, set_stage, WorkerOK
  <2>4. ProcessesOK' /\ CallsOK' /\ BudgetOK'
    BY <1>15 DEF Classifying, ProcessesOK, CallsOK, BudgetOK
  <2>5. QED
    BY <2>2, <2>3, <2>4
<1>16. ASSUME NEW p \in Procs, Classified(p) PROVE TypeOK'
  <2>1. item[p] \in Ids
    BY <1>16, HasItem DEF Classified
  <2>2. WorkerOK'
    BY <1>16, <2>1 DEF Classified, WorkerOK
  <2>3. RowsOK' /\ ProcessesOK' /\ CallsOK' /\ BudgetOK'
    BY <1>16 DEF Classified, RowsOK, ProcessesOK, CallsOK, BudgetOK
  <2>4. QED
    BY <2>2, <2>3
<1>17. ASSUME NEW p \in Procs, ModelFails(p) PROVE TypeOK'
  <2>1. item[p] \in Ids
    BY <1>17, HasItem DEF ModelFails
  <2>2. WorkerOK'
    BY <1>17, <2>1 DEF ModelFails, WorkerOK
  <2>3. RowsOK' /\ ProcessesOK' /\ CallsOK' /\ BudgetOK'
    BY <1>17 DEF ModelFails, RowsOK, ProcessesOK, CallsOK, BudgetOK
  <2>4. QED
    BY <2>2, <2>3
<1>18. ASSUME NEW p \in Procs, SaveAnalysis(p) PROVE TypeOK'
  <2>1. item[p] \in Ids
    BY <1>18, HasItem DEF SaveAnalysis
  <2>2. RowsOK'
    BY <1>18, <2>1, OutcomeType DEF SaveAnalysis, save_analysis, RowsOK
  <2>3. ProcessesOK'
    BY <1>18, <2>1, OutcomeType DEF SaveAnalysis, save_analysis, ProcessesOK
  <2>4. WorkerOK'
    BY <1>18, <2>1 DEF SaveAnalysis, save_analysis, WorkerOK
  <2>5. CallsOK' /\ BudgetOK'
    BY <1>18 DEF SaveAnalysis, CallsOK, BudgetOK
  <2>6. QED
    BY <2>2, <2>3, <2>4, <2>5
<1>19. ASSUME NEW p \in Procs, Settle(p) PROVE TypeOK'
  <2>1. item[p] \in Ids
    BY <1>19, HasItem DEF Settle
  <2>2. WorkerOK'
    BY <1>19, <2>1 DEF Settle, WorkerOK
  <2>3. RowsOK' /\ ProcessesOK' /\ CallsOK' /\ BudgetOK'
    BY <1>19 DEF Settle, RowsOK, ProcessesOK, CallsOK, BudgetOK
  <2>4. QED
    BY <2>2, <2>3
<1>20. ASSUME NEW p \in Procs, Fail(p) PROVE TypeOK'
  <2>1. item[p] \in Ids
    BY <1>20, HasItem DEF Fail
  <2>2. RowsOK'
    BY <1>20, <2>1, OutcomeType DEF Fail, fail, RowsOK
  <2>3. ProcessesOK'
    BY <1>20, <2>1, OutcomeType DEF Fail, fail, ProcessesOK
  <2>4. WorkerOK'
    BY <1>20, <2>1 DEF Fail, fail, WorkerOK
  <2>5. CallsOK' /\ BudgetOK'
    BY <1>20 DEF Fail, CallsOK, BudgetOK
  <2>6. QED
    BY <2>2, <2>3, <2>4, <2>5
<1>21. ASSUME NEW p \in Procs, PutBack(p) PROVE TypeOK'
  <2>1. item[p] \in Ids
    BY <1>21, HasItem DEF PutBack
  <2>2. RowsOK'
    BY <1>21, <2>1 DEF PutBack, requeue_interrupted, RowsOK
  <2>3. ProcessesOK'
    BY <1>21, <2>1 DEF PutBack, requeue_interrupted, ProcessesOK
  <2>4. WorkerOK'
    BY <1>21, <2>1 DEF PutBack, requeue_interrupted, WorkerOK
  <2>5. CallsOK' /\ BudgetOK'
    BY <1>21 DEF PutBack, CallsOK, BudgetOK
  <2>6. QED
    BY <2>2, <2>3, <2>4, <2>5
<1>22. ASSUME NEW p \in Procs, Refused(p) PROVE TypeOK'
  <2>1. item[p] \in Ids
    BY <1>22, HasItem DEF Refused
  <2>2. ProcessesOK'
    BY <1>22, <2>1 DEF Refused, ProcessesOK
  <2>3. WorkerOK'
    <3>1. CASE settling[p]
      <4>1. Drop(p, "idle")
        BY <1>22, <3>1 DEF Refused
      <4>2. QED
        BY <4>1 DEF WorkerOK
    <3>2. CASE ~settling[p]
      BY <1>22, <2>1, <3>2 DEF Refused, WorkerOK
    <3>3. QED
      BY <3>1, <3>2
  <2>4. BudgetOK'
    BY <1>22, <2>1 DEF Refused, BudgetOK
  <2>5. RowsOK' /\ CallsOK'
    BY <1>22 DEF Refused, RowsOK, CallsOK
  <2>6. QED
    BY <2>2, <2>3, <2>4, <2>5
<1>23. ASSUME NEW p \in Procs, NEW isScan \in BOOLEAN, Intake(p, isScan) PROVE TypeOK'
  <2>1. RowsOK'
    BY <1>23 DEF Intake, RowsOK
  <2>2. ProcessesOK' /\ WorkerOK' /\ CallsOK' /\ BudgetOK'
    BY <1>23 DEF Intake, ProcessesOK, WorkerOK, CallsOK, BudgetOK
  <2>3. QED
    BY <2>1, <2>2
<1>24. ASSUME NEW r \in Reqs, NEW p \in Procs, NEW op \in Ops, NEW id \in Ids, Look(r, p, op, id) PROVE TypeOK'
  <2>1. CallsOK'
    BY <1>24 DEF Look, CallsOK
  <2>2. BudgetOK'
    BY <1>24 DEF Look, BudgetOK
  <2>3. RowsOK' /\ ProcessesOK' /\ WorkerOK'
    BY <1>24 DEF Look, RowsOK, ProcessesOK, WorkerOK
  <2>4. QED
    BY <2>1, <2>2, <2>3
<1>25. ASSUME NEW r \in Reqs, is_busy(r) PROVE TypeOK'
  <2>1. callId[r] \in Ids /\ callProc[r] \in Procs
    BY <1>25, Asked DEF is_busy
  <2>2. CallsOK'
    BY <1>25, <2>1 DEF is_busy, CallsOK
  <2>3. RowsOK' /\ ProcessesOK' /\ WorkerOK' /\ BudgetOK'
    BY <1>25 DEF is_busy, RowsOK, ProcessesOK, WorkerOK, BudgetOK
  <2>4. QED
    BY <2>2, <2>3
<1>26. ASSUME NEW r \in Reqs, Reprocess(r) PROVE TypeOK'
  <2>1. callId[r] \in Ids /\ callProc[r] \in Procs
    BY <1>26, Asked DEF Reprocess
  <2>2. RowsOK'
    <3>1. interruptions' \in [Ids -> Nat]
      BY <1>26, <2>1 DEF Reprocess, RowsOK
    <3>2. since' \in [Ids -> Nat]
      BY <1>26, <2>1 DEF Reprocess, RowsOK
    <3>3. stage' \in [Ids -> STAGES \cup NoRow] /\ UNCHANGED <<scan, text>>
      BY <1>26, <2>1 DEF Reprocess, RowsOK
    <3>4. reocr' \in [Ids -> BOOLEAN]
      BY <1>26, <2>1 DEF Reprocess, RowsOK
    <3>5. overtaken' \in SUBSET Ids
      BY <1>26, <2>1 DEF Reprocess, MarkOvertaken, RowsOK
    <3>6. QED
      BY <3>1, <3>2, <3>3, <3>4, <3>5 DEF RowsOK
  <2>3. ProcessesOK'
    BY <1>26, <2>1 DEF Reprocess, MarkOvertaken, ProcessesOK
  <2>4. CallsOK'
    BY <1>26, <2>1 DEF Reprocess, MarkOvertaken, CallsOK
  <2>5. WorkerOK' /\ BudgetOK'
    BY <1>26 DEF Reprocess, WorkerOK, BudgetOK
  <2>6. QED
    BY <2>2, <2>3, <2>4, <2>5
<1>27. ASSUME NEW r \in Reqs, Delete(r) PROVE TypeOK'
  <2>1. callId[r] \in Ids /\ callProc[r] \in Procs
    BY <1>27, Asked DEF Delete
  <2>2. RowsOK'
    BY <1>27, <2>1 DEF Delete, MarkOvertaken, RowsOK
  <2>3. ProcessesOK'
    BY <1>27, <2>1 DEF Delete, MarkOvertaken, ProcessesOK
  <2>4. CallsOK'
    BY <1>27, <2>1 DEF Delete, MarkOvertaken, CallsOK
  <2>5. WorkerOK' /\ BudgetOK'
    BY <1>27 DEF Delete, WorkerOK, BudgetOK
  <2>6. QED
    BY <2>2, <2>3, <2>4, <2>5
<1>28. ASSUME NEW p \in Procs, NEW id \in Ids, SetStatus(p, id) PROVE TypeOK'
  <2>1. RowsOK'
    BY <1>28 DEF SetStatus, RowsOK
  <2>2. BudgetOK'
    BY <1>28 DEF SetStatus, BudgetOK
  <2>3. ProcessesOK' /\ WorkerOK' /\ CallsOK'
    BY <1>28 DEF SetStatus, ProcessesOK, WorkerOK, CallsOK
  <2>4. QED
    BY <2>1, <2>2, <2>3
<1>29. CASE UNCHANGED vars
  BY <1>29 DEF vars, RowsOK, ProcessesOK, WorkerOK, CallsOK, BudgetOK
<1>30. QED
  BY <1>1, <1>2, <1>3, <1>4, <1>5, <1>6, <1>7, <1>8, <1>9, <1>10, <1>11, <1>12, <1>13, 
     <1>14, <1>15, <1>16, <1>17, <1>18, <1>19, <1>20, <1>21, <1>22, <1>23, <1>24, 
     <1>25, <1>26, <1>27, <1>28, <1>29
     DEF Next, WorkerStep, ApiStep

\* Every reachable state is well typed.
THEOREM TypeCorrect == Spec => []TypeOK
  BY InitType, NextType, PTL DEF Spec

-----------------------------------------------------------------------------
(* The safety invariants.  None is inductive by itself: that a held row is  *)
(* in a processing stage needs the owner to be the only one with a worker,  *)
(* that a claim ends with the work needs the held row to exist, and that    *)
(* "done" answers the re-extraction needs the text to be read before it is  *)
(* analysed.  IInv is their conjunction with those facts.                   *)

\* The first state satisfies the inductive invariant: nothing runs yet.
LEMMA InitInv == Init => IInv
  BY QueueAssumption
     DEF Init, IInv, OwnerWorks, HeldWasCreated, HeldIsProcessing, NoLeakedClaim,
         ReadBeforeAnalysis, DoneMeansReadAgain, NeverOvercounted

\* Every step keeps the inductive invariant.
LEMMA NextInv == TypeOK /\ IInv /\ [Next]_vars => IInv'
<1> SUFFICES ASSUME TypeOK, IInv, [Next]_vars PROVE IInv'
  OBVIOUS
<1> USE DEF TypeOK, IInv
<1>1. ASSUME NEW p \in Procs, Boot(p) PROVE IInv'
  <2>1. OwnerWorks'
    <3> SUFFICES ASSUME NEW q \in Procs
                 PROVE  /\ pc'[q] # "off" => owner' = q /\ phase'[q] = "serving" /\ owns_queue'[q]
                        /\ phase'[q] = "booting" => owner' = q /\ owns_queue'[q] /\ pc'[q] = "off"
                        /\ owner' = q => phase'[q] # "down"
      BY DEF OwnerWorks
    <3>1. CASE q = p
      BY <1>1, <3>1, QueueAssumption DEF Boot, OwnerWorks, ProcessesOK
    <3>2. CASE q # p
      BY <1>1, <3>2, QueueAssumption DEF Boot, OwnerWorks, ProcessesOK
    <3>3. QED
      BY <3>1, <3>2
  <2>2. HeldWasCreated' /\ HeldIsProcessing' /\ NoLeakedClaim' /\ ReadBeforeAnalysis' /\ DoneMeansReadAgain' /\ NeverOvercounted'
    BY <1>1
       DEF Boot, HeldWasCreated, HeldIsProcessing, NoLeakedClaim, ReadBeforeAnalysis,
           DoneMeansReadAgain, NeverOvercounted
  <2>3. QED
    BY <2>1, <2>2
<1>2. ASSUME NEW p \in Procs, reset_interrupted(p) PROVE IInv'
  <2>1. OwnerWorks'
    <3>1. owner = p /\ owner' = owner /\ owns_queue' = owns_queue
      BY <1>2 DEF reset_interrupted, OwnerWorks
    <3>2. phase' = [phase EXCEPT ![p] = "serving"] /\ pc' = [pc EXCEPT ![p] = "idle"]
      BY <1>2 DEF reset_interrupted
    <3>3. \A q \in Procs : q # p => pc[q] = "off" /\ phase[q] # "booting"
      BY <3>1 DEF OwnerWorks
    <3>4. owns_queue[p]
      BY <1>2 DEF reset_interrupted, OwnerWorks
    <3>5. QED
      BY <3>1, <3>2, <3>3, <3>4 DEF OwnerWorks, ProcessesOK, WorkerOK
  <2>2. HeldWasCreated' /\ HeldIsProcessing'
    BY <1>2
       DEF reset_interrupted, HeldWasCreated, HeldIsProcessing, OwnerWorks, RowsOK,
           ProcessesOK, WorkerOK, CallsOK
  <2>3. NoLeakedClaim'
    <3>1. UNCHANGED claimed /\ pc' = [pc EXCEPT ![p] = "idle"] /\ item' = [item EXCEPT ![p] = 0]
      BY <1>2 DEF reset_interrupted
    <3>2. \A id \in Ids : stage[id] = "deleted" => stage'[id] = "deleted"
      BY <1>2 DEF reset_interrupted
    <3>3. pc[p] = "off"
      BY <1>2 DEF reset_interrupted, OwnerWorks
    <3>4. QED
      BY <3>1, <3>2, <3>3 DEF NoLeakedClaim, ProcessesOK, WorkerOK
  <2>4. ReadBeforeAnalysis'
    BY <1>2
       DEF reset_interrupted, ReadBeforeAnalysis, HeldIsProcessing, OwnerWorks, RowsOK,
           ProcessesOK, WorkerOK, CallsOK
  <2>5. DoneMeansReadAgain'
    BY <1>2
       DEF reset_interrupted, DoneMeansReadAgain, ReadBeforeAnalysis, OwnerWorks, RowsOK,
           ProcessesOK, WorkerOK, CallsOK
  <2>6. NeverOvercounted'
    BY <1>2 DEF reset_interrupted, NeverOvercounted, RowsOK, WorkerOK, CallsOK
  <2>7. QED
    BY <2>1, <2>2, <2>3, <2>4, <2>5, <2>6
<1>3. ASSUME NEW p \in Procs, Stop(p) PROVE IInv'
  BY <1>3
     DEF Stop, OwnerWorks, HeldWasCreated, HeldIsProcessing, NoLeakedClaim,
         ReadBeforeAnalysis, DoneMeansReadAgain, NeverOvercounted
<1>4. ASSUME NEW p \in Procs, Exit(p) PROVE IInv'
  <2>1. OwnerWorks'
    <3>1. phase' = [phase EXCEPT ![p] = "down"] /\ pc' = [pc EXCEPT ![p] = "off"]
      BY <1>4 DEF Exit
    <3>2. /\ owns_queue' = [owns_queue EXCEPT ![p] = TRUE]
          /\ owner' = IF owner = p THEN NoProc ELSE owner
      BY <1>4 DEF Exit
    <3>3. QED
      BY <3>1, <3>2, QueueAssumption DEF OwnerWorks, ProcessesOK, WorkerOK
  <2>2. HeldWasCreated' /\ HeldIsProcessing'
    BY <1>4
       DEF Exit, HeldWasCreated, HeldIsProcessing, OwnerWorks, RowsOK, ProcessesOK, WorkerOK,
           CallsOK
  <2>3. NoLeakedClaim'
    BY <1>4
       DEF Exit, NoLeakedClaim, HeldWasCreated, OwnerWorks, RowsOK, ProcessesOK, WorkerOK,
           CallsOK
  <2>4. ReadBeforeAnalysis'
    BY <1>4
       DEF Exit, ReadBeforeAnalysis, HeldIsProcessing, OwnerWorks, RowsOK, ProcessesOK,
           WorkerOK, CallsOK
  <2>5. DoneMeansReadAgain' /\ NeverOvercounted'
    BY <1>4 DEF Exit, DoneMeansReadAgain, NeverOvercounted
  <2>6. QED
    BY <2>1, <2>2, <2>3, <2>4, <2>5
<1>5. ASSUME NEW p \in Procs, BeginPass(p) PROVE IInv'
  <2>1. OwnerWorks'
    BY <1>5 DEF BeginPass, OwnerWorks, ProcessesOK, WorkerOK
  <2>2. HeldWasCreated' /\ HeldIsProcessing'
    BY <1>5
       DEF BeginPass, HeldWasCreated, HeldIsProcessing, OwnerWorks, RowsOK, ProcessesOK,
           WorkerOK, CallsOK
  <2>3. NoLeakedClaim'
    BY <1>5
       DEF BeginPass, NoLeakedClaim, HeldWasCreated, OwnerWorks, RowsOK, ProcessesOK,
           WorkerOK, CallsOK
  <2>4. ReadBeforeAnalysis'
    BY <1>5
       DEF BeginPass, ReadBeforeAnalysis, HeldIsProcessing, OwnerWorks, RowsOK, ProcessesOK,
           WorkerOK, CallsOK
  <2>5. DoneMeansReadAgain' /\ NeverOvercounted'
    BY <1>5 DEF BeginPass, DoneMeansReadAgain, NeverOvercounted
  <2>6. QED
    BY <2>1, <2>2, <2>3, <2>4, <2>5
<1>6. ASSUME NEW p \in Procs, NEW id \in Ids, SettleDeferred(p, id) PROVE IInv'
  <2>1. HeldWasCreated' /\ HeldIsProcessing'
    BY <1>6
       DEF SettleDeferred, fail_if_stuck, fail, Outcome, HeldWasCreated, HeldIsProcessing,
           OwnerWorks, RowsOK, ProcessesOK, WorkerOK, CallsOK
  <2>2. NoLeakedClaim'
    <3> SUFFICES ASSUME NEW q \in Procs, NEW c \in claimed'[q]
                 PROVE  Holds(q, c)' \/ stage'[c] = "deleted"
      BY DEF NoLeakedClaim
    <3>1. c \in claimed[q] /\ c \in Ids
      BY <1>6 DEF SettleDeferred, fail_if_stuck, fail, Outcome, ProcessesOK
    <3>2. Holds(q, c)' <=> Holds(q, c)
      BY <1>6 DEF SettleDeferred
    <3>3. stage[c] = "deleted" => stage'[c] = "deleted"
      BY <1>6, <3>1 DEF SettleDeferred, fail_if_stuck, fail, Outcome, RowsOK
    <3>4. QED
      BY <3>1, <3>2, <3>3 DEF NoLeakedClaim
  <2>3. DoneMeansReadAgain'
    BY <1>6
       DEF SettleDeferred, fail_if_stuck, fail, Outcome, DoneMeansReadAgain,
           ReadBeforeAnalysis, OwnerWorks, RowsOK, ProcessesOK, WorkerOK, CallsOK
  <2>4. NeverOvercounted'
    BY <1>6
       DEF SettleDeferred, fail_if_stuck, fail, Outcome, NeverOvercounted, RowsOK, WorkerOK,
           CallsOK
  <2>5. OwnerWorks' /\ ReadBeforeAnalysis'
    BY <1>6 DEF SettleDeferred, OwnerWorks, ReadBeforeAnalysis
  <2>6. QED
    BY <2>1, <2>2, <2>3, <2>4, <2>5
<1>7. ASSUME NEW p \in Procs, DeferredRefused(p) PROVE IInv'
  <2>1. OwnerWorks'
    BY <1>7 DEF DeferredRefused, OwnerWorks, ProcessesOK, WorkerOK
  <2>2. HeldWasCreated' /\ HeldIsProcessing'
    BY <1>7
       DEF DeferredRefused, HeldWasCreated, HeldIsProcessing, OwnerWorks, RowsOK, ProcessesOK,
           WorkerOK, CallsOK
  <2>3. NoLeakedClaim'
    BY <1>7
       DEF DeferredRefused, NoLeakedClaim, HeldWasCreated, OwnerWorks, RowsOK, ProcessesOK,
           WorkerOK, CallsOK
  <2>4. ReadBeforeAnalysis'
    BY <1>7
       DEF DeferredRefused, ReadBeforeAnalysis, HeldIsProcessing, OwnerWorks, RowsOK,
           ProcessesOK, WorkerOK, CallsOK
  <2>5. DoneMeansReadAgain' /\ NeverOvercounted'
    BY <1>7 DEF DeferredRefused, DoneMeansReadAgain, NeverOvercounted
  <2>6. QED
    BY <2>1, <2>2, <2>3, <2>4, <2>5
<1>8. ASSUME NEW p \in Procs, claim_next(p) PROVE IInv'
  <2>1. OwnerWorks'
    BY <1>8 DEF claim_next, ReadyToClaim, OwnerWorks, ProcessesOK, WorkerOK
  <2>2. HeldWasCreated' /\ HeldIsProcessing'
    BY <1>8
       DEF claim_next, ReadyToClaim, HeldWasCreated, HeldIsProcessing, OwnerWorks, RowsOK,
           ProcessesOK, WorkerOK, CallsOK
  <2>3. NoLeakedClaim'
    <3> SUFFICES ASSUME NEW q \in Procs, NEW c \in claimed'[q]
                 PROVE  Holds(q, c)' \/ stage'[c] = "deleted"
      BY DEF NoLeakedClaim
    <3>1. PICK id \in Queued :
              /\ stage' = [stage EXCEPT ![id] = ClaimStage(id)]
              /\ \/ /\ claimed' = [claimed EXCEPT ![p] = @ \cup {id}]
                    /\ pc' = [pc EXCEPT ![p] = IF NeedsOcr(id) THEN "ocr" ELSE "read"]
                    /\ item' = [item EXCEPT ![p] = id]
                 \/ Goto(p, "idle") /\ UNCHANGED claimed
      BY <1>8 DEF claim_next
    <3>2. CASE c \in claimed[q]
      <4>1. Holds(q, c) \/ stage[c] = "deleted"
        BY <3>2 DEF NoLeakedClaim
      <4>2. ASSUME Holds(q, c) PROVE Holds(q, c)'
        <5>1. q # p
          BY <1>8, <4>2 DEF claim_next, ReadyToClaim
        <5>2. pc'[q] = pc[q] /\ item'[q] = item[q]
          BY <3>1, <5>1 DEF WorkerOK
        <5>3. QED
          BY <4>2, <5>2
      <4>3. ASSUME stage[c] = "deleted" PROVE stage'[c] = "deleted"
        BY <3>1, <3>2, <4>3 DEF RowsOK, ProcessesOK
      <4>4. QED
        BY <4>1, <4>2, <4>3
    <3>3. CASE c \notin claimed[q]
      <4>1. /\ q = p /\ c = id
            /\ pc' = [pc EXCEPT ![p] = IF NeedsOcr(id) THEN "ocr" ELSE "read"]
            /\ item' = [item EXCEPT ![p] = id]
        BY <3>1, <3>3 DEF ProcessesOK
      <4>2. QED
        BY <4>1 DEF WorkerOK
    <3>4. QED
      BY <3>2, <3>3
  <2>4. ReadBeforeAnalysis'
    BY <1>8
       DEF claim_next, ReadyToClaim, ReadBeforeAnalysis, HeldIsProcessing, OwnerWorks, RowsOK,
           ProcessesOK, WorkerOK, CallsOK
  <2>5. DoneMeansReadAgain'
    BY <1>8
       DEF claim_next, ReadyToClaim, DoneMeansReadAgain, ReadBeforeAnalysis, OwnerWorks,
           RowsOK, ProcessesOK, WorkerOK, CallsOK
  <2>6. NeverOvercounted'
    BY <1>8 DEF claim_next, NeverOvercounted
  <2>7. QED
    BY <2>1, <2>2, <2>3, <2>4, <2>5, <2>6
<1>9. ASSUME NEW p \in Procs, QueueEmpty(p) PROVE IInv'
  <2>1. OwnerWorks'
    BY <1>9 DEF QueueEmpty, ReadyToClaim, OwnerWorks, ProcessesOK, WorkerOK
  <2>2. HeldWasCreated' /\ HeldIsProcessing'
    BY <1>9
       DEF QueueEmpty, ReadyToClaim, HeldWasCreated, HeldIsProcessing, OwnerWorks, RowsOK,
           ProcessesOK, WorkerOK, CallsOK
  <2>3. NoLeakedClaim'
    BY <1>9
       DEF QueueEmpty, ReadyToClaim, NoLeakedClaim, HeldWasCreated, OwnerWorks, RowsOK,
           ProcessesOK, WorkerOK, CallsOK
  <2>4. ReadBeforeAnalysis'
    BY <1>9
       DEF QueueEmpty, ReadyToClaim, ReadBeforeAnalysis, HeldIsProcessing, OwnerWorks, RowsOK,
           ProcessesOK, WorkerOK, CallsOK
  <2>5. DoneMeansReadAgain' /\ NeverOvercounted'
    BY <1>9 DEF QueueEmpty, DoneMeansReadAgain, NeverOvercounted
  <2>6. QED
    BY <2>1, <2>2, <2>3, <2>4, <2>5
<1>10. ASSUME NEW p \in Procs, ExtractFails(p) PROVE IInv'
  <2>1. OwnerWorks'
    BY <1>10 DEF ExtractFails, OwnerWorks, ProcessesOK, WorkerOK
  <2>2. HeldWasCreated' /\ HeldIsProcessing'
    BY <1>10
       DEF ExtractFails, HeldWasCreated, HeldIsProcessing, OwnerWorks, RowsOK, ProcessesOK,
           WorkerOK, CallsOK
  <2>3. NoLeakedClaim'
    BY <1>10
       DEF ExtractFails, NoLeakedClaim, HeldWasCreated, OwnerWorks, RowsOK, ProcessesOK,
           WorkerOK, CallsOK
  <2>4. ReadBeforeAnalysis'
    BY <1>10
       DEF ExtractFails, ReadBeforeAnalysis, HeldIsProcessing, OwnerWorks, RowsOK,
           ProcessesOK, WorkerOK, CallsOK
  <2>5. DoneMeansReadAgain' /\ NeverOvercounted'
    BY <1>10 DEF ExtractFails, DoneMeansReadAgain, NeverOvercounted
  <2>6. QED
    BY <2>1, <2>2, <2>3, <2>4, <2>5
<1>11. ASSUME NEW p \in Procs, NEW t \in {"blank", "some"}, Extracted(p, t) PROVE IInv'
  <2>1. OwnerWorks'
    BY <1>11 DEF Extracted, save_text, OwnerWorks, ProcessesOK, WorkerOK
  <2>2. HeldWasCreated' /\ HeldIsProcessing'
    BY <1>11
       DEF Extracted, save_text, HeldWasCreated, HeldIsProcessing, OwnerWorks, RowsOK,
           ProcessesOK, WorkerOK, CallsOK
  <2>3. NoLeakedClaim'
    BY <1>11
       DEF Extracted, save_text, NoLeakedClaim, HeldWasCreated, OwnerWorks, RowsOK,
           ProcessesOK, WorkerOK, CallsOK
  <2>4. ReadBeforeAnalysis'
    BY <1>11
       DEF Extracted, save_text, ReadBeforeAnalysis, HeldIsProcessing, OwnerWorks, RowsOK,
           ProcessesOK, WorkerOK, CallsOK
  <2>5. DoneMeansReadAgain'
    BY <1>11
       DEF Extracted, save_text, DoneMeansReadAgain, ReadBeforeAnalysis, OwnerWorks, RowsOK,
           ProcessesOK, WorkerOK, CallsOK
  <2>6. NeverOvercounted'
    BY <1>11 DEF Extracted, NeverOvercounted
  <2>7. QED
    BY <2>1, <2>2, <2>3, <2>4, <2>5, <2>6
<1>12. ASSUME NEW p \in Procs, TextInHand(p) PROVE IInv'
  <2>1. OwnerWorks'
    BY <1>12 DEF TextInHand, OwnerWorks, ProcessesOK, WorkerOK
  <2>2. HeldWasCreated' /\ HeldIsProcessing'
    BY <1>12
       DEF TextInHand, HeldWasCreated, HeldIsProcessing, OwnerWorks, RowsOK, ProcessesOK,
           WorkerOK, CallsOK
  <2>3. NoLeakedClaim'
    BY <1>12
       DEF TextInHand, NoLeakedClaim, HeldWasCreated, OwnerWorks, RowsOK, ProcessesOK,
           WorkerOK, CallsOK
  <2>4. ReadBeforeAnalysis'
    BY <1>12
       DEF TextInHand, ReadBeforeAnalysis, HeldIsProcessing, OwnerWorks, RowsOK, ProcessesOK,
           WorkerOK, CallsOK
  <2>5. DoneMeansReadAgain' /\ NeverOvercounted'
    BY <1>12 DEF TextInHand, DoneMeansReadAgain, NeverOvercounted
  <2>6. QED
    BY <2>1, <2>2, <2>3, <2>4, <2>5
<1>13. ASSUME NEW p \in Procs, EmptyAnalysis(p) PROVE IInv'
  <2>1. OwnerWorks'
    BY <1>13 DEF EmptyAnalysis, OwnerWorks, ProcessesOK, WorkerOK
  <2>2. HeldWasCreated' /\ HeldIsProcessing'
    BY <1>13
       DEF EmptyAnalysis, HeldWasCreated, HeldIsProcessing, OwnerWorks, RowsOK, ProcessesOK,
           WorkerOK, CallsOK
  <2>3. NoLeakedClaim'
    BY <1>13
       DEF EmptyAnalysis, NoLeakedClaim, HeldWasCreated, OwnerWorks, RowsOK, ProcessesOK,
           WorkerOK, CallsOK
  <2>4. ReadBeforeAnalysis'
    BY <1>13
       DEF EmptyAnalysis, ReadBeforeAnalysis, HeldIsProcessing, OwnerWorks, RowsOK,
           ProcessesOK, WorkerOK, CallsOK
  <2>5. DoneMeansReadAgain' /\ NeverOvercounted'
    BY <1>13 DEF EmptyAnalysis, DoneMeansReadAgain, NeverOvercounted
  <2>6. QED
    BY <2>1, <2>2, <2>3, <2>4, <2>5
<1>14. ASSUME NEW p \in Procs, Structuring(p) PROVE IInv'
  <2>1. OwnerWorks'
    BY <1>14 DEF Structuring, set_stage, OwnerWorks, ProcessesOK, WorkerOK
  <2>2. HeldWasCreated' /\ HeldIsProcessing'
    BY <1>14
       DEF Structuring, set_stage, HeldWasCreated, HeldIsProcessing, OwnerWorks, RowsOK,
           ProcessesOK, WorkerOK, CallsOK
  <2>3. NoLeakedClaim'
    BY <1>14
       DEF Structuring, set_stage, NoLeakedClaim, HeldWasCreated, OwnerWorks, RowsOK,
           ProcessesOK, WorkerOK, CallsOK
  <2>4. ReadBeforeAnalysis'
    BY <1>14
       DEF Structuring, set_stage, ReadBeforeAnalysis, HeldIsProcessing, OwnerWorks, RowsOK,
           ProcessesOK, WorkerOK, CallsOK
  <2>5. DoneMeansReadAgain'
    BY <1>14
       DEF Structuring, set_stage, DoneMeansReadAgain, ReadBeforeAnalysis, OwnerWorks, RowsOK,
           ProcessesOK, WorkerOK, CallsOK
  <2>6. NeverOvercounted'
    BY <1>14 DEF Structuring, NeverOvercounted
  <2>7. QED
    BY <2>1, <2>2, <2>3, <2>4, <2>5, <2>6
<1>15. ASSUME NEW p \in Procs, Classifying(p) PROVE IInv'
  <2>1. OwnerWorks'
    BY <1>15 DEF Classifying, set_stage, OwnerWorks, ProcessesOK, WorkerOK
  <2>2. HeldWasCreated' /\ HeldIsProcessing'
    BY <1>15
       DEF Classifying, set_stage, HeldWasCreated, HeldIsProcessing, OwnerWorks, RowsOK,
           ProcessesOK, WorkerOK, CallsOK
  <2>3. NoLeakedClaim'
    BY <1>15
       DEF Classifying, set_stage, NoLeakedClaim, HeldWasCreated, OwnerWorks, RowsOK,
           ProcessesOK, WorkerOK, CallsOK
  <2>4. ReadBeforeAnalysis'
    BY <1>15
       DEF Classifying, set_stage, ReadBeforeAnalysis, HeldIsProcessing, OwnerWorks, RowsOK,
           ProcessesOK, WorkerOK, CallsOK
  <2>5. DoneMeansReadAgain'
    BY <1>15
       DEF Classifying, set_stage, DoneMeansReadAgain, ReadBeforeAnalysis, OwnerWorks, RowsOK,
           ProcessesOK, WorkerOK, CallsOK
  <2>6. NeverOvercounted'
    BY <1>15 DEF Classifying, NeverOvercounted
  <2>7. QED
    BY <2>1, <2>2, <2>3, <2>4, <2>5, <2>6
<1>16. ASSUME NEW p \in Procs, Classified(p) PROVE IInv'
  <2>1. OwnerWorks'
    BY <1>16 DEF Classified, OwnerWorks, ProcessesOK, WorkerOK
  <2>2. HeldWasCreated' /\ HeldIsProcessing'
    BY <1>16
       DEF Classified, HeldWasCreated, HeldIsProcessing, OwnerWorks, RowsOK, ProcessesOK,
           WorkerOK, CallsOK
  <2>3. NoLeakedClaim'
    BY <1>16
       DEF Classified, NoLeakedClaim, HeldWasCreated, OwnerWorks, RowsOK, ProcessesOK,
           WorkerOK, CallsOK
  <2>4. ReadBeforeAnalysis'
    BY <1>16
       DEF Classified, ReadBeforeAnalysis, HeldIsProcessing, OwnerWorks, RowsOK, ProcessesOK,
           WorkerOK, CallsOK
  <2>5. DoneMeansReadAgain' /\ NeverOvercounted'
    BY <1>16 DEF Classified, DoneMeansReadAgain, NeverOvercounted
  <2>6. QED
    BY <2>1, <2>2, <2>3, <2>4, <2>5
<1>17. ASSUME NEW p \in Procs, ModelFails(p) PROVE IInv'
  <2>1. OwnerWorks'
    BY <1>17 DEF ModelFails, OwnerWorks, ProcessesOK, WorkerOK
  <2>2. HeldWasCreated' /\ HeldIsProcessing'
    BY <1>17
       DEF ModelFails, HeldWasCreated, HeldIsProcessing, OwnerWorks, RowsOK, ProcessesOK,
           WorkerOK, CallsOK
  <2>3. NoLeakedClaim'
    BY <1>17
       DEF ModelFails, NoLeakedClaim, HeldWasCreated, OwnerWorks, RowsOK, ProcessesOK,
           WorkerOK, CallsOK
  <2>4. ReadBeforeAnalysis'
    BY <1>17
       DEF ModelFails, ReadBeforeAnalysis, HeldIsProcessing, OwnerWorks, RowsOK, ProcessesOK,
           WorkerOK, CallsOK
  <2>5. DoneMeansReadAgain' /\ NeverOvercounted'
    BY <1>17 DEF ModelFails, DoneMeansReadAgain, NeverOvercounted
  <2>6. QED
    BY <2>1, <2>2, <2>3, <2>4, <2>5
<1>18. ASSUME NEW p \in Procs, SaveAnalysis(p) PROVE IInv'
  <2>1. OwnerWorks'
    BY <1>18 DEF SaveAnalysis, save_analysis, Outcome, OwnerWorks, ProcessesOK, WorkerOK
  <2>2. HeldWasCreated' /\ HeldIsProcessing'
    BY <1>18
       DEF SaveAnalysis, save_analysis, Outcome, HeldWasCreated, HeldIsProcessing, OwnerWorks,
           RowsOK, ProcessesOK, WorkerOK, CallsOK
  <2>3. NoLeakedClaim'
    BY <1>18
       DEF SaveAnalysis, save_analysis, Outcome, NoLeakedClaim, HeldWasCreated, OwnerWorks,
           RowsOK, ProcessesOK, WorkerOK, CallsOK
  <2>4. ReadBeforeAnalysis'
    BY <1>18
       DEF SaveAnalysis, save_analysis, Outcome, ReadBeforeAnalysis, HeldIsProcessing,
           OwnerWorks, RowsOK, ProcessesOK, WorkerOK, CallsOK
  <2>5. DoneMeansReadAgain'
    <3> SUFFICES ASSUME NEW c \in Ids, stage'[c] = "done", reocr'[c]
                 PROVE  c \in overtaken'
      BY DEF DoneMeansReadAgain
    <3>1. reocr[c] /\ overtaken' = overtaken
      BY <1>18 DEF SaveAnalysis
    <3>2. CASE stage[c] = "done"
      BY <3>1, <3>2 DEF DoneMeansReadAgain
    <3>3. CASE stage[c] # "done"
      <4>1. item[p] = c
        BY <1>18, <3>3 DEF SaveAnalysis, save_analysis, Outcome, RowsOK
      <4>2. Holds(p, c)
        BY <1>18, <4>1 DEF SaveAnalysis, Holds
      <4>3. QED
        BY <1>18, <3>1, <4>2 DEF SaveAnalysis, ReadBeforeAnalysis
    <3>4. QED
      BY <3>2, <3>3
  <2>6. NeverOvercounted'
    BY <1>18
       DEF SaveAnalysis, save_analysis, Outcome, NeverOvercounted, RowsOK, WorkerOK, CallsOK
  <2>7. QED
    BY <2>1, <2>2, <2>3, <2>4, <2>5, <2>6
<1>19. ASSUME NEW p \in Procs, Settle(p) PROVE IInv'
  <2>1. OwnerWorks'
    BY <1>19 DEF Settle, OwnerWorks, ProcessesOK, WorkerOK
  <2>2. HeldWasCreated' /\ HeldIsProcessing'
    BY <1>19
       DEF Settle, HeldWasCreated, HeldIsProcessing, OwnerWorks, RowsOK, ProcessesOK,
           WorkerOK, CallsOK
  <2>3. NoLeakedClaim'
    BY <1>19
       DEF Settle, NoLeakedClaim, HeldWasCreated, OwnerWorks, RowsOK, ProcessesOK, WorkerOK,
           CallsOK
  <2>4. ReadBeforeAnalysis'
    BY <1>19
       DEF Settle, ReadBeforeAnalysis, HeldIsProcessing, OwnerWorks, RowsOK, ProcessesOK,
           WorkerOK, CallsOK
  <2>5. DoneMeansReadAgain' /\ NeverOvercounted'
    BY <1>19 DEF Settle, DoneMeansReadAgain, NeverOvercounted
  <2>6. QED
    BY <2>1, <2>2, <2>3, <2>4, <2>5
<1>20. ASSUME NEW p \in Procs, Fail(p) PROVE IInv'
  <2>1. OwnerWorks'
    BY <1>20 DEF Fail, fail, Outcome, OwnerWorks, ProcessesOK, WorkerOK
  <2>2. HeldWasCreated' /\ HeldIsProcessing'
    BY <1>20
       DEF Fail, fail, Outcome, HeldWasCreated, HeldIsProcessing, OwnerWorks, RowsOK,
           ProcessesOK, WorkerOK, CallsOK
  <2>3. NoLeakedClaim'
    BY <1>20
       DEF Fail, fail, Outcome, NoLeakedClaim, HeldWasCreated, OwnerWorks, RowsOK,
           ProcessesOK, WorkerOK, CallsOK
  <2>4. ReadBeforeAnalysis'
    BY <1>20
       DEF Fail, fail, Outcome, ReadBeforeAnalysis, HeldIsProcessing, OwnerWorks, RowsOK,
           ProcessesOK, WorkerOK, CallsOK
  <2>5. DoneMeansReadAgain'
    BY <1>20
       DEF Fail, fail, Outcome, DoneMeansReadAgain, ReadBeforeAnalysis, OwnerWorks, RowsOK,
           ProcessesOK, WorkerOK, CallsOK
  <2>6. NeverOvercounted'
    BY <1>20 DEF Fail, fail, Outcome, NeverOvercounted, RowsOK, WorkerOK, CallsOK
  <2>7. QED
    BY <2>1, <2>2, <2>3, <2>4, <2>5, <2>6
<1>21. ASSUME NEW p \in Procs, PutBack(p) PROVE IInv'
  <2>1. OwnerWorks'
    BY <1>21 DEF PutBack, requeue_interrupted, OwnerWorks, ProcessesOK, WorkerOK
  <2>2. HeldWasCreated' /\ HeldIsProcessing'
    BY <1>21
       DEF PutBack, requeue_interrupted, HeldWasCreated, HeldIsProcessing, OwnerWorks, RowsOK,
           ProcessesOK, WorkerOK, CallsOK
  <2>3. NoLeakedClaim'
    BY <1>21
       DEF PutBack, requeue_interrupted, NoLeakedClaim, HeldWasCreated, OwnerWorks, RowsOK,
           ProcessesOK, WorkerOK, CallsOK
  <2>4. ReadBeforeAnalysis'
    BY <1>21
       DEF PutBack, requeue_interrupted, ReadBeforeAnalysis, HeldIsProcessing, OwnerWorks,
           RowsOK, ProcessesOK, WorkerOK, CallsOK
  <2>5. DoneMeansReadAgain'
    BY <1>21
       DEF PutBack, requeue_interrupted, DoneMeansReadAgain, ReadBeforeAnalysis, OwnerWorks,
           RowsOK, ProcessesOK, WorkerOK, CallsOK
  <2>6. NeverOvercounted'
    BY <1>21 DEF PutBack, requeue_interrupted, NeverOvercounted, RowsOK, WorkerOK, CallsOK
  <2>7. QED
    BY <2>1, <2>2, <2>3, <2>4, <2>5, <2>6
<1>22. ASSUME NEW p \in Procs, Refused(p) PROVE IInv'
  <2>1. OwnerWorks'
    BY <1>22 DEF Refused, OwnerWorks, ProcessesOK, WorkerOK
  <2>2. HeldWasCreated' /\ HeldIsProcessing'
    <3>1. UNCHANGED <<stage, overtaken>>
      BY <1>22 DEF Refused
    <3>2. \A q \in Procs, id \in Ids : Holds(q, id)' => Holds(q, id)
      BY <1>22 DEF Refused, WorkerOK
    <3>3. QED
      BY <3>1, <3>2 DEF HeldWasCreated, HeldIsProcessing
  <2>3. NoLeakedClaim'
    BY <1>22
       DEF Refused, NoLeakedClaim, HeldWasCreated, OwnerWorks, RowsOK, ProcessesOK, WorkerOK,
           CallsOK
  <2>4. ReadBeforeAnalysis'
    BY <1>22
       DEF Refused, ReadBeforeAnalysis, HeldIsProcessing, OwnerWorks, RowsOK, ProcessesOK,
           WorkerOK, CallsOK
  <2>5. DoneMeansReadAgain' /\ NeverOvercounted'
    BY <1>22 DEF Refused, DoneMeansReadAgain, NeverOvercounted
  <2>6. QED
    BY <2>1, <2>2, <2>3, <2>4, <2>5
<1>23. ASSUME NEW p \in Procs, NEW isScan \in BOOLEAN, Intake(p, isScan) PROVE IInv'
  <2>1. HeldWasCreated' /\ HeldIsProcessing'
    BY <1>23
       DEF Intake, HeldWasCreated, HeldIsProcessing, OwnerWorks, RowsOK, ProcessesOK,
           WorkerOK, CallsOK
  <2>2. NoLeakedClaim'
    BY <1>23
       DEF Intake, NoLeakedClaim, HeldWasCreated, OwnerWorks, RowsOK, ProcessesOK, WorkerOK,
           CallsOK
  <2>3. DoneMeansReadAgain'
    BY <1>23
       DEF Intake, DoneMeansReadAgain, ReadBeforeAnalysis, OwnerWorks, RowsOK, ProcessesOK,
           WorkerOK, CallsOK
  <2>4. OwnerWorks' /\ ReadBeforeAnalysis' /\ NeverOvercounted'
    BY <1>23 DEF Intake, OwnerWorks, ReadBeforeAnalysis, NeverOvercounted
  <2>5. QED
    BY <2>1, <2>2, <2>3, <2>4
<1>24. ASSUME NEW r \in Reqs, NEW p \in Procs, NEW op \in Ops, NEW id \in Ids, Look(r, p, op, id) PROVE IInv'
  BY <1>24
     DEF Look, OwnerWorks, HeldWasCreated, HeldIsProcessing, NoLeakedClaim,
         ReadBeforeAnalysis, DoneMeansReadAgain, NeverOvercounted
<1>25. ASSUME NEW r \in Reqs, is_busy(r) PROVE IInv'
  BY <1>25
     DEF is_busy, OwnerWorks, HeldWasCreated, HeldIsProcessing, NoLeakedClaim,
         ReadBeforeAnalysis, DoneMeansReadAgain, NeverOvercounted
<1>26. ASSUME NEW r \in Reqs, Reprocess(r) PROVE IInv'
  <2>1. HeldWasCreated' /\ HeldIsProcessing'
    BY <1>26
       DEF Reprocess, MarkOvertaken, HeldWasCreated, HeldIsProcessing, OwnerWorks, RowsOK,
           ProcessesOK, WorkerOK, CallsOK
  <2>2. NoLeakedClaim'
    <3>1. callId[r] \in Ids /\ callProc[r] \in Procs
      BY <1>26, Asked DEF Reprocess
    <3>2. \A q \in Procs : claimed'[q] \subseteq claimed[q]
      BY <1>26, <3>1 DEF Reprocess, ProcessesOK
    <3>3. \A id \in Ids : stage[id] = "deleted" => stage'[id] = "deleted"
      BY <1>26, <3>1 DEF Reprocess, RowsOK
    <3>4. UNCHANGED worker
      BY <1>26 DEF Reprocess
    <3>5. QED
      BY <3>2, <3>3, <3>4 DEF NoLeakedClaim, ProcessesOK
  <2>3. ReadBeforeAnalysis'
    BY <1>26
       DEF Reprocess, MarkOvertaken, ReadBeforeAnalysis, HeldIsProcessing, OwnerWorks, RowsOK,
           ProcessesOK, WorkerOK, CallsOK
  <2>4. DoneMeansReadAgain'
    BY <1>26
       DEF Reprocess, MarkOvertaken, DoneMeansReadAgain, ReadBeforeAnalysis, OwnerWorks,
           RowsOK, ProcessesOK, WorkerOK, CallsOK
  <2>5. NeverOvercounted'
    BY <1>26 DEF Reprocess, MarkOvertaken, NeverOvercounted, RowsOK, WorkerOK, CallsOK
  <2>6. OwnerWorks'
    BY <1>26 DEF Reprocess, OwnerWorks
  <2>7. QED
    BY <2>1, <2>2, <2>3, <2>4, <2>5, <2>6
<1>27. ASSUME NEW r \in Reqs, Delete(r) PROVE IInv'
  <2>1. HeldWasCreated' /\ HeldIsProcessing'
    BY <1>27
       DEF Delete, MarkOvertaken, HeldWasCreated, HeldIsProcessing, OwnerWorks, RowsOK,
           ProcessesOK, WorkerOK, CallsOK
  <2>2. NoLeakedClaim'
    <3> SUFFICES ASSUME NEW q \in Procs, NEW c \in claimed'[q]
                 PROVE  Holds(q, c)' \/ stage'[c] = "deleted"
      BY DEF NoLeakedClaim
    <3>1. c \in claimed[q] /\ c \in Ids
      BY <1>27 DEF Delete, ProcessesOK
    <3>2. Holds(q, c)' <=> Holds(q, c)
      BY <1>27 DEF Delete
    <3>3. stage[c] = "deleted" => stage'[c] = "deleted"
      BY <1>27, <3>1 DEF Delete, RowsOK
    <3>4. QED
      BY <3>1, <3>2, <3>3 DEF NoLeakedClaim
  <2>3. ReadBeforeAnalysis'
    BY <1>27
       DEF Delete, MarkOvertaken, ReadBeforeAnalysis, HeldIsProcessing, OwnerWorks, RowsOK,
           ProcessesOK, WorkerOK, CallsOK
  <2>4. DoneMeansReadAgain'
    BY <1>27
       DEF Delete, MarkOvertaken, DoneMeansReadAgain, ReadBeforeAnalysis, OwnerWorks, RowsOK,
           ProcessesOK, WorkerOK, CallsOK
  <2>5. OwnerWorks' /\ NeverOvercounted'
    BY <1>27 DEF Delete, OwnerWorks, NeverOvercounted
  <2>6. QED
    BY <2>1, <2>2, <2>3, <2>4, <2>5
<1>28. ASSUME NEW p \in Procs, NEW id \in Ids, SetStatus(p, id) PROVE IInv'
  <2>1. NeverOvercounted'
    BY <1>28 DEF SetStatus, NeverOvercounted, RowsOK, WorkerOK, CallsOK
  <2>2. OwnerWorks' /\ HeldWasCreated' /\ HeldIsProcessing' /\ NoLeakedClaim' /\ ReadBeforeAnalysis' /\ DoneMeansReadAgain'
    BY <1>28
       DEF SetStatus, OwnerWorks, HeldWasCreated, HeldIsProcessing, NoLeakedClaim,
           ReadBeforeAnalysis, DoneMeansReadAgain
  <2>3. QED
    BY <2>1, <2>2
<1>29. CASE UNCHANGED vars
  BY <1>29
     DEF vars, OwnerWorks, HeldWasCreated, HeldIsProcessing, NoLeakedClaim,
         ReadBeforeAnalysis, DoneMeansReadAgain, NeverOvercounted
<1>30. QED
  BY <1>1, <1>2, <1>3, <1>4, <1>5, <1>6, <1>7, <1>8, <1>9, <1>10, <1>11,
     <1>12, <1>13, <1>14, <1>15, <1>16, <1>17, <1>18, <1>19, <1>20, <1>21,
     <1>22, <1>23, <1>24, <1>25, <1>26, <1>27, <1>28, <1>29
     DEF Next, WorkerStep, ApiStep

\* IInv holds in every reachable state, with every call refused or not.
THEOREM Inductive == Spec => []IInv
  BY InitType, NextType, InitInv, NextInv, PTL DEF Spec

\* Two processes never work the queue at once, whatever dies or restarts.
THEOREM OneOwner == Spec => []OneWorker
<1>1. IInv => OneWorker
  BY DEF IInv, OwnerWorks, OneWorker
<1>2. QED
  BY <1>1, Inductive, PTL

\* What a worker has in hand shows as being processed.
THEOREM HeldShows == Spec => []HeldIsProcessing
<1>1. IInv => HeldIsProcessing
  BY DEF IInv
<1>2. QED
  BY <1>1, Inductive, PTL

\* A claim never outlives the work on an existing complaint.
THEOREM ClaimsEnd == Spec => []NoLeakedClaim
<1>1. IInv => NoLeakedClaim
  BY DEF IInv
<1>2. QED
  BY <1>1, Inductive, PTL

\* A finished complaint has had the re-extraction a person asked for.
THEOREM ReadAgain == Spec => []DoneMeansReadAgain
<1>1. IInv => DoneMeansReadAgain
  BY DEF IInv
<1>2. QED
  BY <1>1, Inductive, PTL

\* The give-up count is never more than what happened.
THEOREM Counted == Spec => []NeverOvercounted
<1>1. IInv => NeverOvercounted
  BY DEF IInv
<1>2. QED
  BY <1>1, Inductive, PTL

-----------------------------------------------------------------------------
(* What a row keeps: its text, and that it was created.                    *)

\* A worker at its OCR has the text of the row: nobody else writes it, and a
\* row in hand is not created again.
LEMMA NextText == TypeOK /\ IInv /\ TextAtHand /\ [Next]_vars => TextAtHand'
<1> SUFFICES ASSUME TypeOK, IInv, TextAtHand, [Next]_vars,
                    NEW q \in Procs, NEW id \in Ids, Holds(q, id)', pc'[q] = "ocr"
             PROVE  itemText'[q] = text'[id]
  BY DEF TextAtHand
<1> DEFINE Same == text' = text /\ Holds(q, id) /\ pc[q] = "ocr" /\ itemText'[q] = itemText[q]
<1> USE DEF TypeOK, WorkerOK
<1>1. ASSUME NEW p \in Procs, claim_next(p) PROVE itemText'[q] = text'[id]
  <2>1. text' = text
    BY <1>1 DEF claim_next
  <2>2. CASE p = q
    BY <1>1, <2>1, <2>2 DEF claim_next
  <2>3. CASE p # q
    BY <1>1, <2>1, <2>3 DEF claim_next, TextAtHand
  <2>4. QED
    BY <2>2, <2>3
<1>2. ASSUME NEW p \in Procs, NEW t \in {"blank", "some"}, Extracted(p, t)
      PROVE  itemText'[q] = text'[id]
  <2>1. owner = p
    BY <1>2 DEF Extracted, IInv, OwnerWorks
  <2>2. pc[q] = "off" \/ q = p
    BY <2>1 DEF IInv, OwnerWorks
  <2>3. QED
    BY <1>2, <2>2 DEF Extracted
<1>3. ASSUME NEW p \in Procs, NEW isScan \in BOOLEAN, Intake(p, isScan)
      PROVE  itemText'[q] = text'[id]
  <2>1. Holds(q, id) /\ pc[q] = "ocr" /\ itemText' = itemText
    BY <1>3 DEF Intake
  <2>2. stage[id] # "absent"
    BY <2>1 DEF IInv, HeldWasCreated
  <2>3. text'[id] = text[id]
    BY <1>3, <2>2 DEF Intake, RowsOK
  <2>4. QED
    BY <2>1, <2>3 DEF TextAtHand
<1>4. ASSUME NEW p \in Procs, Boot(p) \/ Stop(p) PROVE Same
  BY <1>4 DEF Boot, Stop
<1>5. ASSUME NEW p \in Procs, Exit(p) \/ reset_interrupted(p) PROVE Same
  BY <1>5 DEF Exit, reset_interrupted
<1>6. ASSUME NEW p \in Procs, BeginPass(p) \/ DeferredRefused(p) \/ QueueEmpty(p) PROVE Same
  BY <1>6 DEF BeginPass, DeferredRefused, QueueEmpty
<1>7. ASSUME NEW p \in Procs, NEW i \in Ids, SettleDeferred(p, i) PROVE Same
  BY <1>7 DEF SettleDeferred
<1>8. ASSUME NEW p \in Procs, ExtractFails(p) \/ TextInHand(p) \/ EmptyAnalysis(p) PROVE Same
  BY <1>8 DEF ExtractFails, TextInHand, EmptyAnalysis
<1>9. ASSUME NEW p \in Procs, Structuring(p) \/ Classifying(p) \/ Classified(p) PROVE Same
  BY <1>9 DEF Structuring, Classifying, Classified
<1>10. ASSUME NEW p \in Procs, ModelFails(p) \/ Settle(p) PROVE Same
  BY <1>10 DEF ModelFails, Settle
<1>11. ASSUME NEW p \in Procs, SaveAnalysis(p) \/ Fail(p) \/ PutBack(p) PROVE Same
  BY <1>11 DEF SaveAnalysis, Fail, PutBack
<1>12. ASSUME NEW p \in Procs, Refused(p) PROVE Same
  BY <1>12 DEF Refused
<1>13. ASSUME NEW r \in Reqs, is_busy(r) \/ Reprocess(r) \/ Delete(r) PROVE Same
  BY <1>13 DEF is_busy, Reprocess, Delete
<1>14. ASSUME NEW r \in Reqs, NEW p \in Procs, NEW op \in Ops, NEW i \in Ids, Look(r, p, op, i)
       PROVE  Same
  BY <1>14 DEF Look
<1>15. ASSUME NEW p \in Procs, NEW i \in Ids, SetStatus(p, i) PROVE Same
  BY <1>15 DEF SetStatus
<1>16. CASE UNCHANGED vars
  BY <1>16 DEF vars, TextAtHand
<1>17. Same => itemText'[q] = text'[id]
  BY DEF TextAtHand
<1>18. QED
  BY <1>1, <1>2, <1>3, <1>4, <1>5, <1>6, <1>7, <1>8, <1>9, <1>10, <1>11, <1>12,
     <1>13, <1>14, <1>15, <1>16, <1>17 DEF Next, WorkerStep, ApiStep

\* What writes no stage.
LEMMA OtherStepsKeepStage ==
  ASSUME Next,
         ~ \E p \in Procs : reset_interrupted(p) \/ claim_next(p) \/ Structuring(p) \/ Classifying(p)
                            \/ SaveAnalysis(p) \/ Fail(p) \/ PutBack(p),
         ~ \E p \in Procs, i \in Ids : SettleDeferred(p, i),
         ~ \E p \in Procs, isScan \in BOOLEAN : Intake(p, isScan),
         ~ \E r \in Reqs : Reprocess(r) \/ Delete(r)
  PROVE  stage' = stage
<1>1. ASSUME NEW p \in Procs, Boot(p) \/ Stop(p) \/ Exit(p) PROVE stage' = stage
  BY <1>1 DEF Boot, Stop, Exit
<1>2. ASSUME NEW p \in Procs, BeginPass(p) \/ DeferredRefused(p) \/ QueueEmpty(p) \/ ExtractFails(p)
      PROVE  stage' = stage
  BY <1>2 DEF BeginPass, DeferredRefused, QueueEmpty, ExtractFails
<1>3. ASSUME NEW p \in Procs, NEW t \in {"blank", "some"}, Extracted(p, t) PROVE stage' = stage
  BY <1>3 DEF Extracted
<1>4. ASSUME NEW p \in Procs, TextInHand(p) \/ EmptyAnalysis(p) \/ Classified(p) \/ ModelFails(p)
       PROVE  stage' = stage
  BY <1>4 DEF TextInHand, EmptyAnalysis, Classified, ModelFails
<1>5. ASSUME NEW p \in Procs, Settle(p) \/ Refused(p) PROVE stage' = stage
  BY <1>5 DEF Settle, Refused
<1>6. ASSUME NEW r \in Reqs, is_busy(r) PROVE stage' = stage
  BY <1>6 DEF is_busy
<1>7. ASSUME NEW r \in Reqs, NEW p \in Procs, NEW op \in Ops, NEW i \in Ids, Look(r, p, op, i)
       PROVE  stage' = stage
  BY <1>7 DEF Look
<1>8. ASSUME NEW p \in Procs, NEW i \in Ids, SetStatus(p, i) PROVE stage' = stage
  BY <1>8 DEF SetStatus
<1>9. QED
  BY <1>1, <1>2, <1>3, <1>4, <1>5, <1>6, <1>7, <1>8 DEF Next, WorkerStep, ApiStep

\* No row is taken back to before it was created.
LEMMA NeverAbsentAgain ==
  ASSUME TypeOK, [Next]_vars, NEW id \in Ids, stage[id] # "absent"
  PROVE  stage'[id] # "absent"
<1> USE DEF TypeOK, RowsOK
<1>1. ASSUME NEW p \in Procs, reset_interrupted(p) PROVE stage'[id] # "absent"
  BY <1>1 DEF reset_interrupted
<1>2. ASSUME NEW p \in Procs, NEW i \in Ids, SettleDeferred(p, i) PROVE stage'[id] # "absent"
  BY <1>2 DEF SettleDeferred, fail_if_stuck, fail, Outcome
<1>3. ASSUME NEW p \in Procs, claim_next(p) PROVE stage'[id] # "absent"
  BY <1>3 DEF claim_next
<1>4. ASSUME NEW p \in Procs, Structuring(p) \/ Classifying(p) PROVE stage'[id] # "absent"
  BY <1>4 DEF Structuring, Classifying, set_stage
<1>5. ASSUME NEW p \in Procs, SaveAnalysis(p) \/ Fail(p) \/ PutBack(p) PROVE stage'[id] # "absent"
  BY <1>5 DEF SaveAnalysis, save_analysis, Fail, fail, PutBack, requeue_interrupted, Outcome
<1>6. ASSUME NEW p \in Procs, NEW isScan \in BOOLEAN, Intake(p, isScan) PROVE stage'[id] # "absent"
  BY <1>6 DEF Intake
<1>7. ASSUME NEW r \in Reqs, Reprocess(r) \/ Delete(r) PROVE stage'[id] # "absent"
  BY <1>7 DEF Reprocess, Delete
<1>8. CASE UNCHANGED vars
  BY <1>8 DEF vars
<1>9. QED
  BY <1>1, <1>2, <1>3, <1>4, <1>5, <1>6, <1>7, <1>8, OtherStepsKeepStage

\* Text is written by an OCR that returned and by an intake, by nothing else.
LEMMA OtherStepsKeepText ==
  ASSUME Next,
         ~ \E p \in Procs, t \in {"blank", "some"} : Extracted(p, t),
         ~ \E p \in Procs, isScan \in BOOLEAN : Intake(p, isScan)
  PROVE  text' = text
<1>1. ASSUME NEW p \in Procs, Boot(p) \/ reset_interrupted(p) \/ Stop(p) \/ Exit(p)
      PROVE  text' = text
  BY <1>1 DEF Boot, reset_interrupted, Stop, Exit
<1>2. ASSUME NEW p \in Procs, WorkerStep(p), ~ \E t \in {"blank", "some"} : Extracted(p, t)
      PROVE  text' = text
  BY <1>2 DEF WorkerStep, BeginPass, SettleDeferred, DeferredRefused, claim_next, QueueEmpty, ExtractFails,
     TextInHand, EmptyAnalysis, Structuring, Classifying, Classified, ModelFails, SaveAnalysis,
     Settle, Fail, PutBack, Refused
<1>3. ASSUME NEW r \in Reqs, is_busy(r) \/ Reprocess(r) \/ Delete(r) PROVE text' = text
  BY <1>3 DEF is_busy, Reprocess, Delete
<1>4. ASSUME NEW r \in Reqs, NEW p \in Procs, NEW op \in Ops, NEW i \in Ids, Look(r, p, op, i)
      PROVE  text' = text
  BY <1>4 DEF Look
<1>5. ASSUME NEW p \in Procs, NEW i \in Ids, SetStatus(p, i) PROVE text' = text
  BY <1>5 DEF SetStatus
<1>6. QED
  BY <1>1, <1>2, <1>3, <1>4, <1>5 DEF Next, ApiStep

\* Only a complaint that was created has text.
OnlyRowsHaveText == \A id \in Ids : text[id] # "none" => stage[id] # "absent"

\* Text is written for a row that exists, or with a new one.
LEMMA NextRowsText == TypeOK /\ OnlyRowsHaveText /\ [Next]_vars => OnlyRowsHaveText'
<1> SUFFICES ASSUME TypeOK, OnlyRowsHaveText, [Next]_vars, NEW id \in Ids, text'[id] # "none"
             PROVE  stage'[id] # "absent"
  BY DEF OnlyRowsHaveText
<1>1. text[id] # "none" => stage'[id] # "absent"
  BY NeverAbsentAgain DEF OnlyRowsHaveText
<1>2. CASE UNCHANGED vars
  BY <1>1, <1>2 DEF vars
<1>3. CASE Next
  <2>1. ASSUME NEW p \in Procs, NEW t \in {"blank", "some"}, Extracted(p, t)
        PROVE  stage'[id] # "absent"
    BY <2>1, <1>1, NeverAbsentAgain DEF Extracted, save_text, TypeOK, RowsOK
  <2>2. ASSUME NEW p \in Procs, NEW isScan \in BOOLEAN, Intake(p, isScan)
        PROVE  stage'[id] # "absent"
    BY <2>2, <1>1 DEF Intake, TypeOK, RowsOK
  <2>3. QED
    BY <1>1, <1>3, <2>1, <2>2, OtherStepsKeepText
<1>4. QED
  BY <1>2, <1>3

\* A worker at its OCR knows the text it replaces, and there is one only of a
\* complaint that was created.
THEOREM TextCorrect == Spec => [](TextAtHand /\ OnlyRowsHaveText)
<1>1. Init => TextAtHand /\ OnlyRowsHaveText
  BY DEF Init, TextAtHand, OnlyRowsHaveText
<1>2. QED
  BY <1>1, TypeCorrect, Inductive, NextText, NextRowsText, PTL DEF Spec

\* A re-extraction that reads nothing never blanks the text of a complaint.
THEOREM TextStays == Spec => TextIsKept
<1>1. TypeOK /\ TextAtHand /\ OnlyRowsHaveText /\ [Next]_vars
        => [\A id \in Ids : text[id] = "some" => text'[id] = "some"]_vars
  <2> SUFFICES ASSUME TypeOK, TextAtHand, OnlyRowsHaveText, Next, NEW id \in Ids, text[id] = "some"
               PROVE  text'[id] = "some"
    BY DEF vars
  <2> USE DEF TypeOK, RowsOK
  <2>1. ASSUME NEW p \in Procs, NEW t \in {"blank", "some"}, Extracted(p, t)
        PROVE  text'[id] = "some"
    <3>1. CASE item[p] = id
      <4>1. itemText[p] = "some"
        BY <2>1, <3>1 DEF Extracted, TextAtHand
      <4>2. QED
        BY <2>1, <3>1, <4>1 DEF Extracted, save_text
    <3>2. CASE item[p] # id
      BY <2>1, <3>2 DEF Extracted, save_text
    <3>3. QED
      BY <3>1, <3>2
  <2>2. ASSUME NEW p \in Procs, NEW isScan \in BOOLEAN, Intake(p, isScan)
        PROVE  text'[id] = "some"
    BY <2>2 DEF Intake, OnlyRowsHaveText
  <2>3. QED
    BY <2>1, <2>2, OtherStepsKeepText
<1>2. QED
  BY <1>1, TypeCorrect, TextCorrect, PTL DEF Spec, TextIsKept

-----------------------------------------------------------------------------
(* Giving up, and the graceful stops.                                      *)

\* The count goes up by a boot, under the limit, and by a stop's put-back.
LEMMA NextStops == TypeOK /\ IInv /\ StopsAreCounted /\ [Next]_vars => StopsAreCounted'
<1> DEFINE Owed == IF PuttingBack THEN 1 ELSE 0
           Calm == /\ PuttingBack' => PuttingBack
                   /\ UNCHANGED budget["stops"]
                   /\ \A id \in Ids : interruptions'[id] \in {0, interruptions[id]}
                   /\ \A p \in Procs : pc'[p] = "requeue" => stopping'[p]
<1> SUFFICES ASSUME TypeOK, IInv, StopsAreCounted, [Next]_vars PROVE StopsAreCounted'
  OBVIOUS
<1> USE DEF TypeOK, ProcessesOK, WorkerOK, BudgetOK
<1>1. /\ MaxStops \in Nat /\ MaxInterruptions \in Nat \ {0}
      /\ budget["stops"] \in Nat /\ \A id \in Ids : interruptions[id] \in Nat
  BY QueueAssumption DEF RowsOK
<1>2. Calm => StopsAreCounted'
  <2> SUFFICES ASSUME Calm PROVE StopsAreCounted'
    OBVIOUS
  <2>1. budget'["stops"] <= MaxStops
    BY DEF StopsAreCounted
  <2>2. ASSUME NEW id \in Ids
        PROVE  interruptions'[id] + Owed' < MaxInterruptions + (MaxStops - budget'["stops"])
    <3>1. interruptions[id] + Owed < MaxInterruptions + (MaxStops - budget["stops"])
      BY DEF StopsAreCounted
    <3>2. Owed' <= Owed /\ Owed \in {0, 1} /\ Owed' \in {0, 1}
      OBVIOUS
    <3> HIDE DEF Owed
    <3>3. QED
      BY <1>1, <3>1, <3>2
  <2>3. QED
    BY <2>1, <2>2 DEF StopsAreCounted
<1>3. ASSUME NEW p \in Procs, pc[p] # "off", NEW q \in Procs, pc[q] # "off" PROVE p = q
  BY <1>3 DEF IInv, OwnerWorks
<1>4. ASSUME NEW p \in Procs, Boot(p) \/ Exit(p) PROVE Calm
  BY <1>4 DEF Boot, Exit, PuttingBack, StopsAreCounted
<1>5. ASSUME NEW p \in Procs, reset_interrupted(p) PROVE StopsAreCounted'
  <2>1. \A q \in Procs : q # p => pc[q] = "off"
    BY <1>5 DEF reset_interrupted, IInv, OwnerWorks
  <2>2. ~PuttingBack'
    BY <1>5, <2>1 DEF reset_interrupted, PuttingBack
  <2>3. budget'["stops"] = budget["stops"]
    BY <1>5 DEF reset_interrupted
  <2>4. ASSUME NEW id \in Ids
        PROVE  interruptions'[id] < MaxInterruptions + (MaxStops - budget["stops"])
    <3>1. interruptions'[id] \in {0, interruptions[id]}
             \/ (interruptions'[id] = interruptions[id] + 1 /\ ~GaveUp(id))
      BY <1>5 DEF reset_interrupted
    <3>2. interruptions[id] < MaxInterruptions + (MaxStops - budget["stops"])
      BY <1>1 DEF StopsAreCounted
    <3>3. QED
      BY <1>1, <3>1, <3>2 DEF StopsAreCounted
  <2>5. \A q \in Procs : pc'[q] = "requeue" => stopping'[q]
    BY <1>5, <2>1 DEF reset_interrupted
  <2>6. \A id \in Ids : interruptions'[id] \in Nat
    BY NextType DEF RowsOK
  <2>7. QED
    BY <1>1, <2>2, <2>3, <2>4, <2>5, <2>6 DEF StopsAreCounted
<1>6. ASSUME NEW p \in Procs, Stop(p) PROVE StopsAreCounted'
  <2>1. budget'["stops"] = budget["stops"] - 1 /\ interruptions' = interruptions /\ pc' = pc
    BY <1>6 DEF Stop
  <2>2. \A q \in Procs : stopping[q] => stopping'[q]
    BY <1>6 DEF Stop
  <2>3. QED
    BY <1>1, <2>1, <2>2 DEF StopsAreCounted
<1>7. ASSUME NEW p \in Procs, BeginPass(p) \/ DeferredRefused(p) \/ QueueEmpty(p) PROVE Calm
  BY <1>7, <1>3 DEF BeginPass, DeferredRefused, QueueEmpty, PuttingBack, StopsAreCounted
<1>8. ASSUME NEW p \in Procs, NEW i \in Ids, SettleDeferred(p, i) PROVE Calm
  BY <1>8 DEF SettleDeferred, fail_if_stuck, fail, Outcome, PuttingBack, StopsAreCounted, RowsOK
<1>9. ASSUME NEW p \in Procs, claim_next(p) PROVE Calm
  BY <1>9 DEF claim_next, ReadyToClaim, PuttingBack, StopsAreCounted
<1>10. ASSUME NEW p \in Procs, NEW t \in {"blank", "some"}, Extracted(p, t) PROVE Calm
  BY <1>10 DEF Extracted, PuttingBack, StopsAreCounted
<1>11. ASSUME NEW p \in Procs, ExtractFails(p) \/ TextInHand(p) \/ EmptyAnalysis(p) PROVE Calm
  BY <1>11 DEF ExtractFails, TextInHand, EmptyAnalysis, PuttingBack, StopsAreCounted
<1>12. ASSUME NEW p \in Procs, Structuring(p) \/ Classifying(p) \/ Classified(p) PROVE Calm
  BY <1>12 DEF Structuring, Classifying, Classified, PuttingBack, StopsAreCounted
<1>13. ASSUME NEW p \in Procs, ModelFails(p) \/ Settle(p) PROVE Calm
  BY <1>13 DEF ModelFails, Settle, PuttingBack, StopsAreCounted
<1>14. ASSUME NEW p \in Procs, SaveAnalysis(p) \/ Fail(p) PROVE Calm
  BY <1>14 DEF SaveAnalysis, save_analysis, Fail, fail, Outcome, PuttingBack, StopsAreCounted, RowsOK
<1>15. ASSUME NEW p \in Procs, PutBack(p) PROVE StopsAreCounted'
  <2>1. PuttingBack
    BY <1>15 DEF PutBack, PuttingBack, StopsAreCounted
  <2>2. ~PuttingBack'
    BY <1>15, <1>3 DEF PutBack, PuttingBack
  <2>3. \A id \in Ids : interruptions'[id] \in {interruptions[id], interruptions[id] + 1}
    BY <1>15 DEF PutBack, requeue_interrupted, RowsOK
  <2>4. budget' = budget /\ \A q \in Procs : pc'[q] = "requeue" => stopping'[q]
    BY <1>15 DEF PutBack, StopsAreCounted
  <2>5. QED
    BY <1>1, <2>1, <2>2, <2>3, <2>4 DEF StopsAreCounted
<1>16. ASSUME NEW p \in Procs, Refused(p) PROVE Calm
  BY <1>16 DEF Refused, PuttingBack, StopsAreCounted
<1>17. ASSUME NEW p \in Procs, NEW isScan \in BOOLEAN, Intake(p, isScan) PROVE Calm
  BY <1>17 DEF Intake, PuttingBack, StopsAreCounted
<1>18. ASSUME NEW r \in Reqs, is_busy(r) \/ Reprocess(r) \/ Delete(r) PROVE Calm
  BY <1>18 DEF is_busy, Reprocess, Delete, PuttingBack, StopsAreCounted, RowsOK
<1>19. ASSUME NEW r \in Reqs, NEW p \in Procs, NEW op \in Ops, NEW i \in Ids, Look(r, p, op, i)
       PROVE  Calm
  BY <1>19 DEF Look, PuttingBack, StopsAreCounted
<1>20. ASSUME NEW p \in Procs, NEW i \in Ids, SetStatus(p, i) PROVE Calm
  BY <1>20 DEF SetStatus, PuttingBack, StopsAreCounted, RowsOK
<1>21. CASE UNCHANGED vars
  BY <1>21 DEF vars, PuttingBack, StopsAreCounted
<1> HIDE DEF Calm
<1>22. QED
  BY <1>2, <1>4, <1>5, <1>6, <1>7, <1>8, <1>9, <1>10, <1>11, <1>12, <1>13, <1>14,
     <1>15, <1>16, <1>17, <1>18, <1>19, <1>20, <1>21 DEF Next, WorkerStep, ApiStep

\* Dying again and again under a complaint never counts past the limit; only
\* graceful stops may, by one each.
THEOREM GaveUpInTime == Spec => []GivesUpInTime
<1>1. Init => StopsAreCounted
  BY QueueAssumption DEF Init, StopsAreCounted, PuttingBack
<1>2. Spec => []StopsAreCounted
  BY <1>1, TypeCorrect, Inductive, NextStops, PTL DEF Spec
<1>3. TypeOK /\ StopsAreCounted => GivesUpInTime
  BY QueueAssumption DEF TypeOK, RowsOK, BudgetOK, StopsAreCounted, GivesUpInTime
<1>4. QED
  BY <1>2, <1>3, TypeCorrect, PTL

-----------------------------------------------------------------------------
(* How a complaint leaves the queue, and that none is stranded.            *)

\* A queued complaint nobody requeued under a worker is in nobody's hands, so
\* only a claim or a delete moves it.
THEOREM LeavesByClaim == Spec => QueuedLeavesByClaim
<1>1. TypeOK /\ IInv /\ [Next]_vars
        => [\A id \in Ids : stage[id] = "queued" /\ id \notin overtaken
              => stage'[id] \in {"queued", "ocr", "structuring", "deleted"}]_vars
  <2> SUFFICES ASSUME TypeOK, IInv, Next, NEW id \in Ids, stage[id] = "queued", id \notin overtaken
               PROVE  stage'[id] \in {"queued", "ocr", "structuring", "deleted"}
    BY DEF vars
  <2> DEFINE Goal == stage'[id] \in {"queued", "ocr", "structuring", "deleted"}
  <2>1. ASSUME NEW p \in Procs PROVE ~Holds(p, id)
    BY DEF IInv, HeldIsProcessing
  <2> USE DEF TypeOK, RowsOK
  <2>2. ASSUME NEW p \in Procs, reset_interrupted(p) PROVE Goal
    BY <2>2 DEF reset_interrupted
  <2>3. ASSUME NEW p \in Procs, NEW i \in Ids, SettleDeferred(p, i) PROVE Goal
    BY <2>3 DEF SettleDeferred, fail_if_stuck, fail, Outcome
  <2>4. ASSUME NEW p \in Procs, claim_next(p) PROVE Goal
    BY <2>4 DEF claim_next
  <2>5. ASSUME NEW p \in Procs, Structuring(p) \/ Classifying(p) PROVE Goal
    BY <2>5, <2>1 DEF Structuring, Classifying, set_stage
  <2>6. ASSUME NEW p \in Procs, SaveAnalysis(p) \/ Fail(p) PROVE Goal
    BY <2>6, <2>1 DEF SaveAnalysis, save_analysis, Fail, fail, Outcome
  <2>7. ASSUME NEW p \in Procs, PutBack(p) PROVE Goal
    BY <2>7 DEF PutBack, requeue_interrupted
  <2>8. ASSUME NEW p \in Procs, NEW isScan \in BOOLEAN, Intake(p, isScan) PROVE Goal
    BY <2>8 DEF Intake
  <2>9. ASSUME NEW r \in Reqs, Reprocess(r) \/ Delete(r) PROVE Goal
    BY <2>9 DEF Reprocess, Delete
  <2>10. QED
    BY <2>2, <2>3, <2>4, <2>5, <2>6, <2>7, <2>8, <2>9, OtherStepsKeepStage
<1>2. QED
  BY <1>1, TypeCorrect, Inductive, PTL DEF Spec, QueuedLeavesByClaim

\* Whoever serves the queue, a complaint in a processing stage is in its hands
\* or in its list of failures, but for the two refusals nothing retries.
THEOREM NothingStranded == Spec => NoStrandedRow
<1>1. TypeOK /\ IInv /\ [Next]_vars
        => [\A p \in Procs, id \in Ids : ~Stranded(p, id) /\ Stranded(p, id)'
              => /\ budget'["faults"] < budget["faults"]
                 /\ ReadyToClaim(p) \/ phase[p] = "booting"]_vars
  <2> SUFFICES ASSUME TypeOK, IInv, Next, NEW p \in Procs, NEW id \in Ids,
                      ~Stranded(p, id), Stranded(p, id)'
               PROVE  /\ budget'["faults"] < budget["faults"]
                      /\ ReadyToClaim(p) \/ phase[p] = "booting"
    BY DEF vars
  <2> DEFINE Goal == /\ budget'["faults"] < budget["faults"]
                     /\ ReadyToClaim(p) \/ phase[p] = "booting"
             Serves == owner = p /\ owns_queue[p] /\ phase[p] = "serving"
  <2> USE DEF TypeOK, ProcessesOK, WorkerOK
  <2>0. stage[id] \in STAGES \cup NoRow /\ budget["faults"] \in Nat
    BY DEF RowsOK, BudgetOK
  <2>1. ASSUME NEW q \in Procs, pc[q] # "off", Serves PROVE q = p
    BY <2>1 DEF IInv, OwnerWorks
  <2>2. ASSUME NEW q \in Procs, Boot(q) PROVE Goal
    <3>1. Serves /\ UNCHANGED <<stage, pc, item, unsettled>>
      BY <2>2, QueueAssumption DEF Boot, Stranded
    <3>2. QED
      BY <3>1 DEF Stranded
  <2>3. ASSUME NEW q \in Procs, reset_interrupted(q) PROVE Goal
    <3>1. CASE UNCHANGED stage
      <4>1. CASE q = p
        <5>1. stage[id] \in PROCESSING /\ phase[p] = "booting"
          BY <2>3, <3>1, <4>1 DEF reset_interrupted, Stranded
        <5>2. stage'[id] \in {"error", "queued"} \/ Spend("faults")
          BY <2>3, <5>1 DEF reset_interrupted
        <5>3. Spend("faults")
          BY <3>1, <5>1, <5>2
        <5>4. QED
          BY <5>1, <5>3, <2>0 DEF BudgetOK
      <4>2. CASE q # p
        BY <2>3, <3>1, <4>2 DEF reset_interrupted, Stranded
      <4>3. QED
        BY <4>1, <4>2
    <3>2. CASE ~UNCHANGED stage
      <4>1. stage'[id] \notin PROCESSING
        BY <2>3, <3>2, <2>0 DEF reset_interrupted
      <4>2. QED
        BY <4>1 DEF Stranded
    <3>3. QED
      BY <3>1, <3>2
  <2>4. ASSUME NEW q \in Procs, Stop(q) \/ Exit(q) PROVE Goal
    BY <2>4, QueueAssumption DEF Stop, Exit, Stranded
  <2>5. ASSUME NEW q \in Procs, NEW i \in Ids, SettleDeferred(q, i) PROVE Goal
    <3>1. Serves /\ UNCHANGED <<pc, item>>
      BY <2>5 DEF SettleDeferred, Stranded
    <3>2. q = p /\ pc[p] = "deferred"
      BY <2>1, <2>5, <3>1 DEF SettleDeferred
    <3>3. CASE id = i
      <4>1. stage[id] \in PROCESSING => id \notin claimed[p]
        BY <3>2 DEF IInv, NoLeakedClaim
      <4>2. stage'[id] \notin PROCESSING
        BY <2>5, <3>2, <3>3, <4>1, <2>0 DEF SettleDeferred, fail_if_stuck, fail, Outcome, RowsOK
      <4>3. QED
        BY <4>2 DEF Stranded
    <3>4. CASE id # i
      <4>1. stage'[id] = stage[id] /\ (id \in unsettled'[p] <=> id \in unsettled[p])
        BY <2>5, <3>2, <3>4 DEF SettleDeferred, fail_if_stuck, fail, Outcome, RowsOK
      <4>2. QED
        BY <3>1, <4>1 DEF Stranded
    <3>5. QED
      BY <3>3, <3>4
  <2>6. ASSUME NEW q \in Procs, claim_next(q) PROVE Goal
    <3>1. Serves /\ unsettled' = unsettled
      BY <2>6 DEF claim_next, Stranded
    <3>2. q = p /\ ReadyToClaim(p) /\ ~Holds(p, id)
      BY <2>1, <2>6, <3>1 DEF claim_next, ReadyToClaim
    <3>3. PICK i \in Queued :
            /\ stage' = [stage EXCEPT ![i] = ClaimStage(i)]
            /\ \/ pc'[p] = (IF NeedsOcr(i) THEN "ocr" ELSE "read") /\ item'[p] = i
               \/ Spend("faults")
      BY <2>6, <3>2 DEF claim_next
    <3>4. id = i
      BY <3>1, <3>2, <3>3 DEF Stranded, RowsOK
    <3>5. ~Holds(p, id)'
      BY DEF Stranded
    <3>6. Spend("faults")
      BY <3>3, <3>4, <3>5
    <3>7. QED
      BY <2>0, <3>2, <3>6 DEF BudgetOK
  <2>7. ASSUME NEW q \in Procs, BeginPass(q) \/ DeferredRefused(q) \/ QueueEmpty(q) PROVE Goal
    BY <2>7 DEF BeginPass, DeferredRefused, QueueEmpty, ReadyToClaim, Stranded
  <2>8. ASSUME NEW q \in Procs, ExtractFails(q) \/ TextInHand(q) \/ EmptyAnalysis(q) PROVE Goal
    BY <2>8 DEF ExtractFails, TextInHand, EmptyAnalysis, Stranded
  <2>9. ASSUME NEW q \in Procs, NEW t \in {"blank", "some"}, Extracted(q, t) PROVE Goal
    BY <2>9 DEF Extracted, Stranded
  <2>10. ASSUME NEW q \in Procs, Classified(q) \/ ModelFails(q) \/ Settle(q) PROVE Goal
    BY <2>10 DEF Classified, ModelFails, Settle, Stranded
  <2>11. ASSUME NEW q \in Procs, Structuring(q) \/ Classifying(q) PROVE Goal
    <3>1. Serves /\ unsettled' = unsettled
      BY <2>11 DEF Structuring, Classifying, Stranded
    <3>2. q = p /\ item'[p] = item[p] /\ pc[p] \in Busy /\ pc'[p] \in Busy
      BY <2>1, <2>11, <3>1 DEF Structuring, Classifying
    <3>3. id # item[p]
      BY <3>2 DEF Stranded
    <3>4. stage'[id] = stage[id]
      BY <2>11, <3>2, <3>3 DEF Structuring, Classifying, set_stage, RowsOK
    <3>5. QED
      BY <3>1, <3>2, <3>3, <3>4 DEF Stranded
  <2>12. ASSUME NEW q \in Procs, SaveAnalysis(q) \/ Fail(q) \/ PutBack(q) PROVE Goal
    <3>1. Serves /\ unsettled' = unsettled
      BY <2>12 DEF SaveAnalysis, Fail, PutBack, Stranded
    <3>2. q = p /\ pc[p] \in Busy
      BY <2>1, <2>12, <3>1 DEF SaveAnalysis, Fail, PutBack
    <3>3. CASE item[p] = id
      <4>1. stage'[id] \notin PROCESSING
        BY <2>12, <3>2, <3>3, <2>0
           DEF SaveAnalysis, save_analysis, Fail, fail, PutBack, requeue_interrupted, Outcome, RowsOK
      <4>2. QED
        BY <4>1 DEF Stranded
    <3>4. CASE item[p] # id
      <4>1. stage'[id] = stage[id] /\ ~Holds(p, id)
        BY <2>12, <3>2, <3>4
           DEF SaveAnalysis, save_analysis, Fail, fail, PutBack, requeue_interrupted, Outcome, RowsOK
      <4>2. QED
        BY <3>1, <4>1 DEF Stranded
    <3>5. QED
      BY <3>3, <3>4
  <2>13. ASSUME NEW q \in Procs, Refused(q) PROVE Goal
    <3>1. Serves /\ stage' = stage
      BY <2>13 DEF Refused, Stranded
    <3>2. q = p
      BY <2>1, <2>13, <3>1 DEF Refused
    <3>3. id \in unsettled[p] => id \in unsettled'[p]
      BY <2>13 DEF Refused
    <3>4. Holds(p, id) => Holds(p, id)' \/ id \in unsettled'[p]
      BY <2>13, <3>2 DEF Refused
    <3>5. QED
      BY <3>1, <3>3, <3>4 DEF Stranded
  <2>14. ASSUME NEW q \in Procs, NEW isScan \in BOOLEAN, Intake(q, isScan) PROVE Goal
    BY <2>14 DEF Intake, Stranded, RowsOK
  <2>15. ASSUME NEW r \in Reqs, Reprocess(r) \/ Delete(r) PROVE Goal
    BY <2>15 DEF Reprocess, Delete, Stranded, RowsOK
  <2>16. ASSUME NEW r \in Reqs, is_busy(r) PROVE Goal
    BY <2>16 DEF is_busy, Stranded
  <2>17. ASSUME NEW r \in Reqs, NEW q \in Procs, NEW op \in Ops, NEW i \in Ids, Look(r, q, op, i)
         PROVE  Goal
    BY <2>17 DEF Look, Stranded
  <2>18. ASSUME NEW q \in Procs, NEW i \in Ids, SetStatus(q, i) PROVE Goal
    BY <2>18 DEF SetStatus, Stranded
  <2> HIDE DEF Goal
  <2>19. Goal
    BY <2>2, <2>3, <2>4, <2>5, <2>6, <2>7, <2>8, <2>9, <2>10, <2>11, <2>12, <2>13, <2>14,
       <2>15, <2>16, <2>17, <2>18 DEF Next, WorkerStep, ApiStep
  <2>20. QED
    BY <2>19 DEF Goal
<1>2. QED
  BY <1>1, TypeCorrect, Inductive, PTL DEF Spec, NoStrandedRow
=============================================================================
