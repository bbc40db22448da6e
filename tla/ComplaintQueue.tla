--------------------------- MODULE ComplaintQueue ---------------------------
(***************************************************************************)
(* The complaint register's work queue: the rows of complaints_store.Store *)
(* that the queue moves, the owner lock, ComplaintService's worker thread  *)
(* with its claims and its refused settles, the API threads that ask for a *)
(* reprocess or a delete after looking at a row, and app processes that    *)
(* start, stop and die on one data directory.                              *)
(*                                                                         *)
(* A Store method is one transaction under one lock, so it is one step.    *)
(* What is NOT atomic is a step of its own: looking at a row and acting on *)
(* it (do_reprocess, delete), reading a file and saving its text, deciding *)
(* to settle and settling.                                                 *)
(***************************************************************************)
EXTENDS Naturals, FiniteSets

CONSTANTS
    Ids,                \* complaint ids, handed out in increasing order
    Procs,              \* app processes on the same data directory
    Reqs,               \* API threads that look at a row and then act on it
    NoProc,             \* nobody holds the owner lock
    MaxInterruptions,   \* complaints_api.MAX_INTERRUPTIONS
    MaxTries,           \* bound: rounds of _analyze for one item
    Faults,             \* which calls the database may refuse
    MaxCalls,           \* bound: API calls other than intakes
    MaxStops,           \* bound: graceful stops
    MaxCrashes,         \* bound: processes that die
    MaxFaults           \* bound: calls the database refuses

ASSUME QueueAssumption ==
    /\ Ids \subseteq Nat
    /\ NoProc \notin Procs
    /\ MaxInterruptions \in Nat \ {0} /\ MaxTries \in Nat
    /\ MaxCalls \in Nat /\ MaxStops \in Nat /\ MaxCrashes \in Nat /\ MaxFaults \in Nat
    /\ Faults \subseteq {"settle", "claim", "boot"}

VARIABLES
    \* the database: one function per column the queue uses
    stage, scan, text, reocr,
    interruptions,      \* what _interruptions would count in the row's events
    \* the processes
    owner,              \* holder of the OS lock beside the database
    phase,              \* whether the process is down, booting or serving
    owns_queue, stopping, claimed, unsettled,
    \* the worker thread of each process: where it is, and its item
    pc, item, itemText, tries, settling,
    \* the API threads: where they are, and what they were asked
    call, callOp, callId, callProc,
    \* history, read by no action
    since,              \* interruptions since the last outcome or person's requeue
    overtaken,          \* ids requeued or deleted by the API under a worker
    budget              \* what is left of the bounds

database == <<stage, scan, text, reocr, interruptions>>
memory   == <<phase, owns_queue, stopping, claimed, unsettled>>
history  == <<since, overtaken>>
worker   == <<pc, item, itemText, tries, settling>>
req      == <<call, callOp, callId, callProc>>
vars     == <<database, owner, memory, worker, req, history, budget>>

PROCESSING == {"ocr", "structuring", "classifying"}
STAGES     == {"queued", "done", "error"} \cup PROCESSING
NoRow      == {"absent", "deleted"}             \* not created yet, deleted
Texts      == {"none", "blank", "some"}         \* NULL, nothing readable, text
Ops        == {"reprocess", "reextract", "delete"}

\* Where a worker with an item in hand can be.
Busy == {"ocr", "read", "analyse", "structure", "classify", "save", "settle", "fail", "requeue"}

Exists(id)     == stage[id] \notin NoRow
Holds(p, id)   == pc[p] \in Busy /\ item[p] = id
Queued         == {id \in Ids : stage[id] = "queued"}
Goto(p, label) == /\ pc' = [pc EXCEPT ![p] = label]
                  /\ UNCHANGED <<item, itemText, tries, settling>>
Drop(p, label) == /\ pc' = [pc EXCEPT ![p] = label]
                  /\ item' = [item EXCEPT ![p] = 0]
                  /\ itemText' = [itemText EXCEPT ![p] = "none"]
                  /\ tries' = [tries EXCEPT ![p] = 0]
                  /\ settling' = [settling EXCEPT ![p] = FALSE]
Answer(r)      == /\ call' = [call EXCEPT ![r] = "idle"]
                  /\ callOp' = [callOp EXCEPT ![r] = "reprocess"]
                  /\ callId' = [callId EXCEPT ![r] = 0]
                  /\ callProc' = [callProc EXCEPT ![r] = NoProc]
Spend(what)    == /\ budget[what] > 0
                  /\ budget' = [budget EXCEPT ![what] = @ - 1]

Init ==
    /\ stage = [id \in Ids |-> "absent"]
    /\ scan  = [id \in Ids |-> FALSE]
    /\ text  = [id \in Ids |-> "none"]
    /\ reocr = [id \in Ids |-> FALSE]
    /\ interruptions = [id \in Ids |-> 0]
    /\ owner = NoProc
    /\ phase      = [p \in Procs |-> "down"]
    /\ owns_queue = [p \in Procs |-> TRUE]
    /\ stopping   = [p \in Procs |-> FALSE]
    /\ claimed    = [p \in Procs |-> {}]
    /\ unsettled  = [p \in Procs |-> {}]
    /\ pc         = [p \in Procs |-> "off"]
    /\ item       = [p \in Procs |-> 0]
    /\ itemText   = [p \in Procs |-> "none"]
    /\ tries      = [p \in Procs |-> 0]
    /\ settling   = [p \in Procs |-> FALSE]
    /\ call       = [r \in Reqs |-> "idle"]
    /\ callOp     = [r \in Reqs |-> "reprocess"]
    /\ callId     = [r \in Reqs |-> 0]
    /\ callProc   = [r \in Reqs |-> NoProc]
    /\ since      = [id \in Ids |-> 0]
    /\ overtaken  = {}
    /\ budget = [calls |-> MaxCalls, stops |-> MaxStops,
                 crashes |-> MaxCrashes, faults |-> MaxFaults]

-----------------------------------------------------------------------------
(* Store methods the worker calls.  Each looks the row up first: it may    *)
(* have been deleted under the worker, and then only the claim stays.      *)

\* The row leaves the worker's hands with an outcome.
Outcome(p, id, s) ==
    IF Exists(id)
    THEN /\ stage' = [stage EXCEPT ![id] = s]
         /\ interruptions' = [interruptions EXCEPT ![id] = 0]
         /\ since' = [since EXCEPT ![id] = 0]
         /\ claimed' = [claimed EXCEPT ![p] = @ \ {id}]
    ELSE UNCHANGED <<stage, interruptions, since, claimed>>

save_analysis(p, id) == Outcome(p, id, "done")
fail(p, id)          == Outcome(p, id, "error")

\* Bugs: the claim tested the wrong way round; no test of the row's stage.
fail_if_stuck_inverted(p, id) ==
    IF stage[id] \in PROCESSING /\ id \in claimed[p]
    THEN fail(p, id)
    ELSE UNCHANGED <<stage, interruptions, since, claimed>>
fail_anyway(p, id) == fail(p, id)

\* fail(if_stuck=True): only a row in a processing stage nobody here holds.
fail_if_stuck(p, id) ==
    IF stage[id] \in PROCESSING /\ id \notin claimed[p]
    THEN fail(p, id)
    ELSE UNCHANGED <<stage, interruptions, since, claimed>>

\* A bug: a complaint put back is still claimed.
requeue_interrupted_claimed(p, id) ==
    /\ stage' = IF Exists(id) THEN [stage EXCEPT ![id] = "queued"] ELSE stage
    /\ interruptions' = [interruptions EXCEPT ![id] = @ + 1]
    /\ since' = [since EXCEPT ![id] = @ + 1]
    /\ UNCHANGED claimed

\* requeue(interrupted=True): a re-extraction asked for stays asked for.
requeue_interrupted(p, id) ==
    IF Exists(id)
    THEN /\ stage' = [stage EXCEPT ![id] = "queued"]
         /\ interruptions' = [interruptions EXCEPT ![id] = @ + 1]
         /\ since' = [since EXCEPT ![id] = @ + 1]
         /\ claimed' = [claimed EXCEPT ![p] = @ \ {id}]
    ELSE UNCHANGED <<stage, interruptions, since, claimed>>

set_stage(id, s) ==
    stage' = IF Exists(id) THEN [stage EXCEPT ![id] = s] ELSE stage

\* The new text replaces the old one and answers the re-extraction.
save_text(id, t) ==
    IF Exists(id)
    THEN /\ text'  = [text EXCEPT ![id] = t]
         /\ reocr' = [reocr EXCEPT ![id] = FALSE]
    ELSE UNCHANGED <<text, reocr>>

-----------------------------------------------------------------------------
(* Processes.                                                              *)

\* _try_lock.  A bug: the lock is never refused.
LockFree_always == TRUE
LockFree == owner = NoProc

\* Startup takes the owner lock if it is free.  An exception on the way
\* (also after the lock was taken) leaves the worker off.
Boot(p) ==
    /\ phase[p] = "down"
    /\ \/ /\ LockFree
          /\ owner' = p
          /\ phase' = [phase EXCEPT ![p] = "booting"]
          /\ owns_queue' = [owns_queue EXCEPT ![p] = TRUE]
          /\ UNCHANGED budget
       \/ /\ ~LockFree
          /\ phase' = [phase EXCEPT ![p] = "serving"]
          /\ owns_queue' = [owns_queue EXCEPT ![p] = FALSE]
          /\ UNCHANGED <<owner, budget>>
       \/ /\ LockFree /\ "boot" \in Faults /\ Spend("faults")
          /\ owner' \in {NoProc, p}
          /\ phase' = [phase EXCEPT ![p] = "serving"]
          /\ owns_queue' = [owns_queue EXCEPT ![p] = FALSE]
    /\ UNCHANGED <<database, stopping, claimed, unsettled, worker, req, history>>

\* A bug: the interruption that just happened is not counted.
GaveUp_late(id) == interruptions[id] >= MaxInterruptions
GaveUp(id) == interruptions[id] + 1 >= MaxInterruptions

\* The owner puts back, or gives up, what an earlier process left half-done,
\* and starts the worker whether or not that worked.
reset_interrupted(p) ==
    /\ phase[p] = "booting"
    /\ \/ LET cut  == {id \in Ids : stage[id] \in PROCESSING}
              dead == {id \in cut : GaveUp(id)}
          IN /\ stage' = [id \in Ids |-> IF id \in dead THEN "error"
                                         ELSE IF id \in cut THEN "queued" ELSE stage[id]]
             /\ interruptions' = [id \in Ids |-> IF id \in dead THEN 0
                                    ELSE IF id \in cut THEN interruptions[id] + 1
                                    ELSE interruptions[id]]
             /\ since' = [id \in Ids |-> IF id \in dead THEN 0
                                    ELSE IF id \in cut THEN since[id] + 1 ELSE since[id]]
             /\ UNCHANGED budget
       \/ /\ "boot" \in Faults /\ Spend("faults")
          /\ UNCHANGED <<stage, interruptions, since>>
    /\ phase'  = [phase EXCEPT ![p] = "serving"]
    /\ Drop(p, "idle")
    /\ UNCHANGED <<scan, text, reocr, owner, owns_queue, stopping, claimed, unsettled,
                   req, overtaken>>

\* service.stop(): the flag only; the worker sees it where it looks.
Stop(p) ==
    /\ phase[p] = "serving" /\ ~stopping[p]
    /\ Spend("stops")
    /\ stopping' = [stopping EXCEPT ![p] = TRUE]
    /\ UNCHANGED <<database, owner, phase, owns_queue, claimed, unsettled, worker, req, history>>

\* The process ends, after a stop or without one: its memory, its daemon
\* worker and the OS lock go with it.
Exit(p) ==
    /\ phase[p] # "down"
    /\ IF stopping[p] THEN UNCHANGED budget ELSE Spend("crashes")
    /\ owner' = IF owner = p THEN NoProc ELSE owner
    /\ phase'      = [phase EXCEPT ![p] = "down"]
    /\ owns_queue' = [owns_queue EXCEPT ![p] = TRUE]
    /\ stopping'   = [stopping EXCEPT ![p] = FALSE]
    /\ claimed'    = [claimed EXCEPT ![p] = {}]
    /\ unsettled'  = [unsettled EXCEPT ![p] = {}]
    /\ Drop(p, "off")
    /\ LET mine == {r \in Reqs : callProc[r] = p}
       IN /\ call'     = [r \in Reqs |-> IF r \in mine THEN "idle" ELSE call[r]]
          /\ callOp'   = [r \in Reqs |-> IF r \in mine THEN "reprocess" ELSE callOp[r]]
          /\ callId'   = [r \in Reqs |-> IF r \in mine THEN 0 ELSE callId[r]]
          /\ callProc' = [r \in Reqs |-> IF r \in mine THEN NoProc ELSE callProc[r]]
    /\ UNCHANGED <<database, history>>

-----------------------------------------------------------------------------
(* The worker thread.                                                      *)

\* _run's loop and process_next's first look at the flag.
BeginPass(p) ==
    /\ pc[p] = "idle"
    /\ Goto(p, IF stopping[p] THEN "off" ELSE "deferred")
    /\ UNCHANGED <<database, owner, memory, req, history, budget>>

\* Retry one failure the database refused earlier.
SettleDeferred(p, id) ==
    /\ pc[p] = "deferred" /\ ~stopping[p]
    /\ id \in unsettled[p]
    /\ fail_if_stuck(p, id)
    /\ unsettled' = [unsettled EXCEPT ![p] = @ \ {id}]
    /\ UNCHANGED <<scan, text, reocr, owner, phase, owns_queue, stopping, worker, req,
                   overtaken, budget>>

\* It is refused again: the pass is over and the next one tries again.
DeferredRefused(p) ==
    /\ pc[p] = "deferred" /\ ~stopping[p]
    /\ unsettled[p] # {} /\ "settle" \in Faults /\ Spend("faults")
    /\ Goto(p, "idle")
    /\ UNCHANGED <<database, owner, memory, req, history>>

ReadyToClaim(p) == pc[p] = "deferred" /\ (unsettled[p] = {} \/ stopping[p])

\* Whether a claim starts with OCR.  A bug: a re-extraction is forgotten.
NeedsOcr_once(id) == text[id] = "none"
NeedsOcr(id) == text[id] = "none" \/ reocr[id]

\* The stage a claim writes.
ClaimStage(id) == IF NeedsOcr(id) THEN "ocr" ELSE "structuring"

\* The oldest queued complaint; OCR only without text or when asked again.
claim_next(p) ==
    /\ ReadyToClaim(p)
    /\ \E id \in Queued :
        /\ \A other \in Queued : id <= other
        /\ stage' = [stage EXCEPT ![id] = ClaimStage(id)]
        /\ \/ /\ claimed' = [claimed EXCEPT ![p] = @ \cup {id}]
              /\ pc' = [pc EXCEPT ![p] = IF NeedsOcr(id) THEN "ocr" ELSE "read"]
              /\ item' = [item EXCEPT ![p] = id]
              /\ itemText' = [itemText EXCEPT ![p] = text[id]]
              /\ UNCHANGED <<tries, settling, budget>>
           \* the row cannot be read back after the COMMIT
           \/ /\ "claim" \in Faults /\ Spend("faults")
              /\ Goto(p, "idle")
              /\ UNCHANGED claimed
        /\ overtaken' = overtaken \ {id}
    /\ UNCHANGED <<scan, text, reocr, interruptions, owner, phase, owns_queue, stopping,
                   unsettled, req, since>>

QueueEmpty(p) ==
    /\ ReadyToClaim(p) /\ Queued = {}
    /\ Goto(p, "idle")
    /\ UNCHANGED <<database, owner, memory, req, history, budget>>

\* _extract gives up without OCR (no file, too many pages), or OCR fails.
ExtractFails(p) ==
    /\ pc[p] = "ocr"
    /\ \E label \in {"fail", "settle"} : Goto(p, label)
    /\ UNCHANGED <<database, owner, memory, req, history, budget>>

\* A bug: whatever OCR returns is saved.
ReadNothing_saved(p, t) == FALSE
ReadNothing(p, t) == t = "blank" /\ itemText[p] = "some"

\* OCR returned t.  A re-extraction that read nothing keeps the old text.
Extracted(p, t) ==
    /\ pc[p] = "ocr"
    /\ IF ReadNothing(p, t)
       THEN /\ Goto(p, "settle")
            /\ UNCHANGED <<text, reocr>>
       ELSE /\ save_text(item[p], t)
            /\ pc' = [pc EXCEPT ![p] = "read"]
            /\ itemText' = [itemText EXCEPT ![p] = t]
            /\ UNCHANGED <<item, tries, settling>>
    /\ UNCHANGED <<stage, scan, interruptions, owner, memory, req, history, budget>>

\* _process looks at the flag between extraction and analysis.
TextInHand(p) ==
    /\ pc[p] = "read"
    /\ Goto(p, IF stopping[p] THEN "requeue" ELSE "analyse")
    /\ UNCHANGED <<database, owner, memory, req, history, budget>>

\* Too little text to read: an empty analysis, no stage change.
EmptyAnalysis(p) ==
    /\ pc[p] = "analyse"
    /\ Goto(p, "save")
    /\ UNCHANGED <<database, owner, memory, req, history, budget>>

Structuring(p) ==
    /\ pc[p] = "analyse" /\ itemText[p] = "some"
    /\ set_stage(item[p], "structuring")
    /\ Goto(p, "structure")
    /\ UNCHANGED <<scan, text, reocr, interruptions, owner, memory, req, history, budget>>

Classifying(p) ==
    /\ pc[p] = "structure"
    /\ set_stage(item[p], "classifying")
    /\ Goto(p, "classify")
    /\ UNCHANGED <<scan, text, reocr, interruptions, owner, memory, req, history, budget>>

Classified(p) ==
    /\ pc[p] = "classify"
    /\ Goto(p, "save")
    /\ UNCHANGED <<database, owner, memory, req, history, budget>>

\* A busy or unloaded model: another round, a settle when the rounds are
\* used up (or on any other error), or a requeue if the app stops meanwhile.
ModelFails(p) ==
    /\ pc[p] \in {"analyse", "structure", "classify"}
    /\ \/ /\ tries[p] < MaxTries
          /\ pc' = [pc EXCEPT ![p] = "analyse"]
          /\ tries' = [tries EXCEPT ![p] = @ + 1]
          /\ UNCHANGED <<item, itemText, settling>>
       \/ Goto(p, "settle")
       \/ stopping[p] /\ Goto(p, "requeue")
    /\ UNCHANGED <<database, owner, memory, req, history, budget>>

SaveAnalysis(p) ==
    /\ pc[p] = "save"
    /\ save_analysis(p, item[p])
    /\ Drop(p, "idle")
    /\ UNCHANGED <<scan, text, reocr, owner, phase, owns_queue, stopping, unsettled, req,
                   overtaken, budget>>

\* _settle: when the app is stopping, the failure is not the complaint's.
Settle(p) ==
    /\ pc[p] = "settle"
    /\ Goto(p, IF stopping[p] THEN "requeue" ELSE "fail")
    /\ UNCHANGED <<database, owner, memory, req, history, budget>>

Fail(p) ==
    /\ pc[p] = "fail"
    /\ fail(p, item[p])
    /\ Drop(p, "idle")
    /\ UNCHANGED <<scan, text, reocr, owner, phase, owns_queue, stopping, unsettled, req,
                   overtaken, budget>>

PutBack(p) ==
    /\ pc[p] = "requeue"
    /\ requeue_interrupted(p, item[p])
    /\ Drop(p, "idle")
    /\ UNCHANGED <<scan, text, reocr, owner, phase, owns_queue, stopping, unsettled, req,
                   overtaken, budget>>

\* The database refuses a call made for the item.  The first time
\* process_next settles it; when that is refused too it lets go of the claim
\* and keeps the failure for later passes.  A call that settles drops the
\* claim before its COMMIT, so a refused COMMIT may have dropped it already.
Refused(p) ==
    /\ pc[p] \in Busy \ {"read", "settle"}
    /\ "settle" \in Faults /\ Spend("faults")
    /\ LET id == item[p]
       IN IF settling[p]
          THEN /\ claimed'   = [claimed EXCEPT ![p] = @ \ {id}]
               /\ unsettled' = [unsettled EXCEPT ![p] = @ \cup {id}]
               /\ Drop(p, "idle")
          ELSE /\ \/ UNCHANGED claimed
                  \/ /\ pc[p] \in {"save", "fail", "requeue"}
                     /\ claimed' = [claimed EXCEPT ![p] = @ \ {id}]
               /\ pc' = [pc EXCEPT ![p] = "settle"]
               /\ settling' = [settling EXCEPT ![p] = TRUE]
               /\ UNCHANGED <<unsettled, item, itemText, tries>>
    /\ UNCHANGED <<database, owner, phase, owns_queue, stopping, req, history>>

WorkerStep(p) ==
    \/ BeginPass(p) \/ DeferredRefused(p) \/ claim_next(p) \/ QueueEmpty(p)
    \/ \E id \in Ids : SettleDeferred(p, id)
    \/ ExtractFails(p) \/ (\E t \in {"blank", "some"} : Extracted(p, t))
    \/ TextInHand(p) \/ EmptyAnalysis(p) \/ Structuring(p) \/ Classifying(p)
    \/ Classified(p) \/ ModelFails(p) \/ SaveAnalysis(p) \/ Settle(p) \/ Fail(p)
    \/ PutBack(p) \/ Refused(p)

-----------------------------------------------------------------------------
(* The API.                                                                *)

\* An intake: a scan waits for OCR, a pasted or .txt complaint has its text.
Intake(p, isScan) ==
    /\ phase[p] = "serving"
    /\ \E id \in Ids :
        /\ stage[id] = "absent"
        /\ \A other \in Ids : stage[other] = "absent" => id <= other
        /\ stage' = [stage EXCEPT ![id] = "queued"]
        /\ scan'  = [scan EXCEPT ![id] = isScan]
        /\ text'  = [text EXCEPT ![id] = IF isScan THEN "none" ELSE "some"]
    /\ UNCHANGED <<reocr, interruptions, owner, memory, worker, req, history, budget>>

\* do_reprocess and delete begin with get_or_404: only a row seen in a
\* processing stage makes is_busy ask about the claim.
Look(r, p, op, id) ==
    /\ call[r] = "idle" /\ phase[p] = "serving" /\ Exists(id)
    /\ Spend("calls")
    /\ call' = [call EXCEPT ![r] = IF stage[id] \in PROCESSING THEN "ask" ELSE "act"]
    /\ callOp' = [callOp EXCEPT ![r] = op]
    /\ callId' = [callId EXCEPT ![r] = id]
    /\ callProc' = [callProc EXCEPT ![r] = p]
    /\ UNCHANGED <<database, owner, memory, worker, history>>

\* The second half of is_busy; a busy row answers 409.
is_busy(r) ==
    /\ call[r] = "ask"
    /\ LET p == callProc[r]
       IN IF ~owns_queue[p] \/ callId[r] \in claimed[p]
          THEN Answer(r)
          ELSE /\ call' = [call EXCEPT ![r] = "act"]
               /\ UNCHANGED <<callOp, callId, callProc>>
    /\ UNCHANGED <<database, owner, memory, worker, history, budget>>

\* The history variable: the API touches a row some worker has in hand.
MarkOvertaken(id) ==
    overtaken' = IF \E p \in Procs : Holds(p, id) THEN overtaken \cup {id} ELSE overtaken

\* Store.requeue for a person; a re-extraction needs the original file.
Reprocess(r) ==
    LET id == callId[r]  p == callProc[r]
    IN /\ call[r] = "act" /\ callOp[r] # "delete"
       /\ Answer(r)
       /\ IF Exists(id)
          THEN /\ stage' = [stage EXCEPT ![id] = "queued"]
               /\ reocr' = [reocr EXCEPT ![id] = callOp[r] = "reextract" /\ scan[id]]
               /\ interruptions' = [interruptions EXCEPT ![id] = 0]
               /\ since' = [since EXCEPT ![id] = 0]
               /\ claimed' = [claimed EXCEPT ![p] = @ \ {id}]
               /\ MarkOvertaken(id)
          ELSE UNCHANGED <<stage, reocr, interruptions, since, claimed, overtaken>>
       /\ UNCHANGED <<scan, text, owner, phase, owns_queue, stopping, unsettled, worker, budget>>

Delete(r) ==
    LET id == callId[r]  p == callProc[r]
    IN /\ call[r] = "act" /\ callOp[r] = "delete"
       /\ Answer(r)
       /\ IF Exists(id)
          THEN /\ stage' = [stage EXCEPT ![id] = "deleted"]
               /\ claimed' = [claimed EXCEPT ![p] = @ \ {id}]
               /\ MarkOvertaken(id)
          ELSE UNCHANGED <<stage, claimed, overtaken>>
       /\ UNCHANGED <<scan, text, reocr, interruptions, owner, phase, owns_queue, stopping,
                      unsettled, worker, since, budget>>

\* Any stage takes a new status; its event ends the run _interruptions counts.
SetStatus(p, id) ==
    /\ phase[p] = "serving" /\ Exists(id)
    /\ Spend("calls")
    /\ interruptions' = [interruptions EXCEPT ![id] = 0]
    /\ UNCHANGED <<stage, scan, text, reocr, owner, memory, worker, req, history>>

ApiStep ==
    \/ \E p \in Procs, isScan \in BOOLEAN : Intake(p, isScan)
    \/ \E r \in Reqs, p \in Procs, op \in Ops, id \in Ids : Look(r, p, op, id)
    \/ \E r \in Reqs : is_busy(r) \/ Reprocess(r) \/ Delete(r)
    \/ \E p \in Procs, id \in Ids : SetStatus(p, id)

Next ==
    \/ \E p \in Procs : Boot(p) \/ reset_interrupted(p) \/ Stop(p) \/ Exit(p) \/ WorkerStep(p)
    \/ ApiStep

Spec == Init /\ [][Next]_vars
\* The worker's loop and boot's reset run on threads nothing else can block:
\* the loop polls its queue every 30 s even when no notify() wakes it.
Fairness == \A p \in Procs : WF_vars(WorkerStep(p)) /\ WF_vars(reset_interrupted(p))

FairSpec == Spec /\ Fairness

-----------------------------------------------------------------------------
(* Properties.                                                             *)

RowsOK ==
    /\ stage \in [Ids -> STAGES \cup NoRow]
    /\ scan \in [Ids -> BOOLEAN]
    /\ reocr \in [Ids -> BOOLEAN]
    /\ text \in [Ids -> Texts]
    /\ interruptions \in [Ids -> Nat]
    /\ since \in [Ids -> Nat]
    /\ overtaken \in SUBSET Ids

ProcessesOK ==
    /\ owner \in Procs \cup {NoProc}
    /\ phase \in [Procs -> {"down", "booting", "serving"}]
    /\ owns_queue \in [Procs -> BOOLEAN]
    /\ stopping \in [Procs -> BOOLEAN]
    /\ claimed \in [Procs -> SUBSET Ids]
    /\ unsettled \in [Procs -> SUBSET Ids]

WorkerOK ==
    /\ pc \in [Procs -> {"off", "idle", "deferred"} \cup Busy]
    /\ item \in [Procs -> Ids \cup {0}]
    /\ itemText \in [Procs -> Texts]
    /\ tries \in [Procs -> Nat]
    /\ settling \in [Procs -> BOOLEAN]
    /\ \A p \in Procs : pc[p] \in Busy => item[p] \in Ids

CallsOK ==
    /\ call \in [Reqs -> {"idle", "ask", "act"}]
    /\ callOp \in [Reqs -> Ops]
    /\ callId \in [Reqs -> Ids \cup {0}]
    /\ callProc \in [Reqs -> Procs \cup {NoProc}]
    /\ \A r \in Reqs : call[r] # "idle" => callId[r] \in Ids /\ callProc[r] \in Procs

BudgetOK == budget \in [{"calls", "stops", "crashes", "faults"} -> Nat]

\* Every variable stays in its type: a worker past its claim has a complaint
\* in hand, an API thread past its look a complaint and a process.
TypeOK == RowsOK /\ ProcessesOK /\ WorkerOK /\ CallsOK /\ BudgetOK

\* Only the process that holds the owner lock runs a worker, so no complaint
\* is ever worked on by two processes, whatever crashes and relaunches.
OneWorker ==
    \A p \in Procs : pc[p] # "off" => owner = p

\* While a worker has a complaint in hand the register shows it in a
\* processing stage, unless the API took it from under the worker.
HeldIsProcessing ==
    \A p \in Procs, id \in Ids :
        Holds(p, id) /\ id \notin overtaken => stage[id] \in PROCESSING

\* A serving owner shows a complaint as processing, yet its worker neither has
\* it in hand nor keeps its refused failure for the next pass.
Stranded(p, id) ==
    /\ owner = p /\ owns_queue[p] /\ phase[p] = "serving"
    /\ stage[id] \in PROCESSING
    /\ ~Holds(p, id) /\ id \notin unsettled[p]

\* No step strands a complaint but the two the code has no retry for: a claim
\* whose row cannot be read back, and a boot whose reset is refused.
NoStrandedRow ==
    [][\A p \in Procs, id \in Ids : ~Stranded(p, id) /\ Stranded(p, id)'
          => /\ budget'["faults"] < budget["faults"]
             /\ ReadyToClaim(p) \/ phase[p] = "booting"]_vars

\* A claim ends with the work: an existing complaint is never left looking
\* held, which would make delete and reprocess answer 409 for good.
NoLeakedClaim ==
    \A p \in Procs : \A id \in claimed[p] : Holds(p, id) \/ stage[id] = "deleted"

\* A re-extraction a person asked for is never answered with an analysis of
\* the old text, unless the request came in under a worker.
DoneMeansReadAgain ==
    \A id \in Ids : stage[id] = "done" /\ reocr[id] => id \in overtaken

\* The interruptions counted for the give-up are never more than happened
\* since the complaint last finished, failed or was requeued by a person.
NeverOvercounted == \A id \in Ids : interruptions[id] <= since[id]

\* What the invariants above rest on.  A worker runs in a serving owner that
\* knows it owns the queue; nothing works while an owner boots; a complaint in
\* hand was created; and past OCR its re-extraction has been answered.
OwnerWorks ==
    \A p \in Procs :
        /\ pc[p] # "off" => owner = p /\ phase[p] = "serving" /\ owns_queue[p]
        /\ phase[p] = "booting" => owner = p /\ owns_queue[p] /\ pc[p] = "off"
        /\ owner = p => phase[p] # "down"

HeldWasCreated ==
    \A p \in Procs, id \in Ids : Holds(p, id) => stage[id] # "absent"

ReadBeforeAnalysis ==
    \A p \in Procs, id \in Ids :
        Holds(p, id) /\ pc[p] \notin {"ocr", "settle", "fail", "requeue"} /\ reocr[id]
            => id \in overtaken

IInv ==
    /\ OwnerWorks
    /\ HeldWasCreated /\ HeldIsProcessing
    /\ NoLeakedClaim
    /\ ReadBeforeAnalysis /\ DoneMeansReadAgain
    /\ NeverOvercounted

\* A re-extraction that reads nothing never blanks the text the complaint has.
TextIsKept ==
    [][\A id \in Ids : text[id] = "some" => text'[id] = "some"]_vars

\* A queued complaint leaves the queue by being claimed or deleted: a failure
\* the database refused earlier is not written over a person's requeue.
QueuedLeavesByClaim ==
    [][\A id \in Ids : stage[id] = "queued" /\ id \notin overtaken
          => stage'[id] \in {"queued", "ocr", "structuring", "deleted"}]_vars

\* A complaint the app keeps going down under is failed at a boot: however
\* often the app dies, its interruptions stay under MaxInterruptions, but for
\* the graceful stops, each of which puts back at most one complaint uncapped.
GivesUpInTime ==
    \A id \in Ids : interruptions[id] < MaxInterruptions + (MaxStops - budget["stops"])

\* What the two properties above rest on.  A worker at its OCR has the text the
\* row has.  A worker that was told to stop and can still put something back
\* is at most one, and has its stop to account for it.
TextAtHand ==
    \A p \in Procs, id \in Ids : Holds(p, id) /\ pc[p] = "ocr" => itemText[p] = text[id]

PuttingBack == \E p \in Procs : stopping[p] /\ pc[p] \in Busy \cup {"deferred"}

StopsAreCounted ==
    /\ budget["stops"] <= MaxStops
    /\ \A p \in Procs : pc[p] = "requeue" => stopping[p]
    /\ \A id \in Ids : interruptions[id] + (IF PuttingBack THEN 1 ELSE 0)
                           < MaxInterruptions + (MaxStops - budget["stops"])

\* Once some process keeps the queue and is not stopped, every complaint that
\* waits or is worked on is settled: processed, failed or deleted.
EveryComplaintSettles ==
    (<>[](\E p \in Procs : owner = p /\ owns_queue[p] /\ phase[p] # "down" /\ ~stopping[p]))
        => \A id \in Ids : stage[id] \in {"queued"} \cup PROCESSING
                              ~> stage[id] \in {"done", "error", "deleted"}
=============================================================================
