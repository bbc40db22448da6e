----------------------------- MODULE ModelLease -----------------------------
(***************************************************************************)
(* ALLaM's llama-server and everyone who uses it in one app process:       *)
(* llm.Server, complaints_llm.ServerLease, LlamaServerProvider and         *)
(* set_active; /proofread; the complaints worker (ComplaintService) with   *)
(* its idle release; the insights request; the app's shutdown, and the     *)
(* next launch, which finds what the last one left running.                *)
(*                                                                         *)
(* An operation under one lock is one step; a call that stops the server   *)
(* does so under the lease's lock and waits there for a load in progress,  *)
(* so it is a step that waits for the load to end.  chat_json makes sure   *)
(* of the server twice in a row, which is one step here.                   *)
(***************************************************************************)
EXTENDS Naturals, FiniteSets

CONSTANTS
    Proofreads, Insights, Switchers,    \* request threads, by what they ask
    Worker,                             \* the complaints worker's thread
    Batch,                              \* the provider's own hold
    None,                               \* nobody holds the lock
    Faults,     \* "slow" startup, "stop" refused, app "kill"ed
    MaxCrashes  \* bound: llama-servers that die by themselves

Requests == Proofreads \cup Insights \cup Switchers
Callers  == Insights \cup {Worker}      \* use the provider
Threads  == Requests \cup {Worker}

ASSUME LeaseAssumption ==
    /\ IsFiniteSet(Proofreads) /\ IsFiniteSet(Insights)
    /\ Worker \notin Requests
    /\ Proofreads \cap (Insights \cup Switchers) = {} /\ Insights \cap Switchers = {}
    /\ Batch \notin Threads /\ None \notin Threads
    /\ Faults \subseteq {"slow", "stop", "kill"}
    /\ MaxCrashes \in Nat

VARIABLES
    holders, stop_pending,  \* ServerLease
    batch,                  \* LlamaServerProvider._batch
    server,                 \* what is on ALLaM's port
    own,                    \* whether Server._proc is that process
    status,                 \* Server._state
    loader, slot,           \* who holds _load_lock and _infer_lock
    used,                   \* whether the provider is in ComplaintService._used
    active,                 \* whether it is the registry's active one
    app,                    \* whether the app runs
    pc,                     \* where each thread is
    crashes                 \* llama-servers that died

lease   == <<holders, stop_pending>>
process == <<server, own, status>>
locks   == <<loader, slot>>
vars    == <<lease, batch, process, locks, used, active, app, pc, crashes>>

\* Between acquire and release of the lease.
HeldAt      == {"hold", "load", "wait", "post", "answered", "refused", "proof", "page", "leave"}
HoldersNow  == {u \in Proofreads \cup Callers : pc[u] \in HeldAt}
UsersNow    == HoldersNow \cup IF batch THEN {Batch} ELSE {}
At(u, from) == pc[u] = from
Go(u, to)   == pc' = [pc EXCEPT ![u] = to]
Running     == pc[Worker] # "off" /\ app = "up"     \* ComplaintService.running

Init ==
    /\ holders = 0 /\ stop_pending = FALSE /\ batch = FALSE
    /\ server \in IF "kill" \in Faults THEN {"none", "ready"} ELSE {"none"}
    /\ own = FALSE /\ status = "not_loaded"
    /\ loader = None /\ slot = None
    /\ used = FALSE /\ active = TRUE
    /\ app = "down"
    /\ pc = [u \in Threads |-> IF u = Worker THEN "off" ELSE "idle"]
    /\ crashes = 0

-----------------------------------------------------------------------------
(* llm.Server.                                                             *)

\* stop(): only the process it started.  An exception leaves it as it was.
stop ==
    /\ loader = None
    /\ \/ /\ server' = IF own THEN "none" ELSE server
          /\ own' = FALSE /\ status' = "not_loaded"
       \/ "stop" \in Faults /\ UNCHANGED process

\* What a thread does after ensure_loaded, and where a call ends.
Loaded(u) == CASE At(u, "preload") -> "item" [] At(u, "proof") -> "page" [] OTHER -> "wait"
Failed(u) == CASE At(u, "preload") -> "failed" [] At(u, "proof") -> "leave"
               [] OTHER -> IF u \in Proofreads THEN "page" ELSE "refused"

Loads(u) == pc[u] \in {"preload", "proof", "load"} /\ loader # u
Ready    == status = "ready" /\ server = "ready"

AlreadyLoaded(u) ==
    /\ Loads(u) /\ Ready
    /\ Go(u, Loaded(u))
    /\ UNCHANGED <<lease, batch, process, locks, used, active, app, crashes>>

\* _start: a server that answers is used as it is; otherwise a process is
\* started, and _proc forgets the one before, which may still be loading.
BeginLoad(u) ==
    /\ Loads(u) /\ ~Ready /\ loader = None
    /\ loader' = u
    /\ status' = "loading"
    /\ server' = IF server = "none" THEN "starting" ELSE server
    /\ own' = IF server = "slow" THEN FALSE ELSE own \/ server = "none"
    /\ UNCHANGED <<lease, batch, slot, used, active, app, pc, crashes>>

Started(u) ==
    /\ loader = u /\ server # "none"
    /\ server' = "ready" /\ status' = "ready"
    /\ loader' = None
    /\ Go(u, Loaded(u))
    /\ UNCHANGED <<lease, batch, own, slot, used, active, app, crashes>>

\* It exits early (a second one because the port is taken), or is not ready
\* in time and goes on loading.
LoadFails(u) ==
    /\ loader = u /\ server # "ready"
    /\ \/ server' = IF server = "starting" THEN "none" ELSE server
       \/ "slow" \in Faults /\ server = "starting" /\ server' = "slow"
    /\ own' = (own /\ server' # "none")
    /\ status' = "error"
    /\ loader' = None
    /\ Go(u, Failed(u))
    /\ UNCHANGED <<lease, batch, slot, used, active, app, crashes>>

SlowStarts ==
    /\ server = "slow" /\ server' = "ready"
    /\ UNCHANGED <<lease, batch, own, status, locks, used, active, app, pc, crashes>>

ServerDies ==
    /\ server # "none" /\ crashes < MaxCrashes
    /\ server' = "none" /\ own' = FALSE
    /\ crashes' = crashes + 1
    /\ UNCHANGED <<lease, batch, status, locks, used, active, app, pc>>

\* The one inference slot: had, or not had within the time a caller waits.
TakeSlot(u) ==
    /\ At(u, "wait") /\ slot = None
    /\ slot' = u
    /\ Go(u, "post")
    /\ UNCHANGED <<lease, batch, process, loader, used, active, app, crashes>>

SlotBusy(u) ==
    /\ At(u, "wait") /\ slot # None
    /\ Go(u, Failed(u))
    /\ UNCHANGED <<lease, batch, process, locks, used, active, app, crashes>>

\* The request is answered, or fails.
PostEnds(u) ==
    /\ At(u, "post")
    /\ slot' = None
    /\ \/ server = "ready" /\ Go(u, IF u \in Proofreads THEN "page" ELSE "answered")
       \/ Go(u, Failed(u))
    /\ UNCHANGED <<lease, batch, process, loader, used, active, app, crashes>>

-----------------------------------------------------------------------------
(* ServerLease.                                                            *)

\* A bug: a stop asked for does not wait for the other holders.
release_at_once(asked) ==
    /\ holders' = IF holders > 0 THEN holders - 1 ELSE 0
    /\ IF asked
       THEN stop /\ stop_pending' = FALSE
       ELSE UNCHANGED <<process, stop_pending>>
\* Let go; stop the server with the last hold, if anyone asked for it.
release(asked) ==
    /\ holders' = IF holders > 0 THEN holders - 1 ELSE 0
    /\ IF (stop_pending \/ asked) /\ holders' = 0
       THEN stop /\ stop_pending' = FALSE
       ELSE UNCHANGED process /\ stop_pending' = (stop_pending \/ asked)

stop_when_idle ==
    /\ UNCHANGED holders
    /\ IF holders # 0
       THEN stop_pending' = TRUE /\ UNCHANGED process
       ELSE stop /\ stop_pending' = FALSE

-----------------------------------------------------------------------------
(* LlamaServerProvider.                                                    *)

\* _hold_batch, before every load.
hold_batch ==
    IF batch THEN UNCHANGED <<batch, holders>> ELSE batch' = TRUE /\ holders' = holders + 1

HoldBatch(u) ==
    /\ u \in Callers /\ pc[u] \in {"ensure", "hold"}
    /\ hold_batch
    /\ Go(u, IF At(u, "ensure") THEN "preload" ELSE "load")
    /\ UNCHANGED <<stop_pending, process, locks, used, active, app, crashes>>

\* chat_json holds the lease around its own ensure_ready and the request.
CallBegins(u) ==
    /\ u \in Callers /\ At(u, "item")
    /\ holders' = holders + 1
    /\ Go(u, "hold")
    /\ UNCHANGED <<stop_pending, batch, process, locks, used, active, app, crashes>>

\* The pipeline asks again after an answer that does not fit, and after a
\* refusal that is not for a busy or unloaded model.
CallEnds(u) ==
    /\ u \in Callers /\ pc[u] \in {"answered", "refused"}
    /\ release(FALSE)
    /\ \E label \in {"item", "failed"} : (At(u, "answered") => label = "item") /\ Go(u, label)
    /\ UNCHANGED <<batch, locks, used, active, app, crashes>>

\* release(), by the worker, an insights run or the request that switched.
provider_release ==
    /\ batch' = FALSE
    /\ IF batch THEN release(TRUE) ELSE stop_when_idle

Release(u) ==
    /\ At(u, "release")
    /\ provider_release
    /\ Go(u, "idle")
    /\ UNCHANGED <<locks, used, active, app, crashes>>

-----------------------------------------------------------------------------
(* The users.                                                              *)

\* /proofread: the lease from before the load until after the last page.
ProofreadBegins(p) ==
    /\ p \in Proofreads /\ At(p, "idle") /\ app = "up"
    /\ holders' = holders + 1
    /\ Go(p, "proof")
    /\ UNCHANGED <<stop_pending, batch, process, locks, used, active, app, crashes>>

NextPage(p) ==
    /\ At(p, "page")
    /\ \E label \in {"load", "leave"} : Go(p, label)
    /\ UNCHANGED <<lease, batch, process, locks, used, active, app, crashes>>

ProofreadEnds(p) ==
    /\ At(p, "leave")
    /\ release(TRUE)
    /\ Go(p, "idle")
    /\ UNCHANGED <<batch, locks, used, active, app, crashes>>

\* _analyze: the provider is noted as used before it is.
ItemBegins ==
    /\ At(Worker, "idle") /\ app = "up" /\ active
    /\ used' = TRUE
    /\ Go(Worker, "ensure")
    /\ UNCHANGED <<lease, batch, process, locks, active, app, crashes>>

\* A busy or unloaded model is tried again, unless the app is stopping.
ItemGoesOn ==
    /\ At(Worker, "failed") /\ app = "up"
    /\ Go(Worker, "ensure")
    /\ UNCHANGED <<lease, batch, process, locks, used, active, app, crashes>>

ItemEnds ==
    /\ pc[Worker] \in {"item", "failed"}
    /\ Go(Worker, "idle")
    /\ UNCHANGED <<lease, batch, process, locks, used, active, app, crashes>>

\* _release_idle, when the queue is empty.
IdlePass ==
    /\ At(Worker, "idle") /\ app = "up" /\ used
    /\ used' = FALSE
    /\ Go(Worker, "release")
    /\ UNCHANGED <<lease, batch, process, locks, active, app, crashes>>

WorkerEnds ==
    /\ At(Worker, "idle") /\ app \in {"stopping", "stopped"}
    /\ Go(Worker, "off")
    /\ UNCHANGED <<lease, batch, process, locks, used, active, app, crashes>>

\* do_insights: one at a time until its slot is given back, before done_with.
InsightsBegin(i) ==
    /\ i \in Insights /\ At(i, "idle") /\ app = "up" /\ active
    /\ \A j \in Insights : pc[j] \in {"idle", "done", "release"}
    /\ Go(i, "ensure")
    /\ UNCHANGED <<lease, batch, process, locks, used, active, app, crashes>>

InsightsEnd(i) ==
    /\ i \in Insights /\ pc[i] \in {"item", "failed"}
    /\ Go(i, "done")
    /\ UNCHANGED <<lease, batch, process, locks, used, active, app, crashes>>

\* done_with.  A bug: a running worker is taken to know.
Noted_never == used
Noted == TRUE

DoneWith(i) ==
    /\ At(i, "done")
    /\ IF Running
       THEN used' = Noted /\ Go(i, "idle")
       ELSE Go(i, "release") /\ UNCHANGED used
    /\ UNCHANGED <<lease, batch, process, locks, active, app, crashes>>

\* set_active, away from ALLaM (its release follows) and back.
SwitchAway(s) ==
    /\ s \in Switchers /\ At(s, "idle") /\ app = "up" /\ active
    /\ active' = FALSE
    /\ Go(s, "release")
    /\ UNCHANGED <<lease, batch, process, locks, used, app, crashes>>

SwitchBack(s) ==
    /\ s \in Switchers /\ At(s, "idle") /\ app = "up" /\ ~active
    /\ active' = TRUE
    /\ UNCHANGED <<lease, batch, process, locks, used, app, pc, crashes>>

-----------------------------------------------------------------------------
(* The app.                                                                *)

\* A launch starts the worker if it owns the queue.
Boot ==
    /\ app = "down"
    /\ app' = "up"
    /\ \E label \in {"idle", "off"} : Go(Worker, label)
    /\ UNCHANGED <<lease, batch, process, locks, used, active, crashes>>

\* The server answers its open requests, then runs the shutdown handler,
\* which tells the worker to stop and waits at most 5 s for it ...
Shutdown ==
    /\ app = "up" /\ \A r \in Requests : At(r, "idle")
    /\ app' = "stopping"
    /\ UNCHANGED <<lease, batch, process, locks, used, active, pc, crashes>>

\* ... then stops the models, whoever uses them.
StopModels ==
    /\ app = "stopping"
    /\ stop
    /\ app' = "stopped"
    /\ UNCHANGED <<lease, batch, locks, used, active, pc, crashes>>

\* The process ends; a llama-server it left running goes on.
Gone ==
    /\ app' = "down"
    /\ holders' = 0 /\ stop_pending' = FALSE /\ batch' = FALSE
    /\ server' = IF server = "starting" THEN "slow" ELSE server
    /\ own' = FALSE /\ status' = "not_loaded"
    /\ loader' = None /\ slot' = None
    /\ used' = FALSE /\ active' = TRUE
    /\ pc' = [u \in Threads |-> IF u = Worker THEN "off" ELSE "idle"]
    /\ UNCHANGED crashes

Exit == app = "stopped" /\ Gone
Kill == app # "down" /\ "kill" \in Faults /\ Gone

\* What a thread does once it is in a call.
Step(u) ==
    \/ AlreadyLoaded(u) \/ BeginLoad(u) \/ Started(u) \/ LoadFails(u)
    \/ TakeSlot(u) \/ SlotBusy(u) \/ PostEnds(u)
    \/ HoldBatch(u) \/ CallBegins(u) \/ CallEnds(u) \/ Release(u)
    \/ NextPage(u) \/ ProofreadEnds(u) \/ InsightsEnd(u) \/ DoneWith(u)

WorkerStep == ItemGoesOn \/ ItemEnds \/ IdlePass \/ WorkerEnds

Begins(u) == ProofreadBegins(u) \/ InsightsBegin(u) \/ SwitchAway(u) \/ SwitchBack(u)

Next ==
    \/ \E u \in Threads : Step(u)
    \/ \E r \in Requests : Begins(r)
    \/ ItemBegins \/ WorkerStep
    \/ SlowStarts \/ ServerDies
    \/ Boot \/ Shutdown \/ StopModels \/ Exit \/ Kill

Spec == Init /\ [][Next]_vars

\* A call ends: the load, the slot and the request each have a timeout.  The
\* worker comes round to an idle pass at least every 30 s.
FairSpec ==
    /\ Spec
    /\ \A u \in Threads : WF_vars(Step(u))
    /\ WF_vars(IdlePass)

-----------------------------------------------------------------------------
(* Properties.                                                             *)

LeaseOK == holders \in Nat /\ stop_pending \in BOOLEAN /\ batch \in BOOLEAN

ServerOK ==
    /\ server \in {"none", "starting", "slow", "ready"}
    /\ own \in BOOLEAN
    /\ status \in {"not_loaded", "loading", "ready", "error"}
    /\ loader \in Threads \cup {None} /\ slot \in Threads \cup {None}
    /\ crashes \in Nat

AppOK ==
    /\ used \in BOOLEAN /\ active \in BOOLEAN
    /\ app \in {"down", "up", "stopping", "stopped"}

PcOK == pc \in [Threads -> {"off", "idle", "ensure", "preload", "item", "failed", "done", "release"}
                             \cup HeldAt]

\* Every variable stays in its type.
TypeOK == LeaseOK /\ ServerOK /\ AppOK /\ PcOK

\* The count is that of the threads between their acquire and their release
\* and of the batch: no path, however it fails, leaves the lease held or lets
\* go of somebody else's hold.
HoldersAreCounted ==
    holders = Cardinality(HoldersNow) + IF batch THEN 1 ELSE 0

\* A stop that was asked for waits for somebody who will let go.
PendingHasHolder == stop_pending => holders > 0

\* A batch's hold is never forgotten: the next idle pass knows of it, or the
\* thread that took it is still at work.
BatchIsRemembered ==
    batch => used \/ \E u \in Callers : pc[u] \notin {"idle", "off"}

\* What these rest on: only a proofread is ever at its pages, a worker with
\* a complaint in hand has noted the provider, nothing runs in an app that is
\* down, and whoever holds the load lock is in a load.
KindOK == \A u \in Threads : pc[u] \in {"proof", "page", "leave"} => u \in Proofreads
WorkerNotes == pc[Worker] \notin {"idle", "off", "release"} => used
DownIsOff ==
    app = "down" => ~batch /\ \A u \in Threads : pc[u] = IF u = Worker THEN "off" ELSE "idle"
LoaderLoads == loader # None => pc[loader] \in {"preload", "proof", "load"}

IInv ==
    /\ HoldersAreCounted /\ PendingHasHolder /\ BatchIsRemembered
    /\ KindOK /\ WorkerNotes /\ LoaderLoads /\ DownIsOff

\* While the app is up nobody stops ALLaM under a request or between two
\* requests of a batch: a proofread that ends does not take it from a batch,
\* nor a batch from a proofread.
StoppedOnlyWhenFree ==
    [][app = "up" /\ server = "ready" /\ server' = "none" /\ crashes' = crashes
        => HoldersNow' = {} /\ ~batch']_vars

Shared == INSTANCE SharedModel WITH
            Users <- Threads \cup {Batch},
            users <- UsersNow,
            loaded <- server = "ready",
            serving <- app = "up"

\* The count of holders (ServerLease) is as good as the set of them: the whole
\* of it does what SharedModel promises.
SharedSpec == Shared!Spec

\* Nobody is in a request, and the worker has nothing to do.
Quiet ==
    /\ app = "up"
    /\ \A r \in Requests : At(r, "idle")
    /\ pc[Worker] \in {"off", "idle", "release"}

\* Once nobody uses ALLaM any more, the server the app started is stopped and
\* its memory is free.
FreedAfterUse == (<>[]Quiet) => <>[](~(own /\ server = "ready"))
=============================================================================
