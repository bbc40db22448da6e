--------------------------- MODULE ComplaintFiles ---------------------------
(***************************************************************************)
(* The complaint register's files: complaints_store.Store.create, delete,  *)
(* acquire_owner and sweep_orphans, by several threads of several app      *)
(* processes on one data directory that start and die.                     *)
(*                                                                         *)
(* A row and its file cannot change together.  A process's store lock      *)
(* serialises its own threads, the database's write lock the writers of    *)
(* all processes; a file is replaced or unlinked under neither of the      *)
(* other processes' locks.  So every database call and every file call of  *)
(* these methods is a step of its own.  A thread that waits for the write  *)
(* lock holds its store lock meanwhile, which only delays its own process, *)
(* so both are taken in one step.  A stored file is named by id and type:  *)
(* the uploads here are of one type.  The temp files are each private to   *)
(* their upload until os.replace and are left out.                         *)
(***************************************************************************)
EXTENDS Naturals, FiniteSets

CONSTANTS
    MaxId,          \* bound: ids the register can hand out
    Procs,          \* app processes on the same data directory
    Threads,        \* threads that upload and delete
    Contents,       \* what files can hold (dedup is by their hash)
    None,           \* no file, no thread, no process
    Faults,         \* which calls fail: "insert", "commit", "read", "unlink"
    MaxDeletes,     \* bound: deletes
    MaxCrashes,     \* bound: processes that die
    MaxFaults       \* bound: calls that fail

ASSUME FilesAssumption ==
    /\ MaxId \in Nat /\ MaxDeletes \in Nat /\ MaxCrashes \in Nat /\ MaxFaults \in Nat
    /\ None \notin Procs \cup Threads \cup Contents
    /\ Procs \cap Threads = {}
    /\ Faults \subseteq {"insert", "commit", "read", "unlink"}

Ids    == 1..MaxId
Agents == Threads \cup Procs    \* a sweep runs on its process's own thread

VARIABLES
    \* the database
    row,            \* "absent", "live" or "deleted"
    content,        \* what the live row's hash says the file holds
    seq,            \* sqlite_sequence: the highest id ever committed
    writer,         \* the thread whose transaction holds the write lock
    \* the files directory, and the OS lock beside the database
    file, owner,
    \* the processes: running, the store lock's holder, Store._orphans
    up, lock, orphans,
    \* upload and delete threads: where they are, and for what
    pc, proc, want, id,
    \* sweep_orphans: where it is, the ids it read, what it still looks at
    sweep, seen, todo, left,
    budget          \* what is left of the bounds

rows    == <<row, content, seq>>
memory  == <<up, lock, orphans>>
threads == <<pc, proc, want, id>>
sweeper == <<sweep, seen, todo, left>>
vars    == <<rows, writer, file, owner, memory, threads, sweeper, budget>>

Live == {i \in Ids : row[i] = "live"}
OnDisk == {i \in Ids : file[i] # None}

Spend(what) == /\ budget[what] > 0
               /\ budget' = [budget EXCEPT ![what] = @ - 1]
FaultOf(what) == what \in Faults /\ Spend("faults")
At(t, label) == pc' = [pc EXCEPT ![t] = label] /\ UNCHANGED <<proc, want, id>>
Done(t) == /\ pc'   = [pc EXCEPT ![t] = "idle"]
           /\ proc' = [proc EXCEPT ![t] = None]
           /\ want' = [want EXCEPT ![t] = None]
           /\ id'   = [id EXCEPT ![t] = 0]
LetGo(t) == lock' = [lock EXCEPT ![proc[t]] = None]

Init ==
    /\ row = [i \in Ids |-> "absent"]
    /\ content = [i \in Ids |-> None]
    /\ seq = 0
    /\ writer = None
    /\ file = [i \in Ids |-> None]
    /\ owner = None
    /\ up      = [p \in Procs |-> FALSE]
    /\ lock    = [p \in Procs |-> None]
    /\ orphans = [p \in Procs |-> FALSE]
    /\ pc   = [t \in Threads |-> "idle"]
    /\ proc = [t \in Threads |-> None]
    /\ want = [t \in Threads |-> None]
    /\ id   = [t \in Threads |-> 0]
    /\ sweep = [p \in Procs |-> "idle"]
    /\ seen  = [p \in Procs |-> {}]
    /\ todo  = [p \in Procs |-> {}]
    /\ left  = [p \in Procs |-> FALSE]
    /\ budget = [deletes |-> MaxDeletes, crashes |-> MaxCrashes, faults |-> MaxFaults]

-----------------------------------------------------------------------------
(* create().                                                               *)

\* The temp file is written before any lock is taken.
Upload(t, p, c) ==
    /\ pc[t] = "idle" /\ up[p]
    /\ pc'   = [pc EXCEPT ![t] = "written"]
    /\ proc' = [proc EXCEPT ![t] = p]
    /\ want' = [want EXCEPT ![t] = c]
    /\ UNCHANGED <<rows, writer, file, owner, memory, id, sweeper, budget>>

\* Whether the bytes are new.  A bug: they are looked up before the locks.
IsNew_unlocked(t) == TRUE
IsNew(t) == \A i \in Live : content[i] # want[t]

\* The id INSERT takes.  A bug: without AUTOINCREMENT, above the rows that
\* are left.
NextId_reused == CHOOSE n \in 1..(MaxId + 1) :
                    /\ \A i \in Live : i < n
                    /\ \A m \in 1..(n - 1) : \E i \in Live : m <= i
NextId == seq + 1

\* Both locks free: the same bytes again answer with the first row.
Duplicate(t) ==
    /\ pc[t] = "written" /\ lock[proc[t]] = None /\ writer = None
    /\ ~IsNew(t)
    /\ Done(t)
    /\ UNCHANGED <<rows, writer, file, owner, memory, sweeper, budget>>

\* Otherwise INSERT takes the next AUTOINCREMENT id, inside the transaction.
Insert(t) ==
    /\ pc[t] = "written" /\ lock[proc[t]] = None /\ writer = None
    /\ IsNew(t)
    /\ seq < MaxId
    /\ id' = [id EXCEPT ![t] = NextId]
    /\ pc' = [pc EXCEPT ![t] = "place"]
    /\ lock' = [lock EXCEPT ![proc[t]] = t]
    /\ writer' = t
    /\ UNCHANGED <<rows, file, owner, up, orphans, proc, want, sweeper, budget>>

\* A statement or os.replace fails: rolled back, and the temp file goes.
InsertRefused(t) ==
    /\ pc[t] = "place" /\ FaultOf("insert")
    /\ LetGo(t) /\ writer' = None
    /\ Done(t)
    /\ UNCHANGED <<rows, file, owner, up, orphans, sweeper>>

\* os.replace, the last step before COMMIT.
Place(t) ==
    /\ pc[t] = "place"
    /\ file' = [file EXCEPT ![id[t]] = want[t]]
    /\ At(t, "commit")
    /\ UNCHANGED <<rows, writer, owner, memory, sweeper, budget>>

\* COMMIT; the answer is read back under the store lock, and when that read
\* fails the except clause cleans up as it does after a rollback.
Commit(t) ==
    /\ pc[t] = "commit"
    /\ row' = [row EXCEPT ![id[t]] = "live"]
    /\ content' = [content EXCEPT ![id[t]] = want[t]]
    /\ seq' = id[t]
    /\ LetGo(t) /\ writer' = None
    /\ \/ Done(t) /\ UNCHANGED budget
       \/ FaultOf("read") /\ At(t, "cleanup")
    /\ UNCHANGED <<file, owner, up, orphans, sweeper>>

CommitRefused(t) ==
    /\ pc[t] = "commit" /\ FaultOf("commit")
    /\ LetGo(t) /\ writer' = None
    /\ At(t, "cleanup")
    /\ UNCHANGED <<rows, file, owner, up, orphans, sweeper>>

\* create's except clause, outside both locks; a failed unlink is ignored.
Cleanup(t) ==
    /\ pc[t] = "cleanup"
    /\ \/ file' = [file EXCEPT ![id[t]] = None] /\ UNCHANGED budget
       \/ FaultOf("unlink") /\ UNCHANGED file
    /\ Done(t)
    /\ UNCHANGED <<rows, writer, owner, memory, sweeper>>

-----------------------------------------------------------------------------
(* delete(): the row in a transaction, then the file, under the store lock. *)

DeleteRow(t, p, i) ==
    /\ pc[t] = "idle" /\ up[p] /\ lock[p] = None /\ writer = None
    /\ i \in Live /\ Spend("deletes")
    /\ row' = [row EXCEPT ![i] = "deleted"]
    /\ content' = [content EXCEPT ![i] = None]
    /\ lock' = [lock EXCEPT ![p] = t]
    /\ pc'   = [pc EXCEPT ![t] = "unlink"]
    /\ proc' = [proc EXCEPT ![t] = p]
    /\ id'   = [id EXCEPT ![t] = i]
    /\ UNCHANGED <<seq, writer, file, owner, up, orphans, want, sweeper>>

\* A file that cannot be unlinked is left for a sweep.
DeleteFile(t) ==
    /\ pc[t] = "unlink"
    /\ \/ /\ file' = [file EXCEPT ![id[t]] = None]
          /\ UNCHANGED <<orphans, budget>>
       \/ /\ FaultOf("unlink")
          /\ orphans' = [orphans EXCEPT ![proc[t]] = TRUE]
          /\ UNCHANGED file
    /\ LetGo(t)
    /\ Done(t)
    /\ UNCHANGED <<rows, writer, owner, up, sweeper>>

-----------------------------------------------------------------------------
(* Processes and the owner's sweep.                                        *)

\* A bug: taking the queue over sweeps nothing.
TakeOver_unswept(p) == owner' = p /\ UNCHANGED orphans
TakeOver(p) == owner' = p /\ orphans' = [orphans EXCEPT ![p] = TRUE]

\* acquire_owner: whoever gets the OS lock has a sweep to do.
Boot(p) ==
    /\ ~up[p]
    /\ up' = [up EXCEPT ![p] = TRUE]
    /\ IF owner = None
       THEN TakeOver(p)
       ELSE UNCHANGED <<owner, orphans>>
    /\ UNCHANGED <<rows, writer, file, lock, threads, sweeper, budget>>

\* A process dies: its locks are released, an open transaction rolls back.
Crash(p) ==
    /\ up[p] /\ Spend("crashes")
    /\ up'      = [up EXCEPT ![p] = FALSE]
    /\ lock'    = [lock EXCEPT ![p] = None]
    /\ orphans' = [orphans EXCEPT ![p] = FALSE]
    /\ owner'   = IF owner = p THEN None ELSE owner
    /\ LET mine == {t \in Threads : proc[t] = p}
       IN /\ writer' = IF writer \in mine THEN None ELSE writer
          /\ pc'   = [t \in Threads |-> IF t \in mine THEN "idle" ELSE pc[t]]
          /\ proc' = [t \in Threads |-> IF t \in mine THEN None ELSE proc[t]]
          /\ want' = [t \in Threads |-> IF t \in mine THEN None ELSE want[t]]
          /\ id'   = [t \in Threads |-> IF t \in mine THEN 0 ELSE id[t]]
    /\ sweep' = [sweep EXCEPT ![p] = "idle"]
    /\ seen'  = [seen EXCEPT ![p] = {}]
    /\ todo'  = [todo EXCEPT ![p] = {}]
    /\ left'  = [left EXCEPT ![p] = FALSE]
    /\ UNCHANGED <<rows, file>>

\* sweep_orphans, at takeover and whenever the owner's queue is empty: the
\* ids in one statement ...
SweepIds(p) ==
    /\ owner = p /\ orphans[p] /\ sweep[p] = "idle" /\ lock[p] = None
    /\ lock' = [lock EXCEPT ![p] = p]
    /\ seen' = [seen EXCEPT ![p] = Live]
    /\ sweep' = [sweep EXCEPT ![p] = "highest"]
    /\ UNCHANGED <<rows, writer, file, owner, up, orphans, threads, todo, left, budget>>

\* What a sweep takes for an orphan.  A bug: the ids it read are not used.
Orphans_all(p) == {i \in OnDisk : i <= seq}
Orphans(p) == {i \in OnDisk : i <= seq /\ i \notin seen[p]}

\* ... the highest id committed in another, then the directory's listing.
SweepHighest(p) ==
    /\ sweep[p] = "highest"
    /\ todo' = [todo EXCEPT ![p] = Orphans(p)]
    /\ sweep' = [sweep EXCEPT ![p] = "remove"]
    /\ UNCHANGED <<rows, writer, file, owner, memory, threads, seen, left, budget>>

SweepRemove(p, i) ==
    /\ sweep[p] = "remove" /\ i \in todo[p]
    /\ todo' = [todo EXCEPT ![p] = @ \ {i}]
    /\ \/ file' = [file EXCEPT ![i] = None] /\ UNCHANGED <<left, budget>>
       \/ /\ FaultOf("unlink")
          /\ left' = [left EXCEPT ![p] = TRUE]
          /\ UNCHANGED file
    /\ UNCHANGED <<rows, writer, owner, memory, threads, sweep, seen>>

\* Whether another sweep is needed.
LeftBehind(p) == left[p]

SweepEnd(p) ==
    /\ sweep[p] = "remove" /\ todo[p] = {}
    /\ orphans' = [orphans EXCEPT ![p] = LeftBehind(p)]
    /\ lock'  = [lock EXCEPT ![p] = None]
    /\ sweep' = [sweep EXCEPT ![p] = "idle"]
    /\ seen'  = [seen EXCEPT ![p] = {}]
    /\ left'  = [left EXCEPT ![p] = FALSE]
    /\ UNCHANGED <<rows, writer, file, owner, up, threads, todo, budget>>

ThreadStep(t) ==
    \/ Duplicate(t) \/ Insert(t) \/ InsertRefused(t) \/ Place(t) \/ Commit(t)
    \/ CommitRefused(t) \/ Cleanup(t) \/ DeleteFile(t)

SweepStep(p) ==
    SweepIds(p) \/ SweepHighest(p) \/ (\E i \in Ids : SweepRemove(p, i)) \/ SweepEnd(p)

Next ==
    \/ \E t \in Threads : ThreadStep(t)
    \/ \E t \in Threads, p \in Procs, c \in Contents : Upload(t, p, c)
    \/ \E t \in Threads, p \in Procs, i \in Ids : DeleteRow(t, p, i)
    \/ \E p \in Procs : Boot(p) \/ Crash(p) \/ SweepStep(p)

Spec == Init /\ [][Next]_vars

\* A thread that is in a call goes on; the worker's loop comes round to its
\* sweep every 30 s, and waits for a free store lock as a mutex lets it.
FairSpec ==
    /\ Spec
    /\ \A t \in Threads : WF_vars(Place(t) \/ Commit(t) \/ Cleanup(t) \/ DeleteFile(t))
    /\ \A p \in Procs : SF_vars(SweepIds(p)) /\ WF_vars(SweepStep(p))

-----------------------------------------------------------------------------
(* Properties.                                                             *)

RowsOK ==
    /\ row \in [Ids -> {"absent", "live", "deleted"}]
    /\ content \in [Ids -> Contents \cup {None}]
    /\ seq \in 0..MaxId
    /\ file \in [Ids -> Contents \cup {None}]

ProcsOK ==
    /\ owner \in Procs \cup {None}
    /\ up \in [Procs -> BOOLEAN]
    /\ lock \in [Procs -> Agents \cup {None}]
    /\ orphans \in [Procs -> BOOLEAN]

ThreadsOK ==
    /\ writer \in Threads \cup {None}
    /\ pc \in [Threads -> {"idle", "written", "place", "commit", "cleanup", "unlink"}]
    /\ proc \in [Threads -> Procs \cup {None}]
    /\ want \in [Threads -> Contents \cup {None}]
    /\ id \in [Threads -> Ids \cup {0}]
    /\ \A t \in Threads :
        /\ pc[t] # "idle" => proc[t] \in Procs
        /\ pc[t] \in {"place", "commit", "cleanup", "unlink"} => id[t] \in Ids
        /\ pc[t] \in {"written", "place", "commit", "cleanup"} => want[t] \in Contents

SweepOK ==
    /\ sweep \in [Procs -> {"idle", "highest", "remove"}]
    /\ seen \in [Procs -> SUBSET Ids]
    /\ todo \in [Procs -> SUBSET Ids]
    /\ left \in [Procs -> BOOLEAN]

BudgetOK == budget \in [{"deletes", "crashes", "faults"} -> Nat]

\* Every variable stays in its type: past its INSERT a thread has an id and
\* the bytes it writes.
TypeOK == RowsOK /\ ProcsOK /\ ThreadsOK /\ SweepOK /\ BudgetOK

\* The same bytes uploaded twice, by any threads of any processes, are one
\* complaint while it exists.
OneRowPerContent ==
    \A i, j \in Live : content[i] = content[j] => i = j

\* What OneRowPerContent rests on: a thread in its INSERT has the write lock
\* and the next id, no live row has its bytes, and every row is numbered.
InsertsAlone ==
    \A t \in Threads : pc[t] \in {"place", "commit"} =>
        /\ writer = t /\ id[t] = seq + 1
        /\ \A i \in Live : content[i] # want[t]

Numbered == \A i \in Ids : row[i] # "absent" => i <= seq

RowsInv == OneRowPerContent /\ InsertsAlone /\ Numbered

OneApp == \A p, q \in Procs : up[p] /\ up[q] => p = q

Undisturbed == OneApp /\ \A t \in Threads : pc[t] # "cleanup"

\* A complaint that exists has its original file, whole, where one app runs at
\* a time and no COMMIT or read-back failed (create's cleanup, and another app's
\* sweep, may take a file from a complaint that exists).
LiveHasFile ==
    []Undisturbed => [](\A i \in Live : file[i] = content[i])

\* What LiveHasFile rests on.  A store lock is held by the thread past its
\* INSERT or its DELETE, or by the sweep.  While one app runs and nothing is
\* cleaned up, a file is in place before its row, only a deleted row's file is
\* unlinked, and a sweep has seen every row there is and takes no file of one.
LocksHeld ==
    /\ \A p \in Procs : owner = p => up[p]
    /\ \A p \in Procs : sweep[p] # "idle" => up[p] /\ lock[p] = p
    /\ \A t \in Threads :
        /\ pc[t] # "idle" => up[proc[t]]
        /\ pc[t] \in {"place", "commit", "unlink"} => lock[proc[t]] = t

FilesKept ==
    /\ \A i \in Live : file[i] = content[i]
    /\ \A t \in Threads :
        /\ pc[t] = "commit" => file[id[t]] = want[t]
        /\ pc[t] = "unlink" => row[id[t]] = "deleted"
    /\ \A p \in Procs :
        /\ sweep[p] = "highest" => Live \subseteq seen[p]
        /\ sweep[p] = "remove" => todo[p] \cap Live = {}

\* The path of a complaint that exists or existed is never written again: a
\* download that looked its path up never serves another complaint's file.
NeverRewritten ==
    [][\A i \in Ids : i <= seq => file'[i] \in {file[i], None}]_vars

\* Once one app runs and keeps the queue, a deleted complaint's file is removed
\* from disk.
LeftoversGo ==
    ([]OneApp /\ <>[](owner # None))
        => \A i \in Ids : row[i] = "deleted" /\ file[i] # None ~> file[i] = None
=============================================================================
