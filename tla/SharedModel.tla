----------------------------- MODULE SharedModel -----------------------------
(***************************************************************************)
(* What the app promises of ALLaM, the model /proofread and the complaints *)
(* share: whoever uses it finds it there until it lets go.  The promise is *)
(* about a SET of users; the code keeps a count (module ModelLease).       *)
(***************************************************************************)
EXTENDS Naturals

CONSTANT Users

VARIABLES
    users,      \* who uses the model, a batch of complaints being one user
    loaded,     \* whether the model answers
    serving,    \* whether the app is up and not shutting down
    crashes     \* how often the model died by itself

vars == <<users, loaded, serving, crashes>>

Init == users = {} /\ loaded \in BOOLEAN /\ serving = FALSE /\ crashes = 0

Join(u) ==
    /\ u \notin users /\ users' = users \cup {u}
    /\ UNCHANGED <<loaded, serving, crashes>>

\* The last user to leave may take the model down.
Leave(u) ==
    /\ u \in users /\ users' = users \ {u}
    /\ loaded' # loaded => users' = {} /\ ~loaded'
    /\ UNCHANGED <<serving, crashes>>

Load == ~loaded /\ loaded' = TRUE /\ UNCHANGED <<users, serving, crashes>>

Unload ==
    /\ users = {} \/ ~serving
    /\ loaded' = FALSE
    /\ UNCHANGED <<users, serving, crashes>>

Crash == loaded' = FALSE /\ crashes' = crashes + 1 /\ UNCHANGED <<users, serving>>

\* The app comes up, shuts down or dies; its users go with it.
Start  == serving' = TRUE /\ users' = {} /\ UNCHANGED <<loaded, crashes>>
Finish == serving' = FALSE /\ users' \in {users, {}} /\ UNCHANGED <<loaded, crashes>>

Next ==
    \/ \E u \in Users : Join(u) \/ Leave(u)
    \/ Load \/ Unload \/ Crash \/ Start \/ Finish

Spec == Init /\ [][Next]_vars
=============================================================================
